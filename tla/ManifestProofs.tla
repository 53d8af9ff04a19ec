--------------------------- MODULE ManifestProofs ---------------------------
(***************************************************************************)
(* Theorems about Manifest.                                                *)
(***************************************************************************)
EXTENDS Manifest, FiniteSetTheorems, SequenceTheorems, TLAPS

-----------------------------------------------------------------------------
(* Paths                                                                   *)

LEMMA SubSeqMeans ==
  ASSUME NEW p \in Seq(Frag), NEW k \in 0 .. Len(p)
  PROVE  /\ SubSeq(p, 1, k) \in Seq(Frag) /\ Len(SubSeq(p, 1, k)) = k
         /\ \A i \in 1 .. k : SubSeq(p, 1, k)[i] = p[i]
OBVIOUS

LEMMA PrefixMeans ==
  ASSUME NEW p \in Paths, NEW q
  PROVE  q \in Prefixes(p)
           <=> q \in Paths /\ Len(q) <= Len(p) /\ \A i \in 1 .. Len(q) : q[i] = p[i]
<1>1. p \in Seq(Frag) /\ Len(p) \in Nat
  BY DEF Paths
<1>2. ASSUME NEW k \in 0 .. Len(p)
      PROVE  /\ SubSeq(p, 1, k) \in Seq(Frag) /\ Len(SubSeq(p, 1, k)) = k
             /\ \A i \in 1 .. k : SubSeq(p, 1, k)[i] = p[i]
  BY <1>1, SubSeqMeans
<1>3. ASSUME q \in Prefixes(p)
      PROVE  q \in Paths /\ Len(q) <= Len(p) /\ \A i \in 1 .. Len(q) : q[i] = p[i]
  <2>1. PICK k \in 0 .. Len(p) : q = SubSeq(p, 1, k)
    BY <1>3 DEF Prefixes
  <2> QED
    BY <1>1, <1>2, <2>1 DEF Paths
<1>4. ASSUME q \in Paths, Len(q) <= Len(p), \A i \in 1 .. Len(q) : q[i] = p[i]
      PROVE  q \in Prefixes(p)
  <2> DEFINE r == SubSeq(p, 1, Len(q))
  <2>1. q \in Seq(Frag) /\ Len(q) \in Nat /\ Len(q) \in 0 .. Len(p)
    BY <1>1, <1>4 DEF Paths
  <2>2. r \in Seq(Frag) /\ Len(r) = Len(q) /\ \A i \in 1 .. Len(q) : r[i] = p[i]
    BY <1>2, <2>1
  <2>3. r \in Prefixes(p)
    BY <2>1 DEF Prefixes
  <2> HIDE DEF r
  <2>4. \A i \in 1 .. Len(q) : q[i] = r[i]
    BY <1>4, <2>2
  <2>5. q = r
    BY <2>1, <2>2, <2>4, SeqEqual
  <2> QED
    BY <2>3, <2>5
<1> QED
  BY <1>3, <1>4

LEMMA PathLength == ASSUME NEW p \in Paths PROVE Len(p) \in Nat
BY DEF Paths

LEMMA PrefixOrder ==
  ASSUME NEW p \in Paths
  PROVE  /\ p \in Prefixes(p) /\ <<>> \in Prefixes(p) /\ Prefixes(p) \subseteq Paths
         /\ \A q \in Prefixes(p) : Prefixes(q) \subseteq Prefixes(p)
         /\ \A q, r \in Prefixes(p) : Len(q) = Len(r) => q = r
         /\ \A q, r \in Prefixes(p) : Len(q) <= Len(r) => q \in Prefixes(r)
<1>1. <<>> \in Paths /\ Len(<<>>) = 0 /\ Len(p) \in Nat
  BY PathLength DEF Paths
<1>2. p \in Prefixes(p) /\ <<>> \in Prefixes(p) /\ Prefixes(p) \subseteq Paths
  BY <1>1, PrefixMeans
<1>3. ASSUME NEW q \in Prefixes(p), NEW r \in Prefixes(q)
      PROVE  r \in Prefixes(p)
  <2>1. q \in Paths /\ Len(q) <= Len(p) /\ \A i \in 1 .. Len(q) : q[i] = p[i]
    BY PrefixMeans
  <2>2. r \in Paths /\ Len(r) <= Len(q) /\ \A i \in 1 .. Len(r) : r[i] = q[i]
    BY <2>1, PrefixMeans
  <2>3. Len(q) \in Nat /\ Len(r) \in Nat
    BY <2>1, <2>2, PathLength
  <2>4. Len(r) <= Len(p) /\ \A i \in 1 .. Len(r) : r[i] = p[i]
    BY <1>1, <2>1, <2>2, <2>3
  <2> QED
    BY <2>2, <2>4, PrefixMeans
<1>4. ASSUME NEW q \in Prefixes(p), NEW r \in Prefixes(p), Len(q) <= Len(r)
      PROVE  q \in Prefixes(r)
  <2>1. /\ q \in Paths /\ r \in Paths
        /\ \A i \in 1 .. Len(q) : q[i] = p[i]
        /\ \A i \in 1 .. Len(r) : r[i] = p[i]
    BY PrefixMeans
  <2>2. Len(q) \in Nat /\ Len(r) \in Nat
    BY <2>1, PathLength
  <2>3. \A i \in 1 .. Len(q) : q[i] = r[i]
    BY <1>4, <2>1, <2>2
  <2> QED
    BY <1>4, <2>1, <2>3, PrefixMeans
<1>5. ASSUME NEW q \in Prefixes(p), NEW r \in Prefixes(p), Len(q) = Len(r)
      PROVE  q = r
  <2>1. q \in Seq(Frag) /\ r \in Seq(Frag) /\ Len(q) \in Nat
    BY PrefixMeans DEF Paths
  <2>2. q \in Prefixes(r)
    BY <1>4, <1>5, <2>1
  <2>3. \A i \in 1 .. Len(q) : q[i] = r[i]
    BY <2>1, <2>2, PrefixMeans DEF Paths
  <2> QED
    BY <1>5, <2>1, <2>3, SeqEqual
<1> QED
  BY <1>2, <1>3, <1>4, <1>5

LEMMA FrontMeans ==
  ASSUME NEW p \in Paths, p # <<>>
  PROVE  /\ Front(p) \in Paths /\ Len(p) \in Nat /\ Len(Front(p)) = Len(p) - 1
         /\ Last(p) \in Frag /\ Append(Front(p), Last(p)) = p
         /\ Front(p) \in Prefixes(p) /\ Prefixes(p) = {p} \cup Prefixes(Front(p))
<1> DEFINE q == Front(p)
           m == Len(p)
<1>1. p \in Seq(Frag) /\ m \in Nat \ {0}
  BY DEF Paths
<1>2. q \in Seq(Frag) /\ Len(q) = m - 1 /\ \A i \in 1 .. m - 1 : q[i] = p[i]
  <2>1. q = SubSeq(p, 1, m - 1)
    BY DEF Front
  <2>2. /\ SubSeq(p, 1, m - 1) \in Seq(Frag) /\ Len(SubSeq(p, 1, m - 1)) = m - 1
        /\ \A i \in 1 .. m - 1 : SubSeq(p, 1, m - 1)[i] = p[i]
    <3>1. m - 1 \in 0 .. Len(p)
      BY <1>1
    <3> QED
      BY <1>1, <3>1, SubSeqMeans
  <2> QED
    BY <2>1, <2>2
<1>3. Last(p) \in Frag /\ Last(p) = p[m]
  BY <1>1 DEF Last
<1>4. q \in Paths /\ q \in Prefixes(p)
  BY <1>1, <1>2, PrefixMeans DEF Paths
<1> HIDE DEF q
<1>5. Append(q, Last(p)) = p
  <2> DEFINE a == Append(q, Last(p))
  <2>1. a \in Seq(Frag) /\ Len(a) = m /\ a[m] = Last(p) /\ \A i \in 1 .. m - 1 : a[i] = q[i]
    BY <1>1, <1>2, <1>3
  <2> HIDE DEF a
  <2>2. \A i \in 1 .. m : a[i] = p[i]
    BY <1>1, <1>2, <1>3, <2>1
  <2>3. a = p
    BY <1>1, <2>1, <2>2, SeqEqual
  <2> QED
    BY <2>3 DEF a
<1>6. Prefixes(p) = {p} \cup Prefixes(q)
  <2>1. {p} \cup Prefixes(q) \subseteq Prefixes(p)
    BY <1>4, PrefixOrder
  <2>2. ASSUME NEW r \in Prefixes(p), r # p
        PROVE  r \in Prefixes(q)
    <3>1. r \in Paths /\ Len(r) <= m
      BY PrefixMeans
    <3>2. Len(r) # m
      BY <2>2, PrefixOrder
    <3>3. Len(r) <= Len(q)
      BY <1>1, <1>2, <3>1, <3>2, PathLength
    <3> QED
      BY <1>4, <3>3, PrefixOrder
  <2> QED
    BY <2>1, <2>2
<1> QED
  BY <1>1, <1>2, <1>3, <1>4, <1>5, <1>6 DEF q

LEMMA AppendMeans ==
  ASSUME NEW p \in Paths, NEW f \in Frag
  PROVE  /\ Append(p, f) \in Paths /\ Append(p, f) # <<>>
         /\ Front(Append(p, f)) = p /\ Last(Append(p, f)) = f
         /\ Len(Append(p, f)) = Len(p) + 1
<1> DEFINE a == Append(p, f)
           m == Len(p)
<1>1. p \in Seq(Frag) /\ m \in Nat
  BY DEF Paths
<1>2. a \in Seq(Frag) /\ Len(a) = m + 1 /\ a[m + 1] = f /\ \A i \in 1 .. m : a[i] = p[i]
  BY <1>1
<1>3. a # <<>>
  BY <1>1, <1>2
<1> HIDE DEF a
<1>4. Front(a) \in Seq(Frag) /\ Len(Front(a)) = m /\ \A i \in 1 .. m : Front(a)[i] = a[i]
  BY <1>1, <1>2 DEF Front
<1>5. Front(a) = p
  BY <1>1, <1>2, <1>4, SeqEqual
<1> QED
  BY <1>2, <1>3, <1>5 DEF a, Last, Paths

LEMMA PrefixesFinite == ASSUME NEW p \in Paths PROVE IsFiniteSet(Prefixes(p))
<1> DEFINE cut == [k \in 0 .. Len(p) |-> SubSeq(p, 1, k)]
<1>1. IsFiniteSet(0 .. Len(p))
  BY PathLength, FS_Interval
<1>2. cut \in Surjection(0 .. Len(p), Prefixes(p))
  BY DEF Surjection, Prefixes
<1> QED
  BY <1>1, <1>2, FS_Surjection

-----------------------------------------------------------------------------
(* The tree that main builds                                               *)

\* The nodes a set of paths brings.
Above(P) == UNION {Prefixes(p) : p \in P}

Nodes == [coneMask : SUBSET MaskNothing, coneValues : SUBSET MaskNothing,
          nodeMask : SUBSET MaskNothing, nodeValues : SUBSET MaskNothing]

\* The node of a path where S are the paths with a scope, R those with a node
\* scope, and G what the scopes grant.
NodeFor(n, S, R, G) ==
    [coneMask |-> IF n \in S THEN {} ELSE MaskNothing, coneValues |-> G[n],
     nodeMask |-> IF n \in R THEN {} ELSE MaskNothing,
     nodeValues |-> IF n \in R THEN OutputDirPolicy ELSE {}]

\* The nodes a tree has that holds the paths of P.
Spanned(P) == {<<>>} \cup Above(P)

TreeIs(t, S, R, G) ==
    /\ IsFiniteSet(DOMAIN t)
    /\ DOMAIN t = Spanned(S \cup R)
    /\ t = [n \in DOMAIN t |-> NodeFor(n, S, R, G)]

\* What is granted, to the paths with a scope only.
IsGrant(G, S) ==
    /\ G \in [Paths -> SUBSET MaskNothing]
    /\ \A q \in Paths : q \notin S => G[q] = {}

GrantMore(G, P, values) == [q \in Paths |-> G[q] \cup Given(q \in P, values)]

LEMMA AboveMeans ==
  ASSUME NEW P \in SUBSET Paths
  PROVE  /\ P \subseteq Above(P) /\ Above(P) \subseteq Paths
         /\ \A n \in Above(P) : Prefixes(n) \subseteq Above(P)
         /\ IsFiniteSet(P) => IsFiniteSet(Above(P))
         /\ \A Q \in SUBSET Paths : Above(P \cup Q) = Above(P) \cup Above(Q)
<1>1. P \subseteq Above(P) /\ Above(P) \subseteq Paths
  BY PrefixOrder DEF Above
<1>2. ASSUME NEW n \in Above(P) PROVE Prefixes(n) \subseteq Above(P)
  <2>1. PICK p \in P : n \in Prefixes(p)
    BY DEF Above
  <2>2. Prefixes(n) \subseteq Prefixes(p)
    BY <2>1, PrefixOrder
  <2> QED
    BY <2>2 DEF Above
<1>3. ASSUME IsFiniteSet(P) PROVE IsFiniteSet(Above(P))
  <2> DEFINE F == {Prefixes(p) : p \in P}
             g == [p \in P |-> Prefixes(p)]
  <2>1. g \in Surjection(P, F)
    BY DEF Surjection
  <2>2. IsFiniteSet(F)
    BY <1>3, <2>1, FS_Surjection
  <2>3. \A T \in F : IsFiniteSet(T)
    BY PrefixesFinite
  <2>4. IsFiniteSet(UNION F)
    BY <2>2, <2>3, FS_UNION
  <2> QED
    BY <2>4 DEF Above
<1>4. \A Q \in SUBSET Paths : Above(P \cup Q) = Above(P) \cup Above(Q)
  BY DEF Above
<1> QED
  BY <1>1, <1>2, <1>3, <1>4

\* The nodes on the way to new paths are new nodes; the others stay.
LEMMA FragmentsAdded ==
  ASSUME NEW t, NEW P \in SUBSET Paths
  PROVE  /\ DOMAIN AddPathFragments(t, P) = DOMAIN t \cup Above(P)
         /\ \A n \in DOMAIN t \cup Above(P) :
              AddPathFragments(t, P)[n] = IF n \in DOMAIN t THEN t[n] ELSE NewNode
BY DEF AddPathFragments, Above

GrownTree(g, D, S, R, G) ==
    /\ IsFiniteSet(D) /\ D \subseteq Paths
    /\ DOMAIN g = D
    /\ \A n \in D : g[n] = NodeFor(n, S, R, G)

LEMMA TreeGrows ==
  ASSUME NEW t, NEW S \in SUBSET Paths, NEW R \in SUBSET Paths, NEW G,
         IsGrant(G, S), TreeIs(t, S, R, G),
         NEW P \in SUBSET Paths, IsFiniteSet(P)
  PROVE  GrownTree(AddPathFragments(t, P), Spanned((S \cup P) \cup R), S, R, G)
<1>1. IsFiniteSet(DOMAIN t \cup Above(P))
  BY AboveMeans, FS_Union DEF TreeIs
<1>2. DOMAIN t \cup Above(P) = Spanned((S \cup P) \cup R)
  <2>1. Above((S \cup R) \cup P) = Above(S \cup R) \cup Above(P)
    BY AboveMeans
  <2>2. (S \cup R) \cup P = (S \cup P) \cup R
    OBVIOUS
  <2> QED
    BY <2>1, <2>2 DEF TreeIs, Spanned
<1>3. <<>> \in Paths /\ Above((S \cup P) \cup R) \subseteq Paths
  BY AboveMeans DEF Paths
<1>4. ASSUME NEW n \in DOMAIN t \cup Above(P)
      PROVE  AddPathFragments(t, P)[n] = NodeFor(n, S, R, G)
  <2>1. AddPathFragments(t, P)[n] = IF n \in DOMAIN t THEN t[n] ELSE NewNode
    BY FragmentsAdded
  <2>2. CASE n \in DOMAIN t
    BY <2>1, <2>2 DEF TreeIs
  <2>3. CASE n \notin DOMAIN t
    <3>1. n \in Paths /\ n \notin S /\ n \notin R
      <4>1. S \cup R \subseteq Above(S \cup R) /\ Above(P) \subseteq Paths
        BY AboveMeans
      <4> QED
        BY <2>3, <4>1 DEF TreeIs, Spanned
    <3>2. G[n] = {}
      BY <3>1 DEF IsGrant
    <3> QED
      BY <2>1, <2>3, <3>1, <3>2 DEF NodeFor, NewNode
  <2> QED
    BY <2>2, <2>3
<1>5. DOMAIN AddPathFragments(t, P) = DOMAIN t \cup Above(P)
  BY FragmentsAdded
<1>6. DOMAIN t \cup Above(P) \subseteq Paths
  BY <1>2, <1>3 DEF Spanned
<1> QED
  BY <1>1, <1>2, <1>4, <1>5, <1>6 DEF GrownTree

\* A scope for each path of P.
LEMMA ScopeAdded ==
  ASSUME NEW t, NEW S \in SUBSET Paths, NEW R \in SUBSET Paths, NEW G,
         IsGrant(G, S), TreeIs(t, S, R, G),
         NEW P \in SUBSET Paths, IsFiniteSet(P), NEW values \in SUBSET MaskNothing
  PROVE  /\ TreeIs(AddScope(t, P, MaskAll, values), S \cup P, R, GrantMore(G, P, values))
         /\ IsGrant(GrantMore(G, P, values), S \cup P)
<1> DEFINE D == Spanned((S \cup P) \cup R)
           u == AddScope(t, P, MaskAll, values)
           H == GrantMore(G, P, values)
           grown == AddPathFragments(t, P)
<1> HIDE DEF u, H
<1>0. GrownTree(grown, D, S, R, G)
  BY TreeGrows
<1> HIDE DEF D, grown
<1>1. DOMAIN grown = D /\ IsFiniteSet(D) /\ D \subseteq Paths
  BY <1>0 DEF GrownTree
<1>2. \A n \in D : grown[n] = NodeFor(n, S, R, G)
  BY <1>0 DEF GrownTree
<1>4. /\ DOMAIN u = D
      /\ u = [n \in D |->
               IF n \in P
               THEN [grown[n] EXCEPT !.coneMask = @ \cap MaskAll, !.coneValues = @ \cup values]
               ELSE grown[n]]
  BY <1>1 DEF AddScope, u, grown
<1>5. ASSUME NEW n \in D
      PROVE  u[n] = NodeFor(n, S \cup P, R, H)
  <2>1. n \in Paths /\ H[n] = G[n] \cup Given(n \in P, values)
    BY <1>1 DEF H, GrantMore
  <2>2. CASE n \in P
    <3>1. u[n] = [NodeFor(n, S, R, G) EXCEPT !.coneMask = @ \cap MaskAll,
                                             !.coneValues = @ \cup values]
      BY <1>2, <1>4, <2>2
    <3>2. u[n] = [NodeFor(n, S, R, G) EXCEPT !.coneMask = {}, !.coneValues = H[n]]
      BY <2>1, <2>2, <3>1 DEF NodeFor, MaskAll, Given
    <3> QED
      BY <2>2, <3>2 DEF NodeFor
  <2>3. CASE n \notin P
    <3>1. H[n] = G[n]
      BY <2>1, <2>3 DEF Given
    <3>2. u[n] = NodeFor(n, S, R, G)
      BY <1>2, <1>4, <2>3
    <3> QED
      BY <2>3, <3>1, <3>2 DEF NodeFor
  <2> QED
    BY <2>2, <2>3
<1>6. TreeIs(u, S \cup P, R, H)
  BY <1>1, <1>4, <1>5 DEF TreeIs, D
<1>7. IsGrant(H, S \cup P)
  BY DEF H, IsGrant, GrantMore, Given
<1> QED
  BY <1>6, <1>7 DEF u, H

\* The reveal of an output directory, for each path of P.
LEMMA NodeScopeAdded ==
  ASSUME NEW t, NEW S \in SUBSET Paths, NEW G, IsGrant(G, S), TreeIs(t, S, {}, G),
         NEW P \in SUBSET Paths, IsFiniteSet(P)
  PROVE  TreeIs(AddNodeScope(t, P, MaskAll, OutputDirPolicy), S, P, G)
<1> DEFINE D == Spanned((S \cup P) \cup {})
           u == AddNodeScope(t, P, MaskAll, OutputDirPolicy)
           grown == AddPathFragments(t, P)
<1> HIDE DEF u
<1>0. {} \in SUBSET Paths /\ (S \cup P) \cup {} = S \cup P
  OBVIOUS
<1>3. GrownTree(grown, D, S, {}, G)
  BY <1>0, TreeGrows
<1> HIDE DEF D, grown
<1>1. DOMAIN grown = D /\ IsFiniteSet(D) /\ D \subseteq Paths
  BY <1>3 DEF GrownTree
<1>2. \A n \in D : grown[n] = NodeFor(n, S, {}, G)
  BY <1>3 DEF GrownTree
<1>4. /\ DOMAIN u = D
      /\ u = [n \in D |->
               IF n \in P
               THEN [grown[n] EXCEPT !.nodeMask = @ \cap MaskAll,
                                     !.nodeValues = @ \cup OutputDirPolicy]
               ELSE grown[n]]
  BY <1>1 DEF AddNodeScope, u, grown
<1>5. ASSUME NEW n \in D
      PROVE  u[n] = NodeFor(n, S, P, G)
  <2>1. CASE n \in P
    <3>1. u[n] = [NodeFor(n, S, {}, G) EXCEPT !.nodeMask = @ \cap MaskAll,
                                              !.nodeValues = @ \cup OutputDirPolicy]
      BY <1>2, <1>4, <2>1
    <3>2. u[n] = [NodeFor(n, S, {}, G) EXCEPT !.nodeMask = {}, !.nodeValues = OutputDirPolicy]
      BY <3>1 DEF NodeFor, MaskAll
    <3> QED
      BY <2>1, <3>2 DEF NodeFor
  <2>2. CASE n \notin P
    <3>1. u[n] = NodeFor(n, S, {}, G)
      BY <1>2, <1>4, <2>2
    <3> QED
      BY <2>2, <3>1 DEF NodeFor
  <2> QED
    BY <2>1, <2>2
<1>6. TreeIs(u, S, P, G)
  BY <1>0, <1>1, <1>4, <1>5 DEF TreeIs, D
<1> QED
  BY <1>6 DEF u

-----------------------------------------------------------------------------
(* The calls of main, one after the other                                  *)

NoGrant == [q \in Paths |-> {}]
RootGrants == GrantMore(NoGrant, {<<>>}, ReadOnly)
CwdGrants(o) == GrantMore(RootGrants, {WorkingDir}, WorkingDirPolicy(o))
ToolGrants(o) == GrantMore(CwdGrants(o), {Tool}, InputPolicy)
ReadGrants(o) == GrantMore(ToolGrants(o), o.r, InputPolicy)
WriteGrants(o) == GrantMore(ReadGrants(o), o.w, OutputPolicy)
BlockGrants(o) == GrantMore(WriteGrants(o), o.b, {})
OverlayScopes(o) == IF o.writeOverlay THEN {OverlayRoot} ELSE {}
AllGrants(o) == GrantMore(BlockGrants(o), OverlayScopes(o), AllowAll)

ToolScopes == ({<<>>} \cup {WorkingDir}) \cup {Tool}
ReadScopes(o) == ToolScopes \cup o.r
WriteScopes(o) == ReadScopes(o) \cup o.w
BlockScopes(o) == WriteScopes(o) \cup o.b
AllScopes(o) == BlockScopes(o) \cup OverlayScopes(o)

\* The tree t has the scopes S, which grant G, and the node scopes R.
Holds(t, S, R, G) ==
    /\ S \in SUBSET Paths /\ R \in SUBSET Paths
    /\ IsGrant(G, S) /\ TreeIs(t, S, R, G)

Phases == {"root", "cwd", "tool", "r", "w", "b", "find", "mkdir", "ov",
           "build", "serialize", "run", "dead"}

\* What the options are, and what the hash is.
Inputs ==
    /\ {opts.r, opts.w, opts.b} \subseteq SUBSET Declarable
    /\ opts.trace \in Nat
    /\ hash \in [Frag \cup {WithSeparators(f) : f \in Servers} -> Nat]

\* What the tree has when main is at a call.
Building ==
    /\ phase \in Phases
    /\ \E S, R, G : Holds(tree, S, R, G)
    /\ phase = "root" => Holds(tree, {}, {}, NoGrant)
    /\ phase = "cwd" => Holds(tree, {<<>>}, {}, RootGrants)
    /\ phase = "tool" => Holds(tree, {<<>>} \cup {WorkingDir}, {}, CwdGrants(opts))
    /\ phase = "r" => Holds(tree, ToolScopes, {}, ToolGrants(opts))
    /\ phase = "w" => Holds(tree, ReadScopes(opts), {}, ReadGrants(opts))
    /\ phase = "b" => Holds(tree, WriteScopes(opts), {}, WriteGrants(opts))
    /\ phase \in {"find", "mkdir"} => Holds(tree, BlockScopes(opts), {}, BlockGrants(opts))
    /\ phase = "ov" =>
         Holds(tree, BlockScopes(opts), OutputDirs(opts), BlockGrants(opts))
    /\ phase \in {"build", "serialize", "run"} =>
         Holds(tree, AllScopes(opts), OutputDirs(opts), AllGrants(opts))

LEMMA MoreScopes ==
  ASSUME NEW t, NEW S, NEW R, NEW G, Holds(t, S, R, G),
         NEW P \in SUBSET Paths, IsFiniteSet(P), NEW values \in SUBSET MaskNothing
  PROVE  Holds(AddScope(t, P, MaskAll, values), S \cup P, R, GrantMore(G, P, values))
<1>1. /\ S \in SUBSET Paths /\ R \in SUBSET Paths
      /\ IsGrant(G, S) /\ TreeIs(t, S, R, G)
  BY DEF Holds
<1>2. /\ TreeIs(AddScope(t, P, MaskAll, values), S \cup P, R, GrantMore(G, P, values))
      /\ IsGrant(GrantMore(G, P, values), S \cup P)
  BY <1>1, ScopeAdded
<1>3. S \cup P \in SUBSET Paths
  BY <1>1
<1> QED
  BY <1>1, <1>2, <1>3 DEF Holds

LEMMA MoreNodeScopes ==
  ASSUME NEW t, NEW S, NEW G, Holds(t, S, {}, G),
         NEW P \in SUBSET Paths, IsFiniteSet(P)
  PROVE  Holds(AddNodeScope(t, P, MaskAll, OutputDirPolicy), S, P, G)
<1>1. S \in SUBSET Paths /\ IsGrant(G, S) /\ TreeIs(t, S, {}, G)
  BY DEF Holds
<1>2. TreeIs(AddNodeScope(t, P, MaskAll, OutputDirPolicy), S, P, G)
  BY <1>1, NodeScopeAdded
<1> QED
  BY <1>1, <1>2 DEF Holds

LEMMA PolicyBits ==
  ASSUME NEW o
  PROVE  {ReadOnly, InputPolicy, OutputPolicy, OutputDirPolicy, AllowAll, {},
          WorkingDirPolicy(o)} \subseteq SUBSET MaskNothing
BY DEF ReadOnly, InputPolicy, OutputPolicy, OutputDirPolicy, AllowAll, WorkingDirPolicy,
       Scratch, MaskNothing

LEMMA KnownPaths ==
  {<<>>, WorkingDir, Tool, OverlayRoot} \subseteq Paths
  /\ Declarable \in SUBSET Paths /\ Looked \subseteq Paths \ {<<>>}
BY ManifestParameters DEF Paths

LEMMA OptionPaths ==
  ASSUME NEW P \in SUBSET Declarable
  PROVE  P \in SUBSET Paths /\ IsFiniteSet(P)
BY KnownPaths, ManifestParameters, FS_Subset

LEMMA OutputDirsMeans ==
  ASSUME NEW o, o.w \in SUBSET Declarable
  PROVE  /\ OutputDirs(o) \in SUBSET Paths /\ IsFiniteSet(OutputDirs(o))
         /\ \A d \in OutputDirs(o) :
              /\ IsStrictPrefix(WorkingDir, d)
              /\ \E p \in o.w : d \in Prefixes(p) \ {p}
         /\ \A p \in o.w : \A d \in Prefixes(p) \ {p} :
              IsStrictPrefix(WorkingDir, d) => d \in OutputDirs(o)
<1>1. o.w \in SUBSET Paths /\ IsFiniteSet(o.w)
  BY OptionPaths
<1>2. Above(o.w) \in SUBSET Paths /\ IsFiniteSet(Above(o.w))
  BY <1>1, AboveMeans
<1>3. OutputDirs(o) \subseteq Above(o.w)
  BY DEF OutputDirs, Above
<1>4. OutputDirs(o) \in SUBSET Paths /\ IsFiniteSet(OutputDirs(o))
  BY <1>2, <1>3, FS_Subset
<1>5. \A d \in OutputDirs(o) :
        /\ IsStrictPrefix(WorkingDir, d)
        /\ \E p \in o.w : d \in Prefixes(p) \ {p}
  BY DEF OutputDirs
<1>6. \A p \in o.w : \A d \in Prefixes(p) \ {p} :
        IsStrictPrefix(WorkingDir, d) => d \in OutputDirs(o)
  BY DEF OutputDirs
<1> QED
  BY <1>4, <1>5, <1>6

LEMMA InputsInit == Init => Inputs
BY ManifestParameters DEF Init, Inputs

LEMMA InputsStep == Inputs /\ [Next]_vars => Inputs'
<1> SUFFICES ASSUME Inputs, [Next]_vars PROVE Inputs'
  OBVIOUS
<1>1. opts' = opts /\ hash' = hash
  BY DEF Next, vars, AddRootScope, AddWorkingDir, AddTool, AddReadonlyFiles,
         AddWritableFiles, AddBlockedFiles, FindOutputDirs, AddOutputDirs, AddOverlayRoot,
         BadPath, Dead, CreateOutputDir, Build, SerializeNode, Initialize,
         GetPolicyForSubpath, Release, Scopes
<1> QED
  BY <1>1 DEF Inputs

\* The steps that put no scope into the tree.
Quiet ==
    /\ UNCHANGED <<tree, opts>>
    /\ \/ phase' = phase
       \/ phase = "find" /\ phase' = "mkdir"
       \/ phase = "build" /\ phase' = "serialize"
       \/ phase = "serialize" /\ phase' = "run"
       \/ phase' = "dead"

LEMMA BuildingQuiet == Building /\ Quiet => Building'
<1> SUFFICES ASSUME Building, Quiet PROVE Building'
  OBVIOUS
<1>1. UNCHANGED <<tree, opts>>
  BY DEF Quiet
<1>2. CASE phase' = phase
  BY <1>1, <1>2 DEF Building
<1>3. CASE phase = "find" /\ phase' = "mkdir"
  BY <1>1, <1>3 DEF Building, Phases
<1>4. CASE phase = "build" /\ phase' = "serialize"
  BY <1>1, <1>4 DEF Building, Phases
<1>5. CASE phase = "serialize" /\ phase' = "run"
  BY <1>1, <1>5 DEF Building, Phases
<1>6. CASE phase' = "dead"
  BY <1>1, <1>6 DEF Building, Phases
<1> QED
  BY <1>2, <1>3, <1>4, <1>5, <1>6 DEF Quiet

LEMMA BuildingInit == Init => Building
<1> SUFFICES ASSUME Init PROVE Building
  OBVIOUS
<1>1. phase = "root" /\ tree = [n \in {<<>>} |-> NewNode]
  BY DEF Init
<1>2. Spanned({} \cup {}) = {<<>>}
  BY DEF Spanned, Above
<1>3. IsGrant(NoGrant, {})
  BY DEF IsGrant, NoGrant
<1>4. NodeFor(<<>>, {}, {}, NoGrant) = NewNode
  BY KnownPaths DEF NodeFor, NewNode, NoGrant
<1>5. IsFiniteSet({<<>>})
  BY FS_Singleton
<1>6. TreeIs(tree, {}, {}, NoGrant)
  BY <1>1, <1>2, <1>4, <1>5 DEF TreeIs
<1>7. Holds(tree, {}, {}, NoGrant)
  BY <1>3, <1>6 DEF Holds
<1> QED
  BY <1>1, <1>7 DEF Building, Phases

\* One call after the other brings its scopes.
LEMMA BuildingStep == Inputs /\ Building /\ [Next]_vars => Building'
<1> SUFFICES ASSUME Inputs, Building, [Next]_vars PROVE Building'
  OBVIOUS
<1> USE DEF Scopes
<1>0. {{<<>>}, {WorkingDir}, {Tool}, {OverlayRoot}, {}} \subseteq SUBSET Paths
  BY KnownPaths
<1>1. CASE AddRootScope
  <2>1. Holds(tree', {} \cup {<<>>}, {}, RootGrants) /\ phase' = "cwd"
    <3>1. Holds(tree, {}, {}, NoGrant) /\ phase' = "cwd"
      BY <1>1 DEF AddRootScope, Building
    <3>2. tree' = AddScope(tree, {<<>>}, MaskAll, ReadOnly)
      BY <1>1 DEF AddRootScope
    <3>3. IsFiniteSet({<<>>}) /\ ReadOnly \in SUBSET MaskNothing
      BY FS_Singleton, PolicyBits
    <3> QED
      BY <1>0, <3>1, <3>2, <3>3, MoreScopes DEF RootGrants
  <2>2. {} \cup {<<>>} = {<<>>}
    OBVIOUS
  <2> QED
    BY <2>1, <2>2 DEF Building, Phases
<1>2. CASE AddWorkingDir
  <2>1. Holds(tree', {<<>>} \cup {WorkingDir}, {}, CwdGrants(opts'))
    <3>1. Holds(tree, {<<>>}, {}, RootGrants)
      BY <1>2 DEF AddWorkingDir, Building
    <3>2. tree' = AddScope(tree, {WorkingDir}, MaskAll, WorkingDirPolicy(opts)) /\ opts' = opts
      BY <1>2 DEF AddWorkingDir
    <3>3. IsFiniteSet({WorkingDir}) /\ WorkingDirPolicy(opts) \in SUBSET MaskNothing
      BY FS_Singleton, PolicyBits
    <3> QED
      BY <1>0, <3>1, <3>2, <3>3, MoreScopes DEF CwdGrants
  <2>2. phase' = "tool"
    BY <1>2 DEF AddWorkingDir
  <2> QED
    BY <2>1, <2>2 DEF Building, Phases
<1>3. CASE AddTool
  <2>1. Holds(tree', ToolScopes, {}, ToolGrants(opts'))
    <3>1. Holds(tree, {<<>>} \cup {WorkingDir}, {}, CwdGrants(opts))
      BY <1>3 DEF AddTool, Building
    <3>2. tree' = AddScope(tree, {Tool}, MaskAll, InputPolicy) /\ opts' = opts
      BY <1>3 DEF AddTool
    <3>3. IsFiniteSet({Tool}) /\ InputPolicy \in SUBSET MaskNothing
      BY FS_Singleton, PolicyBits
    <3> QED
      BY <1>0, <3>1, <3>2, <3>3, MoreScopes DEF ToolGrants, ToolScopes
  <2>2. phase' = "r"
    BY <1>3 DEF AddTool
  <2> QED
    BY <2>1, <2>2 DEF Building, Phases
<1>4. CASE AddReadonlyFiles
  <2>1. Holds(tree', ReadScopes(opts'), {}, ReadGrants(opts'))
    <3>1. Holds(tree, ToolScopes, {}, ToolGrants(opts))
      BY <1>4 DEF AddReadonlyFiles, Building
    <3>2. tree' = AddScope(tree, opts.r, MaskAll, InputPolicy) /\ opts' = opts
      BY <1>4 DEF AddReadonlyFiles
    <3>3. opts.r \in SUBSET Paths /\ IsFiniteSet(opts.r) /\ InputPolicy \in SUBSET MaskNothing
      BY OptionPaths, PolicyBits DEF Inputs
    <3> QED
      BY <3>1, <3>2, <3>3, MoreScopes DEF ReadGrants, ReadScopes
  <2>2. phase' = "w"
    BY <1>4 DEF AddReadonlyFiles
  <2> QED
    BY <2>1, <2>2 DEF Building, Phases
<1>5. CASE AddWritableFiles
  <2>1. Holds(tree', WriteScopes(opts'), {}, WriteGrants(opts'))
    <3>1. Holds(tree, ReadScopes(opts), {}, ReadGrants(opts))
      BY <1>5 DEF AddWritableFiles, Building
    <3>2. tree' = AddScope(tree, opts.w, MaskAll, OutputPolicy) /\ opts' = opts
      BY <1>5 DEF AddWritableFiles
    <3>3. opts.w \in SUBSET Paths /\ IsFiniteSet(opts.w) /\ OutputPolicy \in SUBSET MaskNothing
      BY OptionPaths, PolicyBits DEF Inputs
    <3> QED
      BY <3>1, <3>2, <3>3, MoreScopes DEF WriteGrants, WriteScopes
  <2>2. phase' = "b"
    BY <1>5 DEF AddWritableFiles
  <2> QED
    BY <2>1, <2>2 DEF Building, Phases
<1>6. CASE AddBlockedFiles
  <2>1. Holds(tree', BlockScopes(opts'), {}, BlockGrants(opts'))
    <3>1. Holds(tree, WriteScopes(opts), {}, WriteGrants(opts))
      BY <1>6 DEF AddBlockedFiles, Building
    <3>2. tree' = AddScope(tree, opts.b, MaskAll, {}) /\ opts' = opts
      BY <1>6 DEF AddBlockedFiles
    <3>3. opts.b \in SUBSET Paths /\ IsFiniteSet(opts.b) /\ {} \in SUBSET MaskNothing
      BY OptionPaths, PolicyBits DEF Inputs
    <3> QED
      BY <3>1, <3>2, <3>3, MoreScopes DEF BlockGrants, BlockScopes
  <2>2. phase' = "find"
    BY <1>6 DEF AddBlockedFiles
  <2> QED
    BY <2>1, <2>2 DEF Building, Phases
<1>7. CASE AddOutputDirs
  <2>1. Holds(tree', BlockScopes(opts'), OutputDirs(opts'), BlockGrants(opts'))
    <3>1. Holds(tree, BlockScopes(opts), {}, BlockGrants(opts))
      BY <1>7 DEF AddOutputDirs, Building
    <3>2. tree' = AddNodeScope(tree, OutputDirs(opts), MaskAll, OutputDirPolicy) /\ opts' = opts
      BY <1>7 DEF AddOutputDirs
    <3>3. OutputDirs(opts) \in SUBSET Paths /\ IsFiniteSet(OutputDirs(opts))
      BY OutputDirsMeans DEF Inputs
    <3> QED
      BY <3>1, <3>2, <3>3, MoreNodeScopes
  <2>2. phase' = "ov"
    BY <1>7 DEF AddOutputDirs
  <2> QED
    BY <2>1, <2>2 DEF Building, Phases
<1>8. CASE AddOverlayRoot
  <2>1. Holds(tree', AllScopes(opts'), OutputDirs(opts'), AllGrants(opts'))
    <3>1. Holds(tree, BlockScopes(opts), OutputDirs(opts), BlockGrants(opts))
      BY <1>8 DEF AddOverlayRoot, Building
    <3>2. tree' = AddScope(tree, OverlayScopes(opts), MaskAll, AllowAll) /\ opts' = opts
      BY <1>8 DEF AddOverlayRoot, OverlayScopes
    <3>3. /\ OverlayScopes(opts) \in SUBSET Paths /\ IsFiniteSet(OverlayScopes(opts))
          /\ AllowAll \in SUBSET MaskNothing
      BY <1>0, FS_Singleton, FS_EmptySet, PolicyBits DEF OverlayScopes
    <3> QED
      BY <3>1, <3>2, <3>3, MoreScopes DEF AllGrants, AllScopes
  <2>2. phase' = "build"
    BY <1>8 DEF AddOverlayRoot
  <2> QED
    BY <2>1, <2>2 DEF Building, Phases
<1>9. CASE \/ FindOutputDirs \/ BadPath \/ Dead \/ Build \/ Release
           \/ \E d \in todo : CreateOutputDir(d)
           \/ \E n \in DOMAIN tree : SerializeNode(n)
           \/ \E p \in Looked : Initialize(p)
           \/ \E f \in Frag : GetPolicyForSubpath(f)
           \/ UNCHANGED vars
  <2>1. Quiet
    BY <1>9 DEF Quiet, FindOutputDirs, BadPath, Dead, Build, Release, CreateOutputDir,
                SerializeNode, Initialize, GetPolicyForSubpath, vars
  <2> QED
    BY <2>1, BuildingQuiet
<1> QED
  BY <1>1, <1>2, <1>3, <1>4, <1>5, <1>6, <1>7, <1>8, <1>9 DEF Next

\* At the end every path has what Granted says it has.
LEMMA GrantsAreGranted ==
  ASSUME NEW o, NEW q \in Paths
  PROVE  AllGrants(o)[q] = Granted(o, q)
<1>1. AllGrants(o)[q] =
        ((((((({} \cup Given(q = <<>>, ReadOnly))
          \cup Given(q = WorkingDir, WorkingDirPolicy(o)))
          \cup Given(q = Tool, InputPolicy))
          \cup Given(q \in o.r, InputPolicy))
          \cup Given(q \in o.w, OutputPolicy))
          \cup Given(q \in o.b, {}))
          \cup Given(q \in OverlayScopes(o), AllowAll))
  BY DEF AllGrants, BlockGrants, WriteGrants, ReadGrants, ToolGrants, CwdGrants,
         RootGrants, NoGrant, GrantMore, Given
<1>2. q \in OverlayScopes(o) <=> q = OverlayRoot /\ o.writeOverlay
  BY DEF OverlayScopes
<1> QED
  BY <1>1, <1>2 DEF Granted, Given

LEMMA ScopesAreScoped == ASSUME NEW o PROVE AllScopes(o) = Scoped(o)
BY DEF AllScopes, BlockScopes, WriteScopes, ReadScopes, ToolScopes, OverlayScopes, Scoped

-----------------------------------------------------------------------------
(* The output directories                                                  *)

LEMMA StrictPrefixMeans ==
  ASSUME NEW p \in Paths, NEW q \in Paths
  PROVE  IsStrictPrefix(p, q) <=> p \in Prefixes(q) /\ p # q
<1>1. p \in Seq(Frag) /\ q \in Seq(Frag) /\ Len(p) \in Nat /\ Len(q) \in Nat
  BY DEF Paths
<1>2. SubSeq(p, 1, Len(p)) = p
  BY <1>1
<1>3. Len(p) <= Len(q) => /\ SubSeq(q, 1, Len(p)) \in Seq(Frag)
                          /\ Len(SubSeq(q, 1, Len(p))) = Len(p)
  BY <1>1, SubSeqMeans
<1>4. IsPrefix(p, q) => p \in Prefixes(q)
  <2> SUFFICES ASSUME IsPrefix(p, q) PROVE p \in Prefixes(q)
    OBVIOUS
  <2>1. Len(p) \in 0 .. Len(q) /\ p = SubSeq(q, 1, Len(p))
    BY <1>1, <1>2 DEF IsPrefix
  <2> QED
    BY <2>1 DEF Prefixes
<1>5. p \in Prefixes(q) => IsPrefix(p, q)
  <2> SUFFICES ASSUME p \in Prefixes(q) PROVE IsPrefix(p, q)
    OBVIOUS
  <2>1. PICK k \in 0 .. Len(q) : p = SubSeq(q, 1, k)
    BY DEF Prefixes
  <2>2. Len(p) = k
    BY <1>1, <2>1, SubSeqMeans
  <2> QED
    BY <1>1, <1>2, <2>1, <2>2 DEF IsPrefix
<1> QED
  BY <1>4, <1>5 DEF IsStrictPrefix

CharactersInv(p, n) == n \in Nat

Characters == INSTANCE FoldProofs WITH
    Step <- AddCharacters, Base <- 0, Inv <- CharactersInv

LEMMA TextIsFold == ASSUME NEW p PROVE TextLength(p) = Characters!Fold(p) - 1
BY DEF TextLength, Characters!Fold, Characters!FoldLeft, Characters!MapThenFoldSet,
       FoldLeft, MapThenFoldSet, Max, Characters!Max

LEMMA CharactersCounted == \A p \in Seq(Frag) : Characters!Fold(p) \in Nat
<1>1. CharactersInv(<<>>, 0)
  BY DEF CharactersInv
<1>2. ASSUME NEW p \in Seq(Frag), NEW f \in Frag, NEW n, CharactersInv(p, n)
      PROVE  CharactersInv(Append(p, f), AddCharacters(n, f))
  BY <1>2, ManifestParameters DEF CharactersInv, AddCharacters
<1>3. \A p \in Seq(Frag) : CharactersInv(p, Characters!Fold(p))
  BY <1>1, <1>2, Characters!FoldInduction
<1> QED
  BY <1>3 DEF CharactersInv

\* The text of a directory is longer than that of the directory it is in.
LEMMA ParentIsShorter ==
  ASSUME NEW p \in Paths, p # <<>>
  PROVE  TextLength(Front(p)) \in Int /\ TextLength(p) \in Int
         /\ TextLength(Front(p)) < TextLength(p)
<1>1. Front(p) \in Seq(Frag) /\ Last(p) \in Frag /\ p = Append(Front(p), Last(p))
  BY FrontMeans DEF Paths
<1>2. Characters!Fold(p) = AddCharacters(Characters!Fold(Front(p)), Last(p))
  BY <1>1, Characters!FoldOfMore
<1>3. Characters!Fold(Front(p)) \in Nat /\ Last(p) \in Nat
  BY <1>1, CharactersCounted, ManifestParameters
<1> QED
  BY <1>2, <1>3, TextIsFold DEF AddCharacters

\* An output directory lies in the working directory or in another of them.
LEMMA OutputDirParent ==
  ASSUME NEW o, o.w \in SUBSET Declarable, NEW d \in OutputDirs(o)
  PROVE  d \in Paths /\ d # <<>> /\ (Front(d) = WorkingDir \/ Front(d) \in OutputDirs(o))
<1>1. d \in Paths /\ WorkingDir \in Paths
  BY OutputDirsMeans, KnownPaths
<1>2. PICK p \in o.w : d \in Prefixes(p) \ {p}
  BY OutputDirsMeans
<1>3. WorkingDir \in Prefixes(d) /\ WorkingDir # d
  BY <1>1, OutputDirsMeans, StrictPrefixMeans
<1>4. d # <<>>
  <2>1. Len(WorkingDir) \in Nat /\ WorkingDir # <<>> /\ Len(WorkingDir) <= Len(d)
    BY <1>1, <1>3, PrefixMeans, ManifestParameters, PathLength
  <2>2. Len(WorkingDir) # 0
    BY <1>1, <2>1 DEF Paths
  <2> QED
    BY <2>1, <2>2
<1>5. /\ Front(d) \in Paths /\ Len(Front(d)) = Len(d) - 1 /\ Len(d) \in Nat
      /\ Front(d) \in Prefixes(d) /\ Prefixes(d) = {d} \cup Prefixes(Front(d))
  BY <1>1, <1>4, FrontMeans
<1>6. ASSUME Front(d) # WorkingDir
      PROVE  Front(d) \in OutputDirs(o)
  <2>1. IsStrictPrefix(WorkingDir, Front(d))
    BY <1>1, <1>3, <1>5, <1>6, StrictPrefixMeans
  <2>2. p \in Paths
    BY OptionPaths
  <2>3. Front(d) \in Prefixes(p)
    BY <1>2, <1>5, <2>2, PrefixOrder
  <2>4. Front(d) # p
    <3>1. Len(d) <= Len(p)
      BY <1>2, <2>2, PrefixMeans
    <3> QED
      BY <1>5, <3>1
  <2> QED
    BY <2>1, <2>3, <2>4, OutputDirsMeans
<1> QED
  BY <1>1, <1>4, <1>6

\* From the moment main has found them, the output directories exist or are
\* still to be created, and nothing else is.
MakingDirs ==
    /\ dirs \in SUBSET Paths /\ WorkingDir \in dirs
    /\ todo \in SUBSET OutputDirs(opts)
    /\ phase # "mkdir" => todo = {}
    /\ phase \in {"mkdir", "ov", "build", "serialize", "run"} =>
         OutputDirs(opts) \subseteq dirs \cup todo

LEMMA MakingDirsStep == Inputs /\ MakingDirs /\ [Next]_vars => MakingDirs'
<1> SUFFICES ASSUME Inputs, MakingDirs, [Next]_vars PROVE MakingDirs'
  OBVIOUS
<1>0. opts.w \in SUBSET Declarable
  BY DEF Inputs
<1>1. CASE FindOutputDirs
  BY <1>1 DEF FindOutputDirs, MakingDirs
<1>2. CASE \E d \in todo : CreateOutputDir(d)
  <2>1. PICK d \in todo : CreateOutputDir(d)
    BY <1>2
  <2>2. /\ phase = "mkdir" /\ phase' = phase /\ opts' = opts /\ todo' = todo \ {d}
        /\ dirs' = IF Front(d) \in dirs THEN dirs \cup {d} ELSE dirs
        /\ \A e \in todo : TextLength(d) <= TextLength(e)
    BY <2>1 DEF CreateOutputDir, MayComeFirst
  <2>3. /\ d \in OutputDirs(opts) /\ d \in Paths /\ d # <<>>
        /\ Front(d) = WorkingDir \/ Front(d) \in OutputDirs(opts)
    BY <1>0, OutputDirParent DEF MakingDirs
  <2>4. Front(d) \notin todo
    <3>1. /\ TextLength(Front(d)) \in Int /\ TextLength(d) \in Int
          /\ TextLength(Front(d)) < TextLength(d)
      BY <2>3, ParentIsShorter
    <3> QED
      BY <2>2, <3>1
  <2>5. Front(d) \in dirs
    BY <2>2, <2>3, <2>4 DEF MakingDirs
  <2> QED
    BY <2>2, <2>3, <2>5 DEF MakingDirs
<1>3. CASE AddOutputDirs
  BY <1>3 DEF AddOutputDirs, Scopes, MakingDirs
<1>4. CASE BadPath
  BY <1>4 DEF BadPath, MakingDirs
<1>5. CASE \/ AddRootScope \/ AddWorkingDir \/ AddTool
           \/ AddReadonlyFiles \/ AddWritableFiles \/ AddBlockedFiles \/ AddOverlayRoot
  BY <1>5 DEF AddRootScope, AddWorkingDir, AddTool, AddReadonlyFiles, AddWritableFiles,
              AddBlockedFiles, AddOverlayRoot, Scopes, MakingDirs
<1>6. CASE \/ Dead \/ Build \/ Release
           \/ \E n \in DOMAIN tree : SerializeNode(n)
           \/ \E p \in Looked : Initialize(p)
           \/ \E f \in Frag : GetPolicyForSubpath(f)
           \/ UNCHANGED vars
  <2>1. /\ UNCHANGED <<opts, dirs, todo>>
        /\ \/ phase' = phase
           \/ phase \in {"build", "serialize"} /\ phase' \in {"serialize", "run"}
    BY <1>6 DEF Dead, Build, Release, SerializeNode, Initialize, GetPolicyForSubpath, vars
  <2> QED
    BY <2>1 DEF MakingDirs
<1> QED
  BY <1>1, <1>2, <1>3, <1>4, <1>5, <1>6 DEF Next

LEMMA MakingDirsInit == Init => MakingDirs
BY KnownPaths DEF Init, MakingDirs

-----------------------------------------------------------------------------
(* The hash table of a node                                                *)

\* Probing from any home comes to every slot.
LEMMA ProbesReachAll ==
  ASSUME NEW N \in Nat \ {0}, NEW h \in Nat, NEW i \in 1 .. N
  PROVE  \E k \in 0 .. N - 1 : ((h + k) % N) + 1 = i
<1> DEFINE r == h % N
           q == h \div N
<1>1. r \in 0 .. N - 1 /\ q \in Int /\ h = N * q + r
  OBVIOUS
<1> HIDE DEF r, q
<1>2. ASSUME NEW c \in Int, NEW s \in 0 .. N - 1
      PROVE  (N * c + s) % N = s
  OBVIOUS
<1>3. CASE i - 1 >= r
  <2> DEFINE k == (i - 1) - r
  <2>1. k \in 0 .. N - 1 /\ h + k = N * q + (i - 1) /\ i - 1 \in 0 .. N - 1
    BY <1>1, <1>3
  <2>2. (N * q + (i - 1)) % N = i - 1
    BY <1>1, <1>2, <2>1
  <2>3. ((h + k) % N) + 1 = i
    BY <2>1, <2>2
  <2> QED
    BY <2>1, <2>3
<1>4. CASE i - 1 < r
  <2> DEFINE k == ((i - 1) - r) + N
  <2>1. k \in 0 .. N - 1 /\ i - 1 \in 0 .. N - 1
    BY <1>1, <1>4
  <2>2. h + k = N * (q + 1) + (i - 1)
    BY <1>1
  <2>3. (N * (q + 1) + (i - 1)) % N = i - 1
    BY <1>1, <1>2, <2>1
  <2>4. ((h + k) % N) + 1 = i
    BY <2>2, <2>3
  <2> QED
    BY <2>1, <2>4
<1> QED
  BY <1>1, <1>3, <1>4

Slots == [child : Nat, low : Nat, start : BOOLEAN, continuation : BOOLEAN]

\* The probe for f comes to it after k slots, over the flags FindChild needs.
FoundAt(h, B, f, k) ==
    LET At(j) == B[Slot(B, h[f], j)]
    IN  /\ At(k).child = f
        /\ k > 0 => At(0).start
        /\ \A j \in 0 .. k - 1 : At(j).child # NoChild
        /\ \A j \in 1 .. k - 1 : At(j).continuation

\* B is a table that holds K and nothing else, each of it once.
Tabled(h, B, K) ==
    /\ B \in Seq(Slots)
    /\ \A i \in 1 .. Len(B) : B[i].child # NoChild => B[i].child \in K
    /\ \A i, j \in 1 .. Len(B) :
         B[i].child # NoChild /\ B[i].child = B[j].child => i = j
    /\ \A f \in K : \E k \in 0 .. Len(B) - 1 : FoundAt(h, B, f, k)

LEMMA SlotIsOne ==
  ASSUME NEW B \in Seq(Slots), Len(B) # 0, NEW h \in Nat, NEW k \in Nat
  PROVE  Slot(B, h, k) \in 1 .. Len(B)
<1> DEFINE N == Len(B)
<1>1. N \in Nat \ {0} /\ h + k \in Nat
  OBVIOUS
<1> HIDE DEF N
<1>2. (h + k) % N \in 0 .. N - 1
  BY <1>1
<1>3. ((h + k) % N) + 1 \in 1 .. N
  BY <1>1, <1>2
<1> QED
  BY <1>3 DEF Slot, N

\* As long as there are more slots than children one of the slots is free.
LEMMA FreeSlot ==
  ASSUME NEW B, NEW K, Tabled(hash, B, K), IsFiniteSet(K), Cardinality(K) < Len(B)
  PROVE  \E i \in 1 .. Len(B) : B[i].child = NoChild
<1> SUFFICES ASSUME \A i \in 1 .. Len(B) : B[i].child # NoChild PROVE FALSE
  OBVIOUS
<1> DEFINE I == 1 .. Len(B)
           g == [i \in I |-> B[i].child]
<1>1. Len(B) \in Nat /\ Cardinality(K) \in Nat
  BY FS_CardinalityType DEF Tabled
<1>2. g \in Injection(I, K)
  BY DEF Tabled, Injection, IsInjective
<1>3. Cardinality(I) <= Cardinality(K)
  BY <1>2, FS_Injection
<1>4. Cardinality(I) = IF 1 > Len(B) THEN 0 ELSE Len(B) - 1 + 1
  BY <1>1, FS_Interval
<1> HIDE DEF I
<1> QED
  BY <1>1, <1>3, <1>4

\* The first free slot a probe for f comes to.
FirstFree(B, f) ==
    CHOOSE k \in 0 .. Len(B) - 1 :
        /\ B[Slot(B, hash[f], k)].child = NoChild
        /\ \A j \in 0 .. k - 1 : B[Slot(B, hash[f], j)].child # NoChild

LEMMA FirstFreeMeans ==
  ASSUME Inputs, NEW B, NEW K, Tabled(hash, B, K), IsFiniteSet(K), Cardinality(K) < Len(B),
         NEW f \in Frag
  PROVE  /\ FirstFree(B, f) \in 0 .. Len(B) - 1
         /\ B[Slot(B, hash[f], FirstFree(B, f))].child = NoChild
         /\ \A j \in 0 .. FirstFree(B, f) - 1 : B[Slot(B, hash[f], j)].child # NoChild
<1>1. PICK i \in 1 .. Len(B) : B[i].child = NoChild
  BY FreeSlot
<1>2. Len(B) \in Nat \ {0} /\ hash[f] \in Nat
  BY <1>1 DEF Tabled, Inputs
<1> DEFINE F == {k \in 0 .. Len(B) - 1 : B[Slot(B, hash[f], k)].child = NoChild}
<1>3. \E k \in 0 .. Len(B) - 1 : Slot(B, hash[f], k) = i
  BY <1>1, <1>2, ProbesReachAll DEF Slot
<1>4. F # {} /\ F \in SUBSET Nat
  BY <1>1, <1>2, <1>3
<1>5. PICK k \in F : \A j \in F : k <= j
  BY <1>4, Characters!LeastCounterexample
<1>6. /\ k \in 0 .. Len(B) - 1
      /\ B[Slot(B, hash[f], k)].child = NoChild
      /\ \A j \in 0 .. k - 1 : B[Slot(B, hash[f], j)].child # NoChild
  BY <1>2, <1>5
<1> QED
  BY <1>6 DEF FirstFree

LEMMA SlotFilled ==
  ASSUME NEW f \in Nat, NEW l \in Nat
  PROVE  LET s == [EmptySlot EXCEPT !.child = f, !.low = l]
         IN  s \in Slots /\ s.child = f /\ s.low = l
BY DEF Slots, EmptySlot, NoChild

\* What PlaceChild makes of a table, slot by slot: one slot is filled, the
\* others keep their child and their flags, and the probe for the new child
\* finds the flags it needs.
LEMMA PlacedMeans ==
  ASSUME NEW B \in Seq(Slots), NEW f \in Nat, NEW offset \in Int,
         NEW k0, k0 = FirstFree(B, f), NEW C, C = PlaceChild(B, f, offset),
         NEW a0, a0 = Slot(B, hash[f], k0)
  PROVE  /\ C \in Seq(Slots) /\ Len(C) = Len(B)
         /\ a0 \in 1 .. Len(B) => C[a0].child = f /\ C[a0].low = offset % 4
         /\ \A i \in 1 .. Len(B) : i # a0 =>
              /\ C[i].child = B[i].child /\ C[i].low = B[i].low
              /\ B[i].start => C[i].start
              /\ B[i].continuation => C[i].continuation
              /\ k0 > 0 /\ i = Slot(B, hash[f], 0) => C[i].start
              /\ i \in {Slot(B, hash[f], j) : j \in 1 .. k0 - 1} => C[i].continuation
<1>1. DOMAIN B = 1 .. Len(B) /\ Len(B) \in Nat /\ \A i \in 1 .. Len(B) : B[i] \in Slots
  OBVIOUS
<1> DEFINE At(j) == Slot(B, hash[f], j)
           passed == {At(j) : j \in 1 .. k0 - 1}
           Filled == [EmptySlot EXCEPT !.child = f, !.low = offset % 4]
           Passed(i) == [B[i] EXCEPT !.start = @ \/ (k0 > 0 /\ i = At(0)),
                                     !.continuation = @ \/ i \in passed]
<1>2. C = [i \in DOMAIN B |-> IF i = a0 THEN Filled ELSE Passed(i)]
  BY DEF PlaceChild, FirstFree
<1>3. offset % 4 \in Nat
  OBVIOUS
<1>4. Filled \in Slots /\ Filled.child = f /\ Filled.low = offset % 4
  BY <1>3, SlotFilled
<1>5. ASSUME NEW i \in 1 .. Len(B)
      PROVE  /\ Passed(i) \in Slots
             /\ Passed(i).child = B[i].child /\ Passed(i).low = B[i].low
             /\ B[i].start \/ (k0 > 0 /\ i = At(0)) => Passed(i).start
             /\ B[i].continuation \/ i \in passed => Passed(i).continuation
  <2> DEFINE x == k0 > 0 /\ i = At(0)
             y == i \in passed
             old == B[i]
             r == Passed(i)
  <2>1. old \in Slots /\ x \in BOOLEAN /\ y \in BOOLEAN
    BY <1>1
  <2>2. r = [old EXCEPT !.start = old.start \/ x, !.continuation = old.continuation \/ y]
    OBVIOUS
  <2> HIDE DEF x, y, old, r
  <2>3. old.start \in BOOLEAN /\ old.continuation \in BOOLEAN
    BY <2>1 DEF Slots
  <2>4. r \in Slots
    BY <2>1, <2>2, <2>3 DEF Slots
  <2>5. r.child = old.child /\ r.low = old.low
    BY <2>1, <2>2 DEF Slots
  <2>6. r.start = (old.start \/ x) /\ r.continuation = (old.continuation \/ y)
    BY <2>1, <2>2 DEF Slots
  <2>7. (old.start \/ x => r.start) /\ (old.continuation \/ y => r.continuation)
    BY <2>6
  <2> QED
    BY <2>4, <2>5, <2>7 DEF r, old, x, y
<1> HIDE DEF Filled, Passed, At, passed
<1>6. DOMAIN C = 1 .. Len(B)
      /\ \A i \in 1 .. Len(B) : C[i] = IF i = a0 THEN Filled ELSE Passed(i)
  BY <1>1, <1>2
<1>7. C = [i \in 1 .. Len(B) |-> C[i]] /\ \A i \in 1 .. Len(B) : C[i] \in Slots
  BY <1>1, <1>2, <1>4, <1>5, <1>6
<1>8. C \in Seq(Slots) /\ Len(C) = Len(B)
  BY <1>1, <1>7
<1>9. \A i \in 1 .. Len(B) : i # a0 =>
        /\ C[i].child = B[i].child /\ C[i].low = B[i].low
        /\ B[i].start \/ (k0 > 0 /\ i = At(0)) => C[i].start
        /\ B[i].continuation \/ i \in passed => C[i].continuation
  BY <1>5, <1>6
<1> QED
  BY <1>4, <1>6, <1>8, <1>9 DEF At, passed

\* C is the table B, that holds K, with one child more, its offset's low bits l.
TakesChild(h, B, K, f, l, C) ==
    /\ Tabled(h, C, K \cup {f}) /\ Len(C) = Len(B)
    /\ \A i \in 1 .. Len(C) : C[i].low = l \/ C[i].low = B[i].low

\* A child put into a table with room is found there, and whoever was.
LEMMA ChildPlaced ==
  ASSUME Inputs, NEW B, NEW K \in SUBSET Frag, Tabled(hash, B, K), IsFiniteSet(K),
         Cardinality(K) < Len(B), NEW f \in Frag \ K, NEW offset \in Int,
         NEW C, C = PlaceChild(B, f, offset)
  PROVE  TakesChild(hash, B, K, f, offset % 4, C)
<1> DEFINE N == Len(B)
           k0 == FirstFree(B, f)
           a0 == Slot(B, hash[f], k0)
<1>1. /\ k0 \in 0 .. N - 1 /\ B[a0].child = NoChild
      /\ \A j \in 0 .. k0 - 1 : B[Slot(B, hash[f], j)].child # NoChild
  BY FirstFreeMeans
<1>2. /\ B \in Seq(Slots) /\ N \in Nat \ {0} /\ f \in Nat /\ f # NoChild
      /\ \A g \in Frag : hash[g] \in Nat /\ g # NoChild
  BY <1>1, ManifestParameters DEF Tabled, Inputs, NoChild
<1>3. \A h, k \in Nat : Slot(B, h, k) \in 1 .. N
  BY <1>2, SlotIsOne
<1>4. a0 \in 1 .. N
  <2>1. k0 \in Nat /\ hash[f] \in Nat
    BY <1>1, <1>2
  <2> HIDE DEF k0
  <2> QED
    BY <1>3, <2>1 DEF a0
<1>5. /\ C \in Seq(Slots) /\ Len(C) = N
      /\ C[a0].child = f /\ C[a0].low = offset % 4
      /\ \A i \in 1 .. N : i # a0 =>
           /\ C[i].child = B[i].child /\ C[i].low = B[i].low
           /\ B[i].start => C[i].start
           /\ B[i].continuation => C[i].continuation
           /\ k0 > 0 /\ i = Slot(B, hash[f], 0) => C[i].start
           /\ i \in {Slot(B, hash[f], j) : j \in 1 .. k0 - 1} => C[i].continuation
  BY <1>2, <1>4, PlacedMeans
<1>6. \A h, k : Slot(C, h, k) = Slot(B, h, k)
  BY <1>5 DEF Slot
<1> HIDE DEF N, k0, a0
<1>7. FoundAt(hash, C, f, k0)
  <2> DEFINE At(j) == Slot(B, hash[f], j)
  <2>0. \A j \in 0 .. k0 - 1 : At(j) \in 1 .. N /\ At(j) # a0
    <3> SUFFICES ASSUME NEW j \in 0 .. k0 - 1 PROVE At(j) \in 1 .. N /\ At(j) # a0
      OBVIOUS
    <3>1. j \in Nat /\ hash[f] \in Nat
      BY <1>1, <1>2
    <3>2. At(j) \in 1 .. N
      BY <1>3, <3>1
    <3>3. B[At(j)].child # NoChild
      BY <1>1
    <3> QED
      BY <1>1, <3>2, <3>3
  <2>1. C[At(k0)].child = f
    BY <1>5 DEF a0
  <2>2. \A j \in 0 .. k0 - 1 : C[At(j)].child # NoChild
    BY <1>1, <1>5, <2>0
  <2>3. k0 > 0 => C[At(0)].start
    <3> SUFFICES ASSUME k0 > 0 PROVE C[At(0)].start
      OBVIOUS
    <3>1. 0 \in 0 .. k0 - 1
      BY <1>1
    <3> QED
      BY <1>5, <2>0, <3>1
  <2>4. \A j \in 1 .. k0 - 1 : C[At(j)].continuation
    <3> SUFFICES ASSUME NEW j \in 1 .. k0 - 1 PROVE C[At(j)].continuation
      OBVIOUS
    <3>1. j \in 0 .. k0 - 1
      BY <1>1
    <3>2. At(j) \in {Slot(B, hash[f], jj) : jj \in 1 .. k0 - 1}
      OBVIOUS
    <3>3. At(j) \in 1 .. N /\ At(j) # a0
      BY <2>0, <3>1
    <3> QED
      BY <1>5, <3>2, <3>3
  <2> QED
    BY <1>6, <2>1, <2>2, <2>3, <2>4 DEF FoundAt
<1>8. ASSUME NEW g \in K
      PROVE  \E k \in 0 .. N - 1 : FoundAt(hash, C, g, k)
  <2>1. PICK k \in 0 .. N - 1 : FoundAt(hash, B, g, k)
    BY DEF Tabled, N
  <2> DEFINE At(j) == Slot(B, hash[g], j)
  <2>2. /\ B[At(k)].child = g /\ (k > 0 => B[At(0)].start)
        /\ \A j \in 0 .. k - 1 : B[At(j)].child # NoChild
        /\ \A j \in 1 .. k - 1 : B[At(j)].continuation
    BY <2>1 DEF FoundAt
  <2>3. g \in Frag /\ hash[g] \in Nat /\ g # NoChild /\ k \in Nat
    BY <1>2, <2>1
  <2>4. \A j \in 0 .. k : At(j) \in 1 .. N
    <3> SUFFICES ASSUME NEW j \in 0 .. k PROVE At(j) \in 1 .. N
      OBVIOUS
    <3>1. j \in Nat
      BY <2>3
    <3> QED
      BY <1>3, <2>3, <3>1
  <2>5. \A j \in 0 .. k : B[At(j)].child # NoChild
    <3> SUFFICES ASSUME NEW j \in 0 .. k PROVE B[At(j)].child # NoChild
      OBVIOUS
    <3>1. j = k \/ j \in 0 .. k - 1
      BY <2>3
    <3> QED
      BY <2>2, <2>3, <3>1
  <2>6. \A j \in 0 .. k : At(j) # a0
    BY <1>1, <2>5
  <2> HIDE DEF At
  <2>7. k \in 0 .. k /\ \A j \in 0 .. k - 1 : j \in 0 .. k
    BY <2>3
  <2>8. C[At(k)].child = g
    BY <1>5, <2>2, <2>4, <2>6, <2>7
  <2>9. \A j \in 0 .. k - 1 : C[At(j)].child # NoChild
    BY <1>5, <2>2, <2>4, <2>6, <2>7
  <2>10. k > 0 => C[At(0)].start
    <3> SUFFICES ASSUME k > 0 PROVE C[At(0)].start
      OBVIOUS
    <3>1. 0 \in 0 .. k
      BY <2>3
    <3>2. At(0) \in 1 .. N /\ At(0) # a0 /\ B[At(0)].start
      BY <2>2, <2>4, <2>6, <3>1
    <3> QED
      BY <1>5, <3>2
  <2>11. \A j \in 1 .. k - 1 : C[At(j)].continuation
    <3> SUFFICES ASSUME NEW j \in 1 .. k - 1 PROVE C[At(j)].continuation
      OBVIOUS
    <3>1. j \in 0 .. k
      BY <2>3
    <3>2. At(j) \in 1 .. N /\ At(j) # a0 /\ B[At(j)].continuation
      BY <2>2, <2>4, <2>6, <3>1
    <3> QED
      BY <1>5, <3>2
  <2>12. FoundAt(hash, C, g, k)
    BY <1>6, <2>8, <2>9, <2>10, <2>11 DEF FoundAt, At
  <2> QED
    BY <2>12
<1>9. \A i \in 1 .. N : C[i].child # NoChild => C[i].child \in K \cup {f}
  BY <1>5 DEF Tabled, N
<1>10. ASSUME NEW i \in 1 .. N, NEW j \in 1 .. N, C[i].child # NoChild, C[i].child = C[j].child
       PROVE  i = j
  <2>1. \A m \in 1 .. N : m # a0 => C[m].child # f \/ C[m].child = NoChild
    BY <1>5 DEF Tabled, N
  <2>2. CASE i # a0 /\ j # a0
    BY <1>5, <1>10, <2>2 DEF Tabled, N
  <2>3. CASE i = a0 \/ j = a0
    BY <1>2, <1>5, <1>10, <2>1, <2>3
  <2> QED
    BY <2>2, <2>3
<1>11. Tabled(hash, C, K \cup {f})
  BY <1>1, <1>5, <1>7, <1>8, <1>9, <1>10 DEF Tabled
<1> QED
  BY <1>5, <1>11 DEF N, TakesChild

-----------------------------------------------------------------------------
(* The payload                                                             *)

LEMMA TreeClosed ==
  ASSUME NEW t, NEW S, NEW R, NEW G, Holds(t, S, R, G)
  PROVE  /\ DOMAIN t \in SUBSET Paths /\ IsFiniteSet(DOMAIN t) /\ <<>> \in DOMAIN t
         /\ S \cup R \subseteq DOMAIN t
         /\ \A n \in DOMAIN t : Prefixes(n) \subseteq DOMAIN t
         /\ \A n \in DOMAIN t :
              /\ {t[n].coneMask, t[n].coneValues} \subseteq SUBSET MaskNothing
              /\ {t[n].nodeMask, t[n].nodeValues} \subseteq SUBSET MaskNothing
<1>1. /\ S \cup R \in SUBSET Paths /\ DOMAIN t = Spanned(S \cup R)
      /\ IsFiniteSet(DOMAIN t) /\ G \in [Paths -> SUBSET MaskNothing]
      /\ \A n \in DOMAIN t : t[n] = NodeFor(n, S, R, G)
  BY DEF Holds, TreeIs, IsGrant
<1>2. /\ S \cup R \subseteq Above(S \cup R) /\ Above(S \cup R) \subseteq Paths
      /\ \A n \in Above(S \cup R) : Prefixes(n) \subseteq Above(S \cup R)
  BY <1>1, AboveMeans
<1>3. <<>> \in Paths /\ Prefixes(<<>>) = {<<>>}
  <2>1. <<>> \in Paths /\ Len(<<>>) = 0
    BY DEF Paths
  <2>2. ASSUME NEW q \in Prefixes(<<>>) PROVE q = <<>>
    <3>1. q \in Seq(Frag) /\ Len(q) <= 0
      BY <2>1, PrefixMeans DEF Paths
    <3> QED
      BY <3>1
  <2> QED
    BY <2>1, <2>2, PrefixOrder
<1>4. /\ DOMAIN t \in SUBSET Paths /\ <<>> \in DOMAIN t /\ S \cup R \subseteq DOMAIN t
      /\ \A n \in DOMAIN t : Prefixes(n) \subseteq DOMAIN t
  BY <1>1, <1>2, <1>3 DEF Spanned
<1>5. ASSUME NEW n \in DOMAIN t
      PROVE  /\ {t[n].coneMask, t[n].coneValues} \subseteq SUBSET MaskNothing
             /\ {t[n].nodeMask, t[n].nodeValues} \subseteq SUBSET MaskNothing
  <2>1. t[n] = NodeFor(n, S, R, G) /\ G[n] \in SUBSET MaskNothing
    BY <1>1, <1>4
  <2>2. OutputDirPolicy \in SUBSET MaskNothing
    BY PolicyBits
  <2> QED
    BY <2>1, <2>2 DEF NodeFor
<1> QED
  BY <1>1, <1>4, <1>5

LEMMA TreeIsClosed ==
  ASSUME Building
  PROVE  /\ DOMAIN tree \in SUBSET Paths /\ IsFiniteSet(DOMAIN tree)
         /\ <<>> \in DOMAIN tree
         /\ \A n \in DOMAIN tree : Prefixes(n) \subseteq DOMAIN tree
<1>1. PICK S, R, G : Holds(tree, S, R, G)
  BY DEF Building
<1> QED
  BY <1>1, TreeClosed

\* What has been written of the children of a node.
Written(n) == {f \in Frag : Append(n, f) \in DOMAIN payload}

Records == [start : Nat, cone : SUBSET MaskNothing, node : SUBSET MaskNothing,
            buckets : Seq(Slots)]

RecordIs(n) ==
    /\ payload[n] \in Records
    /\ payload[n].start % 4 = 0
    /\ Len(payload[n].buckets) = BucketCount(n)
    /\ \A i \in 1 .. Len(payload[n].buckets) : payload[n].buckets[i].low = 0
    /\ Tabled(hash, payload[n].buckets, Written(n))

Serialized ==
    /\ out \in Nat
    /\ phase = "serialize" => out % 4 = 0
    /\ phase \notin {"serialize", "run"} => DOMAIN payload = {}
    /\ phase = "run" => DOMAIN payload = DOMAIN tree
    /\ DOMAIN payload \subseteq DOMAIN tree
    /\ \A n \in DOMAIN payload : n # <<>> => Front(n) \in DOMAIN payload
    /\ \A n \in DOMAIN payload : RecordIs(n)

\* A node comes after its parent.
LEMMA ParentComesFirst ==
  ASSUME NEW p \in Paths, p # <<>>
  PROVE  Front(p) # p /\ ~Precedes(p, Front(p))
<1>1. /\ Front(p) \in Paths /\ Len(p) \in Nat /\ Len(Front(p)) = Len(p) - 1
      /\ Front(p) \in Prefixes(p)
  BY FrontMeans
<1>2. Front(p) # p
  BY <1>1
<1>3. ~IsStrictPrefix(p, Front(p))
  <2>1. p \in Prefixes(Front(p)) => Len(p) <= Len(Front(p))
    BY <1>1, PrefixMeans
  <2> QED
    BY <1>1, <2>1, StrictPrefixMeans
<1>4. ASSUME NEW i \in 1 .. Len(p), i <= Len(Front(p)) PROVE ~(p[i] < Front(p)[i])
  <2>1. Front(p)[i] = p[i]
    <3>1. i \in 1 .. Len(Front(p))
      BY <1>1, <1>4
    <3> QED
      BY <1>1, <3>1, PrefixMeans
  <2>2. p[i] \in Frag
    BY DEF Paths
  <2>3. p[i] \in Nat
    BY <2>2, ManifestParameters
  <2> QED
    BY <2>1, <2>3
<1> QED
  BY <1>2, <1>3, <1>4 DEF Precedes

LEMMA ChildrenMeans ==
  ASSUME Building, NEW n \in Paths
  PROVE  /\ IsFiniteSet(Children(n)) /\ Cardinality(Children(n)) \in Nat
         /\ BucketCount(n) \in Nat /\ Cardinality(Children(n)) <= BucketCount(n)
<1> DEFINE K == Children(n)
           g == [f \in K |-> Append(n, f)]
<1>1. IsFiniteSet(DOMAIN tree) /\ K \subseteq Frag
  BY TreeIsClosed DEF Children
<1>2. g \in [K -> DOMAIN tree]
  BY DEF Children
<1>3. \A f, h \in K : g[f] = g[h] => f = h
  <2> SUFFICES ASSUME NEW f \in K, NEW h \in K, g[f] = g[h] PROVE f = h
    OBVIOUS
  <2>1. f \in Frag /\ h \in Frag /\ Append(n, f) = Append(n, h)
    BY <1>1
  <2>2. Last(Append(n, f)) = f /\ Last(Append(n, h)) = h
    BY <2>1, AppendMeans
  <2> QED
    BY <2>1, <2>2
<1>4. g \in Injection(K, DOMAIN tree)
  BY <1>2, <1>3 DEF Injection, IsInjective
<1>5. IsFiniteSet(K) /\ Cardinality(K) \in Nat
  BY <1>1, <1>4, FS_Injection, FS_CardinalityType
<1>6. \A c \in Nat : (10 * c) \div 7 \in Nat /\ c <= (10 * c) \div 7
  OBVIOUS
<1> QED
  BY <1>5, <1>6 DEF BucketCount

LEMMA LayoutNumbers ==
  ASSUME Inputs, NEW p \in Paths, p # <<>>
  PROVE  TextLength(p) \in Nat
<1>1. Front(p) \in Seq(Frag) /\ TextLength(Front(p)) \in Int /\ TextLength(p) \in Int
      /\ TextLength(Front(p)) < TextLength(p)
  BY FrontMeans, ParentIsShorter DEF Paths
<1>2. TextLength(Front(p)) >= 0 - 1
  BY <1>1, CharactersCounted, TextIsFold
<1> QED
  BY <1>1, <1>2

LEMMA TreeStartAligned == Inputs => TreeStart \in Nat /\ TreeStart % 4 = 0
<1> SUFFICES ASSUME Inputs PROVE TreeStart \in Nat /\ TreeStart % 4 = 0
  OBVIOUS
<1>1. ASSUME NEW k \in Nat PROVE PathBlock(k) \in Nat /\ PathBlock(k) % 4 = 0
  BY DEF PathBlock, Pad4
<1>2. PaddedAnsiLength(DllLength) \in Nat /\ PaddedAnsiLength(DllLength) % 4 = 0
  BY ManifestParameters DEF PaddedAnsiLength
<1>3. /\ opts.trace \in Nat
      /\ (IF opts.writeOverlay THEN TextLength(OverlayRoot) ELSE 0) \in Nat
      /\ (IF opts.writeOverlay THEN TextLength(WorkingDir) ELSE 0) \in Nat
  <2>1. OverlayRoot \in Paths \ {<<>>} /\ WorkingDir \in Paths \ {<<>>}
    BY ManifestParameters
  <2>2. TextLength(OverlayRoot) \in Nat /\ TextLength(WorkingDir) \in Nat
    BY <2>1, LayoutNumbers
  <2> QED
    BY <2>2 DEF Inputs
<1> DEFINE x == PathBlock(opts.trace)
           y == PathBlock(IF opts.writeOverlay THEN TextLength(OverlayRoot) ELSE 0)
           z == PathBlock(IF opts.writeOverlay THEN TextLength(WorkingDir) ELSE 0)
           w == PaddedAnsiLength(DllLength)
<1>4. /\ x \in Nat /\ x % 4 = 0 /\ y \in Nat /\ y % 4 = 0
      /\ z \in Nat /\ z % 4 = 0 /\ w \in Nat /\ w % 4 = 0
  BY <1>1, <1>2, <1>3
<1>5. TreeStart = 8 + x + 16 + 2 * w + y + z
  BY DEF TreeStart
<1> HIDE DEF x, y, z, w
<1> QED
  BY <1>4, <1>5

\* SerializeNode comes to a node whose parent is written, with every byte so
\* far a multiple of four; it writes one record, and of the records before it
\* changes the buckets of the parent only.
LEMMA NodeWritten ==
  ASSUME Inputs, Building, Serialized, NEW n \in DOMAIN tree, SerializeNode(n)
  PROVE  /\ phase = "serialize" /\ n \in Paths /\ n \notin DOMAIN payload
         /\ n # <<>> => Front(n) \in DOMAIN payload
         /\ DOMAIN payload' = DOMAIN payload \cup {n}
         /\ payload'[n] = [start |-> out, cone |-> ConePolicy(n), node |-> NodePolicy(n),
                           buckets |-> [i \in 1 .. BucketCount(n) |-> EmptySlot]]
         /\ \A m \in DOMAIN payload :
              /\ payload'[m].start = payload[m].start
              /\ payload'[m].cone = payload[m].cone
              /\ payload'[m].node = payload[m].node
              /\ payload'[m].buckets =
                   IF n # <<>> /\ m = Front(n)
                   THEN PlaceChild(payload[m].buckets, Last(n), out - payload[m].start)
                   ELSE payload[m].buckets
         /\ \A m \in DOMAIN payload : payload'[m].buckets \in Seq(Slots) =>
              payload'[m] \in Records
         /\ UNCHANGED <<opts, hash, tree, cursor>>
<1>1. n \in Paths /\ n \notin DOMAIN payload /\ phase = "serialize"
  BY TreeIsClosed DEF SerializeNode
<1>2. ASSUME n # <<>> PROVE Front(n) \in DOMAIN payload
  <2>1. Front(n) \in DOMAIN tree
    BY <1>1, <1>2, FrontMeans, TreeIsClosed
  <2>2. Front(n) # n /\ ~Precedes(n, Front(n))
    BY <1>1, <1>2, ParentComesFirst
  <2>3. \A m \in DOMAIN tree \ DOMAIN payload : m = n \/ Precedes(n, m)
    BY DEF SerializeNode
  <2> QED
    BY <2>1, <2>2, <2>3
<1> DEFINE parent == IF n = <<>> THEN {} ELSE {Front(n)}
           fresh == [start |-> out, cone |-> ConePolicy(n), node |-> NodePolicy(n),
                     buckets |-> [i \in 1 .. BucketCount(n) |-> EmptySlot]]
           B(m) == IF m \in parent
                   THEN PlaceChild(payload[m].buckets, Last(n), out - payload[m].start)
                   ELSE payload[m].buckets
<1>3. payload' = [m \in DOMAIN payload \cup {n} |->
                    IF m = n THEN fresh ELSE [payload[m] EXCEPT !.buckets = B(m)]]
  BY DEF SerializeNode
<1>4. \A m : B(m) = IF n # <<>> /\ m = Front(n)
                    THEN PlaceChild(payload[m].buckets, Last(n), out - payload[m].start)
                    ELSE payload[m].buckets
  OBVIOUS
<1> HIDE DEF B, fresh
<1>5. DOMAIN payload' = DOMAIN payload \cup {n} /\ payload'[n] = fresh
      /\ \A m \in DOMAIN payload : payload'[m] = [payload[m] EXCEPT !.buckets = B(m)]
  BY <1>1, <1>3
<1>6. ASSUME NEW m \in DOMAIN payload
      PROVE  /\ payload'[m].start = payload[m].start
             /\ payload'[m].cone = payload[m].cone
             /\ payload'[m].node = payload[m].node
             /\ payload'[m].buckets = B(m)
             /\ payload'[m].buckets \in Seq(Slots) => payload'[m] \in Records
  <2> DEFINE r == payload[m]
             b == B(m)
             q == payload'[m]
  <2>1. r \in Records /\ q = [r EXCEPT !.buckets = b]
    BY <1>5 DEF Serialized, RecordIs
  <2> HIDE DEF r, b, q
  <2>2. q.start = r.start /\ q.cone = r.cone /\ q.node = r.node /\ q.buckets = b
    BY <2>1 DEF Records
  <2>3. b \in Seq(Slots) => q \in Records
    BY <2>1 DEF Records
  <2> QED
    BY <2>2, <2>3 DEF r, b, q
<1>7. UNCHANGED <<opts, hash, tree, cursor>>
  BY DEF SerializeNode
<1> QED
  BY <1>1, <1>2, <1>4, <1>5, <1>6, <1>7 DEF fresh

LEMMA OutStaysAligned ==
  ASSUME out \in Nat, out % 4 = 0, NEW n \in Paths, BucketCount(n) \in Nat, SerializeNode(n)
  PROVE  out' \in Nat /\ out' % 4 = 0
<1> DEFINE b == BucketCount(n)
           w == FragmentBytes(n)
<1>1. w \in Nat /\ (n = <<>> => w = 4)
  <2>1. CASE n = <<>>
    BY <2>1 DEF FragmentBytes
  <2>2. CASE n # <<>>
    <3>1. Last(n) \in Nat
      BY <2>2, FrontMeans, ManifestParameters
    <3> QED
      BY <2>2, <3>1 DEF FragmentBytes
  <2> QED
    BY <2>1, <2>2
<1>2. out' = IF n = <<>> THEN out + 16 + 4 * b + w ELSE Pad4(out + 16 + 4 * b + w)
  BY DEF SerializeNode
<1> HIDE DEF b, w
<1>3. b \in Nat
  BY DEF b
<1> QED
  BY <1>1, <1>2, <1>3 DEF Pad4

LEMMA NewTable ==
  ASSUME NEW h, NEW k \in Nat, NEW B, B = [i \in 1 .. k |-> EmptySlot]
  PROVE  Tabled(h, B, {}) /\ Len(B) = k /\ \A i \in 1 .. Len(B) : B[i].low = 0
<1>1. EmptySlot \in Slots /\ EmptySlot.child = NoChild /\ EmptySlot.low = 0
  BY DEF EmptySlot, Slots, NoChild
<1>2. B \in Seq(Slots) /\ Len(B) = k /\ \A i \in 1 .. k : B[i] = EmptySlot
  BY <1>1
<1> QED
  BY <1>1, <1>2 DEF Tabled

\* What the children of a node, as far as written, are after one step.
LEMMA WrittenMeans ==
  ASSUME Inputs, Building, Serialized, NEW n \in DOMAIN tree, SerializeNode(n)
  PROVE  /\ Written(n)' = {}
         /\ n # <<>> => /\ Last(n) \in Children(Front(n)) \ Written(Front(n))
                        /\ Written(Front(n))' = Written(Front(n)) \cup {Last(n)}
         /\ \A m \in DOMAIN payload : ~(n # <<>> /\ m = Front(n)) => Written(m)' = Written(m)
         /\ \A m : Written(m) \subseteq Children(m)
<1>1. /\ n \in Paths /\ n \notin DOMAIN payload /\ DOMAIN payload' = DOMAIN payload \cup {n}
      /\ n # <<>> => Front(n) \in DOMAIN payload
  BY NodeWritten
<1>2. DOMAIN payload \in SUBSET Paths
  BY TreeIsClosed DEF Serialized
<1>3. \A m \in Paths, f \in Frag :
        /\ Append(m, f) # <<>> /\ Front(Append(m, f)) = m /\ Last(Append(m, f)) = f
        /\ Append(m, f) # m
  <2> SUFFICES ASSUME NEW m \in Paths, NEW f \in Frag
               PROVE  /\ Append(m, f) # <<>> /\ Front(Append(m, f)) = m
                      /\ Last(Append(m, f)) = f /\ Append(m, f) # m
    OBVIOUS
  <2>1. Len(m) \in Nat /\ Len(Append(m, f)) = Len(m) + 1
    BY AppendMeans, PathLength
  <2> QED
    BY <2>1, AppendMeans
<1>4. Written(n)' = {}
  <2> SUFFICES ASSUME NEW f \in Frag PROVE Append(n, f) \notin DOMAIN payload'
    BY DEF Written
  <2>1. Append(n, f) \notin DOMAIN payload
    BY <1>1, <1>3 DEF Serialized
  <2> QED
    BY <1>1, <1>3, <2>1
<1>5. ASSUME n # <<>>
      PROVE  /\ Last(n) \in Children(Front(n)) \ Written(Front(n))
             /\ Written(Front(n))' = Written(Front(n)) \cup {Last(n)}
  <2>1. Last(n) \in Frag /\ Append(Front(n), Last(n)) = n /\ Front(n) \in Paths
    BY <1>1, <1>5, FrontMeans
  <2>2. \A f \in Frag : Append(Front(n), f) = n => f = Last(n)
    BY <1>3, <2>1
  <2> QED
    BY <1>1, <2>1, <2>2 DEF Children, Written
<1>6. ASSUME NEW m \in DOMAIN payload, ~(n # <<>> /\ m = Front(n))
      PROVE  Written(m)' = Written(m)
  <2>1. \A f \in Frag : Append(m, f) # n
    BY <1>2, <1>3, <1>6
  <2> QED
    BY <1>1, <2>1 DEF Written
<1>7. \A m : Written(m) \subseteq Children(m)
  BY DEF Written, Children, Serialized
<1> QED
  BY <1>4, <1>5, <1>6, <1>7

LEMMA RecordsWritten ==
  ASSUME Inputs, Building, Serialized, NEW n \in DOMAIN tree, SerializeNode(n)
  PROVE  \A m \in DOMAIN payload \cup {n} : RecordIs(m)'
<1>1. /\ phase = "serialize" /\ n \in Paths /\ n \notin DOMAIN payload
      /\ n # <<>> => Front(n) \in DOMAIN payload
      /\ DOMAIN payload' = DOMAIN payload \cup {n}
      /\ payload'[n] = [start |-> out, cone |-> ConePolicy(n), node |-> NodePolicy(n),
                        buckets |-> [i \in 1 .. BucketCount(n) |-> EmptySlot]]
      /\ \A m \in DOMAIN payload :
           /\ payload'[m].start = payload[m].start
           /\ payload'[m].buckets =
                IF n # <<>> /\ m = Front(n)
                THEN PlaceChild(payload[m].buckets, Last(n), out - payload[m].start)
                ELSE payload[m].buckets
           /\ payload'[m].buckets \in Seq(Slots) => payload'[m] \in Records
      /\ hash' = hash /\ tree' = tree
  BY NodeWritten
<1>2. \A m : BucketCount(m)' = BucketCount(m)
  BY <1>1 DEF BucketCount, Children
<1>3. out \in Nat /\ out % 4 = 0
  BY <1>1 DEF Serialized
<1>4. \A m \in DOMAIN payload : m \in Paths /\ RecordIs(m)
  BY TreeIsClosed DEF Serialized
<1>5. RecordIs(n)'
  <2> DEFINE B == [i \in 1 .. BucketCount(n) |-> EmptySlot]
  <2>1. BucketCount(n) \in Nat
    BY <1>1, ChildrenMeans
  <2>2. Tabled(hash, B, {}) /\ Len(B) = BucketCount(n) /\ \A i \in 1 .. Len(B) : B[i].low = 0
    BY <2>1, NewTable
  <2> HIDE DEF B
  <2>3. ConePolicy(n) \in SUBSET MaskNothing /\ NodePolicy(n) \in SUBSET MaskNothing
    <3>1. PICK S, R, G : Holds(tree, S, R, G)
      BY DEF Building
    <3>2. /\ {tree[n].coneMask, tree[n].coneValues} \subseteq SUBSET MaskNothing
          /\ {tree[n].nodeMask, tree[n].nodeValues} \subseteq SUBSET MaskNothing
      BY <3>1, TreeClosed
    <3>3. ConePolicy(n) \in SUBSET MaskNothing
      BY <3>2 DEF ConePolicy
    <3> QED
      BY <3>2, <3>3 DEF NodePolicy
  <2>4. B \in Seq(Slots)
    BY <2>2 DEF Tabled
  <2>5. payload'[n] = [start |-> out, cone |-> ConePolicy(n), node |-> NodePolicy(n),
                       buckets |-> B]
    BY <1>1 DEF B
  <2>6. payload'[n] \in Records /\ payload'[n].start = out /\ payload'[n].buckets = B
    BY <1>3, <2>3, <2>4, <2>5 DEF Records
  <2>7. Written(n)' = {}
    BY WrittenMeans
  <2>8. Tabled(hash', payload'[n].buckets, Written(n)')
    BY <1>1, <2>2, <2>6, <2>7
  <2> QED
    BY <1>2, <1>3, <2>2, <2>6, <2>8 DEF RecordIs
<1>6. ASSUME n # <<>>
      PROVE  RecordIs(Front(n))'
  <2> DEFINE m == Front(n)
             f == Last(n)
             B == payload[m].buckets
             C == payload'[m].buckets
             K == Written(m)
             offset == out - payload[m].start
  <2>1. m \in DOMAIN payload /\ m \in Paths /\ RecordIs(m)
    BY <1>1, <1>4, <1>6
  <2>2. /\ payload[m].start \in Nat /\ payload[m].start % 4 = 0
        /\ Len(B) = BucketCount(m) /\ Tabled(hash, B, K)
        /\ \A i \in 1 .. Len(B) : B[i].low = 0
    BY <2>1 DEF RecordIs, Records
  <2>3. C = PlaceChild(B, f, offset)
    BY <1>1, <1>6, <2>1
  <2>4. offset \in Int /\ offset % 4 = 0
    <3> DEFINE s == payload[m].start
    <3>1. s \in Nat /\ s % 4 = 0
      BY <2>2
    <3> HIDE DEF s
    <3>2. out - s \in Int /\ (out - s) % 4 = 0
      BY <1>3, <3>1
    <3> QED
      BY <3>2 DEF s
  <2>5. f \in Children(m) \ K /\ Written(m)' = K \cup {f} /\ K \subseteq Children(m)
    BY <1>6, WrittenMeans
  <2>6. /\ K \in SUBSET Frag /\ f \in Frag \ K
        /\ IsFiniteSet(Children(m)) /\ Cardinality(Children(m)) <= BucketCount(m)
        /\ BucketCount(m) \in Nat
    BY <2>1, <2>5, ChildrenMeans DEF Children
  <2>7. IsFiniteSet(K) /\ Cardinality(K) < Cardinality(Children(m))
        /\ Cardinality(K) \in Nat /\ Cardinality(Children(m)) \in Nat
    <3>1. IsFiniteSet(K) /\ Cardinality(K) <= Cardinality(Children(m))
          /\ (Cardinality(K) = Cardinality(Children(m)) => K = Children(m))
      BY <2>5, <2>6, FS_Subset
    <3>2. Cardinality(K) \in Nat /\ Cardinality(Children(m)) \in Nat
      BY <2>6, <3>1, FS_CardinalityType
    <3> QED
      BY <2>5, <3>1, <3>2
  <2> HIDE DEF m, f, B, C, K, offset
  <2>8. Cardinality(K) < Len(B)
    BY <2>2, <2>6, <2>7
  <2>9. /\ Tabled(hash, C, K \cup {f}) /\ Len(C) = Len(B)
        /\ \A i \in 1 .. Len(C) : C[i].low = offset % 4 \/ C[i].low = B[i].low
    <3>1. f \in Frag \ K /\ K \in SUBSET Frag /\ offset \in Int /\ IsFiniteSet(K)
          /\ Tabled(hash, B, K) /\ Cardinality(K) < Len(B)
      BY <2>2, <2>4, <2>6, <2>7, <2>8
    <3>2. TakesChild(hash, B, K, f, offset % 4, C)
      BY <2>3, <3>1, ChildPlaced
    <3> QED
      BY <3>2 DEF TakesChild
  <2>10. \A i \in 1 .. Len(C) : C[i].low = 0
    BY <2>2, <2>4, <2>9
  <2>11. payload'[m] \in Records /\ payload'[m].start = payload[m].start
    <3>1. C \in Seq(Slots)
      BY <2>9 DEF Tabled
    <3> QED
      BY <1>1, <2>1, <3>1 DEF C
  <2>12. Tabled(hash', payload'[m].buckets, Written(m)')
    BY <1>1, <2>5, <2>9 DEF C
  <2>13. RecordIs(m)'
    BY <1>2, <2>2, <2>9, <2>10, <2>11, <2>12 DEF RecordIs, C
  <2> QED
    BY <2>13 DEF m
<1>7. ASSUME NEW m \in DOMAIN payload, ~(n # <<>> /\ m = Front(n))
      PROVE  RecordIs(m)'
  <2>1. /\ payload'[m].start = payload[m].start
        /\ payload'[m].buckets = payload[m].buckets
        /\ payload'[m].buckets \in Seq(Slots) => payload'[m] \in Records
    BY <1>1, <1>7
  <2>2. Written(m)' = Written(m)
    BY <1>7, WrittenMeans
  <2>3. RecordIs(m)
    BY <1>4
  <2>4. Tabled(hash', payload'[m].buckets, Written(m)')
    BY <1>1, <2>1, <2>2, <2>3 DEF RecordIs
  <2>5. payload'[m] \in Records
    BY <2>1, <2>3 DEF RecordIs, Tabled
  <2> QED
    BY <1>2, <2>1, <2>3, <2>4, <2>5 DEF RecordIs
<1> QED
  BY <1>1, <1>5, <1>6, <1>7

LEMMA SerializedStep == Inputs /\ Building /\ Serialized /\ [Next]_vars => Serialized'
<1> SUFFICES ASSUME Inputs, Building, Serialized, [Next]_vars PROVE Serialized'
  OBVIOUS
<1>1. CASE \E n \in DOMAIN tree : SerializeNode(n)
  <2>1. PICK n \in DOMAIN tree : SerializeNode(n)
    BY <1>1
  <2>2. /\ phase = "serialize" /\ n \in Paths /\ n # <<>> => Front(n) \in DOMAIN payload
        /\ DOMAIN payload' = DOMAIN payload \cup {n} /\ tree' = tree
    BY <2>1, NodeWritten
  <2>3. \A m \in DOMAIN payload' : RecordIs(m)'
    BY <2>1, <2>2, RecordsWritten
  <2>4. out' \in Nat /\ out' % 4 = 0
    <3>1. n \in Paths /\ phase = "serialize"
      BY <2>1, NodeWritten
    <3>2. BucketCount(n) \in Nat
      BY <3>1, ChildrenMeans
    <3> QED
      BY <2>1, <3>1, <3>2, OutStaysAligned DEF Serialized
  <2>5. phase' = IF DOMAIN payload' = DOMAIN tree THEN "run" ELSE "serialize"
    BY <2>1 DEF SerializeNode
  <2>6. \A m \in DOMAIN payload' : m # <<>> => Front(m) \in DOMAIN payload'
    <3>1. n # <<>> => Front(n) \in DOMAIN payload
      BY <2>1, NodeWritten
    <3> QED
      BY <2>2, <3>1 DEF Serialized
  <2>7. DOMAIN payload' \subseteq DOMAIN tree'
    BY <2>2 DEF Serialized
  <2> QED
    BY <2>2, <2>3, <2>4, <2>5, <2>6, <2>7 DEF Serialized
<1>2. CASE Build
  <2>1. TreeStart \in Nat /\ TreeStart % 4 = 0
    BY TreeStartAligned
  <2>2. /\ phase = "build" /\ phase' = "serialize" /\ out' = TreeStart
        /\ UNCHANGED <<tree, payload, hash>>
    BY <1>2 DEF Build
  <2>3. DOMAIN payload' = {}
    BY <2>2 DEF Serialized
  <2> QED
    BY <2>1, <2>2, <2>3 DEF Serialized
<1>3. CASE \/ AddRootScope \/ AddWorkingDir \/ AddTool
           \/ AddReadonlyFiles \/ AddWritableFiles \/ AddBlockedFiles
           \/ FindOutputDirs \/ AddOutputDirs \/ AddOverlayRoot \/ BadPath
           \/ \E d \in todo : CreateOutputDir(d)
  <2>1. /\ phase \notin {"serialize", "run"} /\ phase' \notin {"serialize", "run"}
        /\ UNCHANGED <<out, payload>>
    BY <1>3 DEF AddRootScope, AddWorkingDir, AddTool, AddReadonlyFiles,
         AddWritableFiles, AddBlockedFiles, FindOutputDirs, AddOutputDirs, AddOverlayRoot,
         BadPath, CreateOutputDir, Scopes
  <2> QED
    BY <2>1 DEF Serialized
<1>4. CASE \/ Dead \/ Release
           \/ \E p \in Looked : Initialize(p)
           \/ \E f \in Frag : GetPolicyForSubpath(f)
           \/ UNCHANGED vars
  <2>1. UNCHANGED <<phase, out, payload, tree, hash>>
    BY <1>4 DEF Dead, Release, Initialize, GetPolicyForSubpath, vars
  <2> QED
    BY <2>1 DEF Serialized, RecordIs, Written, BucketCount, Children
<1> QED
  BY <1>1, <1>2, <1>3, <1>4 DEF Next

LEMMA SerializedInit == Init => Serialized
BY DEF Init, Serialized, NoPayload

-----------------------------------------------------------------------------
(* The policies of the records                                             *)

\* q is the deepest path of S at or above n.
Deepest(S, n, q) ==
    /\ q \in S \cap Prefixes(n)
    /\ \A s \in S \cap Prefixes(n) : Len(s) <= Len(q)

\* A record has the grant of the deepest scope, and an output directory what
\* is revealed of it.
Granting ==
    \A n \in DOMAIN payload :
      /\ \E q : Deepest(Scoped(opts), n, q) /\ payload[n].cone = Granted(opts, q)
      /\ payload[n].node =
           IF n \in OutputDirs(opts) THEN OutputDirPolicy ELSE payload[n].cone

LEMMA TreeAtTheEnd ==
  ASSUME Building, phase \in {"build", "serialize", "run"}
  PROVE  /\ Scoped(opts) \cup OutputDirs(opts) \subseteq DOMAIN tree
         /\ Scoped(opts) \in SUBSET Paths
         /\ \A n \in DOMAIN tree :
              /\ tree[n].coneMask = IF n \in Scoped(opts) THEN {} ELSE MaskNothing
              /\ tree[n].coneValues = Granted(opts, n)
              /\ tree[n].nodeMask = IF n \in OutputDirs(opts) THEN {} ELSE MaskNothing
              /\ tree[n].nodeValues =
                   IF n \in OutputDirs(opts) THEN OutputDirPolicy ELSE {}
              /\ n \notin Scoped(opts) => Granted(opts, n) = {}
         /\ \A q \in Paths : Granted(opts, q) \in SUBSET MaskNothing
<1> DEFINE S == Scoped(opts)
           R == OutputDirs(opts)
           G == AllGrants(opts)
<1>1. Holds(tree, S, R, G)
  BY ScopesAreScoped DEF Building
<1>2. \A q \in Paths : G[q] = Granted(opts, q)
  BY GrantsAreGranted
<1> HIDE DEF S, R, G
<1>3. /\ S \cup R \subseteq DOMAIN tree /\ DOMAIN tree \in SUBSET Paths /\ S \in SUBSET Paths
  BY <1>1, TreeClosed DEF Holds
<1>4. /\ G \in [Paths -> SUBSET MaskNothing] /\ \A q \in Paths : q \notin S => G[q] = {}
      /\ \A n \in DOMAIN tree : tree[n] = NodeFor(n, S, R, G)
  BY <1>1 DEF Holds, IsGrant, TreeIs
<1>5. ASSUME NEW n \in DOMAIN tree
      PROVE  /\ tree[n].coneMask = IF n \in S THEN {} ELSE MaskNothing
             /\ tree[n].coneValues = Granted(opts, n)
             /\ tree[n].nodeMask = IF n \in R THEN {} ELSE MaskNothing
             /\ tree[n].nodeValues = IF n \in R THEN OutputDirPolicy ELSE {}
             /\ n \notin S => Granted(opts, n) = {}
  <2>1. n \in Paths /\ G[n] = Granted(opts, n)
    BY <1>2, <1>3
  <2>2. tree[n] = NodeFor(n, S, R, G)
    BY <1>4
  <2> QED
    BY <1>4, <2>1, <2>2 DEF NodeFor
<1>6. \A q \in Paths : Granted(opts, q) \in SUBSET MaskNothing
  BY <1>2, <1>4
<1> QED
  BY <1>3, <1>5, <1>6 DEF S, R

\* The deepest scope at a node is the node itself or the one its parent has.
LEMMA DeepestMeans ==
  ASSUME NEW S \in SUBSET Paths, NEW n \in Paths
  PROVE  /\ n \in S => Deepest(S, n, n)
         /\ n \notin S /\ n # <<>> => \A q : Deepest(S, Front(n), q) => Deepest(S, n, q)
         /\ \A q, r : Deepest(S, n, q) /\ Deepest(S, n, r) => q = r
<1>1. n \in Prefixes(n) /\ \A q \in Prefixes(n) : Len(q) <= Len(n)
  BY PrefixOrder, PrefixMeans
<1>2. n \notin S /\ n # <<>> => S \cap Prefixes(n) = S \cap Prefixes(Front(n))
  BY FrontMeans
<1>3. ASSUME NEW q, NEW r, Deepest(S, n, q), Deepest(S, n, r) PROVE q = r
  <2>1. q \in Prefixes(n) /\ r \in Prefixes(n) /\ Len(q) <= Len(r) /\ Len(r) <= Len(q)
    BY <1>3 DEF Deepest
  <2>2. Len(q) \in Nat /\ Len(r) \in Nat
    BY <2>1, PrefixOrder, PathLength
  <2> QED
    BY <2>1, <2>2, PrefixOrder
<1> QED
  BY <1>1, <1>2, <1>3 DEF Deepest

LEMMA GrantingStep ==
  Inputs /\ Building /\ Serialized /\ Granting /\ [Next]_vars => Granting'
<1> SUFFICES ASSUME Inputs, Building, Serialized, Granting, [Next]_vars PROVE Granting'
  OBVIOUS
<1>1. CASE \E n \in DOMAIN tree : SerializeNode(n)
  <2>1. PICK n \in DOMAIN tree : SerializeNode(n)
    BY <1>1
  <2>2. /\ phase = "serialize" /\ n \in Paths
        /\ n # <<>> => Front(n) \in DOMAIN payload
        /\ n \notin DOMAIN payload /\ DOMAIN payload' = DOMAIN payload \cup {n}
        /\ \A m \in DOMAIN payload : /\ payload'[m].cone = payload[m].cone
                                     /\ payload'[m].node = payload[m].node
        /\ opts' = opts
    BY <2>1, NodeWritten
  <2>3. payload'[n].cone = ConePolicy(n) /\ payload'[n].node = NodePolicy(n)
    <3>1. payload'[n] = [start |-> out, cone |-> ConePolicy(n), node |-> NodePolicy(n),
                         buckets |-> [i \in 1 .. BucketCount(n) |-> EmptySlot]]
      BY <2>1, NodeWritten
    <3> QED
      BY <3>1
  <2> DEFINE S == Scoped(opts)
             R == OutputDirs(opts)
  <2>4. /\ S \in SUBSET Paths /\ <<>> \in S
        /\ tree[n].coneMask = IF n \in S THEN {} ELSE MaskNothing
        /\ tree[n].coneValues = Granted(opts, n)
        /\ tree[n].nodeMask = IF n \in R THEN {} ELSE MaskNothing
        /\ tree[n].nodeValues = IF n \in R THEN OutputDirPolicy ELSE {}
        /\ n \notin S => Granted(opts, n) = {}
        /\ \A q \in Paths : Granted(opts, q) \in SUBSET MaskNothing
    <3>1. <<>> \in S
      BY DEF Scoped
    <3> QED
      BY <2>2, <3>1, TreeAtTheEnd
  <2> HIDE DEF S, R
  <2>5. \E q : Deepest(S, n, q) /\ ConePolicy(n) = Granted(opts, q)
    <3>1. CASE n \in S
      <4>1. ConePolicy(n) = Granted(opts, n)
        BY <2>4, <3>1 DEF ConePolicy
      <4> QED
        BY <2>2, <2>4, <3>1, <4>1, DeepestMeans
    <3>2. CASE n \notin S
      <4>1. n # <<>> /\ Front(n) \in DOMAIN payload
        BY <2>2, <2>4, <3>2
      <4>2. PICK q : Deepest(S, Front(n), q) /\ payload[Front(n)].cone = Granted(opts, q)
        BY <4>1 DEF Granting, S
      <4>3. q \in Paths
        BY <2>4, <4>2 DEF Deepest
      <4>4. ConePolicy(n) = (Granted(opts, q) \cap MaskNothing) \cup {}
        BY <2>4, <3>2, <4>1, <4>2 DEF ConePolicy
      <4>5. Granted(opts, q) \in SUBSET MaskNothing
        BY <2>4, <4>3
      <4>6. ConePolicy(n) = Granted(opts, q)
        BY <4>4, <4>5
      <4>7. Deepest(S, n, q)
        BY <2>2, <2>4, <3>2, <4>1, <4>2, DeepestMeans
      <4> QED
        BY <4>6, <4>7
    <3> QED
      BY <3>1, <3>2
  <2>6. NodePolicy(n) = IF n \in R THEN OutputDirPolicy ELSE ConePolicy(n)
    <3>1. CASE n \in R
      BY <2>4, <3>1 DEF NodePolicy
    <3>2. CASE n \notin R
      <4>1. ConePolicy(n) \in SUBSET MaskNothing
        <5>1. PICK q : Deepest(S, n, q) /\ ConePolicy(n) = Granted(opts, q)
          BY <2>5
        <5>2. q \in Paths
          BY <2>4, <5>1 DEF Deepest
        <5> QED
          BY <2>4, <5>1, <5>2
      <4>2. NodePolicy(n) = (ConePolicy(n) \cap MaskNothing) \cup {}
        BY <2>4, <3>2 DEF NodePolicy
      <4>3. NodePolicy(n) = ConePolicy(n)
        BY <4>1, <4>2
      <4> QED
        BY <3>2, <4>3
    <3> QED
      BY <3>1, <3>2
  <2> QED
    BY <2>2, <2>3, <2>5, <2>6 DEF Granting, S, R
<1>2. CASE /\ UNCHANGED <<payload, opts>>
  BY <1>2 DEF Granting
<1>3. CASE \/ AddRootScope \/ AddWorkingDir \/ AddTool
           \/ AddReadonlyFiles \/ AddWritableFiles \/ AddBlockedFiles
           \/ FindOutputDirs \/ AddOutputDirs \/ AddOverlayRoot \/ BadPath
           \/ \E d \in todo : CreateOutputDir(d)
           \/ Build \/ Dead \/ Release
           \/ \E p \in Looked : Initialize(p)
           \/ \E f \in Frag : GetPolicyForSubpath(f)
           \/ UNCHANGED vars
  <2>1. UNCHANGED <<payload, opts>>
    BY <1>3 DEF AddRootScope, AddWorkingDir, AddTool, AddReadonlyFiles,
         AddWritableFiles, AddBlockedFiles, FindOutputDirs, AddOutputDirs, AddOverlayRoot,
         BadPath, CreateOutputDir, Scopes, Build, Dead, Release, Initialize,
         GetPolicyForSubpath, vars
  <2> QED
    BY <1>2, <2>1
<1> QED
  BY <1>1, <1>3 DEF Next

LEMMA GrantingInit == Init => Granting
BY DEF Init, Granting, NoPayload

-----------------------------------------------------------------------------
(* The searches                                                            *)

\* What the DLL hashes: a fragment, or a server's with its separators.
Hashed == Frag \cup {WithSeparators(f) : f \in Servers}

LEMMA HashedMeans ==
  ASSUME NEW x \in Hashed
  PROVE  /\ x # NoChild
         /\ x \notin Frag => \E f \in Servers : x = WithSeparators(f)
         /\ \A f \in Servers : WithSeparators(f) \in Hashed \ Frag
BY ManifestParameters DEF Hashed, WithSeparators, NoChild

\* FindChild finds exactly the children the tree has.
LEMMA FindChildMeans ==
  ASSUME Inputs, Serialized, phase = "run", NEW rec \in DOMAIN tree, NEW f \in Hashed
  PROVE  /\ FindChild(rec, f) <=> f \in Frag /\ Append(rec, f) \in DOMAIN tree
         /\ FindChild(rec, f) => payload[rec].buckets # <<>>
<1> DEFINE B == payload[rec].buckets
           K == Written(rec)
           At(k) == B[Slot(B, hash[f], k)]
           Reached(k) == k = 0 \/ (At(0).start /\ \A j \in 1 .. k - 1 : At(j).continuation)
<1>1. DOMAIN payload = DOMAIN tree /\ RecordIs(rec)
  BY DEF Serialized
<1>2. Tabled(hash, B, K) /\ B \in Seq(Slots)
  BY <1>1 DEF RecordIs, Tabled
<1>3. K = {g \in Frag : Append(rec, g) \in DOMAIN tree}
  BY <1>1 DEF Written
<1>4. f # NoChild /\ hash[f] \in Nat
  BY HashedMeans DEF Inputs, Hashed
<1>5. FindChild(rec, f) <=> \E k \in 0 .. Len(B) - 1 : At(k).child = f /\ Reached(k)
  BY DEF FindChild
<1> HIDE DEF B, K
<1>6. ASSUME NEW k \in 0 .. Len(B) - 1, At(k).child = f
      PROVE  f \in K
  <2>1. Len(B) # 0 /\ k \in Nat
    BY <1>2, <1>6
  <2>2. Slot(B, hash[f], k) \in 1 .. Len(B)
    BY <1>2, <1>4, <2>1, SlotIsOne
  <2> QED
    BY <1>2, <1>4, <1>6, <2>2 DEF Tabled
<1>7. ASSUME f \in K
      PROVE  \E k \in 0 .. Len(B) - 1 : At(k).child = f /\ Reached(k)
  <2>1. PICK k \in 0 .. Len(B) - 1 : FoundAt(hash, B, f, k)
    BY <1>2, <1>7 DEF Tabled
  <2>2. /\ At(k).child = f /\ (k > 0 => At(0).start)
        /\ \A j \in 1 .. k - 1 : At(j).continuation
    BY <2>1 DEF FoundAt
  <2>3. k = 0 \/ k > 0
    BY <1>2, <2>1
  <2> QED
    BY <2>1, <2>2, <2>3
<1>8. FindChild(rec, f) <=> f \in K
  BY <1>5, <1>6, <1>7
<1>9. FindChild(rec, f) => Len(B) # 0
  BY <1>2, <1>5
<1> QED
  BY <1>2, <1>3, <1>8, <1>9 DEF B

Searches == [path : Paths, rec : Paths, truncated : BOOLEAN]

\* A search of all of p has come as deep as the tree goes along p.
SearchedAll(T, c, p) ==
    /\ c.rec \in Prefixes(p)
    /\ ~c.truncated => c.rec = p
    /\ c.truncated => /\ Len(c.rec) < Len(p)
                      /\ Append(c.rec, p[Len(c.rec) + 1]) \notin T

\* And one whose first fragment the tree cannot have stays at the root.
StaysAtRoot(c) == c.rec = <<>> /\ c.truncated

SearchInv(s, c) ==
    /\ c \in Searches /\ c.path = <<>> /\ c.rec \in DOMAIN tree
    /\ s \in Seq(Frag) => SearchedAll(DOMAIN tree, c, s)
    /\ s = <<>> => c = TreeRoot
    /\ s # <<>> /\ s[1] \notin Frag => StaysAtRoot(c)

Search == INSTANCE FoldProofs WITH Step <- Descend, Base <- TreeRoot, Inv <- SearchInv
Resumed == INSTANCE FoldProofs WITH Step <- Descend, Base <- cursor, Inv <- SearchInv

LEMMA SearchIsFold ==
  ASSUME NEW s PROVE FindFileAccessPolicyInTreeEx(TreeRoot, s) = Search!Fold(s)
BY DEF FindFileAccessPolicyInTreeEx, Search!Fold, Search!FoldLeft, Search!MapThenFoldSet,
       FoldLeft, MapThenFoldSet, Max, Search!Max

LEMMA ResumedIsFold ==
  ASSUME NEW s PROVE FindFileAccessPolicyInTreeEx(cursor, s) = Resumed!Fold(s)
BY DEF FindFileAccessPolicyInTreeEx, Resumed!Fold, Resumed!FoldLeft, Resumed!MapThenFoldSet,
       FoldLeft, MapThenFoldSet, Max, Resumed!Max

LEMMA ResumedForOne ==
  ASSUME NEW f
  PROVE  FindFileAccessPolicyInTreeEx(cursor, <<f>>) = Descend(cursor, f)
<1>1. <<>> \in Seq({f}) /\ f \in {f} /\ Append(<<>>, f) = <<f>>
  OBVIOUS
<1>2. Resumed!Fold(Append(<<>>, f)) = Descend(Resumed!Fold(<<>>), f)
  BY <1>1, Resumed!FoldOfMore
<1>3. Resumed!Fold(<<>>) = cursor
  BY Resumed!FoldOfNone
<1> QED
  BY <1>1, <1>2, <1>3, ResumedIsFold

\* One turn of the search goes down where the tree does.
LEMMA DescendMeans ==
  ASSUME Inputs, Building, Serialized, phase = "run",
         NEW c \in Searches, c.rec \in DOMAIN tree, NEW f \in Hashed,
         NEW d, d = Descend(c, f)
  PROVE  /\ d \in Searches /\ d.path = c.path /\ d.rec \in DOMAIN tree
         /\ c.truncated => d = c
         /\ ~c.truncated /\ f \in Frag /\ Append(c.rec, f) \in DOMAIN tree =>
              ~d.truncated /\ d.rec = Append(c.rec, f)
         /\ ~c.truncated /\ ~(f \in Frag /\ Append(c.rec, f) \in DOMAIN tree) =>
              d.truncated /\ d.rec = c.rec
<1>1. /\ FindChild(c.rec, f) <=> f \in Frag /\ Append(c.rec, f) \in DOMAIN tree
      /\ FindChild(c.rec, f) => payload[c.rec].buckets # <<>>
  BY FindChildMeans
<1>2. DOMAIN tree \in SUBSET Paths
  BY TreeIsClosed
<1>3. CASE c.truncated
  BY <1>3 DEF Descend
<1>4. CASE ~c.truncated /\ FindChild(c.rec, f)
  <2>1. d = [c EXCEPT !.rec = Append(c.rec, f)] /\ Append(c.rec, f) \in Paths
    BY <1>1, <1>2, <1>4 DEF Descend
  <2>2. d \in Searches /\ d.path = c.path /\ d.rec = Append(c.rec, f)
        /\ d.truncated = c.truncated
    BY <2>1 DEF Searches
  <2> QED
    BY <1>1, <1>4, <2>2
<1>5. CASE ~c.truncated /\ ~FindChild(c.rec, f)
  <2>1. d = [c EXCEPT !.truncated = TRUE]
    BY <1>5 DEF Descend
  <2>2. d \in Searches /\ d.path = c.path /\ d.rec = c.rec /\ d.truncated
    BY <2>1 DEF Searches
  <2> QED
    BY <1>1, <1>5, <2>2
<1> QED
  BY <1>3, <1>4, <1>5

LEMMA SearchedMore ==
  ASSUME NEW p \in Paths, NEW f \in Frag, NEW c, NEW d, SearchedAll(DOMAIN tree, c, p),
         c.truncated => d = c,
         ~c.truncated /\ Append(c.rec, f) \in DOMAIN tree =>
           ~d.truncated /\ d.rec = Append(c.rec, f),
         ~c.truncated /\ Append(c.rec, f) \notin DOMAIN tree =>
           d.truncated /\ d.rec = c.rec
  PROVE  SearchedAll(DOMAIN tree, d, Append(p, f))
<1> DEFINE a == Append(p, f)
           n == Len(p)
<1>1. /\ p \in Seq(Frag) /\ n \in Nat /\ a \in Paths /\ Len(a) = n + 1 /\ a[n + 1] = f
      /\ \A i \in 1 .. n : a[i] = p[i]
  BY DEF Paths
<1> HIDE DEF a
<1>2. a \in Prefixes(a) /\ p \in Prefixes(a) /\ Prefixes(p) \subseteq Prefixes(a)
  <2>1. a \in Prefixes(a)
    BY <1>1, PrefixOrder
  <2>2. p \in Prefixes(a)
    <3>1. Len(p) <= Len(a) /\ \A i \in 1 .. Len(p) : p[i] = a[i]
      BY <1>1
    <3> QED
      BY <1>1, <3>1, PrefixMeans
  <2> QED
    BY <1>1, <2>1, <2>2, PrefixOrder
<1>3. CASE c.truncated
  <2>1. d = c /\ c.rec \in Prefixes(p) /\ Len(c.rec) < n
        /\ Append(c.rec, p[Len(c.rec) + 1]) \notin DOMAIN tree
    BY <1>3 DEF SearchedAll
  <2>2. Len(c.rec) \in Nat
    BY <2>1, PrefixOrder, PathLength
  <2>3. a[Len(c.rec) + 1] = p[Len(c.rec) + 1] /\ Len(c.rec) < Len(a)
    BY <1>1, <2>1, <2>2
  <2>4. SearchedAll(DOMAIN tree, d, a)
    BY <1>2, <1>3, <2>1, <2>3 DEF SearchedAll
  <2> QED
    BY <2>4 DEF a
<1>4. CASE ~c.truncated /\ Append(c.rec, f) \in DOMAIN tree
  <2>1. c.rec = p /\ ~d.truncated /\ d.rec = a
    BY <1>4 DEF SearchedAll, a
  <2>2. SearchedAll(DOMAIN tree, d, a)
    BY <1>2, <2>1 DEF SearchedAll
  <2> QED
    BY <2>2 DEF a
<1>5. CASE ~c.truncated /\ Append(c.rec, f) \notin DOMAIN tree
  <2>1. c.rec = p /\ d.truncated /\ d.rec = p /\ Append(p, f) \notin DOMAIN tree
    BY <1>5 DEF SearchedAll
  <2>2. SearchedAll(DOMAIN tree, d, a)
    BY <1>1, <1>2, <2>1 DEF SearchedAll
  <2> QED
    BY <2>2 DEF a
<1> QED
  BY <1>3, <1>4, <1>5

\* A search from the root.
LEMMA RootSearched ==
  ASSUME Inputs, Building, Serialized, phase = "run", NEW s \in Seq(Hashed)
  PROVE  SearchInv(s, FindFileAccessPolicyInTreeEx(TreeRoot, s))
<1>1. SearchInv(<<>>, TreeRoot)
  <2>1. <<>> \in DOMAIN tree /\ <<>> \in Paths /\ <<>> \in Prefixes(<<>>)
    BY TreeIsClosed, KnownPaths, PrefixOrder
  <2> QED
    BY <2>1 DEF SearchInv, SearchedAll, TreeRoot, Searches
<1>2. ASSUME NEW r \in Seq(Hashed), NEW x \in Hashed, NEW c, SearchInv(r, c)
      PROVE  SearchInv(Append(r, x), Descend(c, x))
  <2> DEFINE d == Descend(c, x)
             a == Append(r, x)
  <2>1. c \in Searches /\ c.path = <<>> /\ c.rec \in DOMAIN tree
    BY <1>2 DEF SearchInv
  <2>2. /\ d \in Searches /\ d.path = c.path /\ d.rec \in DOMAIN tree
        /\ c.truncated => d = c
        /\ ~c.truncated /\ x \in Frag /\ Append(c.rec, x) \in DOMAIN tree =>
             ~d.truncated /\ d.rec = Append(c.rec, x)
        /\ ~c.truncated /\ ~(x \in Frag /\ Append(c.rec, x) \in DOMAIN tree) =>
             d.truncated /\ d.rec = c.rec
    BY <2>1, DescendMeans
  <2> HIDE DEF d
  <2>3. /\ Len(r) \in Nat /\ Len(a) = Len(r) + 1 /\ a[Len(r) + 1] = x
        /\ \A i \in 1 .. Len(r) : a[i] = r[i]
    OBVIOUS
  <2>4. a # <<>>
    BY <2>3
  <2>5. ASSUME a \in Seq(Frag) PROVE SearchedAll(DOMAIN tree, d, a)
    <3>1. x \in Frag
      <4>1. Len(r) + 1 \in 1 .. Len(a)
        BY <2>3
      <4> QED
        BY <2>3, <2>5, <4>1
    <3>2. r \in Seq(Frag)
      <4>1. \A i \in 1 .. Len(r) : r[i] \in Frag
        <5> SUFFICES ASSUME NEW i \in 1 .. Len(r) PROVE r[i] \in Frag
          OBVIOUS
        <5>1. i \in 1 .. Len(a) /\ a[i] = r[i]
          BY <2>3
        <5> QED
          BY <2>5, <5>1
      <4>2. r = [i \in 1 .. Len(r) |-> r[i]]
        OBVIOUS
      <4> QED
        BY <2>3, <4>1, <4>2
    <3>3. SearchedAll(DOMAIN tree, c, r)
      BY <1>2, <3>2 DEF SearchInv
    <3> QED
      BY <2>2, <3>1, <3>2, <3>3, SearchedMore DEF Paths
  <2>6. ASSUME a[1] \notin Frag PROVE StaysAtRoot(d)
    <3>1. CASE r = <<>>
      <4>1. a[1] = x /\ c = TreeRoot
        BY <1>2, <2>3, <3>1 DEF SearchInv
      <4> QED
        BY <2>2, <2>6, <4>1 DEF TreeRoot, StaysAtRoot
    <3>2. CASE r # <<>>
      <4>1. Len(r) # 0
        BY <3>2
      <4>2. a[1] = r[1]
        BY <2>3, <4>1
      <4>3. StaysAtRoot(c)
        BY <1>2, <2>6, <3>2, <4>2 DEF SearchInv
      <4> QED
        BY <2>2, <4>3 DEF StaysAtRoot
    <3> QED
      BY <3>1, <3>2
  <2>7. SearchInv(a, d)
    BY <2>1, <2>2, <2>4, <2>5, <2>6 DEF SearchInv
  <2> QED
    BY <2>7 DEF d
<1>3. \A r \in Seq(Hashed) : SearchInv(r, Search!Fold(r))
  BY <1>1, <1>2, Search!FoldInduction
<1> QED
  BY <1>3, SearchIsFold

\* A path on a server stays at the root; any other is searched all through.
CursorAt(T, c, p) ==
    IF Head(p) \in Servers THEN StaysAtRoot(c) ELSE SearchedAll(T, c, p)

Searching ==
    /\ cursor \in Searches /\ cursor.rec \in Paths
    /\ phase # "run" => cursor = TreeRoot
    /\ phase = "run" => cursor.rec \in DOMAIN tree
    /\ cursor.path = <<>> => cursor = TreeRoot
    /\ cursor.path # <<>> =>
         cursor.path \in Looked /\ CursorAt(DOMAIN tree, cursor, cursor.path)

LEMMA FragmentsMeans ==
  ASSUME NEW p \in Paths, p # <<>>
  PROVE  /\ Fragments(p) \in Seq(Hashed) /\ Head(p) \in Frag /\ Head(p) = p[1]
         /\ Head(p) \notin Servers => Fragments(p) = p
         /\ Head(p) \in Servers =>
              Fragments(p) # <<>> /\ Fragments(p)[1] \notin Frag
<1>1. p \in Seq(Frag) /\ Len(p) \in Nat \ {0} /\ Head(p) = p[1]
  BY DEF Paths
<1>2. Head(p) \in Frag /\ Tail(p) \in Seq(Frag)
  BY <1>1
<1>3. Seq(Frag) \subseteq Seq(Hashed)
  BY DEF Hashed
<1>4. CASE Head(p) \notin Servers
  BY <1>1, <1>2, <1>3, <1>4 DEF Fragments
<1>5. CASE Head(p) \in Servers
  <2> DEFINE w == WithSeparators(Head(p))
             q == Tail(p)
  <2>1. w \in Hashed \ Frag
    <3>1. w \in Hashed
      BY <1>5 DEF Hashed
    <3>2. Head(p) \in Nat \ {0} /\ Frag \subseteq Nat
      BY <1>2, ManifestParameters
    <3>3. w \notin Nat
      BY <3>2 DEF WithSeparators
    <3> QED
      BY <3>1, <3>2, <3>3
  <2>2. q \in Seq(Hashed)
    BY <1>2, <1>3
  <2>3. Fragments(p) = <<w>> \o q
    BY <1>5 DEF Fragments
  <2> HIDE DEF w, q
  <2>4. /\ <<w>> \o q \in Seq(Hashed) /\ Len(<<w>> \o q) = 1 + Len(q)
        /\ (<<w>> \o q)[1] = w /\ Len(q) \in Nat
    BY <2>1, <2>2
  <2>5. <<w>> \o q # <<>>
    BY <2>4
  <2> QED
    BY <1>2, <1>5, <2>1, <2>3, <2>4, <2>5
<1> QED
  BY <1>4, <1>5

LEMMA SearchingStep ==
  Inputs /\ Building /\ Serialized /\ Searching /\ [Next]_vars => Searching'
<1> SUFFICES ASSUME Inputs, Building, Serialized, Searching, [Next]_vars PROVE Searching'
  OBVIOUS
<1>0. DOMAIN tree \in SUBSET Paths /\ <<>> \in DOMAIN tree
  BY TreeIsClosed
<1>1. CASE \E p \in Looked : Initialize(p)
  <2>1. PICK p \in Looked : Initialize(p)
    BY <1>1
  <2> DEFINE c == FindFileAccessPolicyInTreeEx(TreeRoot, Fragments(p))
             s == Fragments(p)
  <2>2. phase = "run" /\ phase' = phase /\ cursor' = [c EXCEPT !.path = p] /\ tree' = tree
    BY <2>1 DEF Initialize
  <2>3. p \in Paths /\ p # <<>>
    BY KnownPaths
  <2>4. SearchInv(s, c)
    <3>1. s \in Seq(Hashed)
      BY <2>3, FragmentsMeans
    <3> HIDE DEF s
    <3>2. SearchInv(s, FindFileAccessPolicyInTreeEx(TreeRoot, s))
      BY <2>2, <3>1, RootSearched
    <3> QED
      BY <3>2 DEF s
  <2> HIDE DEF c
  <2>5. c \in Searches /\ c.rec \in DOMAIN tree
    BY <2>4 DEF SearchInv
  <2>6. /\ cursor' \in Searches /\ cursor'.path = p /\ cursor'.rec = c.rec
        /\ cursor'.truncated = c.truncated
    BY <2>2, <2>3, <2>5 DEF Searches
  <2>7. CursorAt(DOMAIN tree, cursor', p)
    <3>1. CASE Head(p) \in Servers
      <4>1. StaysAtRoot(c)
        BY <2>3, <2>4, <3>1, FragmentsMeans DEF SearchInv
      <4> QED
        BY <2>6, <3>1, <4>1 DEF CursorAt, StaysAtRoot
    <3>2. CASE Head(p) \notin Servers
      <4>1. s = p /\ p \in Seq(Frag)
        BY <2>3, <3>2, FragmentsMeans DEF Paths
      <4> HIDE DEF s
      <4>2. SearchedAll(DOMAIN tree, c, p)
        BY <2>4, <4>1 DEF SearchInv
      <4> QED
        BY <2>2, <2>6, <3>2, <4>2 DEF CursorAt, SearchedAll
    <3> QED
      BY <3>1, <3>2
  <2> QED
    BY <1>0, <2>2, <2>3, <2>5, <2>6, <2>7 DEF Searching
<1>2. CASE \E f \in Frag : GetPolicyForSubpath(f)
  <2>1. PICK f \in Frag : GetPolicyForSubpath(f)
    BY <1>2
  <2> DEFINE d == Descend(cursor, f)
             p == cursor.path
             a == Append(p, f)
  <2>2. /\ phase = "run" /\ phase' = phase /\ tree' = tree /\ cursor # TreeRoot
        /\ cursor' = [d EXCEPT !.path = Append(@, f)]
    BY <2>1, ResumedForOne DEF GetPolicyForSubpath
  <2>3. /\ cursor \in Searches /\ cursor.rec \in DOMAIN tree /\ p # <<>> /\ p \in Paths
        /\ CursorAt(DOMAIN tree, cursor, p)
    BY <2>2 DEF Searching, Searches
  <2>4. f \in Hashed
    BY DEF Hashed
  <2>5. /\ d \in Searches /\ d.path = p /\ d.rec \in DOMAIN tree
        /\ cursor.truncated => d = cursor
        /\ ~cursor.truncated /\ Append(cursor.rec, f) \in DOMAIN tree =>
             ~d.truncated /\ d.rec = Append(cursor.rec, f)
        /\ ~cursor.truncated /\ Append(cursor.rec, f) \notin DOMAIN tree =>
             d.truncated /\ d.rec = cursor.rec
    BY <2>2, <2>3, <2>4, DescendMeans
  <2> HIDE DEF d
  <2>6. a \in Paths /\ a # <<>> /\ Head(a) = Head(p)
    <3>1. p \in Seq(Frag) /\ Len(p) # 0 /\ Len(p) \in Nat
      BY <2>3 DEF Paths
    <3>2. a \in Seq(Frag) /\ Len(a) # 0 /\ a[1] = p[1]
      BY <3>1
    <3>3. a \in Paths /\ a # <<>>
      BY <3>2 DEF Paths
    <3> HIDE DEF a, p
    <3> QED
      BY <2>3, <3>2, <3>3, FragmentsMeans
  <2>7. CursorAt(DOMAIN tree, d, a)
    <3>1. CASE Head(p) \in Servers
      BY <2>3, <2>5, <2>6, <3>1 DEF CursorAt, StaysAtRoot
    <3>2. CASE Head(p) \notin Servers
      <4>1. SearchedAll(DOMAIN tree, cursor, p)
        BY <2>3, <3>2 DEF CursorAt
      <4>2. SearchedAll(DOMAIN tree, d, a)
        BY <2>3, <2>5, <4>1, SearchedMore
      <4> QED
        BY <2>6, <3>2, <4>2 DEF CursorAt
    <3> QED
      BY <3>1, <3>2
  <2> HIDE DEF a
  <2>8. cursor' = [d EXCEPT !.path = a]
    BY <2>2, <2>5 DEF a
  <2>9. /\ cursor' \in Searches /\ cursor'.path = a /\ cursor'.rec = d.rec
        /\ cursor'.truncated = d.truncated
    BY <2>5, <2>6, <2>8 DEF Searches
  <2>10. a \in Looked
    BY <2>1 DEF GetPolicyForSubpath, a
  <2>11. CursorAt(DOMAIN tree, cursor', cursor'.path)
    BY <2>2, <2>7, <2>9 DEF CursorAt, StaysAtRoot, SearchedAll
  <2> QED
    BY <1>0, <2>2, <2>5, <2>6, <2>9, <2>10, <2>11 DEF Searching
<1>3. CASE Release
  <2>1. cursor' = TreeRoot /\ phase' = phase /\ tree' = tree
    BY <1>3 DEF Release
  <2>2. TreeRoot \in Searches /\ TreeRoot.path = <<>> /\ TreeRoot.rec = <<>>
    BY KnownPaths DEF TreeRoot, Searches
  <2> QED
    BY <1>0, <2>1, <2>2 DEF Searching
<1>4. CASE \E n \in DOMAIN tree : SerializeNode(n)
  <2>1. UNCHANGED <<tree, cursor>> /\ phase = "serialize"
    BY <1>4 DEF SerializeNode
  <2>2. cursor = TreeRoot /\ TreeRoot.rec = <<>> /\ TreeRoot.path = <<>>
    BY <2>1 DEF Searching, TreeRoot
  <2> QED
    BY <1>0, <2>1, <2>2 DEF Searching
<1>5. CASE Dead \/ UNCHANGED vars
  <2>1. UNCHANGED <<phase, tree, cursor>>
    BY <1>5 DEF Dead, vars
  <2> QED
    BY <2>1 DEF Searching, CursorAt, SearchedAll, StaysAtRoot
<1>6. CASE \/ AddRootScope \/ AddWorkingDir \/ AddTool
           \/ AddReadonlyFiles \/ AddWritableFiles \/ AddBlockedFiles
           \/ FindOutputDirs \/ AddOutputDirs \/ AddOverlayRoot \/ BadPath
           \/ \E d \in todo : CreateOutputDir(d)
           \/ Build
  <2>1. phase # "run" /\ phase' # "run" /\ cursor' = cursor
    BY <1>6 DEF AddRootScope, AddWorkingDir, AddTool, AddReadonlyFiles,
         AddWritableFiles, AddBlockedFiles, FindOutputDirs, AddOutputDirs, AddOverlayRoot,
         BadPath, CreateOutputDir, Scopes, Build
  <2>2. cursor = TreeRoot /\ TreeRoot.path = <<>>
    BY <2>1 DEF Searching, TreeRoot
  <2> QED
    BY <2>1, <2>2 DEF Searching
<1> QED
  BY <1>1, <1>2, <1>3, <1>4, <1>5, <1>6 DEF Next

LEMMA SearchingInit == Init => Searching
BY KnownPaths DEF Init, Searching, TreeRoot, Searches

-----------------------------------------------------------------------------
(* The theorems                                                            *)

ManifestInv ==
    Inputs /\ Building /\ MakingDirs /\ Serialized /\ Granting /\ Searching

LEMMA ManifestInvHolds == Spec => []ManifestInv
<1>1. Init => ManifestInv
  BY InputsInit, BuildingInit, MakingDirsInit, SerializedInit, GrantingInit, SearchingInit
     DEF ManifestInv
<1>2. ManifestInv /\ [Next]_vars => ManifestInv'
  BY InputsStep, BuildingStep, MakingDirsStep, SerializedStep, GrantingStep, SearchingStep
     DEF ManifestInv
<1> QED
  BY <1>1, <1>2, PTL DEF Spec

\* The tree is closed under ancestors and has sets of policy bits only; every
\* node is serialized when the tool starts, and a search never leaves them.
THEOREM ManifestTypes == Spec => []TypeOK
<1>1. ManifestInv => TypeOK
  <2> SUFFICES ASSUME ManifestInv PROVE TypeOK
    OBVIOUS
  <2> USE DEF ManifestInv
  <2>1. phase \in Phases
    BY DEF Building
  <2>2. PICK S, R, G : Holds(tree, S, R, G)
    BY DEF Building
  <2>3. /\ DOMAIN tree \subseteq Paths
        /\ \A n \in DOMAIN tree : Prefixes(n) \subseteq DOMAIN tree
        /\ \A n \in DOMAIN tree :
             /\ {tree[n].coneMask, tree[n].coneValues} \subseteq SUBSET MaskNothing
             /\ {tree[n].nodeMask, tree[n].nodeValues} \subseteq SUBSET MaskNothing
    BY <2>2, TreeClosed
  <2>4. todo \cup dirs \subseteq Paths
    BY OutputDirsMeans DEF MakingDirs, Inputs
  <2>5. out \in Nat /\ (phase = "run" => DOMAIN payload = DOMAIN tree
                                         /\ cursor.rec \in DOMAIN payload)
    BY DEF Serialized, Searching
  <2> QED
    BY <2>1, <2>3, <2>4, <2>5 DEF TypeOK, Phases
<1> QED
  BY <1>1, ManifestInvHolds, PTL

\* The assertion of SerializeNode holds for every tree and every length of the
\* paths before it: no child offset touches the bits of the chain flags.
THEOREM OffsetsAreAligned == Spec => []OffsetsLeaveFlagsFree
<1>1. ManifestInv => OffsetsLeaveFlagsFree
  <2> SUFFICES ASSUME ManifestInv, NEW n \in DOMAIN payload,
                      NEW i \in DOMAIN payload[n].buckets
               PROVE  payload[n].buckets[i].low = 0
    BY DEF OffsetsLeaveFlagsFree
  <2>1. RecordIs(n)
    BY DEF ManifestInv, Serialized
  <2>2. payload[n].buckets \in Seq(Slots)
    BY <2>1 DEF RecordIs, Tabled
  <2>3. i \in 1 .. Len(payload[n].buckets)
    BY <2>2
  <2> QED
    BY <2>1, <2>3 DEF RecordIs
<1> QED
  BY <1>1, ManifestInvHolds, PTL

\* When the tool starts, every directory between the working directory and a
\* declared output exists and grants reading and making entries, whatever the
\* options say of it and however main's sort orders texts of one length.
THEOREM OutputDirsAreReady == Spec => []OutputDirsReady
<1>1. ManifestInv => OutputDirsReady
  <2> SUFFICES ASSUME ManifestInv, phase = "run", NEW p \in opts.w,
                      NEW d \in Prefixes(p) \ {p}, IsStrictPrefix(WorkingDir, d)
               PROVE  d \in dirs /\ ReadOnly \cup Scratch \subseteq payload[d].node
    BY DEF OutputDirsReady
  <2> USE DEF ManifestInv
  <2>1. d \in OutputDirs(opts)
    BY OutputDirsMeans DEF Inputs
  <2>2. d \in dirs
    BY <2>1 DEF MakingDirs
  <2>3. d \in DOMAIN tree
    BY <2>1, TreeAtTheEnd
  <2>4. payload[d].node = OutputDirPolicy
    BY <2>1, <2>3 DEF Serialized, Granting
  <2> QED
    BY <2>2, <2>4 DEF OutputDirPolicy
<1> QED
  BY <1>1, ManifestInvHolds, PTL

\* What Expected says of a path with a deepest scope.
LEMMA ExpectedMeans ==
  ASSUME NEW o, Scoped(o) \in SUBSET Paths, NEW p \in Paths, NEW q,
         Deepest(Scoped(o), p, q)
  PROVE  Expected(o, p) = IF p \in OutputDirs(o) THEN OutputDirPolicy ELSE Granted(o, q)
<1> DEFINE S == Scoped(o)
           r == CHOOSE r \in S \cap Prefixes(p) : \A s \in S \cap Prefixes(p) : Len(s) <= Len(r)
<1>1. \E u \in S \cap Prefixes(p) : \A s \in S \cap Prefixes(p) : Len(s) <= Len(u)
  BY DEF Deepest
<1>2. Deepest(S, p, r)
  BY <1>1 DEF Deepest
<1>3. r = q
  BY <1>2, DeepestMeans
<1>4. Expected(o, p) = IF p \in OutputDirs(o) THEN OutputDirPolicy ELSE Granted(o, r)
  BY DEF Expected
<1> HIDE DEF r
<1> QED
  BY <1>3, <1>4

\* Where the tree ends along p is a node with the same deepest scope as p.
LEMMA DeepestOfTruncated ==
  ASSUME Building, phase = "run", NEW p \in Paths, NEW c, SearchedAll(DOMAIN tree, c, p),
         c.truncated, NEW q, Deepest(Scoped(opts), c.rec, q)
  PROVE  Deepest(Scoped(opts), p, q) /\ p \notin DOMAIN tree
<1> DEFINE S == Scoped(opts)
           r == c.rec
           k == Len(r) + 1
           next == SubSeq(p, 1, k)
<1>1. /\ S \subseteq DOMAIN tree /\ S \in SUBSET Paths
      /\ \A n \in DOMAIN tree : Prefixes(n) \subseteq DOMAIN tree
  BY TreeAtTheEnd, TreeIsClosed
<1>2. /\ r \in Prefixes(p) /\ Len(r) < Len(p) /\ Append(r, p[k]) \notin DOMAIN tree
  BY DEF SearchedAll
<1>3. p \in Seq(Frag) /\ r \in Seq(Frag) /\ r \in Paths /\ Len(p) \in Nat /\ Len(r) \in Nat
      /\ \A i \in 1 .. Len(r) : r[i] = p[i]
  BY <1>2, PrefixMeans DEF Paths
<1>4. k \in 0 .. Len(p) /\ k \in 1 .. Len(p)
  BY <1>2, <1>3
<1> HIDE DEF r, S
<1>5. next \in Prefixes(p) /\ Len(next) = k
  BY <1>3, <1>4, SubSeqMeans DEF Prefixes
<1>6. next = Append(r, p[k])
  <2> DEFINE a == Append(r, p[k])
  <2>1. p[k] \in Frag
    BY <1>3, <1>4
  <2>2. a \in Seq(Frag) /\ Len(a) = k /\ a[k] = p[k] /\ \A i \in 1 .. Len(r) : a[i] = p[i]
    BY <1>3, <2>1
  <2>3. next \in Seq(Frag) /\ Len(next) = k /\ \A i \in 1 .. k : next[i] = p[i]
    BY <1>3, <1>4, SubSeqMeans
  <2> HIDE DEF a, next
  <2>4. \A i \in 1 .. k : next[i] = a[i]
    BY <1>3, <2>2, <2>3
  <2>5. next = a
    BY <2>2, <2>3, <2>4, SeqEqual
  <2> QED
    BY <2>5 DEF a
<1> HIDE DEF next
<1>7. ASSUME NEW s \in DOMAIN tree, s \in Prefixes(p) PROVE s \in Prefixes(r)
  <2>1. s \in Paths /\ Len(s) \in Nat
    BY <1>7, PrefixOrder, PathLength
  <2>2. CASE Len(s) <= Len(r)
    BY <1>2, <1>7, <2>2, PrefixOrder
  <2>3. CASE Len(s) > Len(r)
    <3>1. Len(next) <= Len(s)
      BY <1>3, <1>5, <2>1, <2>3
    <3>2. next \in Prefixes(s)
      BY <1>5, <1>7, <3>1, PrefixOrder
    <3>3. next \in DOMAIN tree
      BY <1>1, <3>2
    <3> QED
      BY <1>2, <1>6, <3>3
  <2> QED
    BY <1>3, <2>1, <2>2, <2>3
<1>8. p \notin DOMAIN tree
  <2>1. p \in DOMAIN tree => p \in Prefixes(r)
    BY <1>7, PrefixOrder
  <2>2. p \in Prefixes(r) => Len(p) <= Len(r)
    BY <1>3, PrefixMeans
  <2> QED
    BY <1>2, <1>3, <2>1, <2>2
<1>9. S \cap Prefixes(p) = S \cap Prefixes(r)
  <2>1. Prefixes(r) \subseteq Prefixes(p)
    BY <1>2, PrefixOrder
  <2> QED
    BY <1>1, <1>7, <2>1
<1>10. Deepest(S, r, q)
  BY DEF S, r
<1>11. Deepest(S, p, q)
  BY <1>9, <1>10 DEF Deepest
<1> QED
  BY <1>8, <1>11 DEF S

\* A search of a path that is not on a server ends with the policy the options
\* give the path.
DeclaredOffServers ==
    phase = "run" /\ cursor.path # <<>> /\ Head(cursor.path) \notin Servers =>
        Policy(cursor) = Expected(opts, cursor.path)

LEMMA InvDeclares == ManifestInv => DeclaredOffServers
<1> SUFFICES ASSUME ManifestInv, phase = "run", cursor.path # <<>>,
                    Head(cursor.path) \notin Servers
             PROVE  Policy(cursor) = Expected(opts, cursor.path)
  BY DEF DeclaredOffServers
<1> USE DEF ManifestInv
<1> DEFINE p == cursor.path
           r == cursor.rec
           S == Scoped(opts)
<1>1. /\ p \in Paths /\ r \in DOMAIN tree /\ SearchedAll(DOMAIN tree, cursor, p)
      /\ DOMAIN payload = DOMAIN tree
  BY DEF Searching, Searches, CursorAt, Serialized
<1>2. S \in SUBSET Paths /\ OutputDirs(opts) \subseteq DOMAIN tree
  BY TreeAtTheEnd
<1>3. PICK q : Deepest(S, r, q) /\ payload[r].cone = Granted(opts, q)
  BY <1>1 DEF Granting
<1>4. payload[r].node = IF r \in OutputDirs(opts) THEN OutputDirPolicy ELSE Granted(opts, q)
  BY <1>1, <1>3 DEF Granting
<1>5. CASE cursor.truncated
  <2>1. Deepest(S, p, q) /\ p \notin DOMAIN tree
    BY <1>1, <1>3, <1>5, DeepestOfTruncated
  <2>2. Expected(opts, p) = Granted(opts, q)
    BY <1>1, <1>2, <2>1, ExpectedMeans
  <2> QED
    BY <1>3, <1>5, <2>2 DEF Policy
<1>6. CASE ~cursor.truncated
  <2>1. r = p
    BY <1>1, <1>6 DEF SearchedAll
  <2>2. Expected(opts, p) = IF p \in OutputDirs(opts) THEN OutputDirPolicy ELSE Granted(opts, q)
    BY <1>1, <1>2, <1>3, <2>1, ExpectedMeans
  <2> QED
    BY <1>4, <1>6, <2>1, <2>2 DEF Policy
<1> QED
  BY <1>5, <1>6

\* For all options, every hash function and every way to resume a search, what
\* ManifestBuilder wrote and what FindFileAccessPolicyInTreeEx reads agree.
THEOREM SearchesFindThePolicy == Spec => []DeclaredOffServers
BY InvDeclares, ManifestInvHolds, PTL

\* So builder and reader agree on every path, whatever the tables' collisions,
\* if no path that is looked up is on a server.
THEOREM PoliciesAreAsDeclared ==
  ASSUME \A p \in Looked : Head(p) \notin Servers
  PROVE  Spec => []PolicyAsDeclared
<1>1. ManifestInv => PolicyAsDeclared
  <2> SUFFICES ASSUME ManifestInv, phase = "run", cursor.path # <<>>
               PROVE  Policy(cursor) = Expected(opts, cursor.path)
    BY DEF PolicyAsDeclared
  <2>1. Head(cursor.path) \notin Servers
    BY DEF ManifestInv, Searching
  <2> QED
    BY <2>1, InvDeclares DEF DeclaredOffServers
<1> QED
  BY <1>1, ManifestInvHolds, PTL

\* A path on a server gets what the root of the tree grants, whatever the
\* options say of it: the scopes below a server are never found.
RootPolicyOnServers ==
    phase = "run" /\ cursor.path # <<>> /\ Head(cursor.path) \in Servers =>
        Policy(cursor) = Granted(opts, <<>>)

\* Below a server the search never leaves the root, for all options.
THEOREM ServersGetTheRootPolicy == Spec => []RootPolicyOnServers
<1>1. ManifestInv => RootPolicyOnServers
  <2> SUFFICES ASSUME ManifestInv, phase = "run", cursor.path # <<>>,
                      Head(cursor.path) \in Servers
               PROVE  Policy(cursor) = Granted(opts, <<>>)
    BY DEF RootPolicyOnServers
  <2> USE DEF ManifestInv
  <2>1. cursor.rec = <<>> /\ cursor.truncated /\ <<>> \in DOMAIN payload
    BY DEF Searching, CursorAt, StaysAtRoot, Serialized
  <2>2. PICK q : Deepest(Scoped(opts), <<>>, q) /\ payload[<<>>].cone = Granted(opts, q)
    BY <2>1 DEF Granting
  <2>3. q = <<>>
    <3>1. <<>> \in Scoped(opts) /\ <<>> \in Paths /\ Scoped(opts) \in SUBSET Paths
      BY KnownPaths, TreeAtTheEnd DEF Scoped
    <3>2. Deepest(Scoped(opts), <<>>, <<>>)
      BY <3>1, DeepestMeans
    <3> QED
      BY <2>2, <3>1, <3>2, DeepestMeans
  <2> QED
    BY <2>1, <2>2, <2>3 DEF Policy
<1> QED
  BY <1>1, ManifestInvHolds, PTL

=============================================================================

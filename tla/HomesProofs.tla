---------------------------- MODULE HomesProofs ----------------------------
(***************************************************************************)
(* Proofs about Homes, for any file system, any configuration and any      *)
(* number of sessions and requests.                                        *)
(***************************************************************************)
EXTENDS Homes, SequenceTheorems, WellFoundedInduction, TLAPS

-----------------------------------------------------------------------------
(***************************************************************************)
(* Recursion over the components of a path.                                *)
(***************************************************************************)

\* Induction up to n, over the set of the numbers for which a fact holds: a least
\* counterexample would have a predecessor in the set.
LEMMA UpTo ==
    ASSUME NEW n \in Nat, NEW G, 0 \in G, \A m \in 1..n : m - 1 \in G => m \in G
    PROVE  \A m \in 0..n : m \in G
<1> SUFFICES ASSUME ~\A m \in 0..n : m \in G PROVE FALSE
  OBVIOUS
<1> DEFINE B == {m \in 0..n : m \notin G}
<1>b. B \in SUBSET Nat /\ B # {}
  OBVIOUS
<1>0. PICK R : R = OpToRel(<, Nat)
  OBVIOUS
<1>1. IsWellFoundedOn(R, Nat)
  BY <1>0, NatLessThanWellFounded
<1>2. PICK m \in B : \A b \in B : ~(<<b, m>> \in R)
  BY <1>1, <1>b, WFMin
<1>3. \A b \in B : b < m => <<b, m>> \in R
  BY <1>0 DEF OpToRel
<1>4. m \in 1..n
  OBVIOUS
<1>5. m - 1 \in 0..n /\ m - 1 < m
  BY <1>4
<1>6. m - 1 \notin B
  BY <1>2, <1>3, <1>5
<1> QED
  BY <1>4, <1>5, <1>6

\* f holds the values that the steps g compute one from the other.
Steps(f, n, V, b, g) == /\ f \in [0..n -> V] /\ f[0] = b
                        /\ \A k \in 1..n : f[k] = g[<<f[k - 1], k>>]

LEMMA StepsExist ==
    ASSUME NEW n \in Nat, NEW V, NEW b \in V, NEW g \in [V \X (1..n) -> V]
    PROVE  \E f : Steps(f, n, V, b, g)
<1> DEFINE G == {m \in 0..n : \E f : Steps(f, m, V, b, g)}
<1>1. 0 \in G
  <2>1. Steps([k \in 0..0 |-> b], 0, V, b, g)
    BY DEF Steps
  <2> QED
    BY <2>1
<1>2. ASSUME NEW m \in 1..n, m - 1 \in G PROVE m \in G
  <2>1. PICK f : Steps(f, m - 1, V, b, g)
    BY <1>2
  <2>2. PICK h : h = [k \in 0..m |-> IF k = m THEN g[<<f[m - 1], m>>] ELSE f[k]]
    OBVIOUS
  <2>3. \A k \in 0..(m - 1) : f[k] \in V /\ h[k] = f[k]
    BY <2>1, <2>2 DEF Steps
  <2>4. h[m] = g[<<f[m - 1], m>>] /\ h[m] \in V
    <3>1. f[m - 1] \in V /\ m \in 1..n
      BY <2>3
    <3>2. g[<<f[m - 1], m>>] \in V
      BY <3>1
    <3> QED
      BY <2>2, <3>2
  <2>5. h \in [0..m -> V]
    <3>1. \A k \in 0..m : h[k] \in V
      BY <2>3, <2>4
    <3> QED
      BY <2>2, <3>1
  <2>6. ASSUME NEW k \in 1..m PROVE h[k] = g[<<h[k - 1], k>>]
    <3>1. k - 1 \in 0..(m - 1) /\ h[k - 1] = f[k - 1]
      BY <2>3
    <3>2. CASE k = m
      BY <2>4, <3>1, <3>2
    <3>3. CASE k # m
      BY <2>1, <2>3, <3>1, <3>3 DEF Steps
    <3> QED
      BY <3>2, <3>3
  <2>7. h[0] = b
    BY <2>1, <2>3 DEF Steps
  <2>8. Steps(h, m, V, b, g)
    BY <2>5, <2>6, <2>7 DEF Steps
  <2> QED
    BY <2>8
<1>3. \A m \in 0..n : m \in G
  <2> HIDE DEF G
  <2> QED
    BY <1>1, <1>2, UpTo
<1> QED
  BY <1>3

-----------------------------------------------------------------------------
(***************************************************************************)
(* Paths and their prefixes.                                               *)
(***************************************************************************)

RawNames == Names \cup {".."}
Cut(p, n) == SubSeq(p, 1, n)

LEMMA Cuts ==
    ASSUME NEW S, NEW p \in Seq(S), NEW n \in 0..Len(p)
    PROVE  /\ Cut(p, n) \in Seq(S) /\ Len(Cut(p, n)) = n
           /\ \A i \in 1..n : Cut(p, n)[i] = p[i]
           /\ n = 0 => Cut(p, n) = <<>>
           /\ n = Len(p) => Cut(p, n) = p
BY DEF Cut

LEMMA SameSeq ==
    ASSUME NEW S, NEW p \in Seq(S), NEW q \in Seq(S), Len(p) = Len(q),
           \A i \in 1..Len(p) : p[i] = q[i]
    PROVE  p = q
BY SeqEqual

LEMMA PrefixOfPrefix ==
    ASSUME NEW S, NEW p \in Seq(S), NEW n \in 0..Len(p), NEW m \in 0..n
    PROVE  Cut(Cut(p, n), m) = Cut(p, m)
BY Cuts DEF Cut

LEMMA PrefixStep ==
    ASSUME NEW S, NEW p \in Seq(S), NEW n \in 1..Len(p)
    PROVE  /\ Cut(p, n) = Append(Cut(p, n - 1), p[n]) /\ Cut(p, n) # <<>>
           /\ Front(Cut(p, n)) = Cut(p, n - 1) /\ Last(Cut(p, n)) = p[n]
<1>1. n - 1 \in 0..Len(p) /\ n \in 0..Len(p) /\ p[n] \in S
  OBVIOUS
<1>2. Cut(p, n) \in Seq(S) /\ Len(Cut(p, n)) = n /\ Cut(p, n - 1) \in Seq(S) /\ Len(Cut(p, n - 1)) = n - 1
  BY <1>1, Cuts
<1>3. Cut(p, n) = Append(Cut(p, n - 1), p[n])
  BY SubSeqRecursiveSecond, <1>1, AppendIsConcat, <1>2 DEF Cut
<1>4. Front(Cut(p, n)) = Cut(p, n - 1)
  BY <1>1, <1>2, PrefixOfPrefix DEF Front, Cut
<1>5. Last(Cut(p, n)) = p[n]
  BY <1>1, <1>2, Cuts DEF Last
<1> QED
  BY <1>2, <1>3, <1>4, <1>5

LEMMA StartsWith ==
    ASSUME NEW S, NEW p \in Seq(S), NEW q \in Seq(S)
    PROVE  starts_with(p, q) <=> Len(q) <= Len(p) /\ \A i \in 1..Len(q) : q[i] = p[i]
<1>1. CASE Len(q) <= Len(p)
  <2>1. Len(q) \in 0..Len(p) /\ Len(q) \in 0..Len(q)
    BY <1>1
  <2>2. /\ Cut(q, Len(q)) = q
        /\ Cut(p, Len(q)) \in Seq(S) /\ Len(Cut(p, Len(q))) = Len(q)
        /\ \A i \in 1..Len(q) : Cut(p, Len(q))[i] = p[i]
    BY <2>1, Cuts
  <2>3. starts_with(p, q) <=> q = Cut(p, Len(q))
    BY <1>1, <2>2 DEF starts_with, IsPrefix, Cut
  <2> QED
    BY <1>1, <2>2, <2>3, SameSeq
<1>2. CASE ~(Len(q) <= Len(p))
  BY <1>2 DEF starts_with, IsPrefix
<1> QED
  BY <1>1, <1>2

\* The path that is left when the last component goes.
LEMMA FrontIsCut ==
    ASSUME NEW S, NEW p \in Seq(S), p # <<>>
    PROVE  /\ Len(p) \in Nat \ {0} /\ Front(p) = Cut(p, Len(p) - 1)
           /\ Front(p) \in Seq(S) /\ Last(p) \in S /\ Len(Front(p)) = Len(p) - 1
           /\ p = Append(Front(p), Last(p))
<1>1. Len(p) \in 1..Len(p) /\ Len(p) - 1 \in 0..Len(p) /\ Len(p) \in 0..Len(p)
  BY EmptySeq
<1>2. Front(p) = Cut(p, Len(p) - 1) /\ Last(p) = p[Len(p)] /\ Last(p) \in S
  BY <1>1 DEF Front, Last, Cut
<1>3. p = Append(Front(p), Last(p))
  <2>1. Cut(p, Len(p)) = Append(Cut(p, Len(p) - 1), p[Len(p)])
    BY <1>1, PrefixStep
  <2>2. Cut(p, Len(p)) = p
    BY <1>1, Cuts
  <2> QED
    BY <1>2, <2>1, <2>2
<1> QED
  BY <1>1, <1>2, <1>3, Cuts

-----------------------------------------------------------------------------
(***************************************************************************)
(* What canonicalize computes.                                             *)
(***************************************************************************)

TypedTree(tree) == tree \in [Nodes -> FsNodes]

LEMMA FsNodeFacts ==
    /\ None \in FsNodes /\ Dir \in FsNodes /\ File \in FsNodes
    /\ None.k = "none" /\ Dir.k = "dir" /\ File.k = "file" /\ None # Dir
    /\ \A x \in FsNodes : /\ x.to \in Paths /\ x.k \in {"none", "dir", "file", "link"}
                          /\ x.k = "none" => x = None
                          /\ x.k = "dir" => x = Dir
<1>1. <<>> \in Paths
  BY DEF Paths
<1> QED
  BY <1>1 DEF FsNodes, None, Dir, File

LEMMA NodeTyped ==
    ASSUME NEW tree, TypedTree(tree), NEW p
    PROVE  node(tree, p) \in FsNodes
BY FsNodeFacts DEF node, TypedTree

LEMMA FollowTyped ==
    ASSUME NEW tree, TypedTree(tree), NEW cur \in Paths, NEW n \in RawNames
    PROVE  follow(tree, cur, n) \in Paths
<1>1. CASE n = ".."
  BY <1>1, FrontIsCut DEF follow, Paths
<1>2. CASE n # ".."
  <2>1. Append(cur, n) \in Paths
    BY <1>2 DEF Paths, RawNames
  <2>2. node(tree, Append(cur, n)).to \in Paths
    BY NodeTyped, FsNodeFacts
  <2> QED
    BY <1>2, <2>1, <2>2 DEF follow
<1> QED
  BY <1>1, <1>2

\* f holds where a lookup is after each component.
Lookup(f, tree, p) ==
    /\ f \in [0..Len(p) -> Paths] /\ f[0] = <<>>
    /\ \A k \in 1..Len(p) : f[k] = follow(tree, f[k - 1], p[k])

LEMMA LookupExists ==
    ASSUME NEW tree, TypedTree(tree), NEW p \in Seq(RawNames)
    PROVE  \E f : Lookup(f, tree, p)
<1> DEFINE g == [x \in Paths \X (1..Len(p)) |-> follow(tree, x[1], p[x[2]])]
<1>1. \A x \in Paths \X (1..Len(p)) : follow(tree, x[1], p[x[2]]) \in Paths
  BY FollowTyped
<1>2. g \in [Paths \X (1..Len(p)) -> Paths]
  BY <1>1
<1>3. <<>> \in Paths /\ Len(p) \in Nat
  BY DEF Paths
<1>4. PICK f : Steps(f, Len(p), Paths, <<>>, g)
  <2> HIDE DEF g
  <2> QED
    BY <1>2, <1>3, StepsExist
<1>5. \A k \in 1..Len(p) : f[k - 1] \in Paths /\ <<f[k - 1], k>> \in Paths \X (1..Len(p))
  <2> HIDE DEF g
  <2>1. f \in [0..Len(p) -> Paths]
    BY <1>4 DEF Steps
  <2>2. \A k \in 1..Len(p) : k - 1 \in 0..Len(p)
    BY <1>3
  <2> QED
    BY <2>1, <2>2
<1>6. \A k \in 1..Len(p) : g[<<f[k - 1], k>>] = follow(tree, f[k - 1], p[k])
  BY <1>5
<1> QED
  BY <1>4, <1>6 DEF Steps, Lookup

LEMMA CanonicalizeLooksUp ==
    ASSUME NEW tree, TypedTree(tree), NEW p \in Seq(RawNames)
    PROVE  \E f : Lookup(f, tree, p) /\ canonicalize(tree, p) = f[Len(p)]
<1> DEFINE Eq(f) == f = [n \in 0..Len(p) |-> IF n = 0 THEN <<>> ELSE follow(tree, f[n - 1], p[n])]
<1>1. PICK h : Lookup(h, tree, p)
  BY LookupExists
<1>2. Eq(h)
  <2>1. \A n \in 0..Len(p) : h[n] = IF n = 0 THEN <<>> ELSE follow(tree, h[n - 1], p[n])
    BY <1>1 DEF Lookup
  <2> QED
    BY <1>1, <2>1 DEF Lookup
<1>3. PICK f : f = CHOOSE x : Eq(x)
  OBVIOUS
<1>4. Eq(f)
  BY <1>2, <1>3
<1>5. canonicalize(tree, p) = f[Len(p)]
  BY <1>3 DEF canonicalize
<1>6. /\ DOMAIN f = 0..Len(p) /\ f[0] = <<>>
      /\ \A n \in 1..Len(p) : f[n] = follow(tree, f[n - 1], p[n])
  <2>1. Len(p) \in Nat
    OBVIOUS
  <2> QED
    BY <1>4, <2>1
<1>7. f = [n \in 0..Len(p) |-> f[n]]
  BY <1>4
<1> HIDE DEF Eq
<1> DEFINE G == {m \in 0..Len(p) : f[m] \in Paths}
<1>n. Len(p) \in Nat
  OBVIOUS
<1>8. 0 \in G
  <2>1. <<>> \in Paths
    BY DEF Paths
  <2>2. f[0] \in Paths /\ 0 \in 0..Len(p)
    BY <1>6, <1>n, <2>1
  <2> QED
    BY <2>2
<1>9. ASSUME NEW m \in 1..Len(p), m - 1 \in G PROVE m \in G
  BY <1>6, <1>9, FollowTyped
<1>10. \A m \in 0..Len(p) : m \in G
  <2> HIDE DEF G
  <2> QED
    BY <1>n, <1>8, <1>9, UpTo
<1>11. f \in [0..Len(p) -> Paths]
  BY <1>7, <1>10
<1> QED
  BY <1>5, <1>6, <1>11 DEF Lookup

\* The recursion equations of canonicalize.
LEMMA Canonicalize ==
    ASSUME NEW tree, TypedTree(tree), NEW p \in Seq(RawNames)
    PROVE  /\ canonicalize(tree, p) \in Paths
           /\ canonicalize(tree, Cut(p, 0)) = <<>>
           /\ \A n \in 1..Len(p) : canonicalize(tree, Cut(p, n)) =
                 follow(tree, canonicalize(tree, Cut(p, n - 1)), p[n])
<1>1. PICK f : Lookup(f, tree, p) /\ canonicalize(tree, p) = f[Len(p)]
  BY CanonicalizeLooksUp
<1>2. ASSUME NEW n \in 0..Len(p) PROVE canonicalize(tree, Cut(p, n)) = f[n]
  <2>1. Cut(p, n) \in Seq(RawNames) /\ Len(Cut(p, n)) = n /\ \A i \in 1..n : Cut(p, n)[i] = p[i]
    BY Cuts
  <2>2. PICK h : Lookup(h, tree, Cut(p, n)) /\ canonicalize(tree, Cut(p, n)) = h[n]
    BY <2>1, CanonicalizeLooksUp
  <2> DEFINE G == {m \in 0..n : h[m] = f[m]}
  <2>3. 0 \in G
    BY <1>1, <2>2 DEF Lookup
  <2>4. ASSUME NEW m \in 1..n, m - 1 \in G PROVE m \in G
    <3>1. h[m] = follow(tree, h[m - 1], p[m]) /\ f[m] = follow(tree, f[m - 1], p[m])
      BY <1>1, <2>1, <2>2 DEF Lookup
    <3> QED
      BY <2>4, <3>1
  <2>5. \A m \in 0..n : m \in G
    <3>1. n \in Nat
      OBVIOUS
    <3> HIDE DEF G
    <3> QED
      BY <2>3, <2>4, <3>1, UpTo
  <2> QED
    BY <2>2, <2>5
<1>3. Len(p) \in Nat /\ f[0] = <<>> /\ f[Len(p)] \in Paths
  BY <1>1 DEF Lookup
<1>4. canonicalize(tree, Cut(p, 0)) = <<>>
  BY <1>2, <1>3
<1>5. ASSUME NEW n \in 1..Len(p)
      PROVE  canonicalize(tree, Cut(p, n)) = follow(tree, canonicalize(tree, Cut(p, n - 1)), p[n])
  <2>1. n \in 0..Len(p) /\ n - 1 \in 0..Len(p)
    OBVIOUS
  <2> QED
    BY <1>1, <1>2, <2>1 DEF Lookup
<1> QED
  BY <1>1, <1>3, <1>4, <1>5

LEMMA PathsAreRaw == Paths \subseteq Seq(RawNames)
BY SeqMonotonic DEF Paths, RawNames

LEMMA LocatedIs ==
    ASSUME NEW tree, NEW p \in Paths, p # <<>>
    PROVE  located(tree, p) = Append(canonicalize(tree, Cut(p, Len(p) - 1)), p[Len(p)])
<1>1. Front(p) = Cut(p, Len(p) - 1)
  BY FrontIsCut DEF Paths
<1> QED
  BY <1>1 DEF located, Last

\* A lookup that meets no link ends where the path says.
LEMMA NoLinkOnTheWay ==
    ASSUME NEW tree, TypedTree(tree), NEW p \in Paths, NEW m \in 0..Len(p),
           \A n \in 1..m : node(tree, Cut(p, n)).k # "link"
    PROVE  \A n \in 0..m : canonicalize(tree, Cut(p, n)) = Cut(p, n)
<1>1. p \in Seq(RawNames) /\ Len(p) \in Nat /\ m \in Nat
  BY PathsAreRaw DEF Paths
<1> DEFINE G == {n \in 0..m : canonicalize(tree, Cut(p, n)) = Cut(p, n)}
<1>2. 0 \in G
  <2>1. Cut(p, 0) = <<>>
    BY <1>1, Cuts
  <2> QED
    BY <1>1, <2>1, Canonicalize
<1>3. ASSUME NEW n \in 1..m, n - 1 \in G PROVE n \in G
  <2>1. n \in 1..Len(p) /\ p[n] \in Names
    BY <1>1 DEF Paths
  <2>2. canonicalize(tree, Cut(p, n)) = follow(tree, Cut(p, n - 1), p[n])
    BY <1>1, <1>3, <2>1, Canonicalize
  <2>3. Cut(p, n) = Append(Cut(p, n - 1), p[n])
    BY <1>1, <2>1, PrefixStep
  <2>4. p[n] # ".."
    BY <2>1 DEF Names
  <2>5. follow(tree, Cut(p, n - 1), p[n]) = Cut(p, n)
    BY <2>3, <2>4 DEF follow
  <2> QED
    BY <2>2, <2>5
<1>4. \A n \in 0..m : n \in G
  <2> HIDE DEF G
  <2> QED
    BY <1>1, <1>2, <1>3, UpTo
<1> QED
  BY <1>4

LEMMA RealDirs ==
    ASSUME NEW tree, TypedTree(tree), NEW p \in Paths, real_dir(tree, p)
    PROVE  /\ \A n \in 0..Len(p) : node(tree, Cut(p, n)).k = "dir" /\ Cut(p, n) \in Nodes
           /\ \A n \in 0..Len(p) : canonicalize(tree, Cut(p, n)) = Cut(p, n)
           /\ canonicalize(tree, p) = p /\ located(tree, p) = p
<1>1. \A n \in 0..Len(p) : node(tree, Cut(p, n)).k = "dir"
  BY DEF real_dir, Cut
<1>2. None.k # "dir"
  BY DEF None
<1>3. \A n \in 0..Len(p) : Cut(p, n) \in Nodes
  BY <1>1, <1>2 DEF node
<1>4. Len(p) \in Nat
  BY DEF Paths
<1>5. \A n \in 0..Len(p) : canonicalize(tree, Cut(p, n)) = Cut(p, n)
  BY <1>1, <1>4, NoLinkOnTheWay
<1>6. Cut(p, Len(p)) = p
  BY <1>4, Cuts DEF Paths
<1>7. located(tree, p) = p
  <2>1. CASE p = <<>>
    BY <2>1 DEF located
  <2>2. CASE p # <<>>
    <3>1. Len(p) - 1 \in 0..Len(p) /\ Len(p) \in 1..Len(p)
      BY <2>2, FrontIsCut DEF Paths
    <3>2. located(tree, p) = Append(Cut(p, Len(p) - 1), p[Len(p)])
      BY <1>5, <2>2, <3>1, LocatedIs
    <3> QED
      BY <1>6, <3>1, <3>2, PrefixStep DEF Paths
  <2> QED
    BY <2>1, <2>2
<1> QED
  BY <1>1, <1>3, <1>4, <1>5, <1>6, <1>7

-----------------------------------------------------------------------------
(***************************************************************************)
(* The order of paths.                                                     *)
(***************************************************************************)

LEMMA PrefixOrder ==
    ASSUME NEW p \in Paths, NEW q \in Paths
    PROVE  /\ starts_with(p, p)
           /\ starts_with(p, q) => Len(q) <= Len(p) /\ Cut(p, Len(q)) = q
           /\ starts_with(p, q) /\ Len(p) <= Len(q) => p = q
<1>1. Len(p) \in Nat /\ Len(q) \in Nat /\ p \in Seq(Names) /\ q \in Seq(Names)
  BY DEF Paths
<1>2. starts_with(p, p)
  BY <1>1, StartsWith
<1>3. starts_with(p, q) => Len(q) <= Len(p) /\ \A i \in 1..Len(q) : q[i] = p[i]
  BY <1>1, StartsWith
<1>4. ASSUME starts_with(p, q) PROVE Cut(p, Len(q)) = q
  <2>1. Len(q) \in 0..Len(p)
    BY <1>1, <1>3, <1>4
  <2>2. /\ Cut(p, Len(q)) \in Seq(Names) /\ Len(Cut(p, Len(q))) = Len(q)
        /\ \A i \in 1..Len(q) : Cut(p, Len(q))[i] = p[i]
    BY <1>1, <2>1, Cuts
  <2> QED
    BY <1>1, <1>3, <1>4, <2>2, SameSeq
<1>5. ASSUME starts_with(p, q), Len(p) <= Len(q) PROVE p = q
  <2>1. Len(p) = Len(q) /\ \A i \in 1..Len(p) : p[i] = q[i]
    BY <1>1, <1>3, <1>5
  <2> QED
    BY <1>1, <2>1, SameSeq
<1> QED
  BY <1>2, <1>3, <1>4, <1>5

LEMMA PrefixTrans ==
    ASSUME NEW p \in Paths, NEW q \in Paths, NEW r \in Paths,
           starts_with(p, q), starts_with(q, r)
    PROVE  starts_with(p, r)
<1>1. Len(p) \in Nat /\ Len(q) \in Nat /\ Len(r) \in Nat
  BY DEF Paths
<1>2. Len(q) <= Len(p) /\ \A i \in 1..Len(q) : q[i] = p[i]
  BY StartsWith DEF Paths
<1>3. Len(r) <= Len(q) /\ \A i \in 1..Len(r) : r[i] = q[i]
  BY StartsWith DEF Paths
<1>4. Len(r) <= Len(p) /\ \A i \in 1..Len(r) : r[i] = p[i]
  BY <1>1, <1>2, <1>3
<1> QED
  BY <1>4, StartsWith DEF Paths

\* Two prefixes of one path.
LEMMA PrefixesCompare ==
    ASSUME NEW p \in Paths, NEW q \in Paths, NEW r \in Paths,
           starts_with(p, q), starts_with(p, r)
    PROVE  starts_with(q, r) \/ starts_with(r, q)
<1>1. Len(p) \in Nat /\ Len(q) \in Nat /\ Len(r) \in Nat
  BY DEF Paths
<1>2. Len(q) <= Len(p) /\ \A i \in 1..Len(q) : q[i] = p[i]
  BY StartsWith DEF Paths
<1>3. Len(r) <= Len(p) /\ \A i \in 1..Len(r) : r[i] = p[i]
  BY StartsWith DEF Paths
<1>4. CASE Len(r) <= Len(q)
  <2>1. \A i \in 1..Len(r) : r[i] = q[i]
    BY <1>1, <1>2, <1>3, <1>4
  <2> QED
    BY <1>4, <2>1, StartsWith DEF Paths
<1>5. CASE Len(q) <= Len(r)
  <2>1. \A i \in 1..Len(q) : q[i] = r[i]
    BY <1>1, <1>2, <1>3, <1>5
  <2> QED
    BY <1>5, <2>1, StartsWith DEF Paths
<1> QED
  BY <1>1, <1>4, <1>5

LEMMA CutStarts ==
    ASSUME NEW p \in Paths, NEW n \in 0..Len(p)
    PROVE  Cut(p, n) \in Paths /\ starts_with(p, Cut(p, n))
<1>1. /\ Cut(p, n) \in Seq(Names) /\ Len(Cut(p, n)) = n /\ n <= Len(p)
      /\ \A i \in 1..n : Cut(p, n)[i] = p[i]
  BY Cuts DEF Paths
<1> QED
  BY <1>1, StartsWith DEF Paths

LEMMA AppendStarts ==
    ASSUME NEW p \in Paths, NEW c \in Names
    PROVE  Append(p, c) \in Paths /\ starts_with(Append(p, c), p) /\ Append(p, c) # <<>>
<1>1. /\ Append(p, c) \in Seq(Names) /\ Len(p) <= Len(Append(p, c)) /\ Append(p, c) # <<>>
      /\ \A i \in 1..Len(p) : p[i] = Append(p, c)[i]
  BY AppendProperties DEF Paths
<1> QED
  BY <1>1, StartsWith DEF Paths

\* Where no link inside the root leads: neither inside the root nor above it.
Away(p) == ~starts_with(p, Root) /\ ~starts_with(Root, p)

LinksAway(tree) == \A p \in Nodes : tree[p].k = "link" => Away(tree[p].to)

LEMMA RootPath == Root \in Paths /\ Root # <<>> /\ Nodes \subseteq Paths
BY TreesAssumption

LEMMA AwayBelow ==
    ASSUME NEW p \in Paths, NEW q \in Paths, Away(p), starts_with(q, p)
    PROVE  Away(q)
<1>1. ASSUME starts_with(q, Root) PROVE FALSE
  BY <1>1, PrefixesCompare, RootPath DEF Away
<1>2. ASSUME starts_with(Root, q) PROVE FALSE
  BY <1>2, PrefixTrans, RootPath DEF Away
<1> QED
  BY <1>1, <1>2 DEF Away

\* A lookup ends where the path says or away from the root.
LEMMA LookupsStray ==
    ASSUME NEW tree, TypedTree(tree), LinksAway(tree), NEW p \in Paths
    PROVE  \A n \in 0..Len(p) : \/ canonicalize(tree, Cut(p, n)) = Cut(p, n)
                                \/ Away(canonicalize(tree, Cut(p, n)))
<1>1. p \in Seq(RawNames) /\ Len(p) \in Nat
  BY PathsAreRaw DEF Paths
<1> DEFINE Ok(n) == \/ canonicalize(tree, Cut(p, n)) = Cut(p, n)
                    \/ Away(canonicalize(tree, Cut(p, n)))
           G == {n \in 0..Len(p) : Ok(n)}
<1>2. 0 \in G
  <2>1. Cut(p, 0) = <<>>
    BY <1>1, Cuts
  <2> QED
    BY <1>1, <2>1, Canonicalize
<1>3. ASSUME NEW n \in 1..Len(p), n - 1 \in G PROVE n \in G
  <2> DEFINE c == canonicalize(tree, Cut(p, n - 1))
             q == Append(c, p[n])
  <2>1. p[n] \in Names /\ p[n] # ".." /\ n - 1 \in 0..Len(p)
    BY DEF Paths, Names
  <2>2. c \in Paths
    <3>1. Cut(p, n - 1) \in Seq(RawNames)
      BY <1>1, <2>1, Cuts
    <3> QED
      BY <3>1, Canonicalize
  <2>3. canonicalize(tree, Cut(p, n)) = IF node(tree, q).k = "link" THEN node(tree, q).to ELSE q
    <3>1. canonicalize(tree, Cut(p, n)) = follow(tree, c, p[n])
      BY <1>1, Canonicalize
    <3> QED
      BY <2>1, <3>1 DEF follow
  <2>4. q \in Paths /\ starts_with(q, c)
    BY <2>1, <2>2, AppendStarts
  <2>5. CASE node(tree, q).k = "link"
    <3>1. q \in Nodes
      BY <2>5 DEF node, None
    <3> QED
      BY <2>3, <2>5, <3>1 DEF LinksAway, node
  <2>6. CASE node(tree, q).k # "link" /\ c = Cut(p, n - 1)
    <3>1. Cut(p, n) = q
      <4>1. Cut(p, n) = Append(Cut(p, n - 1), p[n])
        BY <1>1, PrefixStep
      <4> QED
        BY <2>6, <4>1
    <3>2. canonicalize(tree, Cut(p, n)) = Cut(p, n)
      BY <2>3, <2>6, <3>1
    <3> QED
      BY <3>2
  <2>7. CASE node(tree, q).k # "link" /\ Away(c)
    <3>1. canonicalize(tree, Cut(p, n)) = q
      BY <2>3, <2>7
    <3>2. Away(q)
      <4> HIDE DEF q, c
      <4> QED
        BY <2>2, <2>4, <2>7, AwayBelow
    <3>3. Away(canonicalize(tree, Cut(p, n)))
      BY <3>1, <3>2
    <3> QED
      BY <1>1, <3>3
  <2> QED
    BY <1>3, <2>5, <2>6, <2>7
<1>4. \A n \in 0..Len(p) : n \in G
  <2> HIDE DEF G
  <2> QED
    BY <1>1, <1>2, <1>3, UpTo
<1> QED
  BY <1>4

LEMMA PathsStray ==
    ASSUME NEW tree, TypedTree(tree), LinksAway(tree), NEW p \in Paths
    PROVE  /\ located(tree, p) \in Paths
           /\ located(tree, p) = p \/ Away(located(tree, p))
<1>1. CASE p = <<>>
  BY <1>1 DEF located
<1>2. CASE p # <<>>
  <2> DEFINE c == canonicalize(tree, Cut(p, Len(p) - 1))
  <2>1. /\ Len(p) - 1 \in 0..Len(p) /\ Len(p) \in 1..Len(p) /\ Len(p) \in 0..Len(p)
        /\ p[Len(p)] \in Names
    BY <1>2, FrontIsCut DEF Paths
  <2>2. located(tree, p) = Append(c, p[Len(p)])
    BY <1>2, LocatedIs
  <2>3. Cut(p, Len(p) - 1) \in Paths /\ c \in Paths
    BY <2>1, CutStarts, PathsAreRaw, Canonicalize
  <2>4. located(tree, p) \in Paths /\ starts_with(located(tree, p), c)
    BY <2>1, <2>2, <2>3, AppendStarts
  <2>5. CASE c = Cut(p, Len(p) - 1)
    <3>1. Cut(p, Len(p)) = located(tree, p)
      BY <2>1, <2>2, <2>5, PrefixStep DEF Paths
    <3>2. Cut(p, Len(p)) = p
      BY <2>1, Cuts DEF Paths
    <3> QED
      BY <2>4, <3>1, <3>2
  <2>6. CASE Away(c)
    BY <2>3, <2>4, <2>6, AwayBelow
  <2> QED
    BY <2>1, <2>5, <2>6, LookupsStray
<1> QED
  BY <1>1, <1>2

-----------------------------------------------------------------------------
(***************************************************************************)
(* Loading the users.                                                      *)
(***************************************************************************)

RealLinks(tree) == \A p \in Nodes : tree[p].k = "link" => real_dir(tree, tree[p].to)

\* Every link of the tree was there before.
LinksFrom(tree, before) == \A p \in Nodes : tree[p].k = "link" => tree[p] = before[p]

LEMMA RealFront ==
    ASSUME NEW tree, NEW p \in Paths, p # <<>>, real_dir(tree, p)
    PROVE  real_dir(tree, Front(p))
<1>1. /\ Len(p) - 1 \in 0..Len(p) /\ Len(Front(p)) = Len(p) - 1
      /\ Front(p) = Cut(p, Len(p) - 1)
  BY FrontIsCut DEF Paths
<1>2. ASSUME NEW n \in 0..(Len(p) - 1) PROVE node(tree, Cut(Front(p), n)).k = "dir"
  <2>1. n \in 0..Len(p) /\ Cut(Front(p), n) = Cut(p, n)
    BY <1>1, PrefixOfPrefix DEF Paths
  <2> QED
    BY <2>1 DEF real_dir, Cut
<1> QED
  BY <1>1, <1>2 DEF real_dir, Cut

LEMMA RealAppend ==
    ASSUME NEW tree, NEW p \in Paths, NEW c \in Names, real_dir(tree, p),
           node(tree, Append(p, c)).k = "dir"
    PROVE  real_dir(tree, Append(p, c))
<1> DEFINE q == Append(p, c)
<1>1. /\ q \in Paths /\ starts_with(q, p) /\ q \in Seq(Names) /\ p \in Seq(Names)
      /\ Len(q) = Len(p) + 1 /\ Len(p) \in Nat
  BY AppendStarts, AppendProperties DEF Paths
<1>2. Cut(q, Len(p)) = p /\ Cut(q, Len(q)) = q
  BY <1>1, PrefixOrder, Cuts
<1>3. ASSUME NEW n \in 0..Len(q) PROVE node(tree, Cut(q, n)).k = "dir"
  <2>1. CASE n = Len(q)
    BY <1>2, <2>1
  <2>2. CASE n # Len(q)
    <3>1. n \in 0..Len(p) /\ Len(p) \in 0..Len(q)
      BY <1>1, <2>2
    <3>2. Cut(Cut(q, Len(p)), n) = Cut(q, n)
      BY <1>1, <3>1, PrefixOfPrefix
    <3> QED
      BY <1>2, <3>1, <3>2 DEF real_dir, Cut
  <2> QED
    BY <2>1, <2>2
<1> QED
  BY <1>3 DEF real_dir, Cut

\* create_dir_all makes the way to the home real and leaves links and directories
\* as they are.
LEMMA Created ==
    ASSUME NEW tree, TypedTree(tree), RealLinks(tree), NEW raw \in Seq(RawNames),
           can_create(tree, raw)
    PROVE  LET made == create_dir_all(tree, raw)
           IN /\ TypedTree(made) /\ RealLinks(made) /\ LinksFrom(made, tree)
              /\ \A p \in Paths : real_dir(tree, p) => real_dir(made, p)
              /\ canonicalize(made, raw) \in Nodes
              /\ real_dir(made, canonicalize(made, raw))
<1> DEFINE made == create_dir_all(tree, raw)
           w(n) == canonicalize(tree, Cut(raw, n))
<1>0. None.k = "none" /\ Dir.k = "dir" /\ Dir \in FsNodes /\ None # Dir
  BY FsNodeFacts
<1>1. TypedTree(made)
  BY <1>0 DEF create_dir_all, TypedTree
<1>2. \A q \in Nodes : \/ made[q] = tree[q]
                       \/ tree[q] = None /\ made[q] = Dir
  BY DEF create_dir_all
<1>3. \A q : node(made, q).k = "link" <=> node(tree, q).k = "link"
  BY <1>0, <1>2 DEF node
<1>4. \A q : node(tree, q).k = "link" => node(made, q) = node(tree, q)
  BY <1>0, <1>2 DEF node
<1>5. \A q : node(tree, q).k = "dir" => node(made, q).k = "dir"
  BY <1>0, <1>2 DEF node
<1>6. \A p \in Paths : real_dir(tree, p) => real_dir(made, p)
  BY <1>5 DEF real_dir
<1>7. RealLinks(made)
  <2>1. ASSUME NEW p \in Nodes, made[p].k = "link" PROVE real_dir(made, made[p].to)
    <3>1. tree[p].k = "link" /\ made[p] = tree[p]
      BY <1>0, <1>2, <2>1
    <3>2. tree[p].to \in Paths
      BY FsNodeFacts DEF TypedTree
    <3> QED
      BY <1>6, <3>1, <3>2 DEF RealLinks
  <2> QED
    BY <2>1 DEF RealLinks
<1>l. LinksFrom(made, tree)
  BY <1>0, <1>2 DEF LinksFrom
<1>8. Len(raw) \in Nat
  OBVIOUS
<1>9. ASSUME NEW n \in 0..Len(raw)
      PROVE  w(n) \in Paths /\ w(n) \in Nodes /\ node(made, w(n)).k = "dir"
  <2>1. Cut(raw, n) \in Seq(RawNames) /\ w(n) \in Paths
    BY Cuts, Canonicalize
  <2>2. w(n) \in way(tree, raw)
    BY DEF way, Cut
  <2>3. w(n) \in Nodes /\ tree[w(n)].k \in {"none", "dir"}
    BY <2>2 DEF can_create
  <2>4. node(tree, w(n)).k = "dir" \/ tree[w(n)] = None
    BY <2>3, FsNodeFacts DEF node, TypedTree
  <2>5. tree[w(n)] = None => node(made, w(n)) = Dir
    BY <2>2, <2>3 DEF node, create_dir_all
  <2> QED
    BY <1>0, <1>5, <2>1, <2>3, <2>4, <2>5
<1> DEFINE G == {n \in 0..Len(raw) : /\ canonicalize(made, Cut(raw, n)) = w(n)
                                     /\ real_dir(made, w(n))}
<1>10. 0 \in G
  <2>1. canonicalize(made, Cut(raw, 0)) = <<>> /\ w(0) = <<>>
    BY <1>1, Canonicalize
  <2>2. node(made, <<>>).k = "dir"
    BY <1>8, <1>9, <2>1
  <2>3. \A n \in 0..Len(<<>>) : SubSeq(<<>>, 1, n) = <<>>
    OBVIOUS
  <2>4. real_dir(made, <<>>)
    BY <2>2, <2>3 DEF real_dir
  <2> QED
    BY <1>8, <2>1, <2>4
<1>11. ASSUME NEW n \in 1..Len(raw), n - 1 \in G PROVE n \in G
  <2>1. n - 1 \in 0..Len(raw) /\ n \in 0..Len(raw) /\ raw[n] \in RawNames
    BY <1>8
  <2> DEFINE v == w(n - 1)
             q == Append(v, raw[n])
  <2>2. v \in Paths /\ real_dir(made, v) /\ node(made, w(n)).k = "dir"
    BY <1>9, <1>11, <2>1
  <2>3. w(n) = follow(tree, v, raw[n])
    BY Canonicalize
  <2>4. canonicalize(made, Cut(raw, n)) = follow(made, v, raw[n])
    <3>1. canonicalize(made, Cut(raw, n)) = follow(made, canonicalize(made, Cut(raw, n - 1)), raw[n])
      BY <1>1, Canonicalize
    <3> QED
      BY <1>11, <3>1
  <2>5. follow(made, v, raw[n]) = follow(tree, v, raw[n])
    BY <1>3, <1>4 DEF follow
  <2> HIDE DEF v, w
  <2>10. real_dir(made, w(n))
    <3>6. CASE raw[n] = ".." /\ v = <<>>
      BY <2>2, <2>3, <3>6 DEF follow
    <3>7. CASE raw[n] = ".." /\ v # <<>>
      <4>1. w(n) = Front(v)
        BY <2>3, <3>7 DEF follow
      <4> QED
        BY <2>2, <3>7, <4>1, RealFront
    <3>8. CASE raw[n] # ".." /\ node(tree, q).k = "link"
      <4>1. w(n) = node(tree, q).to
        BY <2>3, <3>8 DEF follow
      <4>2. q \in Nodes /\ node(tree, q) = tree[q]
        BY <3>8, FsNodeFacts DEF node
      <4>3. real_dir(tree, w(n)) /\ w(n) \in Paths
        BY <3>8, <4>1, <4>2, FsNodeFacts DEF RealLinks, TypedTree
      <4> QED
        BY <1>6, <4>3
    <3>9. CASE raw[n] # ".." /\ node(tree, q).k # "link"
      <4>1. w(n) = q /\ raw[n] \in Names
        BY <2>1, <2>3, <3>9 DEF follow, RawNames
      <4> QED
        BY <2>2, <4>1, RealAppend
    <3> QED
      BY <3>6, <3>7, <3>8, <3>9
  <2> QED
    BY <2>1, <2>3, <2>4, <2>5, <2>10
<1>12. \A n \in 0..Len(raw) : n \in G
  <2> HIDE DEF G
  <2> QED
    BY <1>8, <1>10, <1>11, UpTo
<1>13. Cut(raw, Len(raw)) = raw
  BY <1>8, Cuts
<1>14. canonicalize(made, raw) \in Nodes /\ real_dir(made, canonicalize(made, raw))
  <2>1. Len(raw) \in 0..Len(raw)
    BY <1>8
  <2>2. canonicalize(made, raw) = w(Len(raw)) /\ real_dir(made, w(Len(raw)))
    BY <1>12, <1>13, <2>1
  <2> QED
    BY <1>9, <2>1, <2>2
<1> QED
  BY <1>1, <1>6, <1>7, <1>l, <1>14

LEMMA RawHome ==
    ASSUME NEW spec \in Specs
    PROVE  raw_home(spec) \in Seq(RawNames)
<1>1. Root \in Seq(RawNames)
  BY RootPath, PathsAreRaw
<1>2. CASE spec.home = NoHome
  <2>1. spec.name \in RawNames
    BY DEF Specs, RawNames
  <2> QED
    BY <1>1, <1>2, <2>1 DEF raw_home
<1>3. CASE spec.home # NoHome
  <2>1. spec.home.path \in Seq(RawNames)
    BY <1>3 DEF Specs, HomeSpecs, RawNames
  <2>2. Root \o spec.home.path \in Seq(RawNames)
    BY <1>1, <2>1
  <2> QED
    BY <1>3, <2>1, <2>2 DEF raw_home
<1> QED
  BY <1>2, <1>3

LEMMA HomeTyped ==
    ASSUME NEW tree, TypedTree(tree), NEW spec \in Specs
    PROVE  /\ resolve_home(tree, spec).ok \in BOOLEAN
           /\ resolve_home(tree, spec).home \in Seq(RawNames)
           /\ TypedTree(resolve_home(tree, spec).tree)
<1> DEFINE raw == raw_home(spec)
           made == create_dir_all(tree, raw)
           canonical == canonicalize(made, raw)
<1>1. raw \in Seq(RawNames)
  BY RawHome
<1>2. TypedTree(made)
  BY FsNodeFacts DEF create_dir_all, TypedTree
<1>3. canonical \in Seq(RawNames)
  BY <1>1, <1>2, Canonicalize, PathsAreRaw
<1>4. TypedTree([made EXCEPT ![canonical] = None])
  BY <1>2, FsNodeFacts DEF TypedTree
<1>5. starts_with(canonical, Root) \in BOOLEAN
  BY DEF starts_with, IsPrefix
<1> HIDE DEF raw, made, canonical
<1> QED
  BY <1>1, <1>2, <1>3, <1>4, <1>5 DEF resolve_home, raw, made, canonical

\* What resolve_home accepts is a real directory inside the root.
LEMMA HomeResolved ==
    ASSUME NEW tree, TypedTree(tree), RealLinks(tree), NEW spec \in Specs,
           resolve_home(tree, spec).ok
    PROVE  LET r == resolve_home(tree, spec)
           IN /\ TypedTree(r.tree) /\ RealLinks(r.tree) /\ LinksFrom(r.tree, tree)
              /\ \A p \in Paths : real_dir(tree, p) => real_dir(r.tree, p)
              /\ r.home \in Nodes /\ starts_with(r.home, Root) /\ real_dir(r.tree, r.home)
<1> DEFINE raw == raw_home(spec)
           made == create_dir_all(tree, raw)
           canonical == canonicalize(made, raw)
<1>1. raw \in Seq(RawNames)
  BY RawHome
<1>2. /\ ~has_parent_dir(spec) /\ can_create(tree, raw) /\ starts_with(canonical, Root)
      /\ resolve_home(tree, spec).home = canonical /\ resolve_home(tree, spec).tree = made
  <2> HIDE DEF raw, made, canonical
  <2> QED
    BY DEF resolve_home, raw, made, canonical
<1> HIDE DEF raw
<1> QED
  BY <1>1, <1>2, Created

-----------------------------------------------------------------------------
\* Between two users of the file.
Accs == [ok : BOOLEAN, tree : [Nodes -> FsNodes], homes : Seq(Seq(RawNames))]

LEMMA UserTyped ==
    ASSUME NEW a \in Accs, NEW spec \in Specs
    PROVE  resolve_user(a, spec) \in Accs
<1>1. TypedTree(a.tree) /\ a.homes \in Seq(Seq(RawNames))
  BY DEF Accs, TypedTree
<1>2. CASE ~a.ok
  BY <1>2 DEF resolve_user
<1>3. CASE a.ok
  <2> DEFINE r == resolve_home(a.tree, spec)
             okay == r.ok /\ ~check_home_overlap(r.home, Range(a.homes))
  <2>1. r.ok \in BOOLEAN /\ r.home \in Seq(RawNames) /\ TypedTree(r.tree)
    BY <1>1, HomeTyped
  <2>2. resolve_user(a, spec) = [ok |-> okay, tree |-> r.tree, homes |-> Append(a.homes, r.home)]
    BY <1>3 DEF resolve_user
  <2>3. Append(a.homes, r.home) \in Seq(Seq(RawNames)) /\ okay \in BOOLEAN
    BY <1>1, <2>1 DEF check_home_overlap
  <2> HIDE DEF r, okay
  <2> QED
    BY <2>1, <2>2, <2>3 DEF Accs, TypedTree
<1> QED
  BY <1>2, <1>3

\* a holds what the loop over the users has after each of them.
Loop(a, tree, c) ==
    /\ a \in [0..Len(c.users) -> Accs]
    /\ a[0] = [ok |-> validate_specs(c), tree |-> tree, homes |-> <<>>]
    /\ \A k \in 1..Len(c.users) : a[k] = resolve_user(a[k - 1], c.users[k])

LEMMA UsersLoop ==
    ASSUME NEW tree, TypedTree(tree), NEW c \in Configs
    PROVE  \E a : Loop(a, tree, c) /\ resolve_users(tree, c) = a[Len(c.users)]
<1> DEFINE n == Len(c.users)
           start == [ok |-> validate_specs(c), tree |-> tree, homes |-> <<>>]
           g == [x \in Accs \X (1..n) |-> resolve_user(x[1], c.users[x[2]])]
           Eq(f) == f = [i \in 0..n |-> IF i = 0 THEN start ELSE resolve_user(f[i - 1], c.users[i])]
<1>1. c.users \in Seq(Specs) /\ n \in Nat
  BY InputsAssumption
<1>2. start \in Accs
  <2>1. validate_specs(c) \in BOOLEAN /\ <<>> \in Seq(Seq(RawNames))
    BY DEF validate_specs
  <2> QED
    BY <2>1 DEF Accs, TypedTree
<1>3. \A x \in Accs \X (1..n) : resolve_user(x[1], c.users[x[2]]) \in Accs
  BY <1>1, UserTyped
<1>4. g \in [Accs \X (1..n) -> Accs]
  BY <1>3
<1>5. PICK h : Steps(h, n, Accs, start, g)
  <2> HIDE DEF g, start, n
  <2> QED
    BY <1>1, <1>2, <1>4, StepsExist
<1>6. \A k \in 1..n : h[k] = resolve_user(h[k - 1], c.users[k])
  <2>1. \A k \in 1..n : h[k - 1] \in Accs /\ <<h[k - 1], k>> \in Accs \X (1..n)
    <3> HIDE DEF g, start, n
    <3>1. h \in [0..n -> Accs]
      BY <1>5 DEF Steps
    <3>2. \A k \in 1..n : k - 1 \in 0..n
      BY <1>1
    <3>3. \A k \in 1..n : h[k - 1] \in Accs
      BY <3>1, <3>2
    <3> QED
      BY <3>3
  <2> QED
    BY <1>5, <2>1 DEF Steps
<1>7. h \in [0..n -> Accs] /\ h[0] = start
  BY <1>5 DEF Steps
<1>8. Eq(h)
  <2> HIDE DEF start
  <2>1. \A i \in 0..n : h[i] = IF i = 0 THEN start ELSE resolve_user(h[i - 1], c.users[i])
    BY <1>1, <1>6, <1>7
  <2> QED
    BY <1>7, <2>1
<1>9. PICK a : a = CHOOSE x : Eq(x)
  OBVIOUS
<1>10. Eq(a)
  BY <1>8, <1>9
<1>11. resolve_users(tree, c) = a[n]
  BY <1>9 DEF resolve_users
<1> HIDE DEF start
<1>12. /\ a = [i \in 0..n |-> a[i]] /\ a[0] = start
       /\ \A k \in 1..n : a[k] = resolve_user(a[k - 1], c.users[k])
  BY <1>1, <1>10
<1> HIDE DEF Eq
<1> DEFINE G == {m \in 0..n : a[m] \in Accs}
<1>13. 0 \in G
  BY <1>1, <1>2, <1>12
<1>14. ASSUME NEW m \in 1..n, m - 1 \in G PROVE m \in G
  <2>1. c.users[m] \in Specs /\ a[m - 1] \in Accs
    BY <1>1, <1>14
  <2>2. a[m] \in Accs
    BY <1>12, <2>1, UserTyped
  <2> QED
    BY <1>1, <2>2
<1>15. \A m \in 0..n : m \in G
  <2> HIDE DEF G, n
  <2> QED
    BY <1>1, <1>13, <1>14, UpTo
<1>16. a \in [0..n -> Accs]
  BY <1>12, <1>15
<1> QED
  BY <1>11, <1>12, <1>16 DEF Loop, start

\* The first i users have real homes inside the root, and they are apart.
Settled(a, i, before) ==
    a.ok => /\ RealLinks(a.tree) /\ LinksFrom(a.tree, before)
            /\ real_dir(a.tree, Root) /\ Len(a.homes) = i
            /\ \A j \in 1..i : /\ a.homes[j] \in Nodes /\ starts_with(a.homes[j], Root)
                               /\ real_dir(a.tree, a.homes[j])
            /\ \A j, k \in 1..i : j # k => ~starts_with(a.homes[j], a.homes[k])

LEMMA UserSettled ==
    ASSUME NEW i \in Nat, NEW a \in Accs, NEW spec \in Specs, NEW before, Settled(a, i, before)
    PROVE  Settled(resolve_user(a, spec), i + 1, before)
<1> DEFINE r == resolve_home(a.tree, spec)
           b == resolve_user(a, spec)
           okay == r.ok /\ ~check_home_overlap(r.home, Range(a.homes))
<1> SUFFICES ASSUME b.ok PROVE Settled(b, i + 1, before)
  BY DEF Settled
<1>1. a.ok
  BY DEF resolve_user
<1>2. b = [ok |-> okay, tree |-> r.tree, homes |-> Append(a.homes, r.home)]
  BY <1>1 DEF resolve_user
<1>3. r.ok /\ ~check_home_overlap(r.home, Range(a.homes))
  <2>1. okay
    <3> HIDE DEF r, b, okay
    <3> QED
      BY <1>2
  <2> QED
    BY <2>1
<1>4. TypedTree(a.tree) /\ RealLinks(a.tree) /\ a.homes \in Seq(Seq(RawNames)) /\ Len(a.homes) = i
  BY <1>1 DEF Accs, TypedTree, Settled
<1>5. /\ TypedTree(r.tree) /\ RealLinks(r.tree) /\ LinksFrom(r.tree, a.tree)
      /\ \A p \in Paths : real_dir(a.tree, p) => real_dir(r.tree, p)
      /\ r.home \in Nodes /\ starts_with(r.home, Root) /\ real_dir(r.tree, r.home)
  BY <1>3, <1>4, HomeResolved
<1>6. r.home \in Paths /\ r.home \in Seq(RawNames)
  BY <1>5, RootPath, PathsAreRaw
<1>7. /\ b.ok /\ b.tree = r.tree /\ b.homes = Append(a.homes, r.home)
  BY <1>2
<1> HIDE DEF r, b
<1>8. /\ Len(b.homes) = i + 1 /\ b.homes[i + 1] = r.home
      /\ \A j \in 1..i : b.homes[j] = a.homes[j]
  BY <1>4, <1>6, <1>7
<1>9. real_dir(b.tree, Root)
  BY <1>1, <1>5, <1>7, RootPath DEF Settled
<1>10. ASSUME NEW j \in 1..(i + 1)
       PROVE  /\ b.homes[j] \in Nodes /\ starts_with(b.homes[j], Root)
              /\ real_dir(b.tree, b.homes[j])
  <2>1. CASE j = i + 1
    BY <1>5, <1>7, <1>8, <2>1
  <2>2. CASE j # i + 1
    <3>1. j \in 1..i
      BY <2>2
    <3>2. a.homes[j] \in Nodes /\ starts_with(a.homes[j], Root) /\ real_dir(a.tree, a.homes[j])
      BY <1>1, <3>1 DEF Settled
    <3>3. a.homes[j] \in Paths
      BY <3>2, RootPath
    <3> QED
      BY <1>5, <1>7, <1>8, <3>1, <3>2, <3>3
  <2> QED
    BY <2>1, <2>2
<1>11. ASSUME NEW j \in 1..i
       PROVE  ~starts_with(r.home, a.homes[j]) /\ ~starts_with(a.homes[j], r.home)
  <2>1. a.homes[j] \in Range(a.homes)
    BY <1>4 DEF Range
  <2> QED
    BY <1>3, <2>1 DEF check_home_overlap
<1>12. ASSUME NEW j \in 1..(i + 1), NEW k \in 1..(i + 1), j # k
       PROVE  ~starts_with(b.homes[j], b.homes[k])
  <2>1. CASE j \in 1..i /\ k \in 1..i
    <3>1. ~starts_with(a.homes[j], a.homes[k])
      BY <1>1, <1>12, <2>1 DEF Settled
    <3> QED
      BY <1>8, <2>1, <3>1
  <2>2. CASE j = i + 1 /\ k \in 1..i
    BY <1>8, <1>11, <2>2
  <2>3. CASE j \in 1..i /\ k = i + 1
    BY <1>8, <1>11, <2>3
  <2>4. (j \in 1..i \/ j = i + 1) /\ (k \in 1..i \/ k = i + 1)
    OBVIOUS
  <2> QED
    BY <1>12, <2>1, <2>2, <2>3, <2>4
<1>13. RealLinks(b.tree) /\ LinksFrom(b.tree, before)
  BY <1>1, <1>5, <1>7 DEF Settled, LinksFrom
<1> QED
  BY <1>8, <1>9, <1>10, <1>12, <1>13 DEF Settled

LEMMA UsersSettled ==
    ASSUME NEW tree \in Trees, NEW c \in Configs
    PROVE  /\ resolve_users(tree, c) \in Accs
           /\ Settled(resolve_users(tree, c), Len(c.users), tree)
<1>1. TypedTree(tree) /\ RealLinks(tree) /\ real_dir(tree, Root)
  BY TreesAssumption DEF TypedTree, RealLinks
<1>2. c.users \in Seq(Specs) /\ Len(c.users) \in Nat
  BY InputsAssumption
<1>3. PICK a : Loop(a, tree, c) /\ resolve_users(tree, c) = a[Len(c.users)]
  BY <1>1, UsersLoop
<1> DEFINE G == {m \in 0..Len(c.users) : Settled(a[m], m, tree)}
<1>4. 0 \in G
  <2>1. a[0].tree = tree /\ a[0].homes = <<>>
    BY <1>3 DEF Loop
  <2>2. Settled(a[0], 0, tree)
    BY <1>1, <2>1 DEF Settled, LinksFrom
  <2> QED
    BY <1>2, <2>2
<1>5. ASSUME NEW m \in 1..Len(c.users), m - 1 \in G PROVE m \in G
  <2>1. c.users[m] \in Specs /\ a[m - 1] \in Accs /\ m - 1 \in Nat /\ m \in 0..Len(c.users)
    <3>1. m - 1 \in 0..Len(c.users) /\ m - 1 \in Nat /\ m \in 0..Len(c.users)
      BY <1>2
    <3>2. a[m - 1] \in Accs
      BY <1>3, <3>1 DEF Loop
    <3>3. c.users[m] \in Specs
      BY <1>2
    <3> QED
      BY <3>1, <3>2, <3>3
  <2>2. a[m] = resolve_user(a[m - 1], c.users[m])
    BY <1>3 DEF Loop
  <2>3. Settled(a[m - 1], m - 1, tree)
    BY <1>5
  <2>4. PICK i, x, y : i = m - 1 /\ x = a[m - 1] /\ y = c.users[m]
    OBVIOUS
  <2>5. i \in Nat /\ x \in Accs /\ y \in Specs /\ Settled(x, i, tree) /\ i + 1 = m
    BY <2>1, <2>3, <2>4
  <2>6. Settled(a[m], m, tree)
    <3>1. Settled(resolve_user(x, y), i + 1, tree)
      BY <2>5, UserSettled
    <3> QED
      BY <2>2, <2>4, <2>5, <3>1
  <2> QED
    BY <2>1, <2>6
<1>6. \A m \in 0..Len(c.users) : m \in G
  <2> HIDE DEF G
  <2> QED
    BY <1>2, <1>4, <1>5, UpTo
<1>7. Len(c.users) \in 0..Len(c.users)
  BY <1>2
<1> QED
  BY <1>3, <1>6, <1>7 DEF Loop

-----------------------------------------------------------------------------
OwnersOf(c, b, a) == {b[n] : n \in DOMAIN b} \cup (IF c.anonymous = NoSpec THEN {} ELSE {a})

\* What UserDirectory promises about the users b and the anonymous user a.
Directory(c, b, a) ==
    /\ \A n \in DOMAIN b : b[n].name = n
    /\ \A u \in {b[n] : n \in DOMAIN b} \cup {a} : starts_with(u.home, Root) /\ u.home \in Nodes
    /\ \A u, v \in OwnersOf(c, b, a) : u # v => ~starts_with(u.home, v.home)
    /\ c.anonymous = NoSpec => a.home = Root /\ a.permissions = {"Read"}

LEMMA Loaded ==
    ASSUME NEW tree \in Trees, NEW c \in Configs, from_config(tree, c).ok
    PROVE  LET d == from_config(tree, c)
           IN /\ Directory(c, d.by_name, d.anonymous)
              /\ TypedTree(d.tree) /\ LinksFrom(d.tree, tree)
              /\ \A u \in {d.by_name[n] : n \in DOMAIN d.by_name} \cup {d.anonymous} :
                    real_dir(d.tree, u.home)
<1> DEFINE users == resolve_users(tree, c)
           homes == users.homes
           anon == IF c.anonymous = NoSpec
                   THEN [ok |-> TRUE, home |-> Root, tree |-> users.tree]
                   ELSE resolve_home(users.tree, c.anonymous)
           who(n) == CHOOSE i \in DOMAIN c.users : c.users[i].name = n
           names == {x.name : x \in Range(c.users)}
           b == [n \in names |-> user(c.users[who(n)], homes[who(n)])]
           a == IF c.anonymous = NoSpec THEN read_only(Root) ELSE user(c.anonymous, anon.home)
<1>1. /\ users.ok /\ anon.ok
      /\ \A i, j \in DOMAIN c.users : i # j => c.users[i].name # c.users[j].name
      /\ c.anonymous = NoSpec \/ ~check_home_overlap(anon.home, Range(homes))
  BY DEF from_config
<1>2. from_config(tree, c) = [ok |-> TRUE, tree |-> anon.tree, by_name |-> b, anonymous |-> a]
  BY <1>1 DEF from_config
<1>3. c.users \in Seq(Specs) /\ Len(c.users) \in Nat /\ c.anonymous \in Specs \cup {NoSpec}
  BY InputsAssumption
<1>4. users \in Accs /\ Settled(users, Len(c.users), tree)
  BY UsersSettled
<1>5. /\ TypedTree(users.tree) /\ RealLinks(users.tree) /\ LinksFrom(users.tree, tree)
      /\ real_dir(users.tree, Root)
      /\ homes \in Seq(Seq(RawNames)) /\ Len(homes) = Len(c.users)
      /\ \A j \in 1..Len(c.users) : /\ homes[j] \in Nodes /\ starts_with(homes[j], Root)
                                    /\ real_dir(users.tree, homes[j])
      /\ \A j, k \in 1..Len(c.users) : j # k => ~starts_with(homes[j], homes[k])
  <2> HIDE DEF users
  <2> QED
    BY <1>1, <1>4 DEF Settled, Accs, TypedTree
<1> HIDE DEF users
<1>6. /\ TypedTree(anon.tree) /\ LinksFrom(anon.tree, tree)
      /\ \A p \in Paths : real_dir(users.tree, p) => real_dir(anon.tree, p)
      /\ anon.home \in Nodes /\ starts_with(anon.home, Root) /\ real_dir(anon.tree, anon.home)
  <2>1. CASE c.anonymous = NoSpec
    BY <1>5, <2>1, RootPath, PrefixOrder, TreesAssumption
  <2>2. CASE c.anonymous # NoSpec
    <3>1. c.anonymous \in Specs /\ anon = resolve_home(users.tree, c.anonymous)
      BY <1>3, <2>2
    <3>2. /\ TypedTree(anon.tree) /\ LinksFrom(anon.tree, users.tree)
          /\ \A p \in Paths : real_dir(users.tree, p) => real_dir(anon.tree, p)
          /\ anon.home \in Nodes /\ starts_with(anon.home, Root) /\ real_dir(anon.tree, anon.home)
      BY <1>1, <1>5, <3>1, HomeResolved
    <3> QED
      BY <1>5, <3>2 DEF LinksFrom
  <2> QED
    BY <2>1, <2>2
<1>7. /\ a.home = anon.home
      /\ c.anonymous = NoSpec => a.home = Root /\ a.permissions = {"Read"}
  <2>1. CASE c.anonymous = NoSpec
    BY <2>1 DEF read_only
  <2>2. CASE c.anonymous # NoSpec
    <3> HIDE DEF anon
    <3> QED
      BY <2>2 DEF user
  <2> QED
    BY <2>1, <2>2
<1> HIDE DEF anon
<1>8. ASSUME NEW n \in names
      PROVE  /\ who(n) \in 1..Len(c.users) /\ c.users[who(n)].name = n
             /\ b[n] = user(c.users[who(n)], homes[who(n)])
  <2>1. DOMAIN c.users = 1..Len(c.users)
    BY <1>3
  <2>2. \E i \in DOMAIN c.users : c.users[i].name = n
    BY DEF Range
  <2> QED
    BY <2>1, <2>2
<1>9. ASSUME NEW n \in names
      PROVE  /\ b[n].name = n /\ b[n].home = homes[who(n)]
             /\ b[n].home \in Nodes /\ starts_with(b[n].home, Root)
             /\ real_dir(users.tree, b[n].home)
  <2>1. PICK i, sp : i = who(n) /\ sp = c.users[who(n)]
    OBVIOUS
  <2>2. sp \in Specs /\ i \in 1..Len(c.users) /\ sp.name = n /\ b[n] = user(sp, homes[i])
    <3>1. i \in 1..Len(c.users) /\ sp.name = n /\ b[n] = user(sp, homes[i]) /\ sp = c.users[i]
      <4> HIDE DEF who, b, homes
      <4> QED
        BY <1>8, <2>1
    <3> QED
      BY <1>3, <3>1
  <2>3. homes[i] \in Nodes /\ homes[i] \in Paths
    BY <1>5, <2>2, RootPath
  <2>5. b[n].name = n /\ b[n].home = homes[i]
    <3> HIDE DEF b, homes
    <3> QED
      BY <2>2 DEF user
  <2> QED
    BY <1>5, <2>1, <2>2, <2>5
<1> HIDE DEF a, b, homes, who
<1>10. DOMAIN b = names
  BY DEF b
<1>11. ASSUME NEW n \in names, NEW m \in names, b[n] # b[m]
       PROVE  ~starts_with(b[n].home, b[m].home)
  <2>1. who(n) # who(m)
    BY <1>8, <1>11
  <2> QED
    BY <1>5, <1>8, <1>9, <2>1
<1>12. ASSUME c.anonymous # NoSpec, NEW n \in names
       PROVE  ~starts_with(a.home, b[n].home) /\ ~starts_with(b[n].home, a.home)
  <2>1. homes[who(n)] \in Range(homes)
    BY <1>5, <1>8 DEF Range
  <2>2. ~check_home_overlap(anon.home, Range(homes))
    BY <1>1, <1>12
  <2> QED
    BY <1>7, <1>9, <2>1, <2>2 DEF check_home_overlap
<1>13. ASSUME NEW u \in OwnersOf(c, b, a), NEW v \in OwnersOf(c, b, a), u # v
       PROVE  ~starts_with(u.home, v.home)
  <2> HIDE DEF names
  <2>1. u \in {b[n] : n \in names} \/ (c.anonymous # NoSpec /\ u = a)
    BY <1>10 DEF OwnersOf
  <2>2. v \in {b[n] : n \in names} \/ (c.anonymous # NoSpec /\ v = a)
    BY <1>10 DEF OwnersOf
  <2> QED
    BY <1>11, <1>12, <1>13, <2>1, <2>2
<1>14. ASSUME NEW u \in {b[n] : n \in DOMAIN b} \cup {a}
       PROVE  /\ starts_with(u.home, Root) /\ u.home \in Nodes /\ real_dir(anon.tree, u.home)
  <2>1. CASE u = a
    BY <1>6, <1>7, <2>1
  <2>2. CASE u # a
    <3>1. PICK n \in names : u = b[n]
      BY <1>10, <2>2
    <3>2. u.home \in Nodes /\ starts_with(u.home, Root) /\ real_dir(users.tree, u.home)
      BY <1>9, <3>1
    <3> QED
      BY <1>6, <3>2, RootPath
  <2> QED
    BY <2>1, <2>2
<1>15. Directory(c, b, a)
  BY <1>7, <1>9, <1>10, <1>13, <1>14 DEF Directory
<1> QED
  BY <1>2, <1>6, <1>14, <1>15

-----------------------------------------------------------------------------
(***************************************************************************)
(* The walk of a request's path.                                           *)
(***************************************************************************)

Walks == [ok : BOOLEAN, path : Paths]

LEMMA ComponentTyped ==
    ASSUME NEW x \in Walks, NEW root \in Paths, NEW c \in STRING
    PROVE  walk_component(x, root, c) \in Walks
<1>1. x.path \in Paths /\ Refused \in Walks /\ \A p \in Paths : Resolved(p) \in Walks
  <2>1. <<>> \in Paths
    BY DEF Paths
  <2> QED
    BY <2>1 DEF Walks, Refused, Resolved
<1>2. x.path # <<>> => Front(x.path) \in Paths
  BY <1>1, FrontIsCut DEF Paths
<1>3. c # "/" /\ c # ".." => Append(x.path, c) \in Paths
  <2>1. c # "/" /\ c # ".." => c \in Names
    BY DEF Names
  <2> QED
    BY <1>1, <2>1 DEF Paths
<1> QED
  BY <1>1, <1>2, <1>3 DEF walk_component

LEMMA WalkInside ==
    ASSUME NEW cwd \in Paths, NEW root \in Paths, NEW path \in Seq(STRING),
           walk_safe(cwd, root, path).ok
    PROVE  /\ walk_safe(cwd, root, path).path \in Paths
           /\ starts_with(walk_safe(cwd, root, path).path, root)
<1> DEFINE n == Len(path)
           g == [x \in Walks \X (1..n) |-> walk_component(x[1], root, path[x[2]])]
           Eq(f) == f = [k \in 0..n |-> IF k = 0 THEN Resolved(cwd)
                                        ELSE walk_component(f[k - 1], root, path[k])]
<1>1. n \in Nat /\ Resolved(cwd) \in Walks
  BY DEF Walks, Resolved
<1>2. ASSUME NEW x \in Walks \X (1..n)
      PROVE  walk_component(x[1], root, path[x[2]]) \in Walks
  <2>1. x[1] \in Walks /\ x[2] \in 1..n /\ path[x[2]] \in STRING
    OBVIOUS
  <2> QED
    BY <2>1, ComponentTyped
<1>3. g \in [Walks \X (1..n) -> Walks]
  BY <1>2
<1>4. PICK h : Steps(h, n, Walks, Resolved(cwd), g)
  <2> HIDE DEF g, n
  <2> QED
    BY <1>1, <1>3, StepsExist
<1>5. \A k \in 1..n : h[k] = walk_component(h[k - 1], root, path[k])
  <2>1. \A k \in 1..n : h[k - 1] \in Walks /\ <<h[k - 1], k>> \in Walks \X (1..n)
    <3> HIDE DEF g, n
    <3>1. h \in [0..n -> Walks]
      BY <1>4 DEF Steps
    <3>2. \A k \in 1..n : k - 1 \in 0..n
      BY <1>1
    <3>3. \A k \in 1..n : h[k - 1] \in Walks
      BY <3>1, <3>2
    <3> QED
      BY <3>3
  <2> QED
    BY <1>4, <2>1 DEF Steps
<1>6. h \in [0..n -> Walks] /\ h[0] = Resolved(cwd)
  BY <1>4 DEF Steps
<1>7. Eq(h)
  <2>1. \A k \in 0..n : h[k] = IF k = 0 THEN Resolved(cwd) ELSE walk_component(h[k - 1], root, path[k])
    BY <1>1, <1>5, <1>6
  <2> QED
    BY <1>6, <2>1
<1>8. PICK f : f = CHOOSE x : Eq(x)
  OBVIOUS
<1>9. Eq(f)
  BY <1>7, <1>8
<1>10. walk_safe(cwd, root, path) = IF f[n].ok /\ ~starts_with(f[n].path, root) THEN Refused ELSE f[n]
  BY <1>8 DEF walk_safe
<1>11. f[0] = Resolved(cwd) /\ \A k \in 1..n : f[k] = walk_component(f[k - 1], root, path[k])
  BY <1>1, <1>9
<1> HIDE DEF Eq
<1> DEFINE G == {m \in 0..n : f[m] \in Walks}
<1>12. 0 \in G
  BY <1>1, <1>11
<1>13. ASSUME NEW m \in 1..n, m - 1 \in G PROVE m \in G
  <2>1. path[m] \in STRING /\ f[m - 1] \in Walks
    BY <1>13
  <2>2. f[m] \in Walks
    BY <1>11, <2>1, ComponentTyped
  <2> QED
    BY <1>1, <2>2
<1>14. \A m \in 0..n : m \in G
  <2> HIDE DEF G, n
  <2> QED
    BY <1>1, <1>12, <1>13, UpTo
<1>15. f[n] \in Walks
  BY <1>1, <1>14
<1>16. Refused.ok = FALSE
  BY DEF Refused
<1> HIDE DEF n
<1>17. f[n].ok /\ starts_with(f[n].path, root) /\ walk_safe(cwd, root, path) = f[n]
  BY <1>10, <1>15, <1>16 DEF Walks
<1> QED
  BY <1>15, <1>17 DEF Walks
-----------------------------------------------------------------------------
(***************************************************************************)
(* The inductive invariant.                                                *)
(***************************************************************************)

\* The users of the directory.
UsersOf(b, a) == {b[n] : n \in DOMAIN b} \cup {a}
Users == UsersOf(by_name, anonymous)

\* Nobody's path was moved between its re-check and its system call.
NoRace == \A s \in Active : ~sess[s].raced

\* The links the operator put into the tree lead out of the root.
LinksLeadAway == LinksAway(fs)

SessionsOf(users) ==
    [user : users, cwd : Paths, req : Requests \cup {NoSpec},
     pc : {"idle", "resolve", "recheck"} \cup Checked, target : Paths, dest : Paths,
     raced : BOOLEAN, touched : SUBSET Paths, left : Nat]

\* No link lies on the way to the path, its last component aside.
PlainWay(tree, p) == \A k \in 1..(Len(p) - 1) : node(tree, Cut(p, k)).k # "link"

\* Two names in one directory.
Beside(p, q) == p # <<>> /\ q # <<>> /\ Len(p) = Len(q) /\ Cut(p, Len(p) - 1) = Cut(q, Len(q) - 1)

Within(p, h) == starts_with(p, h) /\ p # h

\* The re-checks of the session r still hold: its paths mean what they say.
Fresh(tree, r) ==
    /\ located(tree, r.target) = r.target
    /\ r.req.op \in {"Rename", "Put"} => located(tree, r.dest) = r.dest
    /\ r.req.op = "Put" => PlainWay(tree, r.target)
    /\ r.req.op \in {"Cd", "Ls"} \/ r.pc \in {"chmod", "mode"} =>
          canonicalize(tree, r.target) = r.target

\* What holds of a session between any two steps.
Sound(tree, users, r) ==
    /\ r \in SessionsOf(users)
    /\ starts_with(r.cwd, r.user.home)
    /\ r.pc # "idle" => /\ r.req \in Requests
                        /\ required_op(r.req.op) \subseteq r.user.permissions
                        /\ starts_with(r.target, r.user.home)
                        /\ r.req.op = "Rename" => starts_with(r.dest, r.user.home)
    /\ r.pc \in Checked =>
          /\ r.req.op \notin {"Cd", "Ls", "Stat"} => r.target # r.user.home
          /\ r.req.op \in {"Rename", "Put"} => Within(r.dest, r.user.home)
          /\ r.req.op = "Put" => Beside(r.dest, r.target)
          /\ r.raced \/ Fresh(tree, r)
    /\ r.pc = "chmod" => r.req.op = "Chmod"
    /\ r.pc \in {"body", "commit", "mode"} => r.req.op = "Put"
    /\ r.raced \/ \A p \in r.touched : starts_with(p, r.user.home)

Loading == /\ phase \in {"start", "refused", "serving"}
           /\ phase = "start" => fs \in Trees /\ cfg \in Configs
           /\ phase = "serving" => Directory(cfg, by_name, anonymous)

Serving == /\ TypedTree(fs)
           /\ \A u \in Users : real_dir(fs, u.home)
           /\ \A s \in Sessions : sess[s] = NoSpec \/ Sound(fs, Users, sess[s])

HomesInv == /\ Loading
            /\ sess = [s \in Sessions |-> sess[s]]
            /\ IF phase = "serving" THEN Serving ELSE \A s \in Sessions : sess[s] = NoSpec
-----------------------------------------------------------------------------
(***************************************************************************)
(* What a passed re-check means for a home that is a real directory.       *)
(***************************************************************************)

LEMMA AppendsEqual ==
    ASSUME NEW x \in Paths, NEW y \in Paths, NEW c \in Names, Append(x, c) = Append(y, c)
    PROVE  x = y
<1>1. /\ x \in Seq(Names) /\ y \in Seq(Names) /\ Len(x) \in Nat /\ Len(y) \in Nat
  BY DEF Paths
<1>2. Len(Append(x, c)) = Len(x) + 1 /\ Len(Append(y, c)) = Len(y) + 1
  BY <1>1
<1>3. Len(x) = Len(y)
  BY <1>1, <1>2
<1>4. \A i \in 1..Len(x) : x[i] = Append(x, c)[i] /\ y[i] = Append(y, c)[i]
  BY <1>1, <1>3
<1>5. \A i \in 1..Len(x) : x[i] = y[i]
  BY <1>4
<1> QED
  BY <1>1, <1>3, <1>5, SameSeq

LEMMA PathFacts ==
    ASSUME NEW p \in Paths, p # <<>>
    PROVE  /\ Len(p) \in Nat \ {0} /\ Len(p) - 1 \in 0..Len(p) /\ Len(p) \in 1..Len(p)
           /\ p[Len(p)] \in Names /\ Cut(p, Len(p) - 1) \in Paths
           /\ p = Append(Cut(p, Len(p) - 1), p[Len(p)]) /\ Cut(p, Len(p)) = p
           /\ Front(p) = Cut(p, Len(p) - 1)
<1>1. p \in Seq(Names)
  BY DEF Paths
<1>2. Len(p) \in Nat \ {0} /\ Front(p) = Cut(p, Len(p) - 1)
  BY <1>1, FrontIsCut
<1>3. Len(p) - 1 \in 0..Len(p) /\ Len(p) \in 1..Len(p)
  BY <1>2
<1>4. Cut(p, Len(p)) = p /\ p[Len(p)] \in Names
  BY <1>1, <1>2, <1>3, Cuts
<1>5. Cut(p, Len(p)) = Append(Cut(p, Len(p) - 1), p[Len(p)])
  BY <1>1, <1>3, PrefixStep
<1>6. Cut(p, Len(p) - 1) \in Paths
  BY <1>3, CutStarts
<1> QED
  BY <1>2, <1>3, <1>4, <1>5, <1>6

\* A path that is found where it says leads there along directories and no links.
LEMMA LocatedFront ==
    ASSUME NEW tree, TypedTree(tree), NEW p \in Paths, p # <<>>, located(tree, p) = p
    PROVE  canonicalize(tree, Cut(p, Len(p) - 1)) = Cut(p, Len(p) - 1)
<1>1. canonicalize(tree, Cut(p, Len(p) - 1)) \in Paths
  BY PathFacts, PathsAreRaw, Canonicalize
<1>2. Append(canonicalize(tree, Cut(p, Len(p) - 1)), p[Len(p)]) = Append(Cut(p, Len(p) - 1), p[Len(p)])
  BY LocatedIs, PathFacts
<1> QED
  BY <1>1, <1>2, PathFacts, AppendsEqual

LEMMA LeafNoLink ==
    ASSUME NEW tree, TypedTree(tree), NEW p \in Paths, p # <<>>, located(tree, p) = p,
           node(tree, p).k # "link"
    PROVE  canonicalize(tree, p) = p
<1>1. canonicalize(tree, Cut(p, Len(p) - 1)) = Cut(p, Len(p) - 1)
  BY LocatedFront
<1>2. canonicalize(tree, Cut(p, Len(p))) = follow(tree, Cut(p, Len(p) - 1), p[Len(p)])
  BY <1>1, PathFacts, PathsAreRaw, Canonicalize
<1>3. p[Len(p)] # ".."
  BY PathFacts DEF Names
<1>4. follow(tree, Cut(p, Len(p) - 1), p[Len(p)]) = p
  BY <1>3, PathFacts DEF follow
<1> QED
  BY <1>2, <1>4, PathFacts

LEMMA RecheckMeans ==
    ASSUME TypedTree(fs), NEW p \in Paths, NEW h \in Paths, real_dir(fs, h),
           recheck_ancestors_no_symlinks(p, h)
    PROVE  p # h /\ p # <<>> /\ located(fs, p) = p /\ PlainWay(fs, p)
<1>1. starts_with(p, h) /\ p # h
  BY DEF recheck_ancestors_no_symlinks
<1>2. Len(h) \in Nat /\ Len(p) \in Nat /\ Len(h) <= Len(p) /\ Cut(p, Len(h)) = h
  BY <1>1, PrefixOrder DEF Paths
<1>3. p \in Seq(Names) /\ h \in Seq(Names)
  BY DEF Paths
<1>4. Len(h) < Len(p) /\ p # <<>>
  <2>1. Len(p) <= Len(h) => p = h
    BY <1>1, <1>2, PrefixOrder
  <2> QED
    BY <1>1, <1>2, <2>1
<1> DEFINE last == Len(p) - 1
           G == {n \in 0..last : \A k \in 1..n : node(fs, Cut(p, k)).k # "link"}
<1>5. last \in Nat /\ last < Len(p)
  BY <1>2, <1>4
<1>6. 0 \in G
  BY <1>5
<1>7. ASSUME NEW m \in 1..last, m - 1 \in G PROVE m \in G
  <2>1. m \in 0..last /\ m \in 1..Len(p) /\ m - 1 \in 0..Len(p) /\ m - 1 \in 0..m /\ m \in 0..Len(p)
    BY <1>2, <1>5
  <2>2. \A k \in 1..(m - 1) : node(fs, Cut(p, k)).k # "link"
    BY <1>7
  <2>3. node(fs, Cut(p, m)).k # "link"
    <3>1. CASE m <= Len(h)
      <4>1. m \in 0..Len(h) /\ Len(h) \in 0..Len(p)
        BY <1>2, <2>1, <3>1
      <4>2. Cut(p, m) = Cut(h, m)
        BY <1>2, <1>3, <4>1, PrefixOfPrefix
      <4>3. node(fs, Cut(h, m)).k = "dir"
        BY <4>1, RealDirs
      <4> QED
        BY <4>2, <4>3
    <3>2. CASE m > Len(h)
      <4>1. canonicalize(fs, Cut(p, m - 1)) = Cut(p, m - 1)
        BY <2>1, <2>2, NoLinkOnTheWay
      <4>2. Cut(p, m) \in Paths /\ Len(Cut(p, m)) = m /\ Cut(Cut(p, m), m - 1) = Cut(p, m - 1)
            /\ Cut(p, m)[m] = p[m] /\ Cut(p, m) # <<>> /\ Cut(p, m) = Append(Cut(p, m - 1), p[m])
        <5>1. Cut(p, m) \in Paths
          BY <2>1, CutStarts
        <5>2. Len(Cut(p, m)) = m /\ Cut(p, m)[m] = p[m]
          BY <1>3, <2>1, Cuts
        <5>3. Cut(Cut(p, m), m - 1) = Cut(p, m - 1)
          BY <1>3, <2>1, PrefixOfPrefix
        <5>4. Cut(p, m) # <<>> /\ Cut(p, m) = Append(Cut(p, m - 1), p[m])
          BY <1>3, <2>1, PrefixStep
        <5> QED
          BY <5>1, <5>2, <5>3, <5>4
      <4>3. located(fs, Cut(p, m)) = Cut(p, m)
        BY <4>1, <4>2, LocatedIs
      <4>4. Cut(p, m) # h
        BY <1>2, <3>2, <4>2
      <4>5. symlink_metadata(fs, Cut(p, m)).k # "link"
        <5>1. m \in Len(h)..(Len(p) - 1)
          BY <1>2, <2>1, <3>2
        <5> QED
          BY <4>4, <5>1 DEF recheck_ancestors_no_symlinks, Cut
      <4> QED
        BY <4>3, <4>5 DEF symlink_metadata
    <3> QED
      BY <1>2, <2>1, <3>1, <3>2
  <2>4. \A k \in 1..m : k \in 1..(m - 1) \/ k = m
    BY <2>1
  <2> QED
    BY <2>1, <2>2, <2>3, <2>4
<1>8. \A m \in 0..last : m \in G
  <2> HIDE DEF G, last
  <2> QED
    BY <1>5, <1>6, <1>7, UpTo
<1>9. \A k \in 1..last : node(fs, Cut(p, k)).k # "link"
  BY <1>5, <1>8
<1>10. canonicalize(fs, Cut(p, last)) = Cut(p, last)
  <2>1. last \in 0..Len(p) /\ last \in 0..last
    BY <1>5
  <2> HIDE DEF last
  <2> QED
    BY <1>9, <2>1, NoLinkOnTheWay
<1>11. located(fs, p) = Append(Cut(p, last), p[Len(p)])
  BY <1>4, <1>10, LocatedIs
<1>12. PlainWay(fs, p)
  BY <1>9 DEF PlainWay
<1> QED
  BY <1>1, <1>4, <1>11, <1>12, PathFacts

\* A path whose way holds no link is found where it says.
LEMMA PlainIsLocated ==
    ASSUME NEW tree, TypedTree(tree), NEW p \in Paths, p # <<>>, PlainWay(tree, p)
    PROVE  /\ located(tree, p) = p
           /\ node(tree, p).k # "link" => canonicalize(tree, p) = p
<1>1. Len(p) - 1 \in 0..Len(p) /\ Len(p) - 1 \in 0..(Len(p) - 1)
  BY PathFacts
<1> DEFINE m == Len(p) - 1
<1>4. m \in 0..Len(p) /\ \A n \in 1..m : node(tree, Cut(p, n)).k # "link"
  BY <1>1 DEF PlainWay
<1> HIDE DEF m
<1>5. \A n \in 0..m : canonicalize(tree, Cut(p, n)) = Cut(p, n)
  BY <1>4, NoLinkOnTheWay
<1>2. \A n \in 0..(Len(p) - 1) : canonicalize(tree, Cut(p, n)) = Cut(p, n)
  BY <1>5 DEF m
<1>6. canonicalize(tree, Cut(p, Len(p) - 1)) = Cut(p, Len(p) - 1)
  BY <1>1, <1>2
<1>7. located(tree, p) = Append(Cut(p, Len(p) - 1), p[Len(p)])
  BY <1>6, LocatedIs
<1>3. located(tree, p) = p
  BY <1>7, PathFacts
<1> QED
  BY <1>3, LeafNoLink

\* What lies beside it is reached the same way.
LEMMA PlainBeside ==
    ASSUME NEW tree, NEW p \in Paths, NEW q \in Paths, Beside(q, p), PlainWay(tree, p)
    PROVE  PlainWay(tree, q)
<1> DEFINE n == Len(p) - 1
<1>1. /\ Len(q) - 1 = n /\ Cut(q, n) = Cut(p, n) /\ p \in Seq(Names) /\ q \in Seq(Names)
      /\ n \in 0..Len(p) /\ n \in 0..Len(q)
  BY PathFacts DEF Beside, Paths
<1>2. ASSUME NEW k \in 1..n PROVE Cut(q, k) = Cut(p, k)
  <2>1. k \in 0..n
    BY <1>1
  <2>2. Cut(Cut(q, n), k) = Cut(q, k) /\ Cut(Cut(p, n), k) = Cut(p, k)
    <3> HIDE DEF n
    <3> QED
      BY <1>1, <2>1, PrefixOfPrefix
  <2> QED
    BY <1>1, <2>2
<1> QED
  BY <1>1, <1>2 DEF PlainWay

\* The partial lies beside the file; and what lies beside a path in the home is there too.
LEMMA TempBeside ==
    ASSUME NEW p \in Paths, p # <<>>, temp_path_for(p) \in Paths
    PROVE  Beside(temp_path_for(p), p)
<1> DEFINE c == temp_name(Last(p))
           f == Cut(p, Len(p) - 1)
           q == temp_path_for(p)
<1>1. q = Append(f, c) /\ Len(p) \in Nat \ {0} /\ f \in Paths /\ Len(f) = Len(p) - 1
  <2>1. Front(p) = f /\ Len(p) \in Nat \ {0} /\ f \in Paths /\ Len(p) - 1 \in 0..Len(p)
    BY PathFacts
  <2>2. Len(f) = Len(p) - 1
    BY <2>1, Cuts DEF Paths
  <2> QED
    BY <2>1, <2>2 DEF temp_path_for
<1> HIDE DEF f
<1>2. f \in Seq(Names \cup {c})
  BY <1>1, SeqMonotonic DEF Paths
<1>3. q # <<>> /\ Len(q) = Len(p) /\ \A i \in 1..Len(f) : q[i] = f[i]
  BY <1>1, <1>2, AppendProperties
<1> HIDE DEF q
<1>4. Len(q) - 1 \in 0..Len(q) /\ Len(q) - 1 = Len(f)
  BY <1>1, <1>3
<1>5. /\ Cut(q, Len(q) - 1) \in Seq(Names) /\ Len(Cut(q, Len(q) - 1)) = Len(q) - 1
      /\ \A i \in 1..(Len(q) - 1) : Cut(q, Len(q) - 1)[i] = q[i]
  <2>1. q \in Seq(Names)
    BY DEF q, Paths
  <2> QED
    BY <1>4, <2>1, Cuts
<1>6. Cut(q, Len(q) - 1) = f
  BY <1>1, <1>3, <1>4, <1>5, SameSeq DEF Paths
<1>7. Cut(q, Len(q) - 1) = Cut(p, Len(p) - 1)
  BY <1>6 DEF f
<1> QED
  BY <1>3, <1>7 DEF Beside, q

LEMMA BesideWithin ==
    ASSUME NEW p \in Paths, NEW q \in Paths, NEW h \in Paths, Beside(q, p), Within(p, h)
    PROVE  Within(q, h)
<1> DEFINE n == Len(p) - 1
<1>1. /\ Len(p) \in Nat \ {0} /\ Len(h) \in Nat /\ Len(q) = Len(p) /\ Len(h) <= Len(p)
      /\ Cut(q, n) = Cut(p, n) /\ n \in 0..Len(p) /\ n \in 0..Len(q)
  BY PathFacts, PrefixOrder DEF Beside, Within, Paths
<1>2. Len(h) < Len(p)
  BY <1>1, PrefixOrder DEF Within
<1>3. \A i \in 1..n : q[i] = p[i]
  <2>1. /\ \A i \in 1..n : Cut(q, n)[i] = q[i]
        /\ \A i \in 1..n : Cut(p, n)[i] = p[i]
    <3> HIDE DEF n
    <3> QED
      BY <1>1, Cuts DEF Paths
  <2> QED
    BY <1>1, <2>1
<1>4. \A i \in 1..Len(h) : h[i] = p[i]
  BY StartsWith DEF Within, Paths
<1>5. \A i \in 1..Len(h) : i \in 1..n
  BY <1>1, <1>2
<1>6. \A i \in 1..Len(h) : h[i] = q[i]
  BY <1>3, <1>4, <1>5
<1>7. starts_with(q, h)
  BY <1>1, <1>2, <1>6, StartsWith DEF Paths
<1> QED
  BY <1>1, <1>2, <1>7 DEF Within

-----------------------------------------------------------------------------
(***************************************************************************)
(* What a request may change, and why homes survive it.                    *)
(***************************************************************************)

InScope(p, h) == Within(p, h) \/ Away(p)

LEMMA Aim ==
    ASSUME NEW tree, TypedTree(tree), NEW h \in Paths, NEW p \in Paths, Within(p, h),
           LinksAway(tree) \/ located(tree, p) = p
    PROVE  located(tree, p) \in Paths /\ InScope(located(tree, p), h)
<1>1. located(tree, p) = p \/ (located(tree, p) \in Paths /\ Away(located(tree, p)))
  BY PathsStray
<1> QED
  BY <1>1 DEF InScope

LEMMA ScopeBelow ==
    ASSUME NEW p \in Paths, NEW q \in Paths, NEW h \in Paths, InScope(p, h), starts_with(q, p)
    PROVE  InScope(q, h)
<1>1. CASE Away(p)
  BY <1>1, AwayBelow DEF InScope
<1>2. CASE Within(p, h)
  <2>1. starts_with(q, h)
    BY <1>2, PrefixTrans DEF Within
  <2>2. q # h
    <3> SUFFICES ASSUME q = h PROVE FALSE
      OBVIOUS
    <3>1. Len(p) <= Len(q) /\ Len(h) <= Len(p)
      BY <1>2, PrefixOrder DEF Within
    <3> QED
      BY <1>2, <3>1, PrefixOrder DEF Within
  <2> QED
    BY <2>1, <2>2 DEF Within, InScope
<1> QED
  BY <1>1, <1>2 DEF InScope

\* No home lies at or below a place that a request of another user may change.
LEMMA ScopeMissesHomes ==
    ASSUME NEW c, NEW b, NEW a, Directory(c, b, a), NEW u \in OwnersOf(c, b, a),
           NEW v \in UsersOf(b, a), NEW q \in Paths, InScope(q, u.home)
    PROVE  ~starts_with(v.home, q)
<1> SUFFICES ASSUME starts_with(v.home, q) PROVE FALSE
  OBVIOUS
<1>1. /\ v.home \in Paths /\ starts_with(v.home, Root)
      /\ u.home \in Paths /\ starts_with(u.home, Root)
  BY RootPath DEF Directory, OwnersOf, UsersOf
<1>2. CASE Away(q)
  BY <1>1, <1>2, RootPath, PrefixesCompare DEF Away
<1>3. CASE Within(q, u.home)
  <2>1. starts_with(v.home, u.home)
    BY <1>1, <1>3, PrefixTrans DEF Within
  <2>2. v.home # u.home
    <3> SUFFICES ASSUME v.home = u.home PROVE FALSE
      OBVIOUS
    <3>1. Len(q) <= Len(u.home)
      BY <1>1, PrefixOrder
    <3> QED
      BY <1>1, <1>3, <3>1, PrefixOrder DEF Within
  <2>3. CASE v \in OwnersOf(c, b, a)
    BY <2>1, <2>2, <2>3 DEF Directory
  <2>4. CASE v \notin OwnersOf(c, b, a)
    <3>1. v = a /\ c.anonymous = NoSpec
      BY <2>4 DEF UsersOf, OwnersOf
    <3>2. v.home = Root
      BY <3>1 DEF Directory
    <3> QED
      BY <1>1, <2>1, <2>2, <3>2, PrefixOrder
  <2> QED
    BY <2>3, <2>4
<1> QED
  BY <1>2, <1>3 DEF InScope
LEMMA HomesSurvive ==
    ASSUME NEW c, NEW b, NEW a, Directory(c, b, a), NEW u \in OwnersOf(c, b, a),
           NEW v \in UsersOf(b, a), NEW tree, NEW next, TypedTree(tree), TypedTree(next),
           real_dir(tree, v.home),
           \A q \in Nodes : next[q] # tree[q] => InScope(q, u.home)
    PROVE  real_dir(next, v.home)
<1>1. v.home \in Paths
  BY RootPath DEF Directory, UsersOf
<1>2. ASSUME NEW n \in 0..Len(v.home)
      PROVE  node(next, Cut(v.home, n)).k = "dir"
  <2>1. node(tree, Cut(v.home, n)).k = "dir" /\ Cut(v.home, n) \in Nodes
    BY <1>1, RealDirs
  <2>2. starts_with(v.home, Cut(v.home, n)) /\ Cut(v.home, n) \in Paths
    BY <1>1, CutStarts
  <2>3. ~InScope(Cut(v.home, n), u.home)
    BY <2>2, ScopeMissesHomes
  <2>4. next[Cut(v.home, n)] = tree[Cut(v.home, n)]
    BY <2>1, <2>3
  <2> QED
    BY <2>1, <2>4 DEF node
<1> QED
  BY <1>2 DEF real_dir, Cut

\* Whoever may do more than read is an owner: the implicit anonymous user is not.
LEMMA Writers ==
    ASSUME NEW c, NEW b, NEW a, Directory(c, b, a), NEW u \in UsersOf(b, a),
           NEW x \in u.permissions, x # "Read"
    PROVE  u \in OwnersOf(c, b, a)
<1> SUFFICES ASSUME u \notin OwnersOf(c, b, a) PROVE FALSE
  OBVIOUS
<1>1. u = a /\ c.anonymous = NoSpec
  BY DEF UsersOf, OwnersOf
<1> QED
  BY <1>1 DEF Directory

\* A change below a named user's home is made by that user.
LEMMA ScopeHasOwner ==
    ASSUME NEW c, NEW b, NEW a, Directory(c, b, a), NEW u \in OwnersOf(c, b, a),
           NEW n \in DOMAIN b, NEW q \in Paths, InScope(q, u.home), starts_with(q, b[n].home)
    PROVE  u.name = n
<1>1. b[n] \in OwnersOf(c, b, a) /\ b[n].name = n
  BY DEF Directory, OwnersOf
<1>2. /\ b[n].home \in Paths /\ starts_with(b[n].home, Root)
      /\ u.home \in Paths /\ starts_with(u.home, Root)
  BY RootPath DEF Directory, OwnersOf
<1>3. starts_with(q, Root)
  BY <1>2, RootPath, PrefixTrans
<1>4. starts_with(q, u.home)
  BY <1>3 DEF InScope, Within, Away
<1>5. starts_with(u.home, b[n].home) \/ starts_with(b[n].home, u.home)
  BY <1>2, <1>4, PrefixesCompare
<1> QED
  BY <1>1, <1>5 DEF Directory

-----------------------------------------------------------------------------
(***************************************************************************)
(* A system call: its result is a tree that differs only within the scope  *)
(* of its user, and what it touched lies in the home unless it was raced.  *)
(***************************************************************************)

Scoped(s, tree) ==
    tree = fs \/ /\ sess[s].user \in OwnersOf(cfg, by_name, anonymous)
                 /\ \A q \in Nodes : tree[q] # fs[q] => InScope(q, home(s))
                 /\ LinksAway(fs) => LinksAway(tree)

Proper(s, tree, nodes, cwd) ==
    /\ TypedTree(tree)
    /\ cwd \in Paths /\ starts_with(cwd, home(s))
    /\ nodes \in SUBSET Paths
    /\ sess[s].raced \/ \A p \in nodes : starts_with(p, home(s))
    /\ Scoped(s, tree)

Busy(s) == /\ s \in Sessions /\ sess[s] # NoSpec /\ sess[s].pc \in Checked
           /\ HomesInv /\ phase = "serving"

LEMMA BusyFacts ==
    ASSUME NEW s, Busy(s)
    PROVE  /\ TypedTree(fs) /\ Directory(cfg, by_name, anonymous)
           /\ Sound(fs, Users, sess[s]) /\ sess[s] \in SessionsOf(Users)
           /\ sess[s].user \in Users /\ home(s) \in Paths /\ real_dir(fs, home(s))
           /\ starts_with(home(s), Root)
           /\ sess[s].cwd \in Paths /\ starts_with(sess[s].cwd, home(s))
           /\ sess[s].target \in Paths /\ starts_with(sess[s].target, home(s))
           /\ sess[s].dest \in Paths
           /\ sess[s].req \in Requests
           /\ required_op(sess[s].req.op) \subseteq sess[s].user.permissions
           /\ sess[s].raced \/ Fresh(fs, sess[s])
<1>1. TypedTree(fs) /\ Directory(cfg, by_name, anonymous) /\ Sound(fs, Users, sess[s])
  BY DEF Busy, HomesInv, Loading, Serving
<1>2. sess[s] \in SessionsOf(Users)
  BY <1>1 DEF Sound
<1>3. sess[s].user \in Users /\ sess[s].cwd \in Paths /\ sess[s].target \in Paths
      /\ sess[s].dest \in Paths
  BY <1>2 DEF SessionsOf
<1>4. home(s) \in Paths /\ starts_with(home(s), Root)
  BY <1>1, <1>3, RootPath DEF Directory, Users, UsersOf, home
<1>5. real_dir(fs, home(s))
  BY <1>3 DEF Busy, HomesInv, Serving, home
<1> QED
  BY <1>1, <1>2, <1>3, <1>4, <1>5 DEF Sound, home, Busy, Checked

\* A call that leaves the tree alone.
LEMMA ReadsAreProper ==
    ASSUME NEW s, Busy(s), NEW nodes, NEW cwd \in Paths, starts_with(cwd, home(s)),
           nodes \in SUBSET Paths, sess[s].raced \/ \A p \in nodes : starts_with(p, home(s))
    PROVE  Proper(s, fs, nodes, cwd)
BY BusyFacts DEF Proper, Scoped

LEMMA TargetTouched ==
    ASSUME NEW s, Busy(s)
    PROVE  /\ located(fs, sess[s].target) \in Paths
           /\ canonicalize(fs, sess[s].target) \in Paths
           /\ ~sess[s].raced => located(fs, sess[s].target) = sess[s].target
           /\ ~sess[s].raced => starts_with(located(fs, sess[s].target), home(s))
<1>1. /\ sess[s].target \in Paths /\ TypedTree(fs) /\ starts_with(sess[s].target, home(s))
      /\ sess[s].raced \/ Fresh(fs, sess[s])
  BY BusyFacts
<1>2. canonicalize(fs, sess[s].target) \in Paths
  BY <1>1, PathsAreRaw, Canonicalize
<1>3. located(fs, sess[s].target) \in Paths
  <2>1. CASE sess[s].target = <<>>
    BY <1>1, <2>1 DEF located
  <2>2. CASE sess[s].target # <<>>
    <3> DEFINE p == sess[s].target
    <3>1. /\ located(fs, p) = Append(canonicalize(fs, Cut(p, Len(p) - 1)), p[Len(p)])
          /\ p[Len(p)] \in Names /\ Cut(p, Len(p) - 1) \in Paths
      BY <1>1, <2>2, LocatedIs, PathFacts
    <3>2. canonicalize(fs, Cut(p, Len(p) - 1)) \in Paths
      BY <1>1, <3>1, PathsAreRaw, Canonicalize
    <3> QED
      BY <3>1, <3>2, AppendStarts
  <2> QED
    BY <2>1, <2>2
<1> QED
  BY <1>1, <1>2, <1>3 DEF Fresh

Outcome(s) == \E tree, nodes, cwd : Proper(s, tree, nodes, cwd) /\ acted(s, tree, nodes, cwd)

LEMMA CdProper ==
    ASSUME NEW s, Busy(s), cd(s)
    PROVE  Outcome(s)
<1> DEFINE p == sess[s].target
           cwd == IF node(fs, canonicalize(fs, p)).k = "dir" THEN p ELSE sess[s].cwd
           nodes == {canonicalize(fs, p)}
<1>1. acted(s, fs, nodes, cwd) /\ sess[s].req.op = "Cd"
  BY DEF cd, pending
<1>2. cwd \in Paths /\ starts_with(cwd, home(s))
  BY BusyFacts
<1>3. nodes \in SUBSET Paths /\ (sess[s].raced \/ \A x \in nodes : starts_with(x, home(s)))
  BY <1>1, BusyFacts, TargetTouched DEF Fresh
<1> HIDE DEF cwd, nodes
<1>4. Proper(s, fs, nodes, cwd)
  BY <1>2, <1>3, ReadsAreProper
<1> QED
  BY <1>1, <1>4 DEF Outcome

LEMMA LsProper ==
    ASSUME NEW s, Busy(s), ls(s)
    PROVE  Outcome(s)
<1> DEFINE nodes == {canonicalize(fs, sess[s].target)}
<1>1. acted(s, fs, nodes, sess[s].cwd) /\ sess[s].req.op = "Ls"
  BY DEF ls, pending
<1>2. nodes \in SUBSET Paths /\ (sess[s].raced \/ \A x \in nodes : starts_with(x, home(s)))
  BY <1>1, BusyFacts, TargetTouched DEF Fresh
<1> HIDE DEF nodes
<1>3. Proper(s, fs, nodes, sess[s].cwd)
  BY <1>2, BusyFacts, ReadsAreProper
<1> QED
  BY <1>1, <1>3 DEF Outcome

LEMMA StatProper ==
    ASSUME NEW s, Busy(s), stat(s)
    PROVE  Outcome(s)
<1> DEFINE nodes == {located(fs, sess[s].target)}
<1>1. acted(s, fs, nodes, sess[s].cwd)
  BY DEF stat
<1>2. nodes \in SUBSET Paths /\ (sess[s].raced \/ \A x \in nodes : starts_with(x, home(s)))
  BY TargetTouched
<1> HIDE DEF nodes
<1>3. Proper(s, fs, nodes, sess[s].cwd)
  BY <1>2, BusyFacts, ReadsAreProper
<1> QED
  BY <1>1, <1>3 DEF Outcome

LEMMA GetProper ==
    ASSUME NEW s, Busy(s), get(s)
    PROVE  Outcome(s)
<1> DEFINE p == located(fs, sess[s].target)
           nodes == IF node(fs, p).k = "file" THEN {p} ELSE {}
<1>1. acted(s, fs, nodes, sess[s].cwd)
  BY DEF get
<1>2. nodes \in SUBSET Paths /\ (sess[s].raced \/ \A x \in nodes : starts_with(x, home(s)))
  BY TargetTouched
<1> HIDE DEF nodes
<1>3. Proper(s, fs, nodes, sess[s].cwd)
  BY <1>2, BusyFacts, ReadsAreProper
<1> QED
  BY <1>1, <1>3 DEF Outcome

LEMMA SetModeProper ==
    ASSUME NEW s, Busy(s), set_mode(s)
    PROVE  Outcome(s)
<1> DEFINE nodes == {canonicalize(fs, sess[s].target)}
<1>1. acted(s, fs, nodes, sess[s].cwd) /\ sess[s].pc = "chmod"
  BY DEF set_mode
<1>2. nodes \in SUBSET Paths /\ (sess[s].raced \/ \A x \in nodes : starts_with(x, home(s)))
  BY <1>1, BusyFacts, TargetTouched DEF Fresh
<1> HIDE DEF nodes
<1>3. Proper(s, fs, nodes, sess[s].cwd)
  BY <1>2, BusyFacts, ReadsAreProper
<1> QED
  BY <1>1, <1>3 DEF Outcome
\* Whoever is about to change the tree is an owner and aims within its scope.
LEMMA Aimed ==
    ASSUME NEW s, Busy(s), LinksAway(fs) \/ NoRace,
           sess[s].req.op \in {"Mkdir", "Rmdir", "Rm", "Rename", "Put"}
    PROVE  /\ sess[s].user \in OwnersOf(cfg, by_name, anonymous)
           /\ located(fs, sess[s].target) \in Paths
           /\ InScope(located(fs, sess[s].target), home(s))
           /\ sess[s].req.op \in {"Rename", "Put"} =>
                 /\ located(fs, sess[s].dest) \in Paths
                 /\ InScope(located(fs, sess[s].dest), home(s))
                 /\ ~sess[s].raced => starts_with(located(fs, sess[s].dest), home(s))
<1>1. LinksAway(fs) \/ ~sess[s].raced
  BY DEF Busy, NoRace, Active
<1>2. Within(sess[s].target, home(s))
  BY BusyFacts DEF Within, Sound, home, Busy
<1>3. sess[s].user \in OwnersOf(cfg, by_name, anonymous)
  <2>1. \E x \in sess[s].user.permissions : x # "Read"
    <3>1. /\ sess[s].req.op = "Mkdir" => "Mkdir" \in required_op(sess[s].req.op)
          /\ sess[s].req.op = "Rmdir" => "Rmdir" \in required_op(sess[s].req.op)
          /\ sess[s].req.op = "Rm" => "Delete" \in required_op(sess[s].req.op)
          /\ sess[s].req.op = "Rename" => "Rename" \in required_op(sess[s].req.op)
          /\ sess[s].req.op = "Put" => "Write" \in required_op(sess[s].req.op)
      BY DEF required_op
    <3> QED
      BY <3>1, BusyFacts
  <2> QED
    BY <2>1, BusyFacts, Writers DEF Users
<1>4. located(fs, sess[s].target) \in Paths /\ InScope(located(fs, sess[s].target), home(s))
  BY <1>1, <1>2, BusyFacts, TargetTouched, Aim
<1>5. ASSUME sess[s].req.op \in {"Rename", "Put"}
      PROVE  /\ located(fs, sess[s].dest) \in Paths /\ InScope(located(fs, sess[s].dest), home(s))
             /\ ~sess[s].raced => starts_with(located(fs, sess[s].dest), home(s))
  <2>1. Within(sess[s].dest, home(s))
    BY <1>5, BusyFacts DEF Sound, home, Busy
  <2>2. ~sess[s].raced => located(fs, sess[s].dest) = sess[s].dest
    BY <1>5, BusyFacts DEF Fresh
  <2> QED
    BY <1>1, <2>1, <2>2, BusyFacts, Aim DEF Within
<1> QED
  BY <1>3, <1>4, <1>5

\* One node is made or removed at the target's place, or at that of Put's partial.
LEMMA OneNode ==
    ASSUME NEW s, Busy(s), LinksAway(fs) \/ NoRace, NEW p \in Nodes,
           \/ sess[s].req.op \in {"Mkdir", "Rmdir", "Rm"} /\ p = located(fs, sess[s].target)
           \/ sess[s].req.op = "Put" /\ p = located(fs, sess[s].dest),
           NEW x \in {None, Dir, File}
    PROVE  Proper(s, [fs EXCEPT ![p] = x], {p}, sess[s].cwd)
<1> DEFINE tree == [fs EXCEPT ![p] = x]
<1>1. TypedTree(fs) /\ sess[s].cwd \in Paths /\ starts_with(sess[s].cwd, home(s))
  BY BusyFacts
<1>2. TypedTree(tree)
  BY <1>1, FsNodeFacts DEF TypedTree
<1>3. {p} \in SUBSET Paths /\ (sess[s].raced \/ \A y \in {p} : starts_with(y, home(s)))
  BY TargetTouched, Aimed
<1>4. \A q \in Nodes : tree[q] = (IF q = p THEN x ELSE fs[q])
  BY <1>1 DEF TypedTree
<1>5. sess[s].user \in OwnersOf(cfg, by_name, anonymous) /\ InScope(p, home(s))
  BY Aimed
<1>6. x.k # "link"
  BY FsNodeFacts
<1> HIDE DEF tree
<1>7. LinksAway(fs) => LinksAway(tree)
  BY <1>4, <1>6 DEF LinksAway
<1>8. \A q \in Nodes : tree[q] # fs[q] => InScope(q, home(s))
  BY <1>4, <1>5
<1>9. Proper(s, tree, {p}, sess[s].cwd)
  BY <1>1, <1>2, <1>3, <1>5, <1>7, <1>8 DEF Proper, Scoped
<1> QED
  BY <1>9 DEF tree

LEMMA NothingDone ==
    ASSUME NEW s, Busy(s)
    PROVE  Proper(s, fs, {}, sess[s].cwd)
BY BusyFacts, ReadsAreProper

LEMMA MkdirProper ==
    ASSUME NEW s, Busy(s), LinksAway(fs) \/ NoRace, mkdir(s)
    PROVE  Outcome(s)
<1> DEFINE p == located(fs, sess[s].target)
<1>1. sess[s].pc = "act" /\ sess[s].req.op = "Mkdir"
  BY DEF mkdir, pending
<1>2. \/ p \in Nodes /\ acted(s, [fs EXCEPT ![p] = Dir], {p}, sess[s].cwd)
      \/ acted(s, fs, {}, sess[s].cwd)
  BY DEF mkdir
<1>3. p \in Nodes => Proper(s, [fs EXCEPT ![p] = Dir], {p}, sess[s].cwd)
  BY <1>1, OneNode
<1> HIDE DEF p
<1> QED
  BY <1>2, <1>3, NothingDone DEF Outcome

LEMMA RmdirProper ==
    ASSUME NEW s, Busy(s), LinksAway(fs) \/ NoRace, rmdir(s)
    PROVE  Outcome(s)
<1> DEFINE p == located(fs, sess[s].target)
<1>1. sess[s].pc = "act" /\ sess[s].req.op = "Rmdir"
  BY DEF rmdir, pending
<1>2. node(fs, p).k = "dir" => p \in Nodes
  BY FsNodeFacts DEF node
<1>3. \/ p \in Nodes /\ acted(s, [fs EXCEPT ![p] = None], {p}, sess[s].cwd)
      \/ acted(s, fs, {}, sess[s].cwd)
  BY <1>2 DEF rmdir
<1>4. p \in Nodes => Proper(s, [fs EXCEPT ![p] = None], {p}, sess[s].cwd)
  BY <1>1, OneNode
<1> HIDE DEF p
<1> QED
  BY <1>3, <1>4, NothingDone DEF Outcome

LEMMA RmProper ==
    ASSUME NEW s, Busy(s), LinksAway(fs) \/ NoRace, rm(s)
    PROVE  Outcome(s)
<1> DEFINE p == located(fs, sess[s].target)
<1>1. sess[s].pc = "act" /\ sess[s].req.op = "Rm"
  BY DEF rm, pending
<1>2. node(fs, p).k \in {"file", "link"} => p \in Nodes
  BY FsNodeFacts DEF node
<1>3. \/ p \in Nodes /\ acted(s, [fs EXCEPT ![p] = None], {p}, sess[s].cwd)
      \/ acted(s, fs, {}, sess[s].cwd)
  BY <1>2 DEF rm
<1>4. p \in Nodes => Proper(s, [fs EXCEPT ![p] = None], {p}, sess[s].cwd)
  BY <1>1, OneNode
<1> HIDE DEF p
<1> QED
  BY <1>3, <1>4, NothingDone DEF Outcome

\* rename moves nodes and touches nothing but what lies below its two places.
LEMMA Renamed ==
    ASSUME NEW tree, TypedTree(tree), NEW src, NEW dst
    PROVE  LET next == renamed(tree, src, dst)
           IN /\ TypedTree(next)
              /\ LinksAway(tree) => LinksAway(next)
              /\ \A q \in Nodes : next[q] # tree[q] =>
                    starts_with(q, located(tree, dst)) \/ starts_with(q, located(tree, src))
              /\ next # tree => located(tree, dst) \in Nodes
              /\ next # tree /\ located(tree, src) \in Paths =>
                    next[located(tree, dst)] = node(tree, located(tree, src))
<1> DEFINE from == located(tree, src)
           to == located(tree, dst)
           moved == [q \in Nodes |->
                       IF starts_with(q, to)
                       THEN node(tree, from \o SubSeq(q, Len(to) + 1, Len(q)))
                       ELSE IF starts_with(q, from) THEN None ELSE tree[q]]
           next == renamed(tree, src, dst)
<1>1. next = tree \/ next = moved
  BY DEF renamed
<1>2. \A q \in Nodes : moved[q] \in FsNodes
  BY NodeTyped, FsNodeFacts DEF TypedTree
<1>3. TypedTree(moved)
  BY <1>2 DEF TypedTree
<1>4. \A q \in Nodes : moved[q].k = "link" => \E r \in Nodes : moved[q] = tree[r]
  BY FsNodeFacts DEF node
<1>5. \A q \in Nodes : moved[q] # tree[q] => starts_with(q, to) \/ starts_with(q, from)
  OBVIOUS
<1>8. next # tree => to \in Nodes /\ next = moved
  BY DEF renamed
<1>9. ASSUME to \in Nodes, from \in Paths PROVE moved[to] = node(tree, from)
  <2>1. to \in Paths /\ starts_with(to, to)
    BY <1>9, RootPath, PrefixOrder
  <2>2. SubSeq(to, Len(to) + 1, Len(to)) = <<>> /\ from \o <<>> = from
    <3>1. Len(to) \in Nat /\ to \in Seq(Names) /\ from \in Seq(Names)
      BY <1>9, <2>1 DEF Paths
    <3> HIDE DEF to, from
    <3>2. SubSeq(to, Len(to) + 1, Len(to)) = <<>>
      BY <3>1, SubSeqEmpty
    <3>3. from \o <<>> = from
      BY <3>1, ConcatEmptySeq
    <3> QED
      BY <3>2, <3>3
  <2> HIDE DEF to, from
  <2> QED
    BY <1>9, <2>1, <2>2
<1> HIDE DEF moved, next, from, to
<1>6. LinksAway(tree) => LinksAway(moved)
  BY <1>4 DEF LinksAway
<1>7. /\ TypedTree(next)
      /\ LinksAway(tree) => LinksAway(next)
      /\ \A q \in Nodes : next[q] # tree[q] => starts_with(q, to) \/ starts_with(q, from)
      /\ next # tree => to \in Nodes
      /\ next # tree /\ from \in Paths => next[to] = node(tree, from)
  BY <1>1, <1>3, <1>5, <1>6, <1>8, <1>9
<1> QED
  BY <1>7 DEF next, from, to

LEMMA RenameProper ==
    ASSUME NEW s, Busy(s), LinksAway(fs) \/ NoRace, rename(s)
    PROVE  Outcome(s)
<1> DEFINE tree == renamed(fs, sess[s].target, sess[s].dest)
           from == located(fs, sess[s].target)
           to == located(fs, sess[s].dest)
           nodes == IF tree = fs THEN {} ELSE {from, to}
<1>1. acted(s, tree, nodes, sess[s].cwd) /\ sess[s].pc = "act" /\ sess[s].req.op = "Rename"
  BY DEF rename, pending
<1>2. /\ sess[s].user \in OwnersOf(cfg, by_name, anonymous)
      /\ from \in Paths /\ InScope(from, home(s)) /\ to \in Paths /\ InScope(to, home(s))
      /\ ~sess[s].raced => starts_with(to, home(s)) /\ starts_with(from, home(s))
  BY <1>1, Aimed, TargetTouched
<1>3. /\ TypedTree(tree)
      /\ LinksAway(fs) => LinksAway(tree)
      /\ \A q \in Nodes : tree[q] # fs[q] => starts_with(q, to) \/ starts_with(q, from)
  BY BusyFacts, Renamed
<1> HIDE DEF tree, from, to
<1>4. \A q \in Nodes : tree[q] # fs[q] => InScope(q, home(s))
  BY <1>2, <1>3, BusyFacts, ScopeBelow, RootPath
<1>5. nodes \in SUBSET Paths /\ (sess[s].raced \/ \A x \in nodes : starts_with(x, home(s)))
  BY <1>2
<1> HIDE DEF nodes
<1>6. Proper(s, tree, nodes, sess[s].cwd)
  BY <1>1, <1>2, <1>3, <1>4, <1>5, BusyFacts DEF Proper, Scoped
<1> QED
  BY <1>1, <1>6 DEF Outcome

LEMMA PutBusy ==
    ASSUME NEW s, Busy(s), sess[s].pc \in {"body", "commit", "mode"} \/ pending(s, "Put")
    PROVE  /\ sess[s].req.op = "Put" /\ Within(sess[s].target, home(s))
           /\ Within(sess[s].dest, home(s)) /\ Beside(sess[s].dest, sess[s].target)
           /\ sess[s].target # <<>> /\ sess[s].dest # <<>>
<1>1. sess[s].req.op = "Put" /\ sess[s].pc \in Checked /\ home(s) = sess[s].user.home
  BY BusyFacts DEF Sound, pending, Busy, home
<1>2. /\ Within(sess[s].target, home(s)) /\ Within(sess[s].dest, home(s))
      /\ Beside(sess[s].dest, sess[s].target)
  BY <1>1, BusyFacts DEF Sound, Within
<1> QED
  BY <1>1, <1>2 DEF Beside

LEMMA PutModeProper ==
    ASSUME NEW s, Busy(s), put_mode(s)
    PROVE  Outcome(s)
<1> DEFINE nodes == {canonicalize(fs, sess[s].target)}
<1>1. acted(s, fs, nodes, sess[s].cwd) /\ sess[s].pc = "mode"
  BY DEF put_mode, running
<1>2. nodes \in SUBSET Paths /\ (sess[s].raced \/ \A x \in nodes : starts_with(x, home(s)))
  BY <1>1, BusyFacts, TargetTouched DEF Fresh
<1> HIDE DEF nodes
<1>3. Proper(s, fs, nodes, sess[s].cwd)
  BY <1>2, BusyFacts, ReadsAreProper
<1> QED
  BY <1>1, <1>3 DEF Outcome

LEMMA PutRejectProper ==
    ASSUME NEW s, Busy(s), LinksAway(fs) \/ NoRace, put_reject(s)
    PROVE  Outcome(s)
<1> DEFINE p == located(fs, sess[s].dest)
<1>1. sess[s].req.op = "Put"
  BY PutBusy DEF put_reject, running
<1>2. node(fs, p).k \in {"file", "link"} => p \in Nodes
  BY FsNodeFacts DEF node
<1>3. \/ p \in Nodes /\ acted(s, [fs EXCEPT ![p] = None], {p}, sess[s].cwd)
      \/ acted(s, fs, {}, sess[s].cwd)
  BY <1>2 DEF put_reject
<1>4. p \in Nodes => Proper(s, [fs EXCEPT ![p] = None], {p}, sess[s].cwd)
  BY <1>1, OneNode
<1> HIDE DEF p
<1> QED
  BY <1>3, <1>4, NothingDone DEF Outcome

\* The step property behind OnlyOwnerWrites.
OwnerActs ==
    phase = "serving" =>
        \A n \in DOMAIN by_name, p \in Nodes :
            (starts_with(p, by_name[n].home) /\ fs'[p] # fs[p]) =>
                \E s \in Active : sess'[s].pc # sess[s].pc /\ sess[s].user.name = n

\* A session whose path was re-checked and is moved now is raced, and sound as such.
LEMMA RacedIsSound ==
    ASSUME NEW tree, NEW next, NEW users, NEW r, Sound(tree, users, r),
           r.pc \in Checked
    PROVE  Sound(next, users, [r EXCEPT !.raced = TRUE])
<1> DEFINE t == [r EXCEPT !.raced = TRUE]
<1>1. r \in SessionsOf(users)
  BY DEF Sound
<1>2. /\ t \in SessionsOf(users) /\ t.raced = TRUE /\ t.user = r.user /\ t.cwd = r.cwd
      /\ t.req = r.req /\ t.pc = r.pc /\ t.target = r.target /\ t.dest = r.dest
  BY <1>1 DEF SessionsOf
<1> HIDE DEF t
<1>3. Sound(next, users, t)
  BY <1>2 DEF Sound
<1> QED
  BY <1>3 DEF t

LEMMA DoneIsSound ==
    ASSUME NEW s, Busy(s), NEW tree, NEW nodes, NEW cwd, Proper(s, tree, nodes, cwd)
    PROVE  LET r == [sess[s] EXCEPT !.pc = "idle", !.req = NoSpec, !.target = <<>>,
                                    !.dest = <<>>, !.cwd = cwd, !.touched = nodes]
           IN Sound(tree, Users, r) /\ r.pc = "idle"
<1> DEFINE r == [sess[s] EXCEPT !.pc = "idle", !.req = NoSpec, !.target = <<>>,
                                !.dest = <<>>, !.cwd = cwd, !.touched = nodes]
<1>1. <<>> \in Paths
  BY DEF Paths
<1>2. sess[s] \in SessionsOf(Users) /\ cwd \in Paths /\ nodes \in SUBSET Paths
  BY BusyFacts DEF Proper
<1>3. /\ r \in SessionsOf(Users) /\ r.pc = "idle" /\ r.user = sess[s].user
      /\ r.cwd = cwd /\ r.raced = sess[s].raced /\ r.touched = nodes
  BY <1>1, <1>2 DEF SessionsOf
<1> HIDE DEF r
<1>4. Sound(tree, Users, r)
  BY <1>3 DEF Sound, Proper, home, Checked
<1> QED
  BY <1>3, <1>4 DEF r

\* A system call, the last of its request or not.
Effect(s) == \E tree, r : /\ TypedTree(tree) /\ Scoped(s, tree) /\ Sound(tree, Users, r)
                          /\ r.pc # sess[s].pc /\ called(s, tree, r)

LEMMA OutcomeIsEffect ==
    ASSUME NEW s, Busy(s), Outcome(s)
    PROVE  Effect(s)
<1>1. PICK tree, nodes, cwd : Proper(s, tree, nodes, cwd) /\ acted(s, tree, nodes, cwd)
  BY DEF Outcome
<1> DEFINE r == [sess[s] EXCEPT !.pc = "idle", !.req = NoSpec, !.target = <<>>,
                                !.dest = <<>>, !.cwd = cwd, !.touched = nodes]
<1>2. Sound(tree, Users, r) /\ r.pc = "idle"
  BY <1>1, DoneIsSound
<1>3. called(s, tree, r)
  BY <1>1 DEF acted
<1> HIDE DEF r
<1>4. sess[s].pc # "idle"
  BY DEF Busy, Checked
<1> QED
  BY <1>1, <1>2, <1>3, <1>4 DEF Effect, Proper

\* The partial is opened: whatever way leads to the file still leads there.
LEMMA PutOpens ==
    ASSUME NEW s, Busy(s), LinksAway(fs) \/ NoRace, pending(s, "Put"),
           NEW p \in Nodes, p = located(fs, sess[s].dest),
           called(s, [fs EXCEPT ![p] = File], [sess[s] EXCEPT !.pc = "body", !.touched = {p}])
    PROVE  Effect(s)
<1> DEFINE tree == [fs EXCEPT ![p] = File]
           r == [sess[s] EXCEPT !.pc = "body", !.touched = {p}]
<1>1. /\ sess[s].req.op = "Put" /\ Within(sess[s].target, home(s))
      /\ Within(sess[s].dest, home(s)) /\ Beside(sess[s].dest, sess[s].target)
      /\ sess[s].target # <<>> /\ sess[s].dest # <<>> /\ sess[s].pc = "act"
  BY PutBusy DEF pending
<1>2. Proper(s, tree, {p}, sess[s].cwd)
  BY <1>1, OneNode
<1>3. /\ TypedTree(fs) /\ Sound(fs, Users, sess[s]) /\ sess[s] \in SessionsOf(Users)
      /\ home(s) = sess[s].user.home /\ sess[s].target \in Paths /\ sess[s].dest \in Paths
      /\ sess[s].raced \/ Fresh(fs, sess[s])
  BY BusyFacts DEF home
<1>4. /\ r \in SessionsOf(Users) /\ r.pc = "body" /\ r.user = sess[s].user /\ r.cwd = sess[s].cwd
      /\ r.raced = sess[s].raced /\ r.touched = {p} /\ r.req = sess[s].req
      /\ r.target = sess[s].target /\ r.dest = sess[s].dest
  BY <1>2, <1>3 DEF SessionsOf, Checked, Proper
<1>5. \A q \in Nodes : tree[q] = (IF q = p THEN File ELSE fs[q])
  BY <1>3 DEF TypedTree
<1>6. File.k # "link"
  BY FsNodeFacts
<1>7. called(s, tree, r)
  OBVIOUS
<1> HIDE DEF tree, r
<1>8. \A q : node(fs, q).k # "link" => node(tree, q).k # "link"
  BY <1>5, <1>6 DEF node
<1>9. ASSUME ~sess[s].raced PROVE Fresh(tree, r)
  <2>1. PlainWay(tree, sess[s].target)
    BY <1>1, <1>3, <1>8, <1>9 DEF Fresh, PlainWay
  <2>2. PlainWay(tree, sess[s].dest)
    BY <1>1, <1>3, <2>1, PlainBeside
  <2>3. TypedTree(tree)
    BY <1>2 DEF Proper
  <2>4. located(tree, sess[s].target) = sess[s].target /\ located(tree, sess[s].dest) = sess[s].dest
    BY <1>1, <1>3, <2>1, <2>2, <2>3, PlainIsLocated
  <2> QED
    BY <1>1, <1>4, <2>1, <2>4 DEF Fresh
<1>10. Sound(tree, Users, r)
  <2>1. sess[s].raced \/ \A x \in {p} : starts_with(x, home(s))
    BY <1>2 DEF Proper
  <2>2. r.raced \/ Fresh(tree, r)
    BY <1>4, <1>9
  <2> QED
    BY <1>1, <1>3, <1>4, <2>1, <2>2 DEF Sound, Within, Checked
<1> QED
  BY <1>1, <1>2, <1>4, <1>7, <1>10 DEF Effect, Proper

\* The commit's rename: no link lies on the way to the file, and none is put there.
LEMMA PutCommits ==
    ASSUME NEW s, Busy(s), LinksAway(fs) \/ NoRace, sess[s].pc = "commit",
           NEW from, from = located(fs, sess[s].dest), NEW to, to = located(fs, sess[s].target),
           NEW tree, tree = renamed(fs, sess[s].dest, sess[s].target), tree # fs,
           called(s, tree, [sess[s] EXCEPT !.pc = "mode", !.touched = {from, to},
                                           !.raced = @ \/ node(fs, from).k # "file"])
    PROVE  Effect(s)
<1> DEFINE raced == sess[s].raced \/ node(fs, from).k # "file"
           r == [sess[s] EXCEPT !.pc = "mode", !.touched = {from, to}, !.raced = raced]
           p == sess[s].target
           d == sess[s].dest
<1>1. /\ sess[s].req.op = "Put" /\ Within(p, home(s))
      /\ Within(d, home(s)) /\ Beside(d, p) /\ p # <<>> /\ d # <<>>
  BY PutBusy
<1>2. /\ TypedTree(fs) /\ Sound(fs, Users, sess[s]) /\ sess[s] \in SessionsOf(Users)
      /\ home(s) = sess[s].user.home /\ p \in Paths /\ d \in Paths /\ home(s) \in Paths
      /\ sess[s].raced \/ Fresh(fs, sess[s])
  BY BusyFacts DEF home
<1>3. /\ sess[s].user \in OwnersOf(cfg, by_name, anonymous)
      /\ from \in Paths /\ InScope(from, home(s)) /\ to \in Paths /\ InScope(to, home(s))
      /\ ~sess[s].raced => starts_with(to, home(s)) /\ starts_with(from, home(s))
  BY <1>1, Aimed, TargetTouched
<1>4. /\ TypedTree(tree)
      /\ LinksAway(fs) => LinksAway(tree)
      /\ \A q \in Nodes : tree[q] # fs[q] => starts_with(q, to) \/ starts_with(q, from)
      /\ to \in Nodes /\ tree[to] = node(fs, from)
  BY <1>2, <1>3, Renamed
<1>5. Scoped(s, tree)
  <2>1. \A q \in Nodes : tree[q] # fs[q] => InScope(q, home(s))
    BY <1>2, <1>3, <1>4, ScopeBelow, RootPath
  <2> QED
    BY <1>3, <1>4, <2>1 DEF Scoped
<1>6. raced \in BOOLEAN /\ {from, to} \in SUBSET Paths
  BY <1>3
<1>7. called(s, tree, r)
  OBVIOUS
<1> HIDE DEF raced
<1>8. /\ r \in SessionsOf(Users) /\ r.pc = "mode" /\ r.user = sess[s].user /\ r.cwd = sess[s].cwd
      /\ r.raced = raced /\ r.touched = {from, to} /\ r.req = sess[s].req
      /\ r.target = p /\ r.dest = d
  BY <1>2, <1>6 DEF SessionsOf, Checked
<1> HIDE DEF r
<1>9. ASSUME ~raced PROVE Fresh(tree, r)
  <2>1. ~sess[s].raced /\ node(fs, from).k = "file" /\ Fresh(fs, sess[s])
    BY <1>2, <1>9 DEF raced
  <2>2. from = d /\ to = p /\ PlainWay(fs, p)
    BY <1>1, <2>1 DEF Fresh
  <2>3. ASSUME NEW k \in 1..(Len(p) - 1) PROVE node(tree, Cut(p, k)).k # "link"
    <3>1. k \in 0..Len(p) /\ k < Len(p) /\ Len(d) = Len(p) /\ Len(p) \in Nat
      <4>1. Len(p) \in Nat /\ Len(d) = Len(p)
        BY <1>1, <1>2 DEF Beside, Paths
      <4> QED
        BY <2>3, <4>1
    <3>2. Cut(p, k) \in Paths /\ Len(Cut(p, k)) = k
      BY <1>2, <3>1, CutStarts, Cuts DEF Paths
    <3>3. ~starts_with(Cut(p, k), p) /\ ~starts_with(Cut(p, k), d)
      BY <1>2, <3>1, <3>2, PrefixOrder
    <3>4. Cut(p, k) \in Nodes => tree[Cut(p, k)] = fs[Cut(p, k)]
      BY <1>4, <2>2, <3>3
    <3>5. node(tree, Cut(p, k)) = node(fs, Cut(p, k))
      BY <3>4 DEF node
    <3> QED
      BY <2>2, <2>3, <3>5 DEF PlainWay
  <2>4. PlainWay(tree, p)
    BY <2>3 DEF PlainWay
  <2>5. PlainWay(tree, d)
    BY <1>1, <1>2, <2>4, PlainBeside
  <2>6. node(tree, p).k # "link"
    BY <1>4, <2>1, <2>2 DEF node
  <2>7. located(tree, p) = p /\ located(tree, d) = d /\ canonicalize(tree, p) = p
    BY <1>1, <1>2, <1>4, <2>4, <2>5, <2>6, PlainIsLocated
  <2> QED
    BY <1>8, <2>4, <2>7 DEF Fresh
<1>10. Sound(tree, Users, r)
  <2>1. r.raced \/ \A x \in {from, to} : starts_with(x, home(s))
    BY <1>3, <1>8 DEF raced
  <2>2. r.raced \/ Fresh(tree, r)
    BY <1>8, <1>9
  <2> QED
    BY <1>1, <1>2, <1>8, <2>1, <2>2 DEF Sound, Within, Checked
<1> QED
  BY <1>4, <1>5, <1>7, <1>8, <1>10 DEF Effect

LEMMA OutcomeKeeps ==
    ASSUME NEW s, Busy(s), Effect(s)
    PROVE  /\ HomesInv' /\ phase' = "serving" /\ OwnerActs
           /\ LinksAway(fs) => LinksAway(fs')
<1>1. PICK tree, r : /\ TypedTree(tree) /\ Scoped(s, tree) /\ Sound(tree, Users, r)
                     /\ r.pc # sess[s].pc /\ called(s, tree, r)
  BY DEF Effect
<1> DEFINE t(v) == [sess[v] EXCEPT !.raced = TRUE]
<1>2. /\ fs' = tree /\ cfg' = cfg /\ phase' = phase /\ by_name' = by_name
      /\ anonymous' = anonymous
      /\ sess' = [v \in Sessions |->
                    IF v = s THEN r
                    ELSE IF sess[v] # NoSpec /\ sess[v].pc \in Checked /\ tree # fs
                    THEN t(v) ELSE sess[v]]
  BY <1>1 DEF called
<1>3. Sound(tree, Users, r) /\ r.pc # sess[s].pc
  BY <1>1
<1>4. \A v \in Sessions : sess[v] = NoSpec \/ Sound(fs, Users, sess[v])
  BY DEF Busy, HomesInv, Serving
<1>5. ASSUME NEW v \in Sessions
      PROVE  sess'[v] = NoSpec \/ Sound(tree, Users, sess'[v])
  <2>1. CASE v = s
    BY <1>2, <1>3, <2>1
  <2>2. CASE v # s /\ sess[v] # NoSpec /\ sess[v].pc \in Checked /\ tree # fs
    <3>1. sess'[v] = t(v)
      BY <1>2, <2>2
    <3>2. Sound(fs, Users, sess[v])
      BY <1>4, <2>2
    <3>3. Sound(tree, Users, t(v))
      BY <2>2, <3>2, RacedIsSound
    <3> QED
      BY <3>1, <3>3
  <2>3. CASE v # s /\ ~(sess[v] # NoSpec /\ sess[v].pc \in Checked /\ tree # fs)
    <3>1. sess'[v] = sess[v]
      BY <1>2, <2>3
    <3>2. CASE sess[v] = NoSpec
      BY <3>1, <3>2
    <3>3. CASE sess[v] # NoSpec /\ tree = fs
      BY <1>4, <3>1, <3>3
    <3>4. CASE sess[v] # NoSpec /\ sess[v].pc \notin Checked
      BY <1>4, <3>1, <3>4 DEF Sound
    <3> QED
      BY <2>3, <3>2, <3>3, <3>4
  <2> QED
    BY <2>1, <2>2, <2>3
<1>6. /\ Directory(cfg, by_name, anonymous) /\ TypedTree(fs)
      /\ \A u \in Users : real_dir(fs, u.home)
  BY BusyFacts DEF Busy, HomesInv, Serving
<1>7. /\ TypedTree(tree)
      /\ tree = fs \/ /\ sess[s].user \in OwnersOf(cfg, by_name, anonymous)
                      /\ \A q \in Nodes : tree[q] # fs[q] => InScope(q, sess[s].user.home)
                      /\ LinksAway(fs) => LinksAway(tree)
  BY <1>1 DEF Scoped, home
<1>8. \A u \in Users : real_dir(tree, u.home)
  BY <1>6, <1>7, HomesSurvive DEF Users
<1>9. Users' = Users
  BY <1>2 DEF Users, UsersOf
<1>10. Serving'
  BY <1>2, <1>5, <1>7, <1>8, <1>9 DEF Serving, TypedTree
<1>11. Loading'
  <2>1. Directory(cfg', by_name', anonymous')
    BY <1>2, <1>6
  <2> QED
    BY <1>2, <2>1 DEF Loading, Busy, Directory, OwnersOf
<1>12. sess' = [v \in Sessions |-> sess'[v]] /\ phase' = "serving"
  BY <1>2 DEF Busy
<1>13. HomesInv'
  BY <1>10, <1>11, <1>12 DEF HomesInv
<1>14. OwnerActs
  <2> SUFFICES ASSUME NEW n \in DOMAIN by_name, NEW p \in Nodes,
                      starts_with(p, by_name[n].home), fs'[p] # fs[p]
               PROVE  \E v \in Active : sess'[v].pc # sess[v].pc /\ sess[v].user.name = n
    BY DEF OwnerActs
  <2>1. /\ sess[s].user \in OwnersOf(cfg, by_name, anonymous)
        /\ InScope(p, sess[s].user.home)
    BY <1>2, <1>7
  <2>2. sess[s].user.name = n
    BY <1>6, <2>1, RootPath, ScopeHasOwner
  <2>3. s \in Active /\ sess'[s].pc # sess[s].pc
    BY <1>2, <1>3 DEF Busy, Active
  <2> QED
    BY <2>1, <2>2, <2>3
<1> QED
  BY <1>2, <1>7, <1>12, <1>13, <1>14

-----------------------------------------------------------------------------
(***************************************************************************)
(* The steps that change one session and leave the tree alone.             *)
(***************************************************************************)

LEMMA OneSession ==
    ASSUME HomesInv, phase = "serving", NEW s \in Sessions, NEW r, Sound(fs, Users, r),
           sess' = [sess EXCEPT ![s] = r], UNCHANGED <<fs, cfg, phase, by_name, anonymous>>
    PROVE  HomesInv'
<1>1. /\ Serving /\ Loading /\ sess = [v \in Sessions |-> sess[v]]
  BY DEF HomesInv
<1>2. \A v \in Sessions : sess'[v] = IF v = s THEN r ELSE sess[v]
  BY <1>1
<1>3. sess' = [v \in Sessions |-> sess'[v]]
  BY <1>1
<1>4. Users' = Users
  BY DEF Users, UsersOf
<1>5. Serving'
  BY <1>1, <1>2, <1>4 DEF Serving, TypedTree
<1>6. Loading'
  <2>1. Directory(cfg', by_name', anonymous')
    BY <1>1 DEF Loading
  <2> QED
    BY <1>1, <2>1 DEF Loading, Directory, OwnersOf
<1> QED
  BY <1>3, <1>5, <1>6 DEF HomesInv

\* Facts about a session that is connected.
LEMMA Connected ==
    ASSUME HomesInv, NEW s \in Sessions, sess[s] # NoSpec
    PROVE  /\ phase = "serving" /\ TypedTree(fs) /\ Directory(cfg, by_name, anonymous)
           /\ Sound(fs, Users, sess[s]) /\ sess[s] \in SessionsOf(Users)
           /\ sess = [v \in Sessions |-> sess[v]]
           /\ home(s) = sess[s].user.home /\ home(s) \in Paths /\ real_dir(fs, home(s))
<1>1. /\ phase = "serving" /\ TypedTree(fs) /\ Directory(cfg, by_name, anonymous)
      /\ Sound(fs, Users, sess[s]) /\ sess = [v \in Sessions |-> sess[v]]
      /\ \A u \in Users : real_dir(fs, u.home)
  BY DEF HomesInv, Serving, Loading
<1>2. sess[s] \in SessionsOf(Users) /\ sess[s].user \in Users
  BY <1>1 DEF Sound, SessionsOf
<1>3. sess[s].user.home \in Paths
  BY <1>1, <1>2, RootPath DEF Directory, Users, UsersOf
<1> QED
  BY <1>1, <1>2, <1>3 DEF home

LEMMA Finishes ==
    ASSUME HomesInv, NEW s \in Sessions, sess[s] # NoSpec, finish(s),
           UNCHANGED <<fs, cfg, phase, by_name, anonymous>>
    PROVE  HomesInv'
<1> DEFINE r == [sess[s] EXCEPT !.pc = "idle", !.req = NoSpec, !.target = <<>>, !.dest = <<>>]
<1>1. sess' = [sess EXCEPT ![s] = r]
  <2>1. sess[s] \in SessionsOf(Users) /\ sess = [v \in Sessions |-> sess[v]]
    BY Connected
  <2> QED
    BY <2>1 DEF finish, SessionsOf
<1>2. <<>> \in Paths
  BY DEF Paths
<1>3. /\ r \in SessionsOf(Users) /\ r.pc = "idle" /\ r.user = sess[s].user
      /\ r.cwd = sess[s].cwd /\ r.raced = sess[s].raced /\ r.touched = sess[s].touched
  <2>1. sess[s] \in SessionsOf(Users)
    BY Connected
  <2> QED
    BY <1>2, <2>1 DEF SessionsOf
<1> HIDE DEF r
<1>4. Sound(fs, Users, r)
  BY <1>3, Connected DEF Sound, Checked
<1> QED
  BY <1>1, <1>4, Connected, OneSession
LEMMA AcceptKeeps ==
    ASSUME HomesInv, NEW s \in Sessions, NEW req \in Requests, accept(s, req)
    PROVE  HomesInv'
<1> DEFINE w == walk_safe(sess[s].cwd, home(s), req.path)
           d == walk_safe(sess[s].cwd, home(s), req.to)
           begun == [sess[s] EXCEPT !.left = @ - 1, !.raced = FALSE, !.touched = {}]
           to == IF req.op = "Rename" THEN d.path ELSE <<>>
           going == [begun EXCEPT !.req = req, !.pc = "resolve", !.target = w.path, !.dest = to]
           ok == ~names_temp(req) /\ w.ok /\ (req.op = "Rename" => d.ok)
<1>1. /\ sess[s] # NoSpec /\ sess[s].pc = "idle" /\ sess[s].left > 0
      /\ required_op(req.op) \subseteq sess[s].user.permissions
      /\ sess' = [sess EXCEPT ![s] = IF ok THEN going ELSE begun]
      /\ UNCHANGED <<fs, cfg, phase, by_name, anonymous>>
  BY DEF accept
<1>2. /\ phase = "serving" /\ Sound(fs, Users, sess[s]) /\ sess[s] \in SessionsOf(Users)
      /\ home(s) = sess[s].user.home /\ home(s) \in Paths
  BY <1>1, Connected
<1>3. /\ begun \in SessionsOf(Users) /\ begun.pc = "idle" /\ begun.user = sess[s].user
      /\ begun.cwd = sess[s].cwd /\ begun.touched = {} /\ begun.raced = FALSE
  <2> HIDE DEF w, d, to, ok, going
  <2>1. sess[s].left \in Nat
    BY <1>2 DEF SessionsOf
  <2>2. sess[s].left - 1 \in Nat /\ {} \in SUBSET Paths /\ FALSE \in BOOLEAN
    BY <1>1, <2>1
  <2>3. begun = [sess[s] EXCEPT !.left = sess[s].left - 1, !.raced = FALSE, !.touched = {}]
    OBVIOUS
  <2> HIDE DEF begun
  <2> QED
    BY <1>1, <1>2, <2>2, <2>3 DEF SessionsOf
<1> HIDE DEF begun, w, d
<1>4. Sound(fs, Users, begun)
  BY <1>2, <1>3 DEF Sound, Checked
<1>5. ASSUME ok PROVE Sound(fs, Users, going)
  <2>1. sess[s].cwd \in Paths /\ req.path \in Seq(STRING) /\ req.to \in Seq(STRING)
    BY <1>2, InputsAssumption DEF SessionsOf
  <2>2. w.path \in Paths /\ starts_with(w.path, home(s))
    BY <1>2, <1>5, <2>1, WalkInside DEF w
  <2>3. req.op = "Rename" => d.path \in Paths /\ starts_with(d.path, home(s))
    BY <1>2, <1>5, <2>1, WalkInside DEF d
  <2>4. to \in Paths /\ (req.op = "Rename" => starts_with(to, home(s)))
    BY <2>3 DEF Paths
  <2> HIDE DEF to
  <2>5. /\ going \in SessionsOf(Users) /\ going.pc = "resolve" /\ going.user = sess[s].user
        /\ going.cwd = sess[s].cwd /\ going.touched = {} /\ going.raced = FALSE
        /\ going.req = req /\ going.target = w.path /\ going.dest = to
    BY <1>3, <2>2, <2>4 DEF SessionsOf
  <2> HIDE DEF going
  <2> QED
    BY <1>1, <1>2, <2>2, <2>4, <2>5 DEF Sound, Checked
<1> HIDE DEF going, ok
<1>6. Sound(fs, Users, IF ok THEN going ELSE begun)
  BY <1>4, <1>5
<1> QED
  BY <1>1, <1>2, <1>6, OneSession

\* The session goes on with its request.
LEMMA GoesOn ==
    ASSUME HomesInv, NEW s \in Sessions, sess[s] # NoSpec, sess[s].pc # "idle",
           NEW pc \in {"recheck", "act", "chmod"}, NEW d \in Paths,
           sess' = [sess EXCEPT ![s] = [sess[s] EXCEPT !.pc = pc, !.dest = d]],
           UNCHANGED <<fs, cfg, phase, by_name, anonymous>>,
           sess[s].req.op = "Rename" => d = sess[s].dest,
           pc # "recheck" =>
              /\ sess[s].req.op \notin {"Cd", "Ls", "Stat"} => sess[s].target # home(s)
              /\ sess[s].req.op \in {"Rename", "Put"} => Within(d, home(s))
              /\ sess[s].req.op = "Put" => Beside(d, sess[s].target)
              /\ sess[s].raced \/ Fresh(fs, [sess[s] EXCEPT !.pc = pc, !.dest = d]),
           pc = "chmod" => sess[s].req.op = "Chmod"
    PROVE  HomesInv'
<1> DEFINE r == [sess[s] EXCEPT !.pc = pc, !.dest = d]
<1>1. /\ phase = "serving" /\ Sound(fs, Users, sess[s]) /\ sess[s] \in SessionsOf(Users)
      /\ home(s) = sess[s].user.home /\ sess = [v \in Sessions |-> sess[v]]
  BY Connected
<1>2. /\ r \in SessionsOf(Users) /\ r.pc = pc /\ r.user = sess[s].user /\ r.cwd = sess[s].cwd
      /\ r.raced = sess[s].raced /\ r.touched = sess[s].touched /\ r.req = sess[s].req
      /\ r.target = sess[s].target /\ r.dest = d
  BY <1>1 DEF SessionsOf, Checked
<1>3. pc # "recheck" => sess[s].raced \/ Fresh(fs, r)
  OBVIOUS
<1>4. sess' = [sess EXCEPT ![s] = r]
  OBVIOUS
<1> HIDE DEF r
<1>5. pc \notin {"body", "commit", "mode"} /\ ("recheck" \in Checked <=> FALSE)
  BY DEF Checked
<1>6. Sound(fs, Users, r)
  BY <1>1, <1>2, <1>3, <1>5 DEF Sound
<1> QED
  BY <1>1, <1>4, <1>6, OneSession

LEMMA ResolveKeeps ==
    ASSUME HomesInv, NEW s \in Sessions, resolve(s)
    PROVE  HomesInv'
<1> DEFINE r == [sess[s] EXCEPT !.pc = "recheck", !.dest = sess[s].dest]
<1>1. /\ sess[s] # NoSpec /\ sess[s].pc # "idle"
      /\ UNCHANGED <<fs, cfg, phase, by_name, anonymous>>
      /\ sess' = [sess EXCEPT ![s].pc = "recheck"] \/ finish(s)
  BY DEF resolve
<1>2. sess[s] \in SessionsOf(Users) /\ sess = [v \in Sessions |-> sess[v]]
  BY <1>1, Connected
<1>3. sess[s].dest \in Paths /\ [sess EXCEPT ![s].pc = "recheck"] = [sess EXCEPT ![s] = r]
  BY <1>2 DEF SessionsOf
<1> QED
  BY <1>1, <1>3, GoesOn, Finishes

\* A re-check that passes, on homes that are real directories.
LEMMA RecheckedIsFresh ==
    ASSUME HomesInv, NEW s \in Sessions, sess[s] # NoSpec, sess[s].pc = "recheck", rechecked(s),
           NEW d, d = IF sess[s].req.op = "Put" THEN temp_path_for(sess[s].target) ELSE sess[s].dest
    PROVE  /\ d \in Paths
           /\ sess[s].req.op \notin {"Cd", "Ls", "Stat"} => sess[s].target # home(s)
           /\ sess[s].req.op \in {"Rename", "Put"} => Within(d, home(s))
           /\ sess[s].req.op = "Put" => Beside(d, sess[s].target)
           /\ Fresh(fs, [sess[s] EXCEPT !.pc = "act", !.dest = d])
<1> DEFINE r == [sess[s] EXCEPT !.pc = "act", !.dest = d]
           op == sess[s].req.op
           p == sess[s].target
<1>1. /\ TypedTree(fs) /\ Sound(fs, Users, sess[s]) /\ sess[s] \in SessionsOf(Users)
      /\ home(s) \in Paths /\ real_dir(fs, home(s)) /\ home(s) = sess[s].user.home
  BY Connected
<1>2. /\ r.pc = "act" /\ r.req = sess[s].req /\ r.target = p /\ r.dest = d
      /\ p \in Paths /\ sess[s].dest \in Paths
  BY <1>1 DEF SessionsOf
<1>3. op \in {"Ls", "Stat", "Get", "Put", "Mkdir", "Rmdir", "Rm", "Rename", "Chmod", "Cd"}
  BY <1>1, InputsAssumption DEF Sound
<1>4. located(fs, home(s)) = home(s) /\ canonicalize(fs, home(s)) = home(s)
  BY <1>1, RealDirs
<1> HIDE DEF r
<1>5. CASE op \in {"Cd", "Ls"}
  <2>1. recheck_path_no_symlinks(p, home(s))
    BY <1>5 DEF rechecked
  <2>2. CASE p = home(s)
    BY <1>2, <1>4, <1>5, <2>2 DEF Fresh, r
  <2>3. CASE p # home(s)
    <3>1. /\ recheck_ancestors_no_symlinks(p, home(s))
          /\ symlink_metadata(fs, p).k \notin {"link", "none"}
      BY <2>1, <2>3 DEF recheck_path_no_symlinks
    <3>2. located(fs, p) = p /\ p # <<>>
      BY <1>1, <1>2, <3>1, RecheckMeans
    <3>3. canonicalize(fs, p) = p
      BY <1>1, <1>2, <3>1, <3>2, LeafNoLink DEF symlink_metadata
    <3> QED
      BY <1>2, <1>5, <3>2, <3>3 DEF Fresh, r
  <2> QED
    BY <2>2, <2>3
<1>6. CASE op = "Stat"
  <2>1. p = home(s) \/ recheck_ancestors_no_symlinks(p, home(s))
    BY <1>6 DEF rechecked
  <2>2. located(fs, p) = p
    BY <1>1, <1>2, <1>4, <2>1, RecheckMeans
  <2> QED
    BY <1>2, <1>6, <2>2 DEF Fresh, r
<1>7. CASE op = "Rename"
  <2>1. recheck_ancestors_no_symlinks(p, home(s)) /\ recheck_ancestors_no_symlinks(sess[s].dest, home(s))
    BY <1>7 DEF rechecked
  <2>2. /\ located(fs, p) = p /\ p # home(s)
        /\ located(fs, sess[s].dest) = sess[s].dest /\ sess[s].dest # home(s)
    BY <1>1, <1>2, <2>1, RecheckMeans
  <2>3. Within(d, home(s)) /\ d = sess[s].dest
    BY <1>7, <2>1, <2>2 DEF Within, recheck_ancestors_no_symlinks
  <2> QED
    BY <1>2, <1>7, <2>2, <2>3 DEF Fresh, r
<1>9. CASE op = "Put"
  <2>1. recheck_ancestors_no_symlinks(p, home(s)) /\ d \in Paths /\ d = temp_path_for(p)
    BY <1>9 DEF rechecked
  <2>2. located(fs, p) = p /\ p # home(s) /\ p # <<>> /\ PlainWay(fs, p)
    BY <1>1, <1>2, <2>1, RecheckMeans
  <2>3. Beside(d, p)
    BY <1>2, <2>1, <2>2, TempBeside
  <2>4. Within(p, home(s))
    BY <2>1, <2>2 DEF Within, recheck_ancestors_no_symlinks
  <2>5. Within(d, home(s))
    BY <1>1, <1>2, <2>1, <2>3, <2>4, BesideWithin
  <2>6. located(fs, d) = d
    <3>1. PlainWay(fs, d) /\ d # <<>>
      BY <1>2, <2>1, <2>2, <2>3, PlainBeside DEF Beside
    <3> QED
      BY <1>1, <2>1, <3>1, PlainIsLocated
  <2> QED
    BY <1>2, <1>9, <2>1, <2>2, <2>3, <2>5, <2>6 DEF Fresh, r
<1>8. CASE op \in {"Get", "Mkdir", "Rmdir", "Rm", "Chmod"}
  <2>1. recheck_ancestors_no_symlinks(p, home(s))
    BY <1>8 DEF rechecked
  <2>2. located(fs, p) = p /\ p # home(s)
    BY <1>1, <1>2, <2>1, RecheckMeans
  <2> QED
    BY <1>2, <1>8, <2>2 DEF Fresh, r
<1> QED
  BY <1>3, <1>5, <1>6, <1>7, <1>8, <1>9

LEMMA RecheckKeeps ==
    ASSUME HomesInv, NEW s \in Sessions, recheck(s)
    PROVE  HomesInv'
<1> DEFINE d == IF sess[s].req.op = "Put" THEN temp_path_for(sess[s].target) ELSE sess[s].dest
           r == [sess[s] EXCEPT !.pc = "act", !.dest = d]
<1>1. /\ sess[s] # NoSpec /\ sess[s].pc = "recheck" /\ sess[s].pc # "idle"
      /\ UNCHANGED <<fs, cfg, phase, by_name, anonymous>>
      /\ \/ rechecked(s) /\ sess' = [sess EXCEPT ![s].pc = "act", ![s].dest = d]
         \/ finish(s)
  BY DEF recheck
<1>2. CASE finish(s)
  BY <1>1, <1>2, Finishes
<1>3. CASE rechecked(s) /\ sess' = [sess EXCEPT ![s].pc = "act", ![s].dest = d]
  <2>1. sess[s] \in SessionsOf(Users) /\ sess = [v \in Sessions |-> sess[v]]
    BY <1>1, Connected
  <2> HIDE DEF d
  <2>2. [sess EXCEPT ![s].pc = "act", ![s].dest = d] = [sess EXCEPT ![s] = r]
    BY <2>1 DEF SessionsOf
  <2>3. sess[s].req.op = "Rename" => d = sess[s].dest
    BY DEF d
  <2>4. d = IF sess[s].req.op = "Put" THEN temp_path_for(sess[s].target) ELSE sess[s].dest
    BY DEF d
  <2>5. /\ d \in Paths
        /\ sess[s].req.op \notin {"Cd", "Ls", "Stat"} => sess[s].target # home(s)
        /\ sess[s].req.op \in {"Rename", "Put"} => Within(d, home(s))
        /\ sess[s].req.op = "Put" => Beside(d, sess[s].target)
        /\ Fresh(fs, r)
    BY <1>1, <1>3, <2>4, RecheckedIsFresh
  <2> QED
    BY <1>1, <1>3, <2>2, <2>3, <2>5, GoesOn
<1> QED
  BY <1>1, <1>2, <1>3

LEMMA LstatKeeps ==
    ASSUME HomesInv, NEW s \in Sessions, set_mode_lstat(s)
    PROVE  HomesInv'
<1> DEFINE r == [sess[s] EXCEPT !.pc = "chmod", !.dest = sess[s].dest]
           p == sess[s].target
<1>1. /\ sess[s] # NoSpec /\ sess[s].pc = "act" /\ sess[s].pc # "idle"
      /\ sess[s].req.op = "Chmod" /\ UNCHANGED <<fs, cfg, phase, by_name, anonymous>>
      /\ \/ finish(s)
         \/ /\ symlink_metadata(fs, p).k \notin {"link", "none"}
            /\ sess' = [sess EXCEPT ![s].pc = "chmod"]
  BY DEF set_mode_lstat, pending
<1>2. CASE finish(s)
  BY <1>1, <1>2, Finishes
<1>3. CASE /\ symlink_metadata(fs, p).k \notin {"link", "none"}
           /\ sess' = [sess EXCEPT ![s].pc = "chmod"]
  <2>1. /\ TypedTree(fs) /\ Sound(fs, Users, sess[s]) /\ sess[s] \in SessionsOf(Users)
        /\ home(s) \in Paths /\ home(s) = sess[s].user.home /\ sess = [v \in Sessions |-> sess[v]]
    BY <1>1, Connected
  <2>2. /\ r.pc = "chmod" /\ r.req = sess[s].req /\ r.target = p /\ p \in Paths
        /\ r.dest = sess[s].dest /\ sess[s].dest \in Paths
        /\ [sess EXCEPT ![s].pc = "chmod"] = [sess EXCEPT ![s] = r]
    BY <2>1 DEF SessionsOf
  <2>3. p # home(s) /\ starts_with(p, home(s)) /\ (sess[s].raced \/ Fresh(fs, sess[s]))
    BY <1>1, <2>1 DEF Sound, Checked
  <2>4. p # <<>>
    <3> SUFFICES ASSUME p = <<>> PROVE FALSE
      OBVIOUS
    <3>1. Len(p) = 0 /\ Len(home(s)) \in Nat
      BY <2>1 DEF Paths
    <3>2. Len(p) <= Len(home(s))
      BY <3>1
    <3> QED
      BY <2>1, <2>2, <2>3, <3>2, PrefixOrder
  <2>5. ASSUME ~sess[s].raced PROVE Fresh(fs, r)
    <3>1. located(fs, p) = p
      BY <2>3, <2>5 DEF Fresh
    <3>2. canonicalize(fs, p) = p
      BY <1>3, <2>1, <2>2, <2>4, <3>1, LeafNoLink DEF symlink_metadata
    <3> HIDE DEF r
    <3> QED
      BY <1>1, <2>2, <3>1, <3>2 DEF Fresh
  <2> QED
    BY <1>1, <1>3, <2>2, <2>3, <2>5, GoesOn
<1> QED
  BY <1>1, <1>2, <1>3

\* The commit's re-check opens a window of its own.
LEMMA PutRecheckKeeps ==
    ASSUME HomesInv, NEW s \in Sessions, put_recheck(s)
    PROVE  HomesInv'
<1> DEFINE r == [sess[s] EXCEPT !.pc = "commit", !.raced = FALSE, !.touched = {}]
           p == sess[s].target
<1>1. /\ sess[s] # NoSpec /\ sess[s].pc = "body" /\ sess[s].pc # "idle"
      /\ UNCHANGED <<fs, cfg, phase, by_name, anonymous>>
      /\ \/ finish(s)
         \/ /\ recheck_ancestors_no_symlinks(p, home(s))
            /\ sess' = [sess EXCEPT ![s].pc = "commit", ![s].raced = FALSE, ![s].touched = {}]
  BY DEF put_recheck, running
<1>2. CASE finish(s)
  BY <1>1, <1>2, Finishes
<1>3. CASE /\ recheck_ancestors_no_symlinks(p, home(s))
           /\ sess' = [sess EXCEPT ![s].pc = "commit", ![s].raced = FALSE, ![s].touched = {}]
  <2>1. /\ phase = "serving" /\ TypedTree(fs) /\ Sound(fs, Users, sess[s])
        /\ sess[s] \in SessionsOf(Users) /\ home(s) \in Paths /\ real_dir(fs, home(s))
        /\ home(s) = sess[s].user.home /\ sess = [v \in Sessions |-> sess[v]]
    BY <1>1, Connected
  <2>2. sess' = [sess EXCEPT ![s] = r]
    BY <1>3, <2>1 DEF SessionsOf
  <2>3. /\ r \in SessionsOf(Users) /\ r.pc = "commit" /\ r.user = sess[s].user
        /\ r.cwd = sess[s].cwd /\ r.raced = FALSE /\ r.touched = {} /\ r.req = sess[s].req
        /\ r.target = p /\ r.dest = sess[s].dest /\ p \in Paths /\ sess[s].dest \in Paths
    BY <2>1 DEF SessionsOf, Checked
  <2> HIDE DEF r
  <2>4. sess[s].req.op = "Put" /\ sess[s].pc \in Checked
    BY <1>1, <2>1 DEF Sound, Checked
  <2>5. Within(r.dest, home(s)) /\ Beside(r.dest, p)
    BY <2>1, <2>3, <2>4 DEF Sound
  <2>6. located(fs, p) = p /\ p # home(s) /\ PlainWay(fs, p)
    BY <1>3, <2>1, <2>3, RecheckMeans
  <2>7. located(fs, r.dest) = r.dest
    <3>1. PlainWay(fs, r.dest) /\ r.dest # <<>>
      BY <2>3, <2>5, <2>6, PlainBeside DEF Beside
    <3> QED
      BY <2>1, <2>3, <3>1, PlainIsLocated
  <2>8. Fresh(fs, r)
    BY <2>3, <2>4, <2>6, <2>7 DEF Fresh
  <2>9. Sound(fs, Users, r)
    BY <2>1, <2>3, <2>4, <2>5, <2>6, <2>8 DEF Sound, Checked
  <2> QED
    BY <1>1, <2>1, <2>2, <2>9, OneSession
<1> QED
  BY <1>1, <1>2, <1>3

LEMMA ConnectKeeps ==
    ASSUME HomesInv, NEW s \in Sessions, connect(s)
    PROVE  HomesInv'
<1>1. /\ phase = "serving" /\ UNCHANGED <<fs, cfg, phase, by_name, anonymous>>
      /\ \E u \in Users : sess' = [sess EXCEPT ![s] = idle(u)]
  BY DEF connect, resolve_identity, Users, UsersOf
<1>2. PICK u \in Users : sess' = [sess EXCEPT ![s] = idle(u)]
  BY <1>1
<1>3. u.home \in Paths
  BY <1>1, RootPath DEF HomesInv, Loading, Directory, Users, UsersOf
<1>4. <<>> \in Paths /\ MaxRequests \in Nat
  BY InputsAssumption DEF Paths
<1>5. /\ idle(u) \in SessionsOf(Users) /\ idle(u).pc = "idle" /\ idle(u).user = u
      /\ idle(u).cwd = u.home /\ idle(u).touched = {} /\ idle(u).raced = FALSE
  BY <1>3, <1>4 DEF idle, SessionsOf
<1>6. starts_with(u.home, u.home)
  BY <1>3, PrefixOrder
<1>7. Sound(fs, Users, idle(u))
  BY <1>5, <1>6 DEF Sound, Checked
<1> QED
  BY <1>1, <1>2, <1>7, OneSession
-----------------------------------------------------------------------------
(***************************************************************************)
(* Starting, and every step together.                                      *)
(***************************************************************************)

LEMMA LinksFromAway ==
    ASSUME NEW tree, NEW before, LinksFrom(tree, before), LinksAway(before)
    PROVE  LinksAway(tree)
BY DEF LinksFrom, LinksAway

LEMMA LoadKeeps ==
    ASSUME HomesInv, load
    PROVE  /\ HomesInv' /\ phase = "start"
           /\ phase' = "serving" /\ LinksAway(fs) => LinksAway(fs')
<1> DEFINE d == from_config(fs, cfg)
<1>1. /\ phase = "start" /\ fs \in Trees /\ cfg \in Configs
      /\ \A s \in Sessions : sess[s] = NoSpec
      /\ sess = [s \in Sessions |-> sess[s]]
  BY DEF load, HomesInv, Loading
<1>2. /\ fs' = d.tree /\ cfg' = cfg /\ sess' = sess
      /\ \/ d.ok /\ phase' = "serving" /\ by_name' = d.by_name /\ anonymous' = d.anonymous
         \/ phase' = "refused"
  BY DEF load
<1>3. sess' = [s \in Sessions |-> sess'[s]] /\ \A s \in Sessions : sess'[s] = NoSpec
  BY <1>1, <1>2
<1>4. CASE phase' = "refused"
  <2>1. Loading'
    BY <1>4 DEF Loading
  <2>2. HomesInv'
    BY <1>3, <1>4, <2>1 DEF HomesInv
  <2> QED
    BY <1>1, <1>4, <2>2
<1>5. CASE d.ok /\ phase' = "serving" /\ by_name' = d.by_name /\ anonymous' = d.anonymous
  <2>1. /\ Directory(cfg, d.by_name, d.anonymous) /\ TypedTree(d.tree) /\ LinksFrom(d.tree, fs)
        /\ \A u \in UsersOf(d.by_name, d.anonymous) : real_dir(d.tree, u.home)
    BY <1>1, <1>5, Loaded DEF UsersOf
  <2> HIDE DEF d
  <2>2. Directory(cfg', by_name', anonymous')
    BY <1>2, <1>5, <2>1
  <2>3. Loading'
    BY <1>5, <2>2 DEF Loading, Directory, OwnersOf
  <2>4. TypedTree(fs') /\ \A u \in UsersOf(by_name', anonymous') : real_dir(fs', u.home)
    BY <1>2, <1>5, <2>1
  <2>5. Serving'
    BY <1>3, <2>4 DEF Serving, TypedTree, Users, UsersOf
  <2>6. HomesInv'
    BY <1>3, <1>5, <2>3, <2>5 DEF HomesInv
  <2> QED
    BY <1>1, <1>2, <2>1, <2>6, LinksFromAway
<1> QED
  BY <1>2, <1>4, <1>5

\* A system call of a session, whatever it is.
LEMMA CallKeeps ==
    ASSUME HomesInv, NEW s \in Sessions, LinksAway(fs) \/ NoRace,
           \/ cd(s) \/ ls(s) \/ stat(s) \/ get(s) \/ mkdir(s) \/ rmdir(s) \/ rm(s)
           \/ rename(s) \/ set_mode(s) \/ put_reject(s) \/ put_mode(s)
    PROVE  /\ HomesInv' /\ OwnerActs
           /\ LinksAway(fs) => LinksAway(fs')
<1>1. sess[s] # NoSpec /\ sess[s].pc \in Checked
  BY DEF cd, ls, stat, get, mkdir, rmdir, rm, rename, set_mode, pending, put_reject, put_mode,
     running, Checked
<1>2. Busy(s)
  BY <1>1, Connected DEF Busy
<1>3. Outcome(s)
  BY <1>2, CdProper, LsProper, StatProper, GetProper, MkdirProper, RmdirProper, RmProper,
     RenameProper, SetModeProper, PutRejectProper, PutModeProper
<1> QED
  BY <1>2, <1>3, OutcomeIsEffect, OutcomeKeeps

\* A step that leaves the tree alone cannot break OwnerActs.
LEMMA QuietSteps ==
    ASSUME fs' = fs
    PROVE  OwnerActs /\ (LinksAway(fs) => LinksAway(fs'))
BY DEF OwnerActs

LEMMA PutOpenKeeps ==
    ASSUME HomesInv, NEW s \in Sessions, LinksAway(fs) \/ NoRace, put_open(s)
    PROVE  /\ HomesInv' /\ OwnerActs
           /\ LinksAway(fs) => LinksAway(fs')
<1> DEFINE p == located(fs, sess[s].dest)
<1>1. /\ pending(s, "Put")
      /\ \/ /\ p \in Nodes
            /\ called(s, [fs EXCEPT ![p] = File],
                      [sess[s] EXCEPT !.pc = "body", !.touched = {p}])
         \/ finish(s) /\ UNCHANGED <<fs, cfg, phase, by_name, anonymous>>
  BY DEF put_open
<1>2. sess[s] # NoSpec /\ Busy(s)
  BY <1>1, Connected DEF pending, Busy, Checked
<1> HIDE DEF p
<1>3. CASE finish(s) /\ UNCHANGED <<fs, cfg, phase, by_name, anonymous>>
  BY <1>2, <1>3, Finishes, QuietSteps
<1>4. CASE /\ p \in Nodes
           /\ called(s, [fs EXCEPT ![p] = File], [sess[s] EXCEPT !.pc = "body", !.touched = {p}])
  <2>1. Effect(s)
    BY <1>1, <1>2, <1>4, PutOpens DEF p
  <2> QED
    BY <1>2, <2>1, OutcomeKeeps
<1> QED
  BY <1>1, <1>3, <1>4

LEMMA PutCommitKeeps ==
    ASSUME HomesInv, NEW s \in Sessions, LinksAway(fs) \/ NoRace, put_commit(s)
    PROVE  /\ HomesInv' /\ OwnerActs
           /\ LinksAway(fs) => LinksAway(fs')
<1> DEFINE from == located(fs, sess[s].dest)
           to == located(fs, sess[s].target)
           tree == renamed(fs, sess[s].dest, sess[s].target)
<1>1. /\ sess[s] # NoSpec /\ sess[s].pc = "commit"
      /\ \/ finish(s) /\ UNCHANGED <<fs, cfg, phase, by_name, anonymous>>
         \/ /\ tree # fs
            /\ called(s, tree, [sess[s] EXCEPT !.pc = "mode", !.touched = {from, to},
                                               !.raced = @ \/ node(fs, from).k # "file"])
  BY DEF put_commit, running
<1>2. Busy(s)
  BY <1>1, Connected DEF Busy, Checked
<1>3. CASE finish(s) /\ UNCHANGED <<fs, cfg, phase, by_name, anonymous>>
  BY <1>1, <1>3, Finishes, QuietSteps
<1>4. CASE /\ tree # fs
           /\ called(s, tree, [sess[s] EXCEPT !.pc = "mode", !.touched = {from, to},
                                              !.raced = @ \/ node(fs, from).k # "file"])
  <2>1. Effect(s)
    BY <1>1, <1>2, <1>4, PutCommits
  <2> QED
    BY <1>2, <2>1, OutcomeKeeps
<1> QED
  BY <1>1, <1>3, <1>4

LEMMA NextKeeps ==
    ASSUME HomesInv, phase = "serving" => LinksAway(fs) \/ NoRace, [Next]_vars
    PROVE  /\ HomesInv' /\ OwnerActs
           /\ phase' # "refused" /\ LinksAway(fs) => LinksAway(fs')
<1>1. CASE load
  <2>1. /\ HomesInv' /\ phase = "start"
        /\ phase' = "serving" /\ LinksAway(fs) => LinksAway(fs')
    BY <1>1, LoadKeeps
  <2>2. phase' \in {"start", "refused", "serving"}
    BY <2>1 DEF HomesInv, Loading
  <2>3. phase' # "start"
    BY <1>1 DEF load
  <2> QED
    BY <2>1, <2>2, <2>3 DEF OwnerActs
<1>2. ASSUME NEW s \in Sessions, connect(s) \/ handle_request(s)
      PROVE  /\ HomesInv' /\ OwnerActs
             /\ LinksAway(fs) => LinksAway(fs')
  <2>1. CASE connect(s)
    <3>1. fs' = fs
      BY <2>1 DEF connect
    <3> QED
      BY <2>1, <3>1, ConnectKeeps, QuietSteps
  <2>2. CASE \E req \in Requests : accept(s, req)
    <3>1. fs' = fs
      BY <2>2 DEF accept
    <3> QED
      BY <2>2, <3>1, AcceptKeeps, QuietSteps
  <2>3. CASE resolve(s) \/ recheck(s) \/ set_mode_lstat(s) \/ put_recheck(s)
    <3>1. fs' = fs
      BY <2>3 DEF resolve, recheck, set_mode_lstat, put_recheck
    <3> QED
      BY <2>3, <3>1, ResolveKeeps, RecheckKeeps, LstatKeeps, PutRecheckKeeps, QuietSteps
  <2>4. CASE \/ cd(s) \/ ls(s) \/ stat(s) \/ get(s) \/ mkdir(s) \/ rmdir(s) \/ rm(s)
             \/ rename(s) \/ set_mode(s) \/ put_reject(s) \/ put_mode(s)
    <3>1. sess[s] # NoSpec
      BY <2>4 DEF cd, ls, stat, get, mkdir, rmdir, rm, rename, set_mode, pending, put_reject,
         put_mode, running
    <3>2. LinksAway(fs) \/ NoRace
      BY <3>1, Connected
    <3> QED
      BY <2>4, <3>2, CallKeeps
  <2>5. CASE put_open(s) \/ put_commit(s)
    <3>1. sess[s] # NoSpec
      BY <2>5 DEF put_open, put_commit, pending, running
    <3>2. LinksAway(fs) \/ NoRace
      BY <3>1, Connected
    <3> QED
      BY <2>5, <3>2, PutOpenKeeps, PutCommitKeeps
  <2>6. CASE put_abort(s)
    <3>1. sess[s] # NoSpec /\ finish(s) /\ UNCHANGED <<fs, cfg, phase, by_name, anonymous>>
      BY <2>6 DEF put_abort, running
    <3> QED
      BY <3>1, Finishes, QuietSteps
  <2> QED
    BY <1>2, <2>1, <2>2, <2>3, <2>4, <2>5, <2>6 DEF handle_request
<1>3. CASE UNCHANGED vars
  <2>1. /\ fs' = fs /\ cfg' = cfg /\ phase' = phase /\ by_name' = by_name
        /\ anonymous' = anonymous /\ sess' = sess
    BY <1>3 DEF vars
  <2>2. Users' = Users
    BY <2>1 DEF Users, UsersOf
  <2>3. Directory(cfg, by_name, anonymous) => Directory(cfg', by_name', anonymous')
    BY <2>1
  <2>4. Loading'
    BY <2>1, <2>3 DEF HomesInv, Loading, Directory, OwnersOf
  <2>5. Serving => Serving'
    BY <2>1, <2>2 DEF Serving, TypedTree
  <2>6. HomesInv'
    BY <2>1, <2>4, <2>5 DEF HomesInv
  <2> QED
    BY <2>1, <2>6, QuietSteps
<1> QED
  BY <1>1, <1>2, <1>3 DEF Next

LEMMA InitHolds ==
    ASSUME Init
    PROVE  HomesInv
BY DEF Init, HomesInv, Loading

LEMMA InvMeans ==
    ASSUME HomesInv
    PROVE  HomesApart /\ HomesStayReal /\ OpsStayInside
<1>1. HomesApart
  BY DEF HomesInv, Loading, Directory, OwnersOf, HomesApart
<1>2. HomesStayReal
  BY DEF HomesInv, Serving, Users, UsersOf, HomesStayReal
<1>3. OpsStayInside
  <2> SUFFICES ASSUME NEW s \in Active
               PROVE  /\ starts_with(sess[s].cwd, home(s))
                      /\ sess[s].raced \/ \A p \in sess[s].touched : starts_with(p, home(s))
    BY DEF OpsStayInside
  <2>1. Sound(fs, Users, sess[s]) /\ home(s) = sess[s].user.home
    BY Connected DEF Active
  <2> QED
    BY <2>1 DEF Sound
<1> QED
  BY <1>1, <1>2, <1>3

\* What holds without any condition on links and races: the directory is loaded once,
\* and no session runs before.
LoadInv == /\ Loading
           /\ phase = "start" => \A s \in Sessions : sess[s] = NoSpec

LEMMA LoadInvKept ==
    ASSUME LoadInv, [Next]_vars
    PROVE  LoadInv'
<1>1. CASE load
  <2>1. phase = "start" /\ fs \in Trees /\ cfg \in Configs
    BY <1>1 DEF load, LoadInv, Loading
  <2> DEFINE d == from_config(fs, cfg)
  <2>2. /\ cfg' = cfg
        /\ \/ d.ok /\ phase' = "serving" /\ by_name' = d.by_name /\ anonymous' = d.anonymous
           \/ phase' = "refused"
    BY <1>1 DEF load
  <2>3. d.ok => Directory(cfg, d.by_name, d.anonymous)
    BY <2>1, Loaded
  <2> HIDE DEF d
  <2>4. phase' = "serving" => Directory(cfg', by_name', anonymous')
    BY <2>2, <2>3
  <2> QED
    BY <2>2, <2>4 DEF LoadInv, Loading, Directory, OwnersOf
<1>2. CASE ~load
  <2>1. /\ cfg' = cfg /\ phase' = phase /\ by_name' = by_name /\ anonymous' = anonymous
        /\ phase = "start" => fs' = fs /\ sess' = sess
    <3>1. CASE UNCHANGED vars
      BY <3>1 DEF vars
    <3>2. ASSUME NEW s \in Sessions, connect(s) \/ handle_request(s)
          PROVE  /\ cfg' = cfg /\ phase' = phase /\ by_name' = by_name
                 /\ anonymous' = anonymous /\ phase # "start"
      <4>1. CASE connect(s)
        BY <4>1 DEF connect
      <4>2. CASE handle_request(s)
        <5>1. sess[s] # NoSpec
          BY <4>2 DEF handle_request, accept, resolve, recheck, cd, ls, stat, get, mkdir,
             rmdir, rm, rename, set_mode_lstat, set_mode, pending, put_open, put_abort,
             put_recheck, put_reject, put_commit, put_mode, running
        <5>2. phase # "start"
          BY <5>1 DEF LoadInv
        <5>3. /\ cfg' = cfg /\ phase' = phase /\ by_name' = by_name /\ anonymous' = anonymous
          BY <4>2 DEF handle_request, accept, resolve, recheck, cd, ls, stat, get, mkdir,
             rmdir, rm, rename, set_mode_lstat, set_mode, acted, called, put_open, put_abort,
             put_recheck, put_reject, put_commit, put_mode
        <5> QED
          BY <5>2, <5>3
      <4> QED
        BY <3>2, <4>1, <4>2
    <3> QED
      BY <1>2, <3>1, <3>2 DEF Next
  <2>2. phase = "serving" => Directory(cfg', by_name', anonymous')
    BY <2>1 DEF LoadInv, Loading
  <2> QED
    BY <2>1, <2>2 DEF LoadInv, Loading, Directory, OwnersOf
<1> QED
  BY <1>1, <1>2

-----------------------------------------------------------------------------
(***************************************************************************)
(* Theorems.                                                               *)
(***************************************************************************)

\* UserDirectory::from_config accepts only configurations whose homes lie under the
\* root and apart from each other, whatever tree, links, `..` and names it meets.
THEOREM HomesAreApart == Spec => []HomesApart
<1>1. Init => LoadInv
  BY DEF Init, LoadInv, Loading
<1>2. LoadInv /\ [Next]_vars => LoadInv'
  BY LoadInvKept
<1>3. LoadInv => HomesApart
  BY DEF LoadInv, Loading, Directory, OwnersOf, HomesApart
<1> QED
  BY <1>1, <1>2, <1>3, PTL DEF Spec

LEMMA AwayInv == Spec /\ LinksLeadAway => [](HomesInv /\ (phase # "refused" => LinksAway(fs)))
<1> DEFINE Inv == HomesInv /\ (phase # "refused" => LinksAway(fs))
<1>1. Init /\ LinksLeadAway => Inv
  BY InitHolds DEF LinksLeadAway
<1>2. Inv /\ [Next]_vars => Inv'
  <2> SUFFICES ASSUME Inv, [Next]_vars PROVE Inv'
    OBVIOUS
  <2>1. phase = "refused" => phase' = "refused"
    <3> SUFFICES ASSUME phase = "refused" PROVE phase' = "refused"
      OBVIOUS
    <3>1. \A s \in Sessions : sess[s] = NoSpec
      BY DEF HomesInv
    <3>2. \A s \in Sessions : ~connect(s) /\ \A req \in Requests : ~accept(s, req)
      BY <3>1 DEF connect, accept
    <3>3. \A s \in Sessions : ~resolve(s) /\ ~recheck(s) /\ ~set_mode(s)
      BY <3>1 DEF resolve, recheck, set_mode
    <3>4. \A s \in Sessions : \A op : ~pending(s, op)
      BY <3>1 DEF pending
    <3>5. \A s \in Sessions : ~cd(s) /\ ~ls(s) /\ ~stat(s) /\ ~get(s) /\ ~set_mode_lstat(s)
      BY <3>4 DEF cd, ls, stat, get, set_mode_lstat
    <3>6. \A s \in Sessions : ~mkdir(s) /\ ~rmdir(s) /\ ~rm(s) /\ ~rename(s)
      BY <3>4 DEF mkdir, rmdir, rm, rename
    <3>7. ~load
      BY DEF load
    <3>9. \A s \in Sessions : ~put_open(s) /\ ~put_abort(s) /\ ~put_recheck(s)
      BY <3>1 DEF put_open, put_abort, put_recheck, pending, running
    <3>10. \A s \in Sessions : ~put_reject(s) /\ ~put_commit(s) /\ ~put_mode(s)
      BY <3>1 DEF put_reject, put_commit, put_mode, running
    <3>8. \A s \in Sessions : ~handle_request(s)
      BY <3>2, <3>3, <3>5, <3>6, <3>9, <3>10 DEF handle_request
    <3> QED
      BY <3>2, <3>7, <3>8 DEF Next, vars
  <2>2. /\ HomesInv'
        /\ phase' # "refused" /\ LinksAway(fs) => LinksAway(fs')
    BY NextKeeps
  <2> QED
    BY <2>1, <2>2 DEF LinksAway
<1> HIDE DEF Inv
<1>3. Spec /\ LinksLeadAway => []Inv
  BY <1>1, <1>2, PTL DEF Spec
<1> QED
  BY <1>3, PTL DEF Inv

LEMMA UnracedInv == Spec /\ []NoRace => []HomesInv
<1>1. Init => HomesInv
  BY InitHolds
<1>2. HomesInv /\ NoRace /\ [Next]_vars => HomesInv'
  BY NextKeeps
<1> QED
  BY <1>1, <1>2, PTL DEF Spec

\* Every home stays a directory that no link leads to, if the operator's links lead out
\* of the root, or if no rename falls between a re-check and its system call: no request
\* removes, replaces or moves a home or anything above it.
THEOREM HomesRemainReal == Spec /\ (LinksLeadAway \/ []NoRace) => []HomesStayReal
<1>1. HomesInv => HomesStayReal
  BY InvMeans
<1> QED
  BY <1>1, AwayInv, UnracedInv, PTL

\* A working directory stays in its user's home, and so does what a request touches
\* that was not overtaken between its last check and its system call.
THEOREM OpsRemainInside == Spec /\ (LinksLeadAway \/ []NoRace) => []OpsStayInside
<1>1. HomesInv => OpsStayInside
  BY InvMeans
<1> QED
  BY <1>1, AwayInv, UnracedInv, PTL

\* What lies in a named user's home is made, moved and removed only by system calls of
\* that user's own sessions, the three of Put included, be they overtaken or not.
THEOREM OwnersWrite == Spec /\ (LinksLeadAway \/ []NoRace) => OnlyOwnerWrites
<1> DEFINE Step == phase = "serving" =>
          \A n \in DOMAIN by_name, p \in Nodes :
              (starts_with(p, by_name[n].home) /\ fs'[p] # fs[p]) =>
                  \E s \in Active : sess'[s].pc # sess[s].pc /\ sess[s].user.name = n
<1>1. OwnerActs => Step
  BY DEF OwnerActs
<1>2. HomesInv /\ (phase # "refused" => LinksAway(fs)) /\ [Next]_vars => Step
  <2>1. HomesInv /\ (phase # "refused" => LinksAway(fs)) /\ [Next]_vars => OwnerActs
    BY NextKeeps
  <2> QED
    BY <1>1, <2>1
<1>3. HomesInv /\ NoRace /\ [Next]_vars => Step
  <2>1. HomesInv /\ NoRace /\ [Next]_vars => OwnerActs
    BY NextKeeps
  <2> QED
    BY <1>1, <2>1
<1> QED
  BY <1>2, <1>3, AwayInv, UnracedInv, PTL DEF Spec, OnlyOwnerWrites
=============================================================================

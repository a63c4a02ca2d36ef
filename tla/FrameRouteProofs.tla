--------------------------- MODULE FrameRouteProofs ---------------------------
(***************************************************************************)
(* What walking up a forest establishes, for every set of frames: the walk *)
(* of creates_cycle finds every cycle that a move can close, and the walk  *)
(* of recompute_depths counts every frame one deeper than its parent.      *)
(*                                                                         *)
(* Induction over the walk is by its least counterexample.                 *)
(***************************************************************************)
EXTENDS FrameRoute, FiniteSetTheorems, TLAPS

Parents == [Frames -> Frames \cup {NoFrame}]

-------------------------------------------------------------------------------
(* The least number of a set. *)

Below == OpToRel(<, Nat)

LEMMA BelowIs ==
    ASSUME NEW m \in Nat, NEW n \in Nat, m < n
    PROVE  <<m, n>> \in Below
  <1>1. Below = {ss \in Nat \X Nat : ss[1] < ss[2]}
    BY Zenon DEF OpToRel, Below
  <1> QED
    BY <1>1, SMT

LEMMA LeastNat ==
    ASSUME NEW T, T \subseteq Nat, T # {}
    PROVE  \E n \in T : \A m \in T : n <= m
  <1>1. IsWellFoundedOn(Below, Nat)
    BY NatLessThanWellFounded, Zenon DEF Below
  <1>2. PICK n \in T : \A m \in T : ~(<<m, n>> \in Below)
    BY <1>1, WFMin, Zenon
  <1>3. ASSUME NEW m \in T PROVE n <= m
    <2>1. n \in Nat /\ m \in Nat
      OBVIOUS
    <2>2. ~(m < n)
      BY <1>2, <2>1, BelowIs
    <2> QED
      BY <2>1, <2>2
  <1> QED
    BY <1>3

-------------------------------------------------------------------------------
(* The walk. *)

\* g is the walk up from f, for the steps of D.
IsWalk(parent, f, D, g) ==
    g = [n \in D |-> IF n = 0 THEN parent[f]
                     ELSE IF g[n - 1] = NoFrame THEN NoFrame ELSE parent[g[n - 1]]]

LEMMA WalkExists ==
    ASSUME NEW parent, NEW f, NEW k \in Nat
    PROVE  \E g : IsWalk(parent, f, 0 .. k, g)
  <1> DEFINE T == {n \in Nat : ~ \E g : IsWalk(parent, f, 0 .. n, g)}
  <1> SUFFICES ASSUME T # {} PROVE FALSE
    OBVIOUS
  <1>1. PICK n \in T : \A m \in T : n <= m
    <2>1. T \subseteq Nat
      OBVIOUS
    <2> HIDE DEF T
    <2> QED
      BY <2>1, LeastNat
  <1>2. n \in Nat /\ ~ \E g : IsWalk(parent, f, 0 .. n, g)
    OBVIOUS
  <1>3. CASE n = 0
    <2> DEFINE g == [m \in 0 .. 0 |-> parent[f]]
    <2>1. \A m \in 0 .. 0 : m = 0
      OBVIOUS
    <2>2. IsWalk(parent, f, 0 .. 0, g)
      BY <2>1 DEF IsWalk
    <2> QED
      BY <1>2, <1>3, <2>2
  <1>4. CASE n # 0
    <2>1. n - 1 \in Nat /\ ~(n <= n - 1)
      BY <1>2, <1>4
    <2>2. PICK g : IsWalk(parent, f, 0 .. n - 1, g)
      BY <1>1, <2>1
    <2> DEFINE top == IF g[n - 1] = NoFrame THEN NoFrame ELSE parent[g[n - 1]]
               e == [m \in 0 .. n |-> IF m = n THEN top ELSE g[m]]
    <2>3. ASSUME NEW m \in 0 .. n
          PROVE  e[m] = IF m = 0 THEN parent[f]
                        ELSE IF e[m - 1] = NoFrame THEN NoFrame ELSE parent[e[m - 1]]
      <3>1. m \in Nat /\ m <= n
        BY <1>2
      <3>2. CASE m = n
        <4>1. n - 1 \in 0 .. n /\ n - 1 # n
          BY <1>2, <1>4
        <4>2. e[n - 1] = g[n - 1] /\ e[n] = top
          BY <1>2, <4>1
        <4> QED
          BY <1>4, <3>2, <4>2
      <3>3. CASE m # n
        <4>1. m \in 0 .. n - 1
          BY <1>2, <3>1, <3>3
        <4>2. g[m] = IF m = 0 THEN parent[f]
                     ELSE IF g[m - 1] = NoFrame THEN NoFrame ELSE parent[g[m - 1]]
          BY <2>2, <4>1 DEF IsWalk
        <4>3. e[m] = g[m]
          BY <3>3
        <4>4. m # 0 => e[m - 1] = g[m - 1]
          <5>1. m # 0 => m - 1 \in 0 .. n /\ m - 1 # n
            BY <1>2, <4>1
          <5> QED
            BY <5>1
        <4> QED
          BY <4>2, <4>3, <4>4
      <3> QED
        BY <3>2, <3>3
    <2>4. IsWalk(parent, f, 0 .. n, e)
      <3>1. e = [m \in 0 .. n |-> e[m]]
        OBVIOUS
      <3> HIDE DEF e
      <3> QED
        BY <2>3, <3>1 DEF IsWalk
    <2> QED
      BY <1>2, <2>4
  <1> QED
    BY <1>3, <1>4

LEMMA Size == Cardinality(Frames) \in Nat /\ IsFiniteSet(Frames)
  BY FramesAssumption, FS_CardinalityType

\* The equations of the walk.
LEMMA ClimbSteps ==
    ASSUME NEW parent, NEW f
    PROVE  /\ Climb(parent, f)[0] = parent[f]
           /\ \A n \in Budget \ {0} :
                Climb(parent, f)[n] = IF Climb(parent, f)[n - 1] = NoFrame THEN NoFrame
                                      ELSE parent[Climb(parent, f)[n - 1]]
  <1>1. \E g : IsWalk(parent, f, Budget, g)
    BY WalkExists, Size DEF Budget
  <1>2. Climb(parent, f) = CHOOSE g : IsWalk(parent, f, Budget, g)
    BY DEF Climb, IsWalk
  <1>3. IsWalk(parent, f, Budget, Climb(parent, f))
    BY <1>1, <1>2
  <1>4. 0 \in Budget
    BY Size DEF Budget
  <1> QED
    BY <1>3, <1>4 DEF IsWalk
\* A walk stays among the frames until it is past the root, and then stays there.
LEMMA ClimbType ==
    ASSUME NEW parent \in Parents, NEW f \in Frames, NEW n \in Budget
    PROVE  Climb(parent, f)[n] \in Frames \cup {NoFrame}
  <1> DEFINE up == Climb(parent, f)
             T == {m \in Budget : up[m] \notin Frames \cup {NoFrame}}
  <1>1. /\ up[0] = parent[f]
        /\ \A m \in Budget \ {0} : up[m] = IF up[m - 1] = NoFrame THEN NoFrame ELSE parent[up[m - 1]]
    BY ClimbSteps
  <1> HIDE DEF up
  <1> SUFFICES ASSUME T # {} PROVE FALSE
    BY DEF up
  <1>2. PICK m \in T : \A k \in T : m <= k
    <2>1. T \subseteq Nat
      BY Size DEF Budget
    <2> HIDE DEF T
    <2> QED
      BY <2>1, LeastNat
  <1>3. m \in Budget /\ up[m] \notin Frames \cup {NoFrame}
    OBVIOUS
  <1>4. m # 0
    BY <1>1, <1>3 DEF Parents
  <1>5. m - 1 \in Budget /\ ~(m <= m - 1)
    BY <1>3, <1>4, Size DEF Budget
  <1>6. up[m - 1] \in Frames \cup {NoFrame}
    BY <1>2, <1>5
  <1> QED
    BY <1>1, <1>3, <1>4, <1>6 DEF Parents

LEMMA ClimbEnds ==
    ASSUME NEW parent, NEW f, NEW m \in Budget, NEW n \in Budget, m <= n,
           Climb(parent, f)[m] = NoFrame
    PROVE  Climb(parent, f)[n] = NoFrame
  <1> DEFINE up == Climb(parent, f)
             T == {k \in m .. n : up[k] # NoFrame}
  <1>1. \A k \in Budget \ {0} : up[k] = IF up[k - 1] = NoFrame THEN NoFrame ELSE parent[up[k - 1]]
    BY ClimbSteps
  <1>2. m \in Nat /\ n \in Nat /\ up[m] = NoFrame
    BY Size DEF Budget
  <1> HIDE DEF up
  <1> SUFFICES ASSUME T # {} PROVE FALSE
    BY <1>2 DEF up
  <1>3. PICK k \in T : \A j \in T : k <= j
    <2>1. T \subseteq Nat
      BY <1>2
    <2> HIDE DEF T
    <2> QED
      BY <2>1, LeastNat
  <1>4. k \in m .. n /\ up[k] # NoFrame /\ k # m
    BY <1>2
  <1>5. k - 1 \in m .. n /\ ~(k <= k - 1) /\ k \in Budget \ {0}
    BY <1>2, <1>4, Size DEF Budget
  <1>6. up[k - 1] = NoFrame
    BY <1>3, <1>5
  <1> QED
    BY <1>1, <1>4, <1>5, <1>6

-------------------------------------------------------------------------------
(* Cycles. *)

\* A move that the walk of creates_cycle let pass leaves a forest a forest: the
\* only cycle it could close goes through the moved frame.
LEMMA MoveKeepsAcyclic ==
    ASSUME NEW parent \in Parents, NEW c \in Frames, NEW p \in Frames, Acyclic(parent),
           ~creates_cycle([parent EXCEPT ![c] = p], c)
    PROVE  Acyclic([parent EXCEPT ![c] = p])
  <1> DEFINE next == [parent EXCEPT ![c] = p]
             up == Climb(next, c)
  <1>1. next \in Parents /\ \A f \in Frames \ {c} : next[f] = parent[f]
    BY DEF Parents
  <1>2. PICK n \in Budget : up[n] = NoFrame /\ \A m \in 0 .. n - 1 : up[m] # c
    BY DEF creates_cycle
  <1>3. /\ up[0] = next[c]
        /\ \A m \in Budget \ {0} : up[m] = IF up[m - 1] = NoFrame THEN NoFrame ELSE next[up[m - 1]]
    <2> HIDE DEF next
    <2> QED
      BY ClimbSteps
  <1> HIDE DEF next, up
  <1> SUFFICES ASSUME NEW S \in SUBSET Frames, S # {}, \A f \in S : next[f] \in S
               PROVE  FALSE
    BY DEF Acyclic, next
  <1>4. NoFrame \notin S
    BY FramesAssumption DEF NoFrame
  <1>5. CASE c \notin S
    <2>1. \A f \in S : parent[f] \in S
      BY <1>1, <1>5
    <2> QED
      BY <2>1 DEF Acyclic
  <1>6. CASE c \in S
    <2> DEFINE T == S \cap {up[m] : m \in 0 .. n - 1}
    <2>1. up[0] \in T
      <3>1. up[0] \in S
        BY <1>3, <1>6
      <3>2. n # 0
        BY <1>2, <1>4, <3>1
      <3>3. 0 \in 0 .. n - 1
        BY <3>2, Size DEF Budget
      <3> QED
        BY <3>1, <3>3
    <2>2. ASSUME NEW f \in T PROVE parent[f] \in T
      <3>1. PICK m \in 0 .. n - 1 : f = up[m]
        OBVIOUS
      <3>2. f # c /\ f \in Frames /\ f \in S /\ f # NoFrame
        BY <1>2, <1>4, <3>1
      <3>3. parent[f] = next[f] /\ next[f] \in S
        BY <1>1, <3>2
      <3>4. m + 1 \in Budget \ {0} /\ (m + 1) - 1 = m
        BY Size DEF Budget
      <3>5. up[m + 1] = next[f]
        BY <1>3, <3>1, <3>2, <3>4
      <3>6. m + 1 # n
        BY <1>2, <1>4, <3>3, <3>5
      <3>7. m + 1 \in 0 .. n - 1
        BY <3>6, Size DEF Budget
      <3> QED
        BY <3>3, <3>5, <3>7
    <2>3. T \in SUBSET Frames /\ T # {}
      BY <2>1
    <2> HIDE DEF T
    <2> QED
      BY <2>2, <2>3 DEF Acyclic
  <1> QED
    BY <1>5, <1>6

-------------------------------------------------------------------------------
(* Depths. *)

\* In a forest every walk is past the root within its budget: one that were not
\* would meet some frame twice.
LEMMA WalkEnds ==
    ASSUME NEW parent \in Parents, NEW f \in Frames, Acyclic(parent)
    PROVE  Climb(parent, f)[Cardinality(Frames)] = NoFrame
  <1> DEFINE up == Climb(parent, f)
             N == Cardinality(Frames)
  <1>0. N \in Nat /\ N \in Budget /\ Budget = 0 .. N
    BY Size DEF Budget
  <1>1. \A m \in Budget \ {0} : up[m] = IF up[m - 1] = NoFrame THEN NoFrame ELSE parent[up[m - 1]]
    BY ClimbSteps
  <1> SUFFICES ASSUME up[N] # NoFrame PROVE FALSE
    OBVIOUS
  <1>2. ASSUME NEW m \in Budget PROVE up[m] \in Frames
    <2>1. m <= N
      BY <1>0
    <2>2. up[m] # NoFrame
      BY <1>0, <2>1, ClimbEnds
    <2> QED
      BY <2>2, ClimbType
  <1> HIDE DEF up, N
  <1>3. PICK a \in Budget, b \in Budget : a < b /\ up[a] = up[b]
    <2> DEFINE g == [m \in 0 .. N |-> up[m]]
    <2>1. g \in [0 .. N -> Frames]
      BY <1>0, <1>2
    <2>2. IsFiniteSet(0 .. N) /\ Cardinality(0 .. N) = N + 1
      BY <1>0, FS_Interval
    <2>3. Cardinality(Frames) < Cardinality(0 .. N)
      BY <1>0, <2>2 DEF N
    <2>4. PICK x \in 0 .. N, y \in 0 .. N : x # y /\ g[x] = g[y]
      <3> HIDE DEF g
      <3> QED
        BY <2>1, <2>2, <2>3, Size, FS_PigeonHole
    <2>5. x < y \/ y < x
      BY <1>0, <2>4
    <2>6. up[x] = up[y]
      BY <2>4
    <2> QED
      BY <1>0, <2>5, <2>6
  <1> DEFINE S == {up[m] : m \in a .. b - 1}
  <1>4. a \in Nat /\ b \in Nat /\ a .. b - 1 \subseteq Budget
    BY <1>0
  <1>5. S \in SUBSET Frames
    BY <1>2, <1>4
  <1>6. up[a] \in S
    <2>1. a \in a .. b - 1
      BY <1>3, <1>4
    <2> QED
      BY <2>1
  <1>7. ASSUME NEW g \in S PROVE parent[g] \in S
    <2>1. PICK m \in a .. b - 1 : g = up[m]
      OBVIOUS
    <2>2. m + 1 \in Budget \ {0} /\ (m + 1) - 1 = m /\ (m + 1 = b \/ m + 1 \in a .. b - 1)
      BY <1>0, <1>4
    <2>3. up[m] # NoFrame
      BY <1>2, <1>4, FramesAssumption DEF NoFrame
    <2>4. parent[g] = up[m + 1]
      BY <1>1, <2>1, <2>2, <2>3
    <2> QED
      BY <1>3, <1>6, <2>2, <2>4
  <1> HIDE DEF S
  <1> QED
    BY <1>5, <1>6, <1>7 DEF Acyclic

\* The walk from a frame is one step ahead of the walk from its parent.
LEMMA WalkShift ==
    ASSUME NEW parent \in Parents, NEW f \in Frames, parent[f] # NoFrame,
           NEW n \in Nat, n + 1 \in Budget
    PROVE  Climb(parent, f)[n + 1] = Climb(parent, parent[f])[n]
  <1> DEFINE up == Climb(parent, f)
             ahead == Climb(parent, parent[f])
             T == {m \in Nat : m + 1 \in Budget /\ up[m + 1] # ahead[m]}
  <1>1. /\ up[0] = parent[f]
        /\ \A m \in Budget \ {0} : up[m] = IF up[m - 1] = NoFrame THEN NoFrame ELSE parent[up[m - 1]]
    BY ClimbSteps
  <1>2. /\ ahead[0] = parent[parent[f]]
        /\ \A m \in Budget \ {0} :
             ahead[m] = IF ahead[m - 1] = NoFrame THEN NoFrame ELSE parent[ahead[m - 1]]
    BY ClimbSteps
  <1> HIDE DEF up, ahead
  <1> SUFFICES ASSUME T # {} PROVE FALSE
    BY DEF up, ahead
  <1>3. PICK m \in T : \A k \in T : m <= k
    <2>1. T \subseteq Nat
      OBVIOUS
    <2> HIDE DEF T
    <2> QED
      BY <2>1, LeastNat
  <1>4. m \in Nat /\ m + 1 \in Budget \ {0} /\ (m + 1) - 1 = m /\ up[m + 1] # ahead[m]
    BY Size DEF Budget
  <1>5. up[m + 1] = IF up[m] = NoFrame THEN NoFrame ELSE parent[up[m]]
    BY <1>1, <1>4
  <1>6. CASE m = 0
    BY <1>1, <1>2, <1>4, <1>5, <1>6
  <1>7. CASE m # 0
    <2>1. m - 1 \in Nat /\ ~(m <= m - 1) /\ (m - 1) + 1 = m /\ m \in Budget \ {0}
      BY <1>4, <1>7, Size DEF Budget
    <2>2. up[m] = ahead[m - 1]
      <3>1. m - 1 \notin T
        BY <1>3, <2>1
      <3> QED
        BY <2>1, <3>1
    <2>3. ahead[m] = IF ahead[m - 1] = NoFrame THEN NoFrame ELSE parent[ahead[m - 1]]
      BY <1>2, <2>1
    <2> QED
      BY <1>4, <1>5, <2>2, <2>3
  <1> QED
    BY <1>6, <1>7

\* recompute_depths: a root is at depth 0, any other frame one below its parent.
LEMMA DepthIs ==
    ASSUME NEW parent \in Parents, NEW f \in Frames, Acyclic(parent)
    PROVE  depth_of(parent, f) = IF parent[f] = NoFrame THEN 0 ELSE depth_of(parent, parent[f]) + 1
  <1> DEFINE N == Cardinality(Frames)
             above(g) == {n \in Budget : Climb(parent, g)[n] # NoFrame}
  <1>0. N \in Nat /\ N \in Budget /\ 0 \in Budget /\ Budget = 0 .. N
    BY Size DEF Budget
  <1>1. ASSUME NEW g PROVE IsFiniteSet(above(g)) /\ above(g) \subseteq Budget
    <2>1. IsFiniteSet(Budget)
      BY <1>0, FS_Interval
    <2> QED
      BY <2>1, FS_Subset
  <1>2. \A g : depth_of(parent, g) = Cardinality(above(g))
    BY DEF depth_of
  <1>3. Climb(parent, f)[0] = parent[f]
    BY ClimbSteps
  <1>4. CASE parent[f] = NoFrame
    <2>1. ASSUME NEW n \in Budget PROVE Climb(parent, f)[n] = NoFrame
      <3>1. 0 <= n
        BY <1>0
      <3> QED
        BY <1>0, <1>3, <1>4, <3>1, ClimbEnds
    <2>2. above(f) = {}
      BY <2>1
    <2> QED
      BY <1>2, <1>4, <2>2, FS_EmptySet
  <1>5. CASE parent[f] # NoFrame
    <2> DEFINE g == parent[f]
               A == above(g)
               B == above(f) \ {0}
               shift == [n \in A |-> n + 1]
    <2>1. g \in Frames
      BY <1>5 DEF Parents
    <2>2. N \notin A
      BY <2>1, WalkEnds
    <2>3. ASSUME NEW n \in Nat, n + 1 \in Budget PROVE n \in A <=> n + 1 \in B
      <3>1. Climb(parent, f)[n + 1] = Climb(parent, g)[n]
        BY <1>5, <2>3, WalkShift
      <3>2. n \in Budget /\ n + 1 # 0
        BY <1>0, <2>3
      <3> QED
        BY <2>3, <3>1, <3>2
    <2>4. A \subseteq Budget /\ B \subseteq Budget /\ 0 \notin B
      OBVIOUS
    <2> HIDE DEF A, B, above, g, N
    <2>5. ASSUME NEW n \in A PROVE n \in Nat /\ n + 1 \in Budget /\ n + 1 \in B
      <3>1. n \in 0 .. N /\ n # N
        BY <1>0, <2>2, <2>4
      <3>2. n \in Nat /\ n + 1 \in Budget
        BY <1>0, <3>1
      <3> QED
        BY <2>3, <3>2
    <2>6. ASSUME NEW n \in B PROVE n - 1 \in A /\ (n - 1) + 1 = n
      <3>1. n \in 0 .. N /\ n # 0
        BY <1>0, <2>4
      <3>2. n - 1 \in Nat /\ (n - 1) + 1 = n
        BY <1>0, <3>1
      <3> QED
        BY <1>0, <2>3, <3>1, <3>2
    <2>7. shift \in [A -> B]
      BY <2>5
    <2>8. ASSUME NEW m \in A, NEW n \in A, shift[m] = shift[n] PROVE m = n
      <3>1. m + 1 = n + 1 /\ m \in Nat /\ n \in Nat
        BY <2>5, <2>8
      <3> QED
        BY <3>1
    <2>9. ASSUME NEW n \in B PROVE \E m \in A : shift[m] = n
      <3>1. shift[n - 1] = n
        BY <2>6
      <3> QED
        BY <2>6, <3>1
    <2>10. shift \in Bijection(A, B)
      <3> HIDE DEF shift
      <3> QED
        BY <2>7, <2>8, <2>9, Zenon DEF Bijection, Injection, Surjection, IsInjective
    <2>11. ExistsBijection(A, B)
      BY <2>10, Zenon DEF ExistsBijection
    <2>12. IsFiniteSet(A)
      BY <1>1 DEF A
    <2>13. IsFiniteSet(B) /\ Cardinality(B) = Cardinality(A)
      BY <2>11, <2>12, FS_Bijection
    <2>14. above(f) = B \cup {0}
      BY <1>0, <1>3, <1>5 DEF above, B
    <2>15. Cardinality(above(f)) = Cardinality(B) + 1
      BY <2>4, <2>13, <2>14, FS_AddElement
    <2>16. depth_of(parent, f) = Cardinality(above(f)) /\ depth_of(parent, parent[f]) = Cardinality(A)
      BY <1>2 DEF A, g
    <2> QED
      BY <1>5, <2>13, <2>15, <2>16
  <1> QED
    BY <1>4, <1>5

LEMMA DepthType == ASSUME NEW parent, NEW f PROVE depth_of(parent, f) \in Nat
  <1>1. Cardinality(Frames) \in Nat
    BY FramesAssumption, FS_CardinalityType
  <1>2. IsFiniteSet(Budget)
    BY <1>1, FS_Interval DEF Budget
  <1>3. ASSUME NEW S, S \subseteq Budget PROVE Cardinality(S) \in Nat
    BY <1>2, <1>3, FS_Subset, FS_CardinalityType
  <1>4. {n \in Budget : Climb(parent, f)[n] # NoFrame} \subseteq Budget
    OBVIOUS
  <1> QED
    BY <1>3, <1>4 DEF depth_of

-------------------------------------------------------------------------------
(* Ancestors.  Induction over a forest is Acyclic itself: among the frames of *)
(* which something is false, one has a parent of which it is true, or none.   *)

LEMMA AncestorsType ==
    ASSUME NEW parent \in Parents, NEW f \in Frames
    PROVE  Ancestors(parent, f) \subseteq Frames /\ f \in Ancestors(parent, f)
  BY ClimbType DEF Ancestors

\* A root hangs from nothing, any other frame from its parent and from what that
\* hangs from.
LEMMA AncestorsAre ==
    ASSUME NEW parent \in Parents, NEW f \in Frames, Acyclic(parent)
    PROVE  Ancestors(parent, f) = IF parent[f] = NoFrame THEN {f}
                                  ELSE {f} \cup Ancestors(parent, parent[f])
  <1> DEFINE N == Cardinality(Frames)
             up(g) == {Climb(parent, g)[n] : n \in Budget} \ {NoFrame}
  <1>0. N \in Nat /\ N \in Budget /\ 0 \in Budget /\ Budget = 0 .. N
    BY Size DEF Budget
  <1>1. Climb(parent, f)[0] = parent[f]
    BY ClimbSteps
  <1>2. CASE parent[f] = NoFrame
    <2>1. ASSUME NEW n \in Budget PROVE Climb(parent, f)[n] = NoFrame
      <3>1. 0 <= n
        BY <1>0
      <3> QED
        BY <1>0, <1>1, <1>2, <3>1, ClimbEnds
    <2> QED
      BY <1>2, <2>1 DEF Ancestors
  <1>3. CASE parent[f] # NoFrame
    <2> DEFINE g == parent[f]
    <2>1. g \in Frames
      BY <1>3 DEF Parents
    <2>2. ASSUME NEW x \in up(f) PROVE x \in {g} \cup up(g)
      <3>1. PICK n \in Budget : x = Climb(parent, f)[n] /\ x # NoFrame
        OBVIOUS
      <3>2. CASE n = 0
        BY <1>1, <3>1, <3>2
      <3>3. CASE n # 0
        <4>1. n - 1 \in Nat /\ (n - 1) + 1 \in Budget /\ (n - 1) + 1 = n /\ n - 1 \in Budget
          BY <1>0, <3>3
        <4>2. x = Climb(parent, g)[n - 1]
          BY <1>3, <3>1, <4>1, WalkShift
        <4> QED
          BY <3>1, <4>1, <4>2
      <3> QED
        BY <3>2, <3>3
    <2>3. ASSUME NEW x \in {g} \cup up(g) PROVE x \in up(f)
      <3>1. CASE x = g
        BY <1>0, <1>1, <1>3, <3>1
      <3>2. CASE x \in up(g)
        <4>1. PICK n \in Budget : x = Climb(parent, g)[n] /\ x # NoFrame
          BY <3>2
        <4>2. n # N
          BY <2>1, <4>1, WalkEnds
        <4>3. n \in Nat /\ n + 1 \in Budget
          BY <1>0, <4>2
        <4>4. x = Climb(parent, f)[n + 1]
          BY <1>3, <4>1, <4>3, WalkShift
        <4> QED
          BY <4>1, <4>3, <4>4
      <3> QED
        BY <2>3, <3>1, <3>2
    <2>4. up(f) = {g} \cup up(g)
      BY <2>2, <2>3
    <2> QED
      BY <1>3, <2>4 DEF Ancestors
  <1> QED
    BY <1>2, <1>3

\* What a frame hangs from is less deep.
LEMMA AncestorsAbove ==
    ASSUME NEW parent \in Parents, NEW f \in Frames, Acyclic(parent), NEW g \in Ancestors(parent, f)
    PROVE  g = f \/ depth_of(parent, g) < depth_of(parent, f)
  <1> DEFINE Ok(x) == \A y \in Ancestors(parent, x) : y = x \/ depth_of(parent, y) < depth_of(parent, x)
             Bad == {x \in Frames : ~Ok(x)}
  <1> SUFFICES ASSUME Bad # {} PROVE FALSE
    OBVIOUS
  <1>1. PICK x \in Bad : parent[x] \notin Bad
    <2>1. Bad \in SUBSET Frames
      OBVIOUS
    <2> QED
      BY <2>1 DEF Acyclic
  <1>2. x \in Frames /\ ~Ok(x)
    OBVIOUS
  <1>3. CASE parent[x] = NoFrame
    <2>1. Ancestors(parent, x) = {x}
      BY <1>2, <1>3, AncestorsAre
    <2> QED
      BY <1>2, <2>1
  <1>4. CASE parent[x] # NoFrame
    <2> DEFINE up == parent[x]
    <2>1. up \in Frames /\ Ok(up)
      BY <1>1, <1>2, <1>4 DEF Parents
    <2>2. Ancestors(parent, x) = {x} \cup Ancestors(parent, up)
      BY <1>2, <1>4, AncestorsAre
    <2>3. depth_of(parent, x) = depth_of(parent, up) + 1
      BY <1>2, <1>4, DepthIs
    <2>4. ASSUME NEW y \in Ancestors(parent, up) PROVE depth_of(parent, y) < depth_of(parent, x)
      <3>1. y = up \/ depth_of(parent, y) < depth_of(parent, up)
        BY <2>1
      <3>2. depth_of(parent, y) \in Nat /\ depth_of(parent, up) \in Nat
        BY DepthType
      <3> QED
        BY <2>3, <3>1, <3>2
    <2> QED
      BY <1>2, <2>2, <2>4
  <1> QED
    BY <1>3, <1>4

LEMMA AncestorsTransitive ==
    ASSUME NEW parent \in Parents, NEW f \in Frames, Acyclic(parent), NEW g \in Ancestors(parent, f)
    PROVE  Ancestors(parent, g) \subseteq Ancestors(parent, f)
  <1> DEFINE Ok(x) == \A y \in Ancestors(parent, x) : Ancestors(parent, y) \subseteq Ancestors(parent, x)
             Bad == {x \in Frames : ~Ok(x)}
  <1> SUFFICES ASSUME Bad # {} PROVE FALSE
    OBVIOUS
  <1>1. PICK x \in Bad : parent[x] \notin Bad
    <2>1. Bad \in SUBSET Frames
      OBVIOUS
    <2> QED
      BY <2>1 DEF Acyclic
  <1>2. x \in Frames /\ ~Ok(x)
    OBVIOUS
  <1>3. CASE parent[x] = NoFrame
    <2>1. Ancestors(parent, x) = {x}
      BY <1>2, <1>3, AncestorsAre
    <2> QED
      BY <1>2, <2>1
  <1>4. CASE parent[x] # NoFrame
    <2> DEFINE up == parent[x]
    <2>1. up \in Frames /\ Ok(up)
      BY <1>1, <1>2, <1>4 DEF Parents
    <2>2. Ancestors(parent, x) = {x} \cup Ancestors(parent, up)
      BY <1>2, <1>4, AncestorsAre
    <2> QED
      BY <1>2, <2>1, <2>2
  <1> QED
    BY <1>3, <1>4

\* The height of a frame is its depth, counted from one.
LEMMA HeightIs ==
    ASSUME NEW parent \in Parents, NEW f \in Frames, Acyclic(parent)
    PROVE  Cardinality(Ancestors(parent, f)) = depth_of(parent, f) + 1
  <1> DEFINE Ok(x) == Cardinality(Ancestors(parent, x)) = depth_of(parent, x) + 1
             Bad == {x \in Frames : ~Ok(x)}
  <1> SUFFICES ASSUME Bad # {} PROVE FALSE
    OBVIOUS
  <1>1. PICK x \in Bad : parent[x] \notin Bad
    <2>1. Bad \in SUBSET Frames
      OBVIOUS
    <2> QED
      BY <2>1 DEF Acyclic
  <1>2. x \in Frames /\ ~Ok(x)
    OBVIOUS
  <1>3. CASE parent[x] = NoFrame
    <2>1. Ancestors(parent, x) = {x}
      BY <1>2, <1>3, AncestorsAre
    <2>2. Cardinality({x}) = 1
      BY FS_Singleton
    <2>3. depth_of(parent, x) = 0
      BY <1>2, <1>3, DepthIs
    <2> QED
      BY <1>2, <2>1, <2>2, <2>3
  <1>4. CASE parent[x] # NoFrame
    <2> DEFINE up == parent[x]
               A == Ancestors(parent, up)
    <2>1. up \in Frames /\ Ok(up)
      BY <1>1, <1>2, <1>4 DEF Parents
    <2>2. Ancestors(parent, x) = {x} \cup A
      BY <1>2, <1>4, AncestorsAre
    <2>3. depth_of(parent, x) = depth_of(parent, up) + 1
      BY <1>2, <1>4, DepthIs
    <2>4. depth_of(parent, up) \in Nat /\ depth_of(parent, x) \in Nat
      BY DepthType
    <2>5. x \notin A
      <3>1. x # up
        BY <2>3, <2>4
      <3> QED
        BY <2>1, <2>3, <2>4, <3>1, AncestorsAbove
    <2>6. IsFiniteSet(A)
      BY <2>1, AncestorsType, FramesAssumption, FS_Subset
    <2>7. Cardinality(A \cup {x}) = Cardinality(A) + 1
      BY <2>5, <2>6, FS_AddElement
    <2>8. Ancestors(parent, x) = A \cup {x}
      BY <2>2
    <2> QED
      BY <1>2, <2>1, <2>3, <2>4, <2>7, <2>8
  <1> QED
    BY <1>3, <1>4

\* A list without repetition is as long as the set of its members.
LEMMA ListSize ==
    ASSUME NEW n \in Nat, NEW e, NEW S,
           \A x : x \in S <=> \E k \in 1 .. n : x = e[k],
           \A j, k \in 1 .. n : e[j] = e[k] => j = k
    PROVE  IsFiniteSet(S) /\ Cardinality(S) = n
  <1> DEFINE g == [k \in 1 .. n |-> e[k]]
  <1>1. g \in Bijection(1 .. n, S)
    <2>1. g \in [1 .. n -> S]
      OBVIOUS
    <2>2. \A j, k \in 1 .. n : g[j] = g[k] => j = k
      OBVIOUS
    <2>3. \A x \in S : \E k \in 1 .. n : g[k] = x
      OBVIOUS
    <2> HIDE DEF g
    <2> QED
      BY <2>1, <2>2, <2>3, Zenon DEF Bijection, Injection, Surjection, IsInjective
  <1>2. ExistsBijection(1 .. n, S)
    BY <1>1, Zenon DEF ExistsBijection
  <1>3. IsFiniteSet(1 .. n) /\ Cardinality(1 .. n) = n
    BY FS_Interval
  <1> QED
    BY <1>2, <1>3, FS_Bijection

\* The edges of a chain are those of its frames, listed upwards.
LEMMA EdgesUpAre ==
    ASSUME NEW forest \in Forests, Acyclic(forest.parent),
           NEW chain, chain \subseteq Frames, NEW n \in Nat, NEW e, chain = {e[k] : k \in 1 .. n},
           \A j, k \in 1 .. n :
              j < k => depth_of(forest.parent, e[k]) < depth_of(forest.parent, e[j])
    PROVE  /\ IsFiniteSet(chain) /\ Cardinality(chain) = n
           /\ EdgesUp(forest, chain) = [i \in 1 .. n |-> forest.edge[e[i]]]
  <1> DEFINE parent == forest.parent
             height(f) == Cardinality(Ancestors(parent, f))
             over(f) == {g \in chain : height(g) >= height(f)}
  <1>0. parent \in Parents
    BY DEF Forests, Parents
  <1>1. ASSUME NEW k \in 1 .. n PROVE e[k] \in chain /\ e[k] \in Frames
    OBVIOUS
  <1>2. ASSUME NEW k \in 1 .. n
        PROVE  height(e[k]) = depth_of(parent, e[k]) + 1 /\ depth_of(parent, e[k]) \in Nat
    <2> HIDE DEF parent
    <2> QED
      BY <1>0, <1>1, HeightIs, DepthType DEF parent
  <1>3. ASSUME NEW j \in 1 .. n, NEW k \in 1 .. n, j < k PROVE height(e[k]) < height(e[j])
    BY <1>2, <1>3
  <1>4. ASSUME NEW j \in 1 .. n, NEW k \in 1 .. n PROVE height(e[j]) >= height(e[k]) <=> j <= k
    <2>1. CASE j < k
      BY <1>2, <1>3, <2>1
    <2>2. CASE k < j
      BY <1>2, <1>3, <2>2
    <2>3. CASE j = k
      BY <1>2, <2>3
    <2> QED
      BY <2>1, <2>2, <2>3
  <1>5. \A j, k \in 1 .. n : e[j] = e[k] => j = k
    <2> SUFFICES ASSUME NEW j \in 1 .. n, NEW k \in 1 .. n, e[j] = e[k] PROVE j = k
      OBVIOUS
    <2>1. height(e[j]) >= height(e[k]) /\ height(e[k]) >= height(e[j])
      BY <1>2
    <2> QED
      BY <1>4, <2>1
  <1>6. IsFiniteSet(chain) /\ Cardinality(chain) = n
    BY <1>5, ListSize
  <1>7. ASSUME NEW i \in 1 .. n PROVE Cardinality(over(e[i])) = i
    <2>1. ASSUME NEW x PROVE x \in over(e[i]) <=> \E k \in 1 .. i : x = e[k]
      <3>1. ASSUME x \in over(e[i]) PROVE \E k \in 1 .. i : x = e[k]
        <4>1. PICK k \in 1 .. n : x = e[k]
          BY <3>1
        <4>2. k <= i
          BY <1>4, <3>1, <4>1
        <4> QED
          BY <4>1, <4>2
      <3>2. ASSUME NEW k \in 1 .. i PROVE e[k] \in over(e[i])
        <4>1. k \in 1 .. n /\ k <= i
          OBVIOUS
        <4> QED
          BY <1>1, <1>4, <4>1
      <3> QED
        BY <3>1, <3>2
    <2>2. \A j, k \in 1 .. i : e[j] = e[k] => j = k
      BY <1>5
    <2>3. i \in Nat
      OBVIOUS
    <2> HIDE DEF over
    <2> QED
      BY <2>1, <2>2, <2>3, ListSize, Zenon
  <1> DEFINE nth(i) == CHOOSE f \in chain : Cardinality(over(f)) = i
  <1>8. ASSUME NEW i \in 1 .. n PROVE nth(i) = e[i]
    <2>1. \E f \in chain : Cardinality(over(f)) = i
      BY <1>1, <1>7
    <2> HIDE DEF over
    <2>2. nth(i) \in chain /\ Cardinality(over(nth(i))) = i
      BY <2>1
    <2>3. PICK k \in 1 .. n : nth(i) = e[k]
      BY <2>2
    <2>4. k = i
      BY <1>7, <2>2, <2>3
    <2> QED
      BY <2>3, <2>4
  <1>9. EdgesUp(forest, chain) = [i \in 1 .. Cardinality(chain) |-> forest.edge[nth(i)]]
    BY DEF EdgesUp
  <1>10. EdgesUp(forest, chain) = [i \in 1 .. n |-> forest.edge[e[i]]]
    <2> HIDE DEF nth
    <2> QED
      BY <1>6, <1>8, <1>9
  <1> QED
    BY <1>6, <1>10
===============================================================================

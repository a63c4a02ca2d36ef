---------------------------- MODULE BagIngestProofs ----------------------------
(***************************************************************************)
(* Proofs about BagIngest, for any recording, any memory cap and any size  *)
(* of a sample.                                                            *)
(*                                                                         *)
(* Induction over numbers and finite sets is by least counterexample.      *)
(***************************************************************************)
EXTENDS BagIngest, FiniteSetTheorems, TLAPS

-------------------------------------------------------------------------------
(* The least number of a set. *)

Below == OpToRel(<, Nat)

LEMMA BelowIs ==
    ASSUME NEW m \in Nat, NEW n \in Nat, m < n
    PROVE  <<m, n>> \in Below
  <1>1. Below = {ss \in Nat \X Nat : ss[1] < ss[2]}
    BY Zenon DEF OpToRel, Below
  <1> QED
    BY <1>1, SMT

LEMMA LeastNat ==
    ASSUME NEW T, T \subseteq Nat, T # {}
    PROVE  \E n \in T : \A m \in T : n <= m
  <1>1. IsWellFoundedOn(Below, Nat)
    BY NatLessThanWellFounded, Zenon DEF Below
  <1>2. PICK n \in T : \A m \in T : ~(<<m, n>> \in Below)
    BY <1>1, WFMin, Zenon
  <1>3. ASSUME NEW m \in T PROVE n <= m
    <2>1. n \in Nat /\ m \in Nat
      OBVIOUS
    <2>2. ~(m < n)
      BY <1>2, <2>1, BelowIs
    <2> QED
      BY <2>1, <2>2
  <1> QED
    BY <1>3

\* Induction over numbers and over finite sets, for a set of what is shown.
LEMMA NatInduct ==
    ASSUME NEW P, 0 \in P, \A n \in Nat : n \in P => n + 1 \in P
    PROVE  \A n \in Nat : n \in P
  <1> SUFFICES ASSUME {n \in Nat : n \notin P} # {} PROVE FALSE
    OBVIOUS
  <1>1. PICK n \in {m \in Nat : m \notin P} : \A m \in {k \in Nat : k \notin P} : n <= m
    BY LeastNat
  <1>2. n \in Nat /\ n # 0
    OBVIOUS
  <1>3. n - 1 \in Nat /\ (n - 1) + 1 = n /\ ~(n <= n - 1)
    BY <1>2
  <1> QED
    BY <1>1, <1>3

LEMMA SetInduct ==
    ASSUME NEW S, IsFiniteSet(S), NEW P, {} \in P,
           \A T \in SUBSET S : \A x \in S \ T : T \in P => T \cup {x} \in P
    PROVE  S \in P
  <1> DEFINE U == {n \in Nat : \E T \in SUBSET S : T \notin P /\ Cardinality(T) = n}
  <1> SUFFICES ASSUME S \notin P PROVE FALSE
    OBVIOUS
  <1>1. Cardinality(S) \in U
    BY FS_CardinalityType
  <1>2. PICK n \in U : \A m \in U : n <= m
    <2>1. U \subseteq Nat /\ U # {}
      BY <1>1
    <2> HIDE DEF U
    <2> QED
      BY <2>1, LeastNat
  <1>3. PICK T \in SUBSET S : T \notin P /\ Cardinality(T) = n
    BY <1>2
  <1>4. PICK x \in T : TRUE
    BY <1>3
  <1>5. IsFiniteSet(T)
    BY FS_Subset
  <1>6. Cardinality(T \ {x}) = n - 1 /\ n - 1 \in Nat
    <2>1. /\ IsFiniteSet(T \ {x})
          /\ Cardinality(T \ {x}) = Cardinality(T) - 1
      BY <1>4, <1>5, FS_RemoveElement
    <2>2. Cardinality(T \ {x}) \in Nat
      BY <2>1, FS_CardinalityType
    <2> QED
      BY <1>3, <2>1, <2>2
  <1>7. T \ {x} \in P
    BY <1>2, <1>6
  <1>8. x \in S \ (T \ {x}) /\ (T \ {x}) \cup {x} = T /\ T \ {x} \in SUBSET S
    BY <1>4
  <1>9. (T \ {x}) \cup {x} \in P
    BY <1>7, <1>8
  <1> QED
    BY <1>3, <1>8, <1>9

\* The greatest number of a finite set.
LEMMA MaxIs ==
    ASSUME NEW S, S \subseteq Nat, IsFiniteSet(S), S # {}
    PROVE  Max(S) \in S /\ \A x \in S : x <= Max(S)
  <1> DEFINE P == {T \in SUBSET S : T # {} => \E x \in T : \A y \in T : x >= y}
  <1>1. {} \in P
    OBVIOUS
  <1>2. ASSUME NEW T \in SUBSET S, NEW x \in S \ T, T \in P
        PROVE  T \cup {x} \in P
    <2>1. CASE T = {}
      BY <2>1
    <2>2. CASE T # {}
      <3>1. PICK m \in T : \A y \in T : m >= y
        BY <1>2, <2>2
      <3>2. CASE x >= m
        <4>1. \A y \in T \cup {x} : x >= y
          BY <3>1, <3>2
        <4> QED
          BY <4>1
      <3>3. CASE ~(x >= m)
        <4>1. \A y \in T \cup {x} : m >= y
          BY <3>1, <3>3
        <4> QED
          BY <4>1
      <3> QED
        BY <3>2, <3>3
    <2> QED
      BY <2>1, <2>2
  <1>3. S \in P
    <2> HIDE DEF P
    <2> QED
      BY <1>1, <1>2, SetInduct
  <1>4. \E x \in S : \A y \in S : x >= y
    BY <1>3
  <1> QED
    BY <1>4 DEF Max

-------------------------------------------------------------------------------
(* Sums. *)

\* g is the sum of w over the subsets of S that are in D, as SumFunction takes it.
OneOf(s) == CHOOSE x \in s : TRUE
IsSum(w, D, g) == g = [s \in D |-> IF s = {} THEN 0 ELSE w[OneOf(s)] + g[s \ {OneOf(s)}]]
Smalls(S, n) == {s \in SUBSET S : Cardinality(s) <= n}

LEMMA OneLess ==
    ASSUME NEW S, IsFiniteSet(S), NEW s \in SUBSET S, NEW x \in s
    PROVE  /\ IsFiniteSet(s) /\ s \ {x} \in SUBSET S
           /\ Cardinality(s) \in Nat /\ Cardinality(s \ {x}) \in Nat
           /\ Cardinality(s \ {x}) = Cardinality(s) - 1
  <1>1. IsFiniteSet(s)
    BY FS_Subset
  <1>2. IsFiniteSet(s \ {x}) /\ Cardinality(s \ {x}) = Cardinality(s) - 1
    BY <1>1, FS_RemoveElement
  <1> QED
    BY <1>1, <1>2, FS_CardinalityType

LEMMA OneOfIs == ASSUME NEW s, s # {} PROVE OneOf(s) \in s
  BY DEF OneOf

LEMMA SumExists ==
    ASSUME NEW S, IsFiniteSet(S), NEW w
    PROVE  \E g : IsSum(w, SUBSET S, g)
  <1> DEFINE P == {n \in Nat : \E g : IsSum(w, Smalls(S, n), g)}
  <1>1. 0 \in P
    <2> DEFINE g == [s \in Smalls(S, 0) |-> 0]
    <2>1. ASSUME NEW s \in Smalls(S, 0) PROVE s = {}
      BY FS_Subset, FS_EmptySet, FS_CardinalityType DEF Smalls
    <2>2. IsSum(w, Smalls(S, 0), g)
      BY <2>1 DEF IsSum
    <2> QED
      BY <2>2
  <1>2. ASSUME NEW n \in Nat, n \in P PROVE n + 1 \in P
    <2>1. PICK g : IsSum(w, Smalls(S, n), g)
      BY <1>2
    <2> DEFINE top(s) == w[OneOf(s)] + g[s \ {OneOf(s)}]
               e == [s \in Smalls(S, n + 1) |-> IF s \in Smalls(S, n) THEN g[s] ELSE top(s)]
    <2>2. ASSUME NEW s \in Smalls(S, n + 1), s # {}
          PROVE  s \ {OneOf(s)} \in Smalls(S, n) /\ s \ {OneOf(s)} \in Smalls(S, n + 1)
      <3>1. OneOf(s) \in s
        BY <2>2, OneOfIs
      <3>2. s \in SUBSET S /\ Cardinality(s) <= n + 1
        BY DEF Smalls
      <3> QED
        BY <1>2, <3>1, <3>2, OneLess DEF Smalls
    <2>3. ASSUME NEW s \in Smalls(S, n + 1)
          PROVE  e[s] = IF s = {} THEN 0 ELSE w[OneOf(s)] + e[s \ {OneOf(s)}]
      <3>1. CASE s = {}
        <4>1. s \in Smalls(S, n)
          BY <1>2, <3>1, FS_EmptySet DEF Smalls
        <4> QED
          BY <2>1, <3>1, <4>1 DEF IsSum
      <3>2. CASE s # {}
        <4>1. e[s \ {OneOf(s)}] = g[s \ {OneOf(s)}]
          BY <2>2, <3>2
        <4>2. s \in Smalls(S, n) => g[s] = top(s)
          BY <2>1, <3>2 DEF IsSum
        <4>3. e[s] = top(s)
          BY <4>2
        <4> QED
          BY <3>2, <4>1, <4>3
      <3> QED
        BY <3>1, <3>2
    <2>4. e = [s \in Smalls(S, n + 1) |-> e[s]]
      OBVIOUS
    <2>5. IsSum(w, Smalls(S, n + 1), e)
      <3> HIDE DEF e
      <3> QED
        BY <2>3, <2>4 DEF IsSum
    <2> QED
      BY <1>2, <2>5
  <1>3. Cardinality(S) \in P
    <2>1. Cardinality(S) \in Nat
      BY FS_CardinalityType
    <2> HIDE DEF P
    <2> QED
      BY <1>1, <1>2, <2>1, NatInduct
  <1>4. Smalls(S, Cardinality(S)) = SUBSET S
    BY FS_Subset DEF Smalls
  <1> QED
    BY <1>3, <1>4

LEMMA SumTypes ==
    ASSUME NEW S, IsFiniteSet(S), NEW w, \A x \in S : w[x] \in Nat,
           NEW g, IsSum(w, SUBSET S, g)
    PROVE  \A s \in SUBSET S : g[s] \in Nat
  <1> DEFINE P == {n \in Nat : \A s \in SUBSET S : Cardinality(s) = n => g[s] \in Nat}
  <1>1. 0 \in P
    <2>1. ASSUME NEW s \in SUBSET S, Cardinality(s) = 0 PROVE g[s] \in Nat
      <3>1. s = {}
        BY <2>1, FS_Subset, FS_EmptySet
      <3> QED
        BY <3>1 DEF IsSum
    <2> QED
      BY <2>1
  <1>2. ASSUME NEW n \in Nat, n \in P PROVE n + 1 \in P
    <2>1. ASSUME NEW s \in SUBSET S, Cardinality(s) = n + 1 PROVE g[s] \in Nat
      <3>1. s # {}
        <4>1. Cardinality({}) = 0 /\ n + 1 # 0
          BY FS_EmptySet
        <4> QED
          BY <2>1, <4>1
      <3>2. OneOf(s) \in s
        BY <3>1, OneOfIs
      <3>3. s \ {OneOf(s)} \in SUBSET S /\ Cardinality(s \ {OneOf(s)}) = n
        BY <1>2, <2>1, <3>2, OneLess
      <3>4. g[s \ {OneOf(s)}] \in Nat /\ w[OneOf(s)] \in Nat
        BY <1>2, <3>2, <3>3
      <3>5. g[s] = w[OneOf(s)] + g[s \ {OneOf(s)}]
        BY <3>1 DEF IsSum
      <3> QED
        BY <3>4, <3>5
    <2> QED
      BY <1>2, <2>1
  <1>3. \A n \in Nat : n \in P
    <2> HIDE DEF P
    <2> QED
      BY <1>1, <1>2, NatInduct
  <1>4. ASSUME NEW s \in SUBSET S PROVE g[s] \in Nat
    BY <1>3, FS_Subset, FS_CardinalityType
  <1> QED
    BY <1>4

LEMMA SumSteps ==
    ASSUME NEW S, IsFiniteSet(S), NEW w, \A x \in S : w[x] \in Nat,
           NEW g, IsSum(w, SUBSET S, g)
    PROVE  \A s \in SUBSET S : \A x \in s : g[s] = w[x] + g[s \ {x}]
  <1> DEFINE P == {n \in Nat : \A s \in SUBSET S : Cardinality(s) = n =>
                      \A x \in s : g[s] = w[x] + g[s \ {x}]}
  <1>1. 0 \in P
    BY FS_Subset, FS_EmptySet
  <1>2. ASSUME NEW n \in Nat, n \in P PROVE n + 1 \in P
    <2>1. ASSUME NEW s \in SUBSET S, Cardinality(s) = n + 1, NEW x \in s
          PROVE  g[s] = w[x] + g[s \ {x}]
      <3> DEFINE c == OneOf(s)
      <3>1. c \in s
        BY OneOfIs
      <3>2. g[s] = w[c] + g[s \ {c}]
        BY DEF IsSum
      <3> HIDE DEF c
      <3>3. CASE x = c
        BY <3>2, <3>3
      <3>4. CASE x # c
        <4>1. /\ s \ {c} \in SUBSET S /\ Cardinality(s \ {c}) = n /\ x \in s \ {c}
              /\ s \ {x} \in SUBSET S /\ Cardinality(s \ {x}) = n /\ c \in s \ {x}
          BY <1>2, <2>1, <3>1, <3>4, OneLess
        <4>2. g[s \ {c}] = w[x] + g[(s \ {c}) \ {x}]
          BY <1>2, <4>1
        <4>3. g[s \ {x}] = w[c] + g[(s \ {x}) \ {c}]
          BY <1>2, <4>1
        <4>4. (s \ {x}) \ {c} = (s \ {c}) \ {x} /\ (s \ {c}) \ {x} \in SUBSET S
          OBVIOUS
        <4>5. g[(s \ {c}) \ {x}] \in Nat
          BY <4>4, SumTypes
        <4>6. w[x] \in Nat /\ w[c] \in Nat
          BY <3>1
        <4>7. g[s \ {x}] = w[c] + g[(s \ {c}) \ {x}]
          BY <4>3, <4>4
        <4> QED
          BY <3>2, <4>2, <4>5, <4>6, <4>7
      <3> QED
        BY <3>3, <3>4
    <2> QED
      BY <1>2, <2>1
  <1>3. \A n \in Nat : n \in P
    <2> HIDE DEF P
    <2> QED
      BY <1>1, <1>2, NatInduct
  <1>4. ASSUME NEW s \in SUBSET S, NEW x \in s PROVE g[s] = w[x] + g[s \ {x}]
    BY <1>3, FS_Subset, FS_CardinalityType
  <1> QED
    BY <1>4

\* What SumFunction is: g is the sum of w over every subset of S.
Summing(w, S, g) ==
    /\ SumFunction(w) = g[S] /\ g[{}] = 0
    /\ \A s \in SUBSET S : g[s] \in Nat
    /\ \A s \in SUBSET S : \A x \in s : g[s] = w[x] + g[s \ {x}]

LEMMA SumIs ==
    ASSUME NEW S, IsFiniteSet(S), NEW w \in [S -> Nat]
    PROVE  \E g : Summing(w, S, g)
  <1> DEFINE g == CHOOSE f : IsSum(w, SUBSET S, f)
  <1>1. IsSum(w, SUBSET S, g)
    BY SumExists
  <1>2. DOMAIN w = S
    OBVIOUS
  <1>3. SumFunction(w) = g[S]
    BY <1>2 DEF SumFunction, SumFunctionOnSet, FoldFunctionOnSet, MapThenFoldSet, IsSum, OneOf
  <1>4. g[{}] = 0
    BY <1>1 DEF IsSum
  <1> HIDE DEF g
  <1>5. /\ \A s \in SUBSET S : g[s] \in Nat
        /\ \A s \in SUBSET S : \A x \in s : g[s] = w[x] + g[s \ {x}]
    BY <1>1, SumSteps, SumTypes
  <1> QED
    BY <1>3, <1>4, <1>5 DEF Summing

LEMMA SumEmpty ==
    ASSUME NEW w \in [{} -> Nat]
    PROVE  SumFunction(w) = 0
  <1>1. IsFiniteSet({})
    BY FS_EmptySet
  <1> QED
    BY <1>1, SumIs DEF Summing

LEMMA SumWithout ==
    ASSUME NEW S, IsFiniteSet(S), NEW w \in [S -> Nat], NEW x \in S,
           NEW v, v = [y \in S \ {x} |-> w[y]]
    PROVE  /\ SumFunction(w) \in Nat /\ SumFunction(v) \in Nat
           /\ SumFunction(w) = w[x] + SumFunction(v)
  <1> DEFINE T == S \ {x}
  <1>1. PICK g : Summing(w, S, g)
    BY SumIs
  <1>2. IsFiniteSet(T) /\ v \in [T -> Nat]
    BY FS_Subset
  <1>3. PICK h : Summing(v, T, h)
    BY <1>2, SumIs
  <1> DEFINE P == {s \in SUBSET T : g[s] = h[s]}
  <1>4. {} \in P
    BY <1>1, <1>3 DEF Summing
  <1>5. ASSUME NEW s \in SUBSET T, NEW y \in T \ s, s \in P PROVE s \cup {y} \in P
    <2>1. (s \cup {y}) \ {y} = s /\ s \cup {y} \in SUBSET T /\ s \cup {y} \in SUBSET S
          /\ y \in s \cup {y}
      OBVIOUS
    <2>2. g[s \cup {y}] = w[y] + g[s]
      BY <1>1, <2>1 DEF Summing
    <2>3. h[s \cup {y}] = v[y] + h[s]
      <3> DEFINE u == s \cup {y}
      <3>1. u \in SUBSET T /\ y \in u /\ u \ {y} = s
        BY <2>1
      <3>2. h[u] = v[y] + h[u \ {y}]
        <4> HIDE DEF u, T
        <4> QED
          BY <1>3, <3>1, Zenon DEF Summing
      <3> QED
        BY <3>1, <3>2
    <2> QED
      BY <1>5, <2>1, <2>2, <2>3
  <1>6. g[T] = h[T]
    <2>1. T \in P
      <3> HIDE DEF P, T
      <3> QED
        BY <1>2, <1>4, <1>5, SetInduct
    <2> QED
      BY <2>1
  <1>7. g[S] = w[x] + g[T] /\ g[S] \in Nat /\ g[T] \in Nat
    <2>1. T \in SUBSET S /\ S \in SUBSET S
      OBVIOUS
    <2> QED
      BY <1>1, <2>1 DEF Summing
  <1> QED
    BY <1>1, <1>3, <1>6, <1>7 DEF Summing

-------------------------------------------------------------------------------
(* The fold of plan_groups. *)

Start == [groups |-> <<>>, cur |-> {}, bytes |-> 0, most |-> 0]
IsFold(seq, D, g) ==
    g = [s \in D |-> IF s = {} THEN Start ELSE Pack(g[s \ {Max(s)}], seq[Max(s)])]

LEMMA MaxUpTo ==
    ASSUME NEW n \in Nat, NEW s \in SUBSET (1 .. n), s # {}
    PROVE  Max(s) \in s /\ (n \in s => Max(s) = n)
  <1>1. s \subseteq Nat /\ IsFiniteSet(s)
    <2>1. 1 .. n \subseteq Nat
      OBVIOUS
    <2>2. IsFiniteSet(1 .. n)
      BY FS_Interval
    <2> QED
      BY <2>1, <2>2, FS_Subset
  <1>2. Max(s) \in s /\ \A x \in s : x <= Max(s)
    BY <1>1, MaxIs
  <1>3. Max(s) \in 1 .. n
    BY <1>2
  <1> QED
    BY <1>2, <1>3

LEMMA FoldExists ==
    ASSUME NEW seq
    PROVE  \A n \in Nat : \E g : IsFold(seq, SUBSET (1 .. n), g)
  <1> DEFINE P == {n \in Nat : \E g : IsFold(seq, SUBSET (1 .. n), g)}
  <1>1. 0 \in P
    <2> DEFINE g == [s \in SUBSET (1 .. 0) |-> Start]
    <2>1. \A s \in SUBSET (1 .. 0) : s = {}
      OBVIOUS
    <2>2. IsFold(seq, SUBSET (1 .. 0), g)
      BY <2>1 DEF IsFold
    <2> QED
      BY <2>2
  <1>2. ASSUME NEW n \in Nat, n \in P PROVE n + 1 \in P
    <2>1. PICK g : IsFold(seq, SUBSET (1 .. n), g)
      BY <1>2
    <2> DEFINE top(s) == Pack(g[s \ {n + 1}], seq[n + 1])
               e == [s \in SUBSET (1 .. n + 1) |-> IF n + 1 \in s THEN top(s) ELSE g[s]]
    <2>2. ASSUME NEW s \in SUBSET (1 .. n + 1), n + 1 \notin s PROVE s \in SUBSET (1 .. n)
      BY <1>2, <2>2
    <2>3. ASSUME NEW s \in SUBSET (1 .. n + 1)
          PROVE  e[s] = IF s = {} THEN Start ELSE Pack(e[s \ {Max(s)}], seq[Max(s)])
      <3>1. CASE n + 1 \in s
        <4>1. Max(s) = n + 1
          BY <3>1, MaxUpTo
        <4>2. e[s \ {n + 1}] = g[s \ {n + 1}]
          OBVIOUS
        <4>3. e[s] = top(s)
          BY <3>1
        <4> HIDE DEF e
        <4> QED
          BY <3>1, <4>1, <4>2, <4>3
      <3>2. CASE n + 1 \notin s
        <4>1. s \in SUBSET (1 .. n)
          BY <2>2, <3>2
        <4>2. e[s] = g[s] /\ \A x : e[s \ {x}] = g[s \ {x}]
          BY <3>2
        <4>3. g[s] = IF s = {} THEN Start ELSE Pack(g[s \ {Max(s)}], seq[Max(s)])
          BY <2>1, <4>1 DEF IsFold
        <4> HIDE DEF e
        <4> QED
          BY <4>2, <4>3
      <3> QED
        BY <3>1, <3>2
    <2>4. e = [s \in SUBSET (1 .. n + 1) |-> e[s]]
      OBVIOUS
    <2>5. IsFold(seq, SUBSET (1 .. n + 1), e)
      <3> HIDE DEF e
      <3> QED
        BY <2>3, <2>4 DEF IsFold
    <2> QED
      BY <1>2, <2>5
  <1>3. \A n \in Nat : n \in P
    <2> HIDE DEF P
    <2> QED
      BY <1>1, <1>2, NatInduct
  <1> QED
    BY <1>3

\* What FoldLeft is: the packing's edges are packed one after the other.
Packed(seq, n, acc) ==
    /\ acc[0] = Start
    /\ \A k \in 1 .. n : acc[k] = Pack(acc[k - 1], seq[k])

LEMMA FoldIs ==
    ASSUME NEW n \in Nat, NEW seq, DOMAIN seq = 1 .. n
    PROVE  \E acc : Packed(seq, n, acc) /\ FoldLeft(Pack, Start, seq) = acc[n]
  <1> DEFINE g == CHOOSE f : IsFold(seq, SUBSET (1 .. n), f)
             acc == [k \in 0 .. n |-> g[1 .. k]]
  <1>1. IsFold(seq, SUBSET (1 .. n), g)
    BY FoldExists
  <1>2. FoldLeft(Pack, Start, seq) = g[1 .. n]
    BY DEF FoldLeft, MapThenFoldSet, IsFold
  <1> HIDE DEF g
  <1>3. acc[0] = Start
    <2>1. 1 .. 0 = {} /\ {} \in SUBSET (1 .. n) /\ 0 \in 0 .. n
      OBVIOUS
    <2> QED
      BY <1>1, <2>1 DEF IsFold
  <1>4. ASSUME NEW k \in 1 .. n PROVE acc[k] = Pack(acc[k - 1], seq[k])
    <2>0. k \in Nat /\ 1 <= k /\ k <= n
      OBVIOUS
    <2>1. /\ k \in Nat /\ k - 1 \in 0 .. n /\ k \in 0 .. n
          /\ 1 .. k \in SUBSET (1 .. n) /\ 1 .. k # {} /\ k \in 1 .. k
      BY <2>0
    <2>2. Max(1 .. k) = k
      BY <2>1, MaxUpTo
    <2>3. (1 .. k) \ {k} = 1 .. (k - 1)
      BY <2>1
    <2>4. g[1 .. k] = Pack(g[(1 .. k) \ {Max(1 .. k)}], seq[Max(1 .. k)])
      BY <1>1, <2>1 DEF IsFold
    <2> QED
      BY <2>1, <2>2, <2>3, <2>4
  <1>5. acc[n] = g[1 .. n]
    OBVIOUS
  <1> QED
    BY <1>2, <1>3, <1>4, <1>5 DEF Packed

-------------------------------------------------------------------------------
(* Arranging a finite set. *)

\* R orders S, and the elements that it puts below x.
Orders(R, S) ==
    /\ \A x \in S : <<x, x>> \notin R
    /\ \A x, y \in S : x # y => <<x, y>> \in R \/ <<y, x>> \in R
    /\ \A x, y, z \in S : <<x, y>> \in R /\ <<y, z>> \in R => <<x, z>> \in R
Under(R, S, x) == {y \in S : <<y, x>> \in R}
Rank(R, S, x)  == Cardinality(Under(R, S, x))

\* a lists the elements of S in the order R.
Lists(R, S, a) ==
    /\ a \in [1 .. Cardinality(S) -> S]
    /\ \A x \in S : \E k \in 1 .. Cardinality(S) : a[k] = x
    /\ \A j, k \in 1 .. Cardinality(S) : j < k => <<a[j], a[k]>> \in R

LEMMA RankGrows ==
    ASSUME NEW S, IsFiniteSet(S), NEW R, Orders(R, S), NEW x \in S, NEW y \in S,
           <<x, y>> \in R
    PROVE  Rank(R, S, x) < Rank(R, S, y)
  <1>1. Under(R, S, x) \subseteq Under(R, S, y)
    BY DEF Orders, Under
  <1>2. x \in Under(R, S, y) /\ x \notin Under(R, S, x)
    BY DEF Orders, Under
  <1>3. IsFiniteSet(Under(R, S, y))
    BY FS_Subset DEF Under
  <1>4. /\ Rank(R, S, x) \in Nat /\ Rank(R, S, y) \in Nat
        /\ Rank(R, S, x) <= Rank(R, S, y)
        /\ Rank(R, S, x) = Rank(R, S, y) => Under(R, S, x) = Under(R, S, y)
    <2>1. Under(R, S, x) \in SUBSET Under(R, S, y)
      BY <1>1
    <2>2. /\ IsFiniteSet(Under(R, S, x))
          /\ Cardinality(Under(R, S, x)) <= Cardinality(Under(R, S, y))
          /\ Cardinality(Under(R, S, y)) = Cardinality(Under(R, S, x))
                => Under(R, S, y) = Under(R, S, x)
      BY <1>3, <2>1, FS_Subset
    <2> QED
      BY <1>3, <2>2, FS_CardinalityType DEF Rank
  <1> QED
    BY <1>2, <1>4

LEMMA RankIn ==
    ASSUME NEW S, IsFiniteSet(S), NEW R, Orders(R, S), NEW x \in S
    PROVE  Rank(R, S, x) \in 0 .. Cardinality(S) - 1
  <1>1. Under(R, S, x) \in SUBSET (S \ {x})
    BY DEF Orders, Under
  <1>2. IsFiniteSet(S \ {x}) /\ Cardinality(S \ {x}) = Cardinality(S) - 1
    BY FS_RemoveElement
  <1>3. IsFiniteSet(Under(R, S, x)) /\ Rank(R, S, x) <= Cardinality(S) - 1
    <2>1. Cardinality(Under(R, S, x)) <= Cardinality(S \ {x}) /\ IsFiniteSet(Under(R, S, x))
      BY <1>1, <1>2, FS_Subset
    <2> QED
      BY <1>2, <2>1 DEF Rank
  <1>4. Rank(R, S, x) \in Nat /\ Cardinality(S) \in Nat
    BY <1>3, FS_CardinalityType DEF Rank
  <1> QED
    BY <1>3, <1>4

LEMMA RankTaken ==
    ASSUME NEW S, IsFiniteSet(S), NEW R, Orders(R, S),
           NEW k \in 1 .. Cardinality(S)
    PROVE  \E x \in S : Rank(R, S, x) = k - 1
  <1> DEFINE n == Cardinality(S)
             f == [x \in S |-> Rank(R, S, x)]
  <1>0. n \in Nat
    BY FS_CardinalityType
  <1>1. f \in [S -> 0 .. n - 1]
    BY RankIn
  <1>2. ASSUME NEW x \in S, NEW y \in S, x # y PROVE f[x] # f[y]
    <2>1. <<x, y>> \in R \/ <<y, x>> \in R
      BY <1>2 DEF Orders
    <2>2. f[x] < f[y] \/ f[y] < f[x]
      BY <2>1, RankGrows
    <2>3. f[x] \in Int /\ f[y] \in Int
      BY <1>0, <1>1
    <2> QED
      BY <2>2, <2>3
  <1>3. f \in Injection(S, 0 .. n - 1)
    BY <1>1, <1>2 DEF Injection, IsInjective
  <1>4. IsFiniteSet(0 .. n - 1) /\ Cardinality(0 .. n - 1) = n
    <2>1. 0 \in Int /\ n - 1 \in Int
      BY <1>0
    <2>2. /\ IsFiniteSet(0 .. n - 1)
          /\ Cardinality(0 .. n - 1) = IF 0 > n - 1 THEN 0 ELSE (n - 1) - 0 + 1
      BY <2>1, FS_Interval
    <2> QED
      BY <1>0, <2>2
  <1>5. f \in Surjection(S, 0 .. n - 1)
    <2> HIDE DEF f
    <2> QED
      BY <1>3, <1>4, FS_Injection
  <1>6. k - 1 \in 0 .. n - 1
    BY <1>0
  <1>7. \E x \in S : f[x] = k - 1
    BY <1>5, <1>6 DEF Surjection
  <1> QED
    BY <1>7

LEMMA RanksList ==
    ASSUME NEW S, IsFiniteSet(S), NEW R, Orders(R, S),
           NEW a \in [1 .. Cardinality(S) -> S],
           \A k \in 1 .. Cardinality(S) : Rank(R, S, a[k]) = k - 1
    PROVE  Lists(R, S, a)
  <1> DEFINE n == Cardinality(S)
  <1>0. n \in Nat
    BY FS_CardinalityType
  <1>1. a \in [1 .. n -> S]
    OBVIOUS
  <1>2. ASSUME NEW x \in S, NEW y \in S, Rank(R, S, x) <= Rank(R, S, y), x # y
        PROVE  <<x, y>> \in R
    <2>1. Rank(R, S, x) \in Int /\ Rank(R, S, y) \in Int
      BY <1>0, RankIn
    <2>2. ~(Rank(R, S, y) < Rank(R, S, x))
      BY <1>2, <2>1
    <2> QED
      BY <1>2, <2>2, RankGrows DEF Orders
  <1>3. ASSUME NEW x \in S PROVE \E k \in 1 .. n : a[k] = x
    <2>1. Rank(R, S, x) \in 0 .. n - 1
      BY RankIn
    <2>2. PICK k \in 1 .. n : k - 1 = Rank(R, S, x)
      <3>1. Rank(R, S, x) + 1 \in 1 .. n /\ (Rank(R, S, x) + 1) - 1 = Rank(R, S, x)
        BY <1>0, <2>1
      <3> QED
        BY <3>1
    <2>3. a[k] \in S /\ Rank(R, S, a[k]) = Rank(R, S, x)
      BY <2>2
    <2>4. ~(Rank(R, S, x) < Rank(R, S, x))
      BY <1>0, <2>1
    <2>5. a[k] = x
      BY <2>3, <2>4, RankGrows DEF Orders
    <2> QED
      BY <2>5
  <1>4. ASSUME NEW j \in 1 .. n, NEW k \in 1 .. n, j < k PROVE <<a[j], a[k]>> \in R
    <2>1. /\ a[j] \in S /\ a[k] \in S
          /\ Rank(R, S, a[j]) = j - 1 /\ Rank(R, S, a[k]) = k - 1
      OBVIOUS
    <2>2. j - 1 <= k - 1 /\ j - 1 # k - 1
      BY <1>0, <1>4
    <2> QED
      BY <1>2, <2>1, <2>2
  <1> QED
    BY <1>1, <1>3, <1>4 DEF Lists

\* A set of numbers, from the least.
Less == {p \in Nat \X Nat : p[1] < p[2]}

LEMMA ArrangedNumbers ==
    ASSUME NEW S, IsFiniteSet(S), S \subseteq Nat
    PROVE  Lists(Less, S, Ascending(S))
  <1> DEFINE a == Ascending(S)
             n == Cardinality(S)
  <1>0. \A x, y \in Nat : <<x, y>> \in Less <=> x < y
    BY DEF Less
  <1>1. Orders(Less, S)
    BY <1>0 DEF Orders
  <1>2. ASSUME NEW k \in 1 .. n PROVE a[k] \in S /\ Rank(Less, S, a[k]) = k - 1
    <2>1. \A x \in S : Under(Less, S, x) = {y \in S : y < x}
      BY <1>0 DEF Under
    <2>a. PICK w \in S : Rank(Less, S, w) = k - 1
      BY <1>1, RankTaken
    <2>2. \E z \in S : Cardinality({y \in S : y < z}) = k - 1
      BY <2>a, <2>1 DEF Rank
    <2>3. a[k] = CHOOSE x \in S : Cardinality({y \in S : y < x}) = k - 1
      BY DEF Ascending, Arranged
    <2>4. a[k] \in S /\ Cardinality({y \in S : y < a[k]}) = k - 1
      BY <2>2, <2>3
    <2> QED
      BY <2>1, <2>4 DEF Rank
  <1>3. a \in [1 .. n -> S]
    BY <1>2, Zenon DEF Ascending, Arranged
  <1>4. \A k \in 1 .. n : Rank(Less, S, a[k]) = k - 1
    BY <1>2
  <1>5. Lists(Less, S, a)
    <2> HIDE DEF a
    <2> QED
      BY <1>1, <1>3, <1>4, RanksList
  <1> QED
    BY <1>5

-------------------------------------------------------------------------------
(* Sequences of samples. *)

Sample == [stamp : Nat, pose : Nat]
Precedes(a, b) == a.stamp < b.stamp \/ (a.stamp = b.stamp /\ a.pose < b.pose)

\* By stamp and place; by place, as they are read; by stamp, without duplicates.
Sorted(s) == /\ s \in Seq(Sample)
             /\ \A j, k \in 1 .. Len(s) : j < k => Precedes(s[j], s[k])
AsRead(s) == /\ s \in Seq(Sample)
             /\ \A j, k \in 1 .. Len(s) : j < k => s[j].pose < s[k].pose
Rising(s) == /\ s \in Seq(Sample)
             /\ \A j, k \in 1 .. Len(s) : j < k => s[j].stamp < s[k].stamp

\* The last of equal stamps.
Lasts(S) == {x \in S : \A y \in S : y.stamp = x.stamp => y.pose <= x.pose}

LEMMA PrecedesIs ==
    ASSUME NEW a \in Sample, NEW b \in Sample
    PROVE  /\ ~(Precedes(a, b) /\ Precedes(b, a))
           /\ ~Precedes(a, a)
           /\ a = b \/ Precedes(a, b) \/ Precedes(b, a)
  BY DEF Precedes, Sample

LEMMA PrecedesTransitive ==
    ASSUME NEW a \in Sample, NEW b \in Sample, NEW c \in Sample,
           Precedes(a, b), Precedes(b, c)
    PROVE  Precedes(a, c)
  BY DEF Precedes, Sample

LEMMA RangeIs ==
    ASSUME NEW S, NEW s \in Seq(S)
    PROVE  /\ Len(s) \in Nat /\ DOMAIN s = 1 .. Len(s)
           /\ \A k \in 1 .. Len(s) : s[k] \in Range(s) /\ s[k] \in S
           /\ \A x \in Range(s) : x \in S /\ \E k \in 1 .. Len(s) : x = s[k]
  BY DEF Range

LEMMA RisingIsSorted == ASSUME NEW s, Rising(s) PROVE Sorted(s)
  BY DEF Rising, Sorted, Precedes

\* A sorted sequence is determined by its elements; if they are the first ones
\* of another's, it is a prefix of the other.
LEMMA SortedPrefix ==
    ASSUME NEW s, Sorted(s), NEW t, Sorted(t), Range(s) \subseteq Range(t),
           \A x \in Range(t) \ Range(s) : \A y \in Range(s) : Precedes(y, x)
    PROVE  \A k \in 1 .. Len(s) : k <= Len(t) /\ s[k] = t[k]
  <1> DEFINE Bad == {k \in 1 .. Len(s) : ~(k <= Len(t) /\ s[k] = t[k])}
  <1> SUFFICES ASSUME Bad # {} PROVE FALSE
    OBVIOUS
  <1>0. s \in Seq(Sample) /\ t \in Seq(Sample)
    BY DEF Sorted
  <1>1. PICK k \in Bad : \A m \in Bad : k <= m
    <2>1. Bad \subseteq Nat
      BY <1>0
    <2> HIDE DEF Bad
    <2> QED
      BY <2>1, LeastNat
  <1>2. k \in 1 .. Len(s) /\ \A j \in 1 .. Len(s) : j < k => j <= Len(t) /\ s[j] = t[j]
    BY <1>0, <1>1
  <1>3. PICK i \in 1 .. Len(t) : s[k] = t[i]
    <2>1. s[k] \in Range(s)
      BY <1>0, <1>2, RangeIs
    <2>2. s[k] \in Range(t)
      BY <2>1
    <2> QED
      BY <1>0, <2>2, RangeIs
  <1>4. ~(i < k)
    <2> SUFFICES ASSUME i < k PROVE FALSE
      OBVIOUS
    <2>1. i \in 1 .. Len(s) /\ s[i] = t[i]
      BY <1>0, <1>2
    <2>2. Precedes(s[i], s[k]) /\ s[i] = s[k] /\ s[i] \in Sample
      BY <1>0, <1>2, <1>3, <2>1, RangeIs DEF Sorted
    <2> QED
      BY <2>2, PrecedesIs
  <1>5. k \in 1 .. Len(t) /\ s[k] # t[k] /\ k < i
    BY <1>0, <1>1, <1>3, <1>4
  <1>6. Precedes(t[k], s[k])
    BY <1>3, <1>5 DEF Sorted
  <1>7. t[k] \in Sample /\ s[k] \in Sample /\ t[k] \in Range(t) /\ s[k] \in Range(s)
    BY <1>0, <1>2, <1>5, RangeIs
  <1>8. ~Precedes(s[k], t[k])
    BY <1>6, <1>7, PrecedesIs
  <1>9. t[k] \in Range(s)
    BY <1>7, <1>8
  <1>10. PICK m \in 1 .. Len(s) : t[k] = s[m]
    BY <1>0, <1>9, RangeIs
  <1>11. CASE m < k
    <2>1. s[m] = t[m] /\ m \in 1 .. Len(t)
      BY <1>0, <1>2, <1>10, <1>11
    <2>2. Precedes(t[m], t[k]) /\ t[m] = t[k]
      BY <1>5, <1>10, <1>11, <2>1 DEF Sorted
    <2> QED
      BY <1>7, <2>2, PrecedesIs
  <1>12. CASE k < m
    <2>1. Precedes(s[k], s[m])
      BY <1>2, <1>10, <1>12 DEF Sorted
    <2> QED
      BY <1>8, <1>10, <2>1
  <1> QED
    BY <1>0, <1>2, <1>5, <1>10, <1>11, <1>12

LEMMA SortedUnique ==
    ASSUME NEW s, Sorted(s), NEW t, Sorted(t), Range(s) = Range(t)
    PROVE  s = t
  <1>1. \A k \in 1 .. Len(s) : k <= Len(t) /\ s[k] = t[k]
    BY SortedPrefix
  <1>2. \A k \in 1 .. Len(t) : k <= Len(s) /\ t[k] = s[k]
    BY SortedPrefix
  <1>3. s \in Seq(Sample) /\ t \in Seq(Sample)
    BY DEF Sorted
  <1>4. Len(s) = Len(t)
    BY <1>1, <1>2, <1>3
  <1> QED
    BY <1>1, <1>3, <1>4

-------------------------------------------------------------------------------
(* Parts of sequences. *)

LEMMA FirstAfter ==
    ASSUME NEW S, NEW s \in Seq(S), NEW n \in Nat
    PROVE  /\ First(s, n) \in Seq(S) /\ After(s, n) \in Seq(S)
           /\ Len(First(s, n)) = Smaller(n, Len(s))
           /\ Len(First(s, n)) + Len(After(s, n)) = Len(s)
           /\ \A k \in 1 .. Len(First(s, n)) : First(s, n)[k] = s[k]
           /\ \A k \in 1 .. Len(After(s, n)) : After(s, n)[k] = s[k + Len(First(s, n))]
           /\ First(s, n) \o After(s, n) = s
  <1>1. CASE n <= Len(s)
    <2>1. Smaller(n, Len(s)) = n
      BY <1>1 DEF Smaller
    <2>2. First(s, n) = SubSeq(s, 1, n) /\ After(s, n) = SubSeq(s, n + 1, Len(s))
      BY <2>1 DEF First, After
    <2>3. /\ First(s, n) \in Seq(S) /\ Len(First(s, n)) = n
          /\ \A k \in 1 .. n : First(s, n)[k] = s[k]
      BY <1>1, <2>2
    <2>4. /\ After(s, n) \in Seq(S) /\ Len(After(s, n)) = Len(s) - n
          /\ \A k \in 1 .. Len(s) - n : After(s, n)[k] = s[k + n]
      BY <1>1, <2>2
    <2>5. First(s, n) \o After(s, n) = s
      <3> DEFINE t == First(s, n)
                 u == After(s, n)
      <3> HIDE DEF t, u
      <3>1. /\ t \in Seq(S) /\ Len(t) = n /\ \A k \in 1 .. n : t[k] = s[k]
            /\ u \in Seq(S) /\ Len(u) = Len(s) - n
            /\ \A k \in 1 .. Len(s) - n : u[k] = s[k + n]
        BY <2>3, <2>4 DEF t, u
      <3>2. t \o u \in Seq(S) /\ Len(t \o u) = Len(s)
        BY <1>1, <3>1
      <3>3. ASSUME NEW k \in 1 .. Len(s) PROVE (t \o u)[k] = s[k]
        <4>1. CASE k <= n
          <5>1. (t \o u)[k] = t[k] /\ k \in 1 .. n
            BY <1>1, <3>1, <4>1
          <5> QED
            BY <3>1, <5>1
        <4>2. CASE ~(k <= n)
          <5>1. (t \o u)[k] = u[k - n] /\ k - n \in 1 .. Len(s) - n /\ (k - n) + n = k
            BY <1>1, <3>1, <4>2
          <5> QED
            BY <3>1, <5>1
        <4> QED
          BY <4>1, <4>2
      <3>4. t \o u = s
        <4> DEFINE c == t \o u
        <4>1. c \in Seq(S) /\ Len(c) = Len(s) /\ \A k \in 1 .. Len(s) : c[k] = s[k]
          BY <3>2, <3>3
        <4> HIDE DEF c
        <4>2. c = s
          BY <4>1
        <4> QED
          BY <4>2 DEF c
      <3> QED
        BY <3>4 DEF t, u
    <2> QED
      BY <1>1, <2>1, <2>3, <2>4, <2>5
  <1>2. CASE ~(n <= Len(s))
    <2>1. Smaller(n, Len(s)) = Len(s)
      BY <1>2 DEF Smaller
    <2>2. After(s, n) = <<>> /\ First(s, n) = s
      BY <1>2, <2>1 DEF First, After
    <2> QED
      BY <2>1, <2>2
  <1> QED
    BY <1>1, <1>2

LEMMA RangeAppend ==
    ASSUME NEW S, NEW s \in Seq(S), NEW x \in S
    PROVE  Range(Append(s, x)) = Range(s) \cup {x}
  <1>1. Append(s, x) \in Seq(S) /\ Len(Append(s, x)) = Len(s) + 1
    OBVIOUS
  <1>2. ASSUME NEW y \in Range(Append(s, x)) PROVE y \in Range(s) \cup {x}
    <2>1. PICK k \in 1 .. Len(s) + 1 : y = Append(s, x)[k]
      BY <1>1, RangeIs
    <2>2. CASE k <= Len(s)
      <3>1. y = s[k] /\ k \in 1 .. Len(s)
        BY <2>1, <2>2
      <3> QED
        BY <3>1, RangeIs
    <2>3. CASE k = Len(s) + 1
      BY <2>1, <2>3
    <2> QED
      BY <2>2, <2>3
  <1>3. ASSUME NEW y \in Range(s) PROVE y \in Range(Append(s, x))
    <2>1. PICK k \in 1 .. Len(s) : y = s[k]
      BY RangeIs
    <2>2. k \in 1 .. Len(Append(s, x)) /\ y = Append(s, x)[k]
      BY <1>1, <2>1
    <2> QED
      BY <1>1, <2>2, RangeIs
  <1>4. x \in Range(Append(s, x))
    <2>1. Len(s) + 1 \in 1 .. Len(Append(s, x)) /\ Append(s, x)[Len(s) + 1] = x
      BY <1>1
    <2>2. Append(s, x)[Len(s) + 1] \in Range(Append(s, x))
      BY <1>1, <2>1, RangeIs
    <2> QED
      BY <2>1, <2>2
  <1> QED
    BY <1>2, <1>3, <1>4

LEMMA RangeSplit ==
    ASSUME NEW S, NEW s \in Seq(S), NEW n \in Nat
    PROVE  Range(s) = Range(First(s, n)) \cup Range(After(s, n))
  <1> DEFINE t == First(s, n)
             u == After(s, n)
  <1>0. /\ t \in Seq(S) /\ u \in Seq(S)
        /\ Len(t) + Len(u) = Len(s)
        /\ \A k \in 1 .. Len(t) : t[k] = s[k]
        /\ \A k \in 1 .. Len(u) : u[k] = s[k + Len(t)]
    BY FirstAfter
  <1> HIDE DEF t, u
  <1>1. ASSUME NEW x \in Range(s) PROVE x \in Range(t) \cup Range(u)
    <2>1. PICK k \in 1 .. Len(s) : x = s[k]
      BY RangeIs
    <2>2. CASE k <= Len(t)
      <3>1. k \in 1 .. Len(t) /\ x = t[k]
        BY <1>0, <2>1, <2>2
      <3> QED
        BY <1>0, <3>1, RangeIs
    <2>3. CASE ~(k <= Len(t))
      <3>1. k - Len(t) \in 1 .. Len(u) /\ (k - Len(t)) + Len(t) = k
        BY <1>0, <2>3
      <3>2. x = u[k - Len(t)]
        BY <1>0, <2>1, <3>1
      <3> QED
        BY <1>0, <3>1, <3>2, RangeIs
    <2> QED
      BY <2>2, <2>3
  <1>2. ASSUME NEW x \in Range(t) PROVE x \in Range(s)
    <2>1. PICK k \in 1 .. Len(t) : x = t[k]
      BY <1>0, RangeIs
    <2>2. k \in 1 .. Len(s) /\ x = s[k]
      BY <1>0, <2>1
    <2> QED
      BY <2>2, RangeIs
  <1>3. ASSUME NEW x \in Range(u) PROVE x \in Range(s)
    <2>1. PICK k \in 1 .. Len(u) : x = u[k]
      BY <1>0, RangeIs
    <2>2. k + Len(t) \in 1 .. Len(s) /\ x = s[k + Len(t)]
      BY <1>0, <2>1
    <2> QED
      BY <2>2, RangeIs
  <1>4. Range(s) = Range(t) \cup Range(u)
    BY <1>1, <1>2, <1>3
  <1> QED
    BY <1>4 DEF t, u

\* Reading on: the first samples of what is left come before the rest.
LEMMA AsReadSplit ==
    ASSUME NEW s, AsRead(s), NEW n \in Nat
    PROVE  /\ AsRead(First(s, n)) /\ AsRead(After(s, n))
           /\ \A x \in Range(First(s, n)), y \in Range(After(s, n)) : x.pose < y.pose
  <1> DEFINE t == First(s, n)
             u == After(s, n)
  <1>0. s \in Seq(Sample)
    BY DEF AsRead
  <1>1. /\ t \in Seq(Sample) /\ u \in Seq(Sample)
        /\ Len(t) + Len(u) = Len(s)
        /\ \A k \in 1 .. Len(t) : t[k] = s[k]
        /\ \A k \in 1 .. Len(u) : u[k] = s[k + Len(t)]
    BY <1>0, FirstAfter
  <1> HIDE DEF t, u
  <1>2. ASSUME NEW j \in 1 .. Len(s), NEW k \in 1 .. Len(s), j < k PROVE s[j].pose < s[k].pose
    BY <1>2 DEF AsRead
  <1>3. AsRead(t)
    <2>1. ASSUME NEW j \in 1 .. Len(t), NEW k \in 1 .. Len(t), j < k
          PROVE  t[j].pose < t[k].pose
      <3>1. j \in 1 .. Len(s) /\ k \in 1 .. Len(s) /\ t[j] = s[j] /\ t[k] = s[k]
        BY <1>0, <1>1
      <3> QED
        BY <1>2, <2>1, <3>1
    <2> QED
      BY <1>1, <2>1 DEF AsRead
  <1>4. AsRead(u)
    <2>1. ASSUME NEW j \in 1 .. Len(u), NEW k \in 1 .. Len(u), j < k
          PROVE  u[j].pose < u[k].pose
      <3>1. /\ j + Len(t) \in 1 .. Len(s) /\ k + Len(t) \in 1 .. Len(s)
            /\ u[j] = s[j + Len(t)] /\ u[k] = s[k + Len(t)] /\ j + Len(t) < k + Len(t)
        BY <1>0, <1>1, <2>1
      <3> QED
        BY <1>2, <3>1
    <2> QED
      BY <1>1, <2>1 DEF AsRead
  <1>5. ASSUME NEW x \in Range(t), NEW y \in Range(u) PROVE x.pose < y.pose
    <2>1. PICK j \in 1 .. Len(t) : x = t[j]
      BY <1>1, RangeIs
    <2>2. PICK k \in 1 .. Len(u) : y = u[k]
      BY <1>1, RangeIs
    <2>3. /\ j \in 1 .. Len(s) /\ k + Len(t) \in 1 .. Len(s)
          /\ x = s[j] /\ y = s[k + Len(t)] /\ j < k + Len(t)
      BY <1>0, <1>1, <2>1, <2>2
    <2> QED
      BY <1>2, <2>3
  <1> QED
    BY <1>3, <1>4, <1>5 DEF t, u

\* Taking the first sample of a sorted sequence.
LEMMA SortedTail ==
    ASSUME NEW s, Sorted(s), s # <<>>
    PROVE  /\ Sorted(Tail(s)) /\ Range(s) = {s[1]} \cup Range(Tail(s)) /\ s[1] \in Sample
           /\ \A y \in Range(Tail(s)) : Precedes(s[1], y)
  <1> DEFINE t == Tail(s)
  <1>0. s \in Seq(Sample)
    BY DEF Sorted
  <1>1. /\ t \in Seq(Sample) /\ Len(s) = Len(t) + 1 /\ Len(t) \in Nat
        /\ \A k \in 1 .. Len(t) : t[k] = s[k + 1]
    BY <1>0
  <1> HIDE DEF t
  <1>2. ASSUME NEW j \in 1 .. Len(s), NEW k \in 1 .. Len(s), j < k PROVE Precedes(s[j], s[k])
    BY <1>2 DEF Sorted
  <1>3. Sorted(t)
    <2>1. ASSUME NEW j \in 1 .. Len(t), NEW k \in 1 .. Len(t), j < k
          PROVE  Precedes(t[j], t[k])
      <3>1. /\ j + 1 \in 1 .. Len(s) /\ k + 1 \in 1 .. Len(s)
            /\ t[j] = s[j + 1] /\ t[k] = s[k + 1] /\ j + 1 < k + 1
        BY <1>1, <2>1
      <3> QED
        BY <1>2, <3>1
    <2> QED
      BY <1>1, <2>1 DEF Sorted
  <1>4. 1 \in 1 .. Len(s)
    BY <1>1
  <1>5. ASSUME NEW y \in Range(t) PROVE Precedes(s[1], y) /\ y \in Range(s)
    <2>1. PICK k \in 1 .. Len(t) : y = t[k]
      BY <1>1, RangeIs
    <2>2. k + 1 \in 1 .. Len(s) /\ y = s[k + 1] /\ 1 < k + 1
      BY <1>1, <2>1
    <2> QED
      BY <1>0, <1>2, <1>4, <2>2, RangeIs
  <1>6. ASSUME NEW x \in Range(s), x # s[1] PROVE x \in Range(t)
    <2>1. PICK k \in 1 .. Len(s) : x = s[k]
      BY <1>0, RangeIs
    <2>2. k - 1 \in 1 .. Len(t) /\ x = t[k - 1]
      BY <1>1, <1>6, <2>1
    <2> QED
      BY <1>1, <2>2, RangeIs
  <1>7. s[1] \in Range(s) /\ s[1] \in Sample
    BY <1>0, <1>4, RangeIs
  <1>8. Range(s) = {s[1]} \cup Range(t)
    BY <1>5, <1>6, <1>7
  <1> QED
    BY <1>3, <1>5, <1>7, <1>8 DEF t

\* Adding one at the end.
LEMMA SortedAppend ==
    ASSUME NEW s, Sorted(s), NEW x \in Sample, \A y \in Range(s) : Precedes(y, x)
    PROVE  Sorted(Append(s, x)) /\ Range(Append(s, x)) = Range(s) \cup {x}
  <1>0. s \in Seq(Sample)
    BY DEF Sorted
  <1>1. Append(s, x) \in Seq(Sample) /\ Len(Append(s, x)) = Len(s) + 1
    BY <1>0
  <1>2. ASSUME NEW j \in 1 .. Len(s) + 1, NEW k \in 1 .. Len(s) + 1, j < k
        PROVE  Precedes(Append(s, x)[j], Append(s, x)[k])
    <2>1. j \in 1 .. Len(s) /\ Append(s, x)[j] = s[j] /\ s[j] \in Range(s)
      <3>1. j \in 1 .. Len(s) /\ Append(s, x)[j] = s[j]
        BY <1>0, <1>2
      <3> QED
        BY <1>0, <3>1, RangeIs
    <2>2. CASE k = Len(s) + 1
      <3>1. Append(s, x)[k] = x
        BY <1>0, <2>2
      <3> QED
        BY <2>1, <3>1
    <2>3. CASE k # Len(s) + 1
      <3>1. k \in 1 .. Len(s) /\ Append(s, x)[k] = s[k]
        BY <1>0, <2>3
      <3> QED
        BY <1>2, <2>1, <3>1 DEF Sorted
    <2> QED
      BY <2>2, <2>3
  <1> QED
    BY <1>0, <1>1, <1>2, RangeAppend DEF Sorted

-------------------------------------------------------------------------------
(* The sort of a run, and the edge's samples. *)

ByStamp(buf) ==
    {p \in (DOMAIN buf) \X (DOMAIN buf) :
        \/ buf[p[1]].stamp < buf[p[2]].stamp
        \/ buf[p[1]].stamp = buf[p[2]].stamp /\ p[1] < p[2]}

\* The positions of buf, in the order of the sort.
SortOf(buf, order) ==
    /\ Lists(ByStamp(buf), DOMAIN buf, order)
    /\ sort_run(buf) = [k \in DOMAIN buf |-> buf[order[k]]]

LEMMA ByStampIs ==
    ASSUME NEW buf, NEW x \in DOMAIN buf, NEW y \in DOMAIN buf
    PROVE  <<y, x>> \in ByStamp(buf) <=> \/ buf[y].stamp < buf[x].stamp
                                         \/ buf[y].stamp = buf[x].stamp /\ y < x
  BY DEF ByStamp

LEMMA SortOrder ==
    ASSUME NEW buf \in Seq(Sample)
    PROVE  \E order : SortOf(buf, order)
  <1> DEFINE D == DOMAIN buf
             R == ByStamp(buf)
             Chosen(k) == CHOOSE x \in D : Cardinality({y \in D :
                              \/ buf[y].stamp < buf[x].stamp
                              \/ buf[y].stamp = buf[x].stamp /\ y < x}) = k - 1
             order == [k \in 1 .. Cardinality(D) |-> Chosen(k)]
  <1>0. /\ D = 1 .. Len(buf) /\ Len(buf) \in Nat /\ IsFiniteSet(D)
        /\ \A x \in D : x \in Nat /\ buf[x].stamp \in Nat
    <2>1. D = 1 .. Len(buf) /\ Len(buf) \in Nat
      OBVIOUS
    <2>2. IsFiniteSet(D)
      BY <2>1, FS_Interval
    <2>3. ASSUME NEW x \in D PROVE x \in Nat /\ buf[x].stamp \in Nat
      <3>1. buf[x] \in Sample /\ x \in Nat
        BY <2>1
      <3> QED
        BY <3>1 DEF Sample
    <2> QED
      BY <2>1, <2>2, <2>3
  <1>1. \A x, y \in D : <<y, x>> \in R <=> \/ buf[y].stamp < buf[x].stamp
                                           \/ buf[y].stamp = buf[x].stamp /\ y < x
    <2> SUFFICES ASSUME NEW x \in D, NEW y \in D
                 PROVE  <<y, x>> \in R <=> \/ buf[y].stamp < buf[x].stamp
                                           \/ buf[y].stamp = buf[x].stamp /\ y < x
      OBVIOUS
    <2> QED
      BY ByStampIs
  <1>2. Orders(R, D)
    <2> HIDE DEF R, D
    <2>1. \A x \in D : <<x, x>> \notin R
      BY <1>0, <1>1
    <2>2. \A x, y \in D : x # y => <<x, y>> \in R \/ <<y, x>> \in R
      BY <1>0, <1>1
    <2>3. \A x, y, z \in D : <<x, y>> \in R /\ <<y, z>> \in R => <<x, z>> \in R
      BY <1>0, <1>1
    <2> QED
      BY <2>1, <2>2, <2>3 DEF Orders
  <1>3. ASSUME NEW k \in 1 .. Cardinality(D) PROVE Chosen(k) \in D /\ Rank(R, D, Chosen(k)) = k - 1
    <2>1. \A x \in D : Under(R, D, x) = {y \in D : \/ buf[y].stamp < buf[x].stamp
                                                   \/ buf[y].stamp = buf[x].stamp /\ y < x}
      BY <1>1 DEF Under
    <2>2. \E z \in D : Rank(R, D, z) = k - 1
      <3> HIDE DEF R, D
      <3> QED
        BY <1>0, <1>2, RankTaken
    <2>3. \E z \in D : Cardinality({y \in D : \/ buf[y].stamp < buf[z].stamp
                                              \/ buf[y].stamp = buf[z].stamp /\ y < z}) = k - 1
      BY <2>1, <2>2 DEF Rank
    <2>4. /\ Chosen(k) \in D
          /\ Cardinality({y \in D : \/ buf[y].stamp < buf[Chosen(k)].stamp
                                    \/ buf[y].stamp = buf[Chosen(k)].stamp /\ y < Chosen(k)}) = k - 1
      BY <2>3
    <2> HIDE DEF R, D, Chosen
    <2> QED
      BY <2>1, <2>4 DEF Rank
  <1>4. Lists(R, D, order)
    <2>1. order \in [1 .. Cardinality(D) -> D]
      BY <1>3, Zenon
    <2>2. \A k \in 1 .. Cardinality(D) : Rank(R, D, order[k]) = k - 1
      <3> HIDE DEF R, Chosen
      <3> QED
        BY <1>3
    <2> HIDE DEF order, R, D
    <2> QED
      BY <1>0, <1>2, <2>1, <2>2, RanksList
  <1>5. sort_run(buf) = [k \in DOMAIN buf |-> buf[order[k]]]
    <2>1. Arranged(D, LAMBDA i, j : \/ buf[i].stamp < buf[j].stamp
                                    \/ buf[i].stamp = buf[j].stamp /\ i < j) = order
      BY Zenon DEF Arranged
    <2> QED
      BY <2>1, Zenon DEF sort_run
  <1> HIDE DEF order
  <1> QED
    BY <1>4, <1>5 DEF SortOf

\* Sorting samples as they were read orders them by stamp and by place.
LEMMA SortRun ==
    ASSUME NEW buf, AsRead(buf)
    PROVE  /\ Sorted(sort_run(buf)) /\ Range(sort_run(buf)) = Range(buf)
           /\ Len(sort_run(buf)) = Len(buf)
  <1> DEFINE n == Len(buf)
             s == sort_run(buf)
  <1>0. buf \in Seq(Sample) /\ n \in Nat /\ DOMAIN buf = 1 .. n
    BY DEF AsRead
  <1>1. PICK order : SortOf(buf, order)
    BY <1>0, SortOrder
  <1>2. Cardinality(1 .. n) = n
    <2>1. 1 \in Int /\ n \in Int
      BY <1>0
    <2>2. Cardinality(1 .. n) = IF 1 > n THEN 0 ELSE n - 1 + 1
      BY <2>1, FS_Interval
    <2> QED
      BY <1>0, <2>2
  <1>3. /\ order \in [1 .. n -> 1 .. n]
        /\ \A x \in 1 .. n : \E k \in 1 .. n : order[k] = x
        /\ \A j, k \in 1 .. n : j < k => <<order[j], order[k]>> \in ByStamp(buf)
    BY <1>0, <1>1, <1>2 DEF SortOf, Lists
  <1>4. s = [k \in 1 .. n |-> buf[order[k]]]
    BY <1>0, <1>1 DEF SortOf
  <1> HIDE DEF s
  <1>5. s \in Seq(Sample) /\ Len(s) = n
    <2>1. ASSUME NEW k \in 1 .. n PROVE buf[order[k]] \in Sample
      <3>1. order[k] \in 1 .. n
        BY <1>3
      <3> QED
        BY <1>0, <3>1
    <2> QED
      BY <1>0, <1>4, <2>1
  <1>6. ASSUME NEW j \in 1 .. n, NEW k \in 1 .. n, j < k PROVE Precedes(s[j], s[k])
    <2>1. <<order[j], order[k]>> \in ByStamp(buf) /\ order[j] \in 1 .. n /\ order[k] \in 1 .. n
      BY <1>3, <1>6
    <2>2. \/ buf[order[j]].stamp < buf[order[k]].stamp
          \/ buf[order[j]].stamp = buf[order[k]].stamp /\ order[j] < order[k]
      BY <2>1, ByStampIs
    <2>3. order[j] < order[k] => buf[order[j]].pose < buf[order[k]].pose
      BY <2>1 DEF AsRead
    <2>4. s[j] = buf[order[j]] /\ s[k] = buf[order[k]]
      BY <1>4
    <2> QED
      BY <2>2, <2>3, <2>4 DEF Precedes
  <1>7. ASSUME NEW x \in Range(buf) PROVE x \in Range(s)
    <2>1. PICK i \in 1 .. n : x = buf[i]
      BY <1>0, RangeIs
    <2>2. PICK k \in 1 .. n : order[k] = i
      BY <1>3
    <2>3. x = s[k]
      BY <1>4, <2>1, <2>2
    <2> QED
      BY <1>5, <2>3, RangeIs
  <1>8. ASSUME NEW x \in Range(s) PROVE x \in Range(buf)
    <2>1. PICK k \in 1 .. n : x = s[k]
      BY <1>5, RangeIs
    <2>2. x = buf[order[k]] /\ order[k] \in 1 .. n
      BY <1>3, <1>4, <2>1
    <2> QED
      BY <1>0, <2>2, RangeIs
  <1>9. Sorted(s) /\ Range(s) = Range(buf) /\ Len(s) = Len(buf)
    BY <1>5, <1>6, <1>7, <1>8 DEF Sorted
  <1> QED
    BY <1>9 DEF s

\* The last of equal stamps remain.
LEMMA LastOfEach ==
    ASSUME NEW s, Sorted(s)
    PROVE  Rising(last_of_each(s)) /\ Range(last_of_each(s)) = Lasts(Range(s))
  <1> DEFINE n == Len(s)
             K == {i \in DOMAIN s : i < n => s[i + 1].stamp # s[i].stamp}
             kept == Ascending(K)
             t == last_of_each(s)
  <1>0. s \in Seq(Sample) /\ n \in Nat /\ DOMAIN s = 1 .. n
    BY DEF Sorted
  <1>a. ASSUME NEW i \in 1 .. n
        PROVE  s[i] \in Sample /\ s[i].stamp \in Nat /\ s[i].pose \in Nat
    <2>1. s[i] \in Sample
      BY <1>0
    <2> QED
      BY <2>1 DEF Sample
  <1>b. \A j, k \in 1 .. n : j < k => Precedes(s[j], s[k])
    BY DEF Sorted
  <1>1. K \subseteq 1 .. n /\ \A i \in 1 .. n : i \in K <=> (i < n => s[i + 1].stamp # s[i].stamp)
    BY <1>0
  <1>2. t = [k \in DOMAIN kept |-> s[kept[k]]]
    BY DEF last_of_each
  <1>3. Lists(Less, K, kept)
    <2>1. IsFiniteSet(1 .. n) /\ 1 .. n \subseteq Nat
      <3>1. 1 \in Int /\ n \in Int
        BY <1>0
      <3> QED
        BY <3>1, FS_Interval
    <2>2. K \subseteq Nat
      BY <1>1, <2>1
    <2>3. IsFiniteSet(K)
      <3>1. K \in SUBSET (1 .. n)
        BY <1>1
      <3> HIDE DEF K
      <3> QED
        BY <2>1, <3>1, FS_Subset
    <2> HIDE DEF K
    <2> QED
      BY <2>2, <2>3, ArrangedNumbers
  <1> DEFINE m == Cardinality(K)
  <1> HIDE DEF K, kept, t
  <1>4. /\ kept \in [1 .. m -> K] /\ m \in Nat
        /\ \A i \in K : \E k \in 1 .. m : kept[k] = i
        /\ \A j, k \in 1 .. m : j < k => kept[j] < kept[k]
    <2>1. IsFiniteSet(K)
      <3>1. 1 \in Int /\ n \in Int
        BY <1>0
      <3>2. IsFiniteSet(1 .. n)
        BY <3>1, FS_Interval
      <3>3. K \in SUBSET (1 .. n)
        BY <1>1
      <3> QED
        BY <3>2, <3>3, FS_Subset
    <2> QED
      BY <1>3, <2>1, FS_CardinalityType DEF Lists, Less
  <1>5. t = [k \in 1 .. m |-> s[kept[k]]]
    BY <1>2, <1>4
  <1>6. t \in Seq(Sample) /\ Len(t) = m
    <2>1. ASSUME NEW k \in 1 .. m PROVE s[kept[k]] \in Sample
      <3>1. kept[k] \in 1 .. n
        BY <1>1, <1>4
      <3> QED
        BY <1>a, <3>1
    <2> QED
      BY <1>4, <1>5, <2>1
  <1>7. ASSUME NEW i \in K, NEW j \in 1 .. n, i < j PROVE s[i].stamp < s[j].stamp
    <2>1. i \in 1 .. n /\ i + 1 \in 1 .. n /\ i < i + 1 /\ i < n
      BY <1>0, <1>1, <1>7
    <2>2. s[i + 1].stamp # s[i].stamp /\ Precedes(s[i], s[i + 1])
      BY <1>1, <1>b, <2>1
    <2>3. s[i].stamp < s[i + 1].stamp
      BY <1>a, <2>1, <2>2 DEF Precedes
    <2>4. j = i + 1 \/ i + 1 < j
      BY <1>0, <1>7, <2>1
    <2>5. CASE i + 1 < j
      <3>1. Precedes(s[i + 1], s[j])
        BY <1>b, <2>1, <2>5
      <3> QED
        BY <1>a, <2>1, <2>3, <3>1 DEF Precedes
    <2> QED
      BY <2>3, <2>4, <2>5
  <1>8. Rising(t)
    <2>1. ASSUME NEW j \in 1 .. m, NEW k \in 1 .. m, j < k PROVE t[j].stamp < t[k].stamp
      <3>1. t[j] = s[kept[j]] /\ t[k] = s[kept[k]]
        BY <1>5
      <3>2. kept[j] \in K /\ kept[k] \in 1 .. n /\ kept[j] < kept[k]
        BY <1>1, <1>4, <2>1
      <3> QED
        BY <1>7, <3>1, <3>2
    <2> QED
      BY <1>6, <2>1 DEF Rising
  <1>9. ASSUME NEW x \in Range(t) PROVE x \in Lasts(Range(s))
    <2>1. PICK k \in 1 .. m : x = t[k]
      BY <1>6, RangeIs
    <2> DEFINE i == kept[k]
    <2>2. x = s[i] /\ i \in K /\ i \in 1 .. n
      BY <1>1, <1>4, <1>5, <2>1
    <2> HIDE DEF i
    <2>3. x \in Range(s)
      BY <1>0, <2>2, RangeIs
    <2>4. ASSUME NEW y \in Range(s), y.stamp = x.stamp PROVE y.pose <= x.pose
      <3>1. PICK j \in 1 .. n : y = s[j]
        BY <1>0, RangeIs
      <3>2. ~(i < j)
        <4> SUFFICES ASSUME i < j PROVE FALSE
          OBVIOUS
        <4>1. x.stamp < y.stamp
          BY <1>7, <2>2, <3>1
        <4> QED
          BY <1>a, <2>2, <2>4, <3>1, <4>1
      <3>3. CASE j = i
        BY <1>a, <2>2, <3>1, <3>3
      <3>4. CASE j < i
        <4>1. Precedes(y, x)
          BY <1>b, <2>2, <3>1, <3>4
        <4> QED
          BY <1>a, <2>2, <2>4, <3>1, <4>1 DEF Precedes
      <3> QED
        BY <2>2, <3>2, <3>3, <3>4
    <2> QED
      BY <2>3, <2>4 DEF Lasts
  <1>10. ASSUME NEW x \in Lasts(Range(s)) PROVE x \in Range(t)
    <2>1. x \in Range(s) /\ \A y \in Range(s) : y.stamp = x.stamp => y.pose <= x.pose
      BY DEF Lasts
    <2>2. PICK i \in 1 .. n : x = s[i]
      BY <1>0, <2>1, RangeIs
    <2>3. i \in K
      <3> SUFFICES ASSUME i < n, s[i + 1].stamp = s[i].stamp PROVE FALSE
        BY <1>1
      <3>1. i + 1 \in 1 .. n /\ i < i + 1
        BY <1>0
      <3>2. s[i + 1] \in Range(s)
        BY <1>0, <3>1, RangeIs
      <3>3. s[i + 1].pose <= s[i].pose
        BY <2>1, <2>2, <3>2
      <3>4. Precedes(s[i], s[i + 1])
        BY <1>b, <3>1
      <3> QED
        BY <1>a, <3>1, <3>3, <3>4 DEF Precedes
    <2>4. PICK k \in 1 .. m : kept[k] = i
      BY <1>4, <2>3
    <2>5. x = t[k]
      BY <1>5, <2>2, <2>4
    <2> QED
      BY <1>6, <2>5, RangeIs
  <1>11. Rising(t) /\ Range(t) = Lasts(Range(s))
    BY <1>8, <1>9, <1>10
  <1> QED
    BY <1>11 DEF t

-------------------------------------------------------------------------------
(* The samples of an edge and the filling it should get. *)

Record == [edge : Edges \cup {NoName}, static : BOOLEAN, stamp : Nat]
Kept1(i) == [stamp |-> recording[i].stamp, pose |-> i]
All(e) == {Kept1(i) : i \in Kept(e)}

LEMMA KeptIs ==
    ASSUME recording \in Seq(Record), NEW e
    PROVE  /\ IsFiniteSet(Kept(e)) /\ Kept(e) \subseteq Nat
           /\ Cardinality(Kept(e)) \in Nat
           /\ \A i \in Kept(e) : /\ i \in 1 .. Len(recording) /\ recording[i].stamp \in Nat
                                 /\ Kept1(i) \in Sample
           /\ All(e) \subseteq Sample
  <1>1. Len(recording) \in Nat /\ DOMAIN recording = 1 .. Len(recording)
    OBVIOUS
  <1>2. IsFiniteSet(1 .. Len(recording))
    <2>1. 1 \in Int /\ Len(recording) \in Int
      BY <1>1
    <2> QED
      BY <2>1, FS_Interval
  <1>3. Kept(e) \in SUBSET (1 .. Len(recording))
    BY <1>1 DEF Kept
  <1>4. IsFiniteSet(Kept(e))
    BY <1>2, <1>3, FS_Subset
  <1>5. ASSUME NEW i \in Kept(e)
        PROVE  i \in 1 .. Len(recording) /\ recording[i].stamp \in Nat /\ Kept1(i) \in Sample
    <2>1. i \in 1 .. Len(recording)
      BY <1>3
    <2>2. recording[i] \in Record
      BY <2>1
    <2> QED
      BY <2>1, <2>2 DEF Record, Kept1, Sample
  <1>6. Kept(e) \subseteq Nat
    BY <1>5
  <1> QED
    BY <1>4, <1>5, <1>6, FS_CardinalityType DEF All

LEMMA SamplesRead ==
    ASSUME recording \in Seq(Record), NEW e
    PROVE  /\ AsRead(SamplesOf(e)) /\ Range(SamplesOf(e)) = All(e)
           /\ Len(SamplesOf(e)) = Cardinality(Kept(e))
  <1> DEFINE a == Ascending(Kept(e))
             n == Cardinality(Kept(e))
             s == SamplesOf(e)
  <1>1. Lists(Less, Kept(e), a)
    BY KeptIs, ArrangedNumbers
  <1>2. s = [k \in DOMAIN a |-> [stamp |-> recording[a[k]].stamp, pose |-> a[k]]]
    BY DEF SamplesOf
  <1> HIDE DEF a, s
  <1>3. /\ a \in [1 .. n -> Kept(e)] /\ n \in Nat
        /\ \A i \in Kept(e) : \E k \in 1 .. n : a[k] = i
        /\ \A j, k \in 1 .. n : j < k => a[j] < a[k]
    BY <1>1, KeptIs DEF Lists, Less
  <1>4. s = [k \in 1 .. n |-> Kept1(a[k])]
    BY <1>2, <1>3 DEF Kept1
  <1>5. s \in Seq(Sample) /\ Len(s) = n
    <2>1. \A k \in 1 .. n : Kept1(a[k]) \in Sample
      BY <1>3, KeptIs
    <2> QED
      BY <1>3, <1>4, <2>1
  <1>6. AsRead(s)
    <2>1. ASSUME NEW j \in 1 .. n, NEW k \in 1 .. n, j < k PROVE s[j].pose < s[k].pose
      <3>1. s[j] = Kept1(a[j]) /\ s[k] = Kept1(a[k]) /\ a[j] < a[k]
        BY <1>3, <1>4, <2>1
      <3> QED
        BY <3>1 DEF Kept1
    <2> QED
      BY <1>5, <2>1 DEF AsRead
  <1>7. ASSUME NEW x \in Range(s) PROVE x \in All(e)
    <2>1. PICK k \in 1 .. n : x = s[k]
      BY <1>5, RangeIs
    <2>2. x = Kept1(a[k]) /\ a[k] \in Kept(e)
      BY <1>3, <1>4, <2>1
    <2> QED
      BY <2>2 DEF All
  <1>8. ASSUME NEW x \in All(e) PROVE x \in Range(s)
    <2>1. PICK i \in Kept(e) : x = Kept1(i)
      BY DEF All
    <2>2. PICK k \in 1 .. n : a[k] = i
      BY <1>3
    <2>3. x = s[k]
      BY <1>4, <2>1, <2>2
    <2> QED
      BY <1>5, <2>3, RangeIs
  <1>9. AsRead(s) /\ Range(s) = All(e) /\ Len(s) = n
    BY <1>5, <1>6, <1>7, <1>8
  <1> QED
    BY <1>9 DEF s

LEMMA ReferenceIs ==
    ASSUME recording \in Seq(Record), NEW e
    PROVE  /\ Rising(Reference(e)) /\ Range(Reference(e)) = Lasts(All(e))
           /\ Len(Reference(e)) <= Cardinality(Kept(e))
  <1> DEFINE T == {recording[i].stamp : i \in Kept(e)}
             a == Ascending(T)
             m == Cardinality(T)
             At(t) == {i \in Kept(e) : recording[i].stamp = t}
             s == Reference(e)
  <1>1. IsFiniteSet(T) /\ T \subseteq Nat /\ m <= Cardinality(Kept(e))
    <2>1. T \subseteq Nat
      BY KeptIs
    <2>2. IsFiniteSet(T) /\ m <= Cardinality(Kept(e))
      <3> DEFINE f == [i \in Kept(e) |-> recording[i].stamp]
      <3>1. IsFiniteSet(Kept(e))
        BY KeptIs
      <3>2. f \in Surjection(Kept(e), T)
        BY DEF Surjection
      <3> HIDE DEF f, T
      <3> QED
        BY <3>1, <3>2, FS_Surjection
    <2> QED
      BY <2>1, <2>2
  <1>2. Lists(Less, T, a)
    <2> HIDE DEF T
    <2> QED
      BY <1>1, ArrangedNumbers
  <1>3. s = [k \in DOMAIN a |-> [stamp |-> a[k], pose |-> Max(At(a[k]))]]
    BY DEF Reference
  <1>4. ASSUME NEW t \in T
        PROVE  Max(At(t)) \in At(t) /\ \A i \in At(t) : i <= Max(At(t))
    <2>1. At(t) \in SUBSET Kept(e) /\ At(t) # {}
      OBVIOUS
    <2> HIDE DEF At
    <2>2. IsFiniteSet(At(t)) /\ At(t) \subseteq Nat
      <3>1. IsFiniteSet(Kept(e)) /\ Kept(e) \subseteq Nat
        BY KeptIs
      <3> QED
        BY <2>1, <3>1, FS_Subset
    <2> QED
      BY <2>1, <2>2, MaxIs
  <1> HIDE DEF a, s
  <1>5. /\ a \in [1 .. m -> T] /\ m \in Nat
        /\ \A t \in T : \E k \in 1 .. m : a[k] = t
        /\ \A j, k \in 1 .. m : j < k => a[j] < a[k]
    <2> HIDE DEF T
    <2> QED
      BY <1>1, <1>2, FS_CardinalityType DEF Lists, Less
  <1> DEFINE last(t) == Max(At(t))
  <1>6. ASSUME NEW k \in 1 .. m
        PROVE  /\ last(a[k]) \in Kept(e) /\ recording[last(a[k])].stamp = a[k]
               /\ \A i \in Kept(e) : recording[i].stamp = a[k] => i <= last(a[k])
    <2>1. a[k] \in T
      BY <1>5
    <2>2. last(a[k]) \in At(a[k]) /\ \A i \in At(a[k]) : i <= last(a[k])
      BY <1>4, <2>1
    <2> HIDE DEF last
    <2> QED
      BY <2>2
  <1>7. s = [k \in 1 .. m |-> [stamp |-> a[k], pose |-> last(a[k])]]
    BY <1>3, <1>5
  <1> HIDE DEF last
  <1>8. ASSUME NEW k \in 1 .. m PROVE s[k] = Kept1(last(a[k])) /\ s[k] \in Sample
    <2>1. s[k] = Kept1(last(a[k]))
      BY <1>6, <1>7 DEF Kept1
    <2> QED
      BY <1>6, <2>1, KeptIs
  <1>9. s \in Seq(Sample) /\ Len(s) = m
    <2>1. s \in [1 .. m -> Sample]
      BY <1>7, <1>8
    <2>2. m \in Nat
      BY <1>5
    <2> HIDE DEF m
    <2> QED
      BY <2>1, <2>2
  <1>10. Rising(s)
    <2>1. ASSUME NEW j \in 1 .. m, NEW k \in 1 .. m, j < k PROVE s[j].stamp < s[k].stamp
      BY <1>5, <1>7, <2>1
    <2> QED
      BY <1>9, <2>1 DEF Rising
  <1>11. ASSUME NEW x \in Range(s) PROVE x \in Lasts(All(e))
    <2>1. PICK k \in 1 .. m : x = s[k]
      BY <1>9, RangeIs
    <2>2. x = Kept1(last(a[k])) /\ last(a[k]) \in Kept(e) /\ x.stamp = a[k] /\ x.pose = last(a[k])
      BY <1>6, <1>7, <1>8, <2>1
    <2>3. x \in All(e)
      BY <2>2 DEF All
    <2>4. ASSUME NEW y \in All(e), y.stamp = x.stamp PROVE y.pose <= x.pose
      <3>1. PICK i \in Kept(e) : y = Kept1(i)
        BY DEF All
      <3>2. y.stamp = recording[i].stamp /\ y.pose = i
        BY <3>1 DEF Kept1
      <3> QED
        BY <1>6, <2>2, <2>4, <3>2
    <2> QED
      BY <2>3, <2>4 DEF Lasts
  <1>12. ASSUME NEW x \in Lasts(All(e)) PROVE x \in Range(s)
    <2>1. PICK i \in Kept(e) : x = Kept1(i)
      BY DEF Lasts, All
    <2>2. x.stamp = recording[i].stamp /\ x.pose = i /\ x.stamp \in T
      BY <2>1 DEF Kept1
    <2>3. PICK k \in 1 .. m : a[k] = x.stamp
      BY <1>5, <2>2
    <2> DEFINE j == last(a[k])
    <2>4. j \in Kept(e) /\ recording[j].stamp = x.stamp /\ i <= j
      BY <1>6, <2>2, <2>3
    <2> HIDE DEF j
    <2>5. Kept1(j) \in All(e) /\ Kept1(j).stamp = x.stamp /\ Kept1(j).pose = j
      BY <2>4 DEF All, Kept1
    <2>6. j <= i
      BY <2>2, <2>5 DEF Lasts
    <2>7. i = j
      <3>1. i \in Nat /\ j \in Nat
        BY <2>4, KeptIs
      <3> QED
        BY <2>4, <2>6, <3>1
    <2>8. x = s[k]
      BY <1>8, <2>1, <2>7 DEF j
    <2> QED
      BY <1>9, <2>8, RangeIs
  <1>13. Rising(s) /\ Range(s) = Lasts(All(e)) /\ Len(s) <= Cardinality(Kept(e))
    <2> HIDE DEF T
    <2> QED
      BY <1>1, <1>9, <1>10, <1>11, <1>12
  <1> QED
    BY <1>13 DEF s

\* What an edge is filled with is known by its elements.
LEMMA RisingReference ==
    ASSUME recording \in Seq(Record), NEW e, NEW s, Rising(s), Range(s) = Lasts(All(e))
    PROVE  s = Reference(e)
  BY ReferenceIs, RisingIsSorted, SortedUnique

\* An edge filled in memory: its samples sorted, the last of equal stamps kept
\* (fill), are what it should get.
LEMMA InMemoryRight ==
    ASSUME recording \in Seq(Record), NEW e
    PROVE  last_of_each(sort_run(SamplesOf(e))) = Reference(e)
  <1>1. AsRead(SamplesOf(e)) /\ Range(SamplesOf(e)) = All(e)
    BY SamplesRead
  <1>2. Sorted(sort_run(SamplesOf(e))) /\ Range(sort_run(SamplesOf(e))) = All(e)
    BY <1>1, SortRun
  <1>3. /\ Rising(last_of_each(sort_run(SamplesOf(e))))
        /\ Range(last_of_each(sort_run(SamplesOf(e)))) = Lasts(All(e))
    BY <1>2, LastOfEach
  <1> QED
    BY <1>3, RisingReference

-------------------------------------------------------------------------------
(* The inductive invariant. *)

EdgeSurvey == [seen : BOOLEAN, fixed : BOOLEAN, dynamic : BOOLEAN,
               newest : Nat \cup {None}, samples : Nat]

Types ==
    /\ recording \in Seq(Record) /\ max_memory \in Nat
    /\ pc \in {"survey", "groups", "sort", "spill", "reduce", "merge", "done", "failed"}
    /\ at \in Nat \ {0} /\ edges \in [Edges -> EdgeSurvey]
    /\ arena \in [Edges -> Seq(Sample)]

\* What has reached the rings, whatever happens to the ingest.
Filled ==
    /\ \A e \in Edges : IsPrefix(arena[e], Reference(e)) /\ Len(arena[e]) <= edges[e].samples
    /\ failure # "Push"

\* Pass one has counted what comes before at, and no edge is of both kinds.
Counts ==
    \A e \in Edges :
        /\ ~(edges[e].fixed /\ edges[e].dynamic)
        /\ edges[e].samples > 0 => edges[e].dynamic
        /\ edges[e].samples = Cardinality({i \in Kept(e) : i < at})

\* Samples of these edges fit in memory together, with the scratch of any sort.
Load(S) == SumFunction([e \in S |-> Bytes(e)])
Fits(S) == \A e \in S : Load(S) + Bytes(e) <= cap

\* A group of the plan.
Group == [spilled : BOOLEAN, edges : SUBSET Edges]
Planned(g) ==
    /\ g.edges # {} /\ \A e \in g.edges : All(e) # {}
    /\ IF g.spilled THEN \E e \in g.edges : g.edges = {e} ELSE Fits(g.edges)
Plans(gs) ==
    /\ gs \in Seq(Group)
    /\ \A i \in 1 .. Len(gs) : Planned(gs[i])
    /\ \A i, j \in 1 .. Len(gs) : i # j => gs[i].edges \cap gs[j].edges = {}
Covers(gs) == UNION {gs[i].edges : i \in 1 .. Len(gs)}

\* Runs of one edge: each sorted, and each from an earlier part of the recording
\* than the next.
Earlier(S, T) == \A x \in S, y \in T : x.pose < y.pose
Els(ss) == UNION {Range(ss[i]) : i \in 1 .. Len(ss)}
Chained(ss) ==
    /\ ss \in Seq(Seq(Sample))
    /\ \A i \in 1 .. Len(ss) : Sorted(ss[i])
    /\ \A i, j \in 1 .. Len(ss) : i < j => Earlier(Range(ss[i]), Range(ss[j]))

\* An open merge: what each reader has left is chained, in no more windows than
\* the budget has, and only a spent reader's window is empty.
Reader == [window : Seq(Sample), left : Seq(Sample)]
Whole(rds) == [i \in 1 .. Len(rds) |-> rds[i].window \o rds[i].left]
Merging(rds) ==
    /\ rds \in Seq(Reader) /\ Len(rds) <= fan_in
    /\ \A i \in 1 .. Len(rds) : rds[i].window = <<>> => rds[i].left = <<>>
    /\ Chained(Whole(rds))

Spilling == pc \in {"spill", "reduce", "merge"}

\* Each edge waits for its group, is in a buffer, is spilled, or is filled.
Shares ==
    /\ Plans(groups)
    /\ Covers(groups) \cap DOMAIN buffers = {}
    /\ Spilling => edge \in Edges \ Covers(groups) /\ All(edge) # {}
    /\ \A e \in Covers(groups) \cup DOMAIN buffers : arena[e] = <<>>
    /\ \A e \in Edges \ (Covers(groups) \cup DOMAIN buffers) :
          arena[e] = Reference(e) \/ (Spilling /\ e = edge)
    /\ pc = "done" => groups = <<>>

Buffered ==
    IF pc = "sort"
    THEN /\ DOMAIN buffers # {} /\ DOMAIN buffers \subseteq Edges
         /\ Fits(DOMAIN buffers)
         /\ \A e \in DOMAIN buffers : buffers[e] = SamplesOf(e)
    ELSE DOMAIN buffers = {}

\* The runs of the spilled edge and the samples it has still to read.
SpillRight ==
    /\ arena[edge] = <<>> /\ pending = None
    /\ AsRead(rest) /\ Chained(runs) /\ Earlier(Els(runs), Range(rest))
    /\ Els(runs) \cup Range(rest) = All(edge)

\* One chunk is merged, after the ones in next and before the ones in spans.
ReduceRight ==
    LET chunk == Range(merged) \cup Els(Whole(readers)) IN
    /\ arena[edge] = <<>> /\ pending = None /\ rest = <<>>
    /\ Merging(readers) /\ Sorted(merged)
    /\ \A x \in Range(merged), y \in Els(Whole(readers)) : Precedes(x, y)
    /\ Chained(next) /\ Chained(spans)
    /\ Earlier(Els(next), chunk) /\ Earlier(Els(next) \cup chunk, Els(spans))
    /\ Els(next) \cup chunk \cup Els(spans) = All(edge)

\* Samples that the last merge has taken, and what it has made of them: the ring
\* and the sample held back are their last ones.
Taken == All(edge) \ Els(Whole(readers))
Collapsed(ring, held, T) ==
    IF T = {} THEN held = None /\ ring = <<>>
    ELSE /\ held \in Sample /\ Rising(Append(ring, held))
         /\ Range(Append(ring, held)) = Lasts(T)
MergeRight ==
    /\ rest = <<>>
    /\ Merging(readers) /\ Els(Whole(readers)) \subseteq All(edge)
    /\ \A x \in Taken, y \in Els(Whole(readers)) : Precedes(x, y)
    /\ Collapsed(arena[edge], pending, Taken)

Phases ==
    /\ pc # "failed" => Counts
    /\ pc = "survey" =>
          /\ \A e \in Edges : arena[e] = <<>>
          /\ DOMAIN buffers = {}
          /\ at <= Len(recording) + 1
    /\ pc \notin {"survey", "failed"} => at = Len(recording) + 1 /\ Shares /\ Buffered
    /\ ~Spilling /\ pc # "failed" => runs = <<>> /\ pending = None
    /\ pc = "spill" => SpillRight
    /\ pc = "reduce" => ReduceRight
    /\ pc = "merge" => MergeRight

IInv == Types /\ Filled /\ Phases

-------------------------------------------------------------------------------
(* The budgets. *)

LEMMA DivIs ==
    ASSUME NEW a \in Nat, NEW b \in Nat \ {0}
    PROVE  a \div b \in Nat /\ b * (a \div b) <= a /\ a < b * (a \div b) + b
  OBVIOUS

LEMMA DivOne ==
    ASSUME NEW a \in Nat, NEW b \in Nat \ {0}, b <= a
    PROVE  a \div b >= 1
  OBVIOUS

LEMMA Budgets ==
    ASSUME max_memory \in Nat
    PROVE  /\ cap \in Nat /\ cap >= MIN_CAP
           /\ windows \in Nat /\ windows >= 3
           /\ ENCODED * windows <= (cap * 3) \div 4
           /\ fan_in = windows - 1 /\ fan_in \in Nat
           /\ staging \in Nat /\ (3 * cap) \div 4 + 2 * staging <= cap
           /\ spill_budget \in Nat /\ 2 * ENCODED * spill_budget + staging <= cap
  <1> DEFINE E == ENCODED
             w == (cap * 3) \div 4
  <1>1. cap \in Nat /\ cap >= MIN_CAP /\ E \in Nat /\ E >= 1
    BY BudgetAssumption DEF cap, Larger
  <1>2. cap >= 8 * E \/ (E = 1 /\ cap >= 5)
    BY <1>1, FloorAssumption, BudgetAssumption
  <1>3. w \in Nat /\ 4 * w <= 3 * cap /\ 3 * cap < 4 * w + 4
    BY <1>1
  <1>4. w >= 3 * E
    BY <1>1, <1>2, <1>3
  <1>5. windows \in Nat /\ E * windows <= w /\ windows >= 3
    <2>1. windows = w \div E
      BY DEF windows
    <2>2. w \div E \in Nat /\ E * (w \div E) <= w /\ w < E * (w \div E) + E
      BY <1>1, <1>3, DivIs
    <2>3. w \div E >= 3
      <3> DEFINE q == w \div E
      <3>1. q \in Nat /\ w < E * q + E
        BY <2>2
      <3> HIDE DEF q, w, E
      <3>2. CASE q <= 2
        <4>1. E * q <= E * 2
          BY <1>1, <3>1, <3>2
        <4> QED
          BY <1>1, <1>3, <1>4, <3>1, <4>1
      <3> QED
        BY <3>1, <3>2 DEF q
    <2> QED
      BY <1>1, <1>3, <2>1, <2>2, <2>3
  <1>6. fan_in = windows - 1 /\ fan_in \in Nat
    BY <1>5 DEF fan_in, Larger
  <1>7. staging \in Nat /\ staging <= Larger(cap \div 8, E)
    BY <1>1, BudgetAssumption DEF staging, Larger, Smaller
  <1>8. w + 2 * staging <= cap /\ 2 * E + staging <= cap
    <2>1. cap \div 8 \in Nat /\ 8 * (cap \div 8) <= cap /\ cap < 8 * (cap \div 8) + 8
      BY <1>1
    <2>2. CASE cap >= 8 * E
      <3>1. E <= cap \div 8
        BY <1>1, <2>1, <2>2
      <3>2. staging <= cap \div 8
        BY <1>1, <1>7, <2>1, <3>1 DEF Larger
      <3> HIDE DEF w, E
      <3> QED
        BY <1>1, <1>3, <1>7, <2>1, <2>2, <3>2
    <2>3. CASE E = 1 /\ cap >= 5 /\ cap < 8
      <3>1. staging <= 1
        BY <1>1, <1>7, <2>1, <2>3 DEF Larger
      <3>2. cap \in {5, 6, 7}
        BY <1>1, <2>3
      <3> HIDE DEF w, E
      <3> QED
        BY <1>3, <1>7, <2>3, <3>1, <3>2
    <2> QED
      BY <1>1, <1>2, <2>2, <2>3
  <1>9. spill_budget \in Nat /\ 2 * E * spill_budget + staging <= cap
    <2> DEFINE a == cap - staging
               b == 2 * E
               q == a \div b
    <2>1. a \in Nat /\ b \in Nat \ {0} /\ b <= a
      BY <1>1, <1>7, <1>8
    <2>2. q \in Nat /\ b * q <= a /\ q >= 1
      BY <2>1, DivIs, DivOne
    <2>3. spill_budget = q
      BY <2>2 DEF spill_budget, Larger
    <2> HIDE DEF q
    <2>4. 2 * E * spill_budget = b * q
      BY <2>3
    <2> QED
      BY <1>1, <1>7, <2>1, <2>2, <2>3, <2>4
  <1>10. (3 * cap) \div 4 = w
    BY <1>1
  <1> QED
    BY <1>1, <1>5, <1>6, <1>7, <1>8, <1>9, <1>10

\* Every merge has a window for each reader and one to decode into.
LEMMA WindowIs ==
    ASSUME max_memory \in Nat, NEW n \in Nat
    PROVE  /\ merge_window_samples(n) \in Nat /\ merge_window_samples(n) >= 1
           /\ n <= fan_in =>
                 (n + 1) * merge_window_samples(n) * ENCODED <= (cap * 3) \div 4
  <1> DEFINE q == windows \div (n + 1)
  <1>1. windows \in Nat /\ fan_in = windows - 1 /\ ENCODED * windows <= (cap * 3) \div 4
    BY Budgets
  <1>2. q \in Nat /\ (n + 1) * q <= windows
    BY <1>1, DivIs
  <1>3. merge_window_samples(n) = Larger(q, 1)
    BY DEF merge_window_samples
  <1>4. merge_window_samples(n) \in Nat /\ merge_window_samples(n) >= 1
    BY <1>2, <1>3 DEF Larger
  <1>5. ASSUME n <= fan_in
        PROVE  (n + 1) * merge_window_samples(n) * ENCODED <= (cap * 3) \div 4
    <2>1. q >= 1
      <3>1. n + 1 <= windows /\ n + 1 \in Nat \ {0}
        BY <1>1, <1>5
      <3> QED
        BY <1>1, <3>1, DivOne
    <2>2. merge_window_samples(n) = q
      BY <1>2, <1>3, <2>1 DEF Larger
    <2> DEFINE p == (n + 1) * q
    <2>3. p \in Nat /\ p <= windows
      BY <1>2
    <2> HIDE DEF q, p
    <2>4. p * ENCODED <= windows * ENCODED
      BY <1>1, <2>3, BudgetAssumption
    <2>5. windows * ENCODED = ENCODED * windows
      BY <1>1, BudgetAssumption
    <2>6. p * ENCODED \in Nat /\ (cap * 3) \div 4 \in Nat /\ ENCODED * windows \in Nat
      BY <1>1, <2>3, BudgetAssumption, Budgets
    <2>7. p * ENCODED <= (cap * 3) \div 4
      BY <1>1, <2>4, <2>5, <2>6
    <2> QED
      BY <2>2, <2>7 DEF p
  <1> QED
    BY <1>4, <1>5

\* The ring is at least as large as the count it is declared for.
Doubling(n, K, p) ==
    p = [k \in K |-> IF k = 0 THEN 1 ELSE IF p[k - 1] < n THEN 2 * p[k - 1] ELSE p[k - 1]]

LEMMA DoublingExists ==
    ASSUME NEW n \in Nat
    PROVE  \A m \in Nat : \E p : Doubling(n, 0 .. m, p)
  <1> DEFINE P == {m \in Nat : \E p : Doubling(n, 0 .. m, p)}
  <1>1. 0 \in P
    <2> DEFINE p == [k \in 0 .. 0 |-> 1]
    <2>1. \A k \in 0 .. 0 : k = 0
      OBVIOUS
    <2>2. Doubling(n, 0 .. 0, p)
      BY <2>1 DEF Doubling
    <2> QED
      BY <2>2
  <1>2. ASSUME NEW m \in Nat, m \in P PROVE m + 1 \in P
    <2>1. PICK p : Doubling(n, 0 .. m, p)
      BY <1>2
    <2> DEFINE top == IF p[m] < n THEN 2 * p[m] ELSE p[m]
               q == [k \in 0 .. m + 1 |-> IF k = m + 1 THEN top ELSE p[k]]
    <2>2. ASSUME NEW k \in 0 .. m + 1
          PROVE  q[k] = IF k = 0 THEN 1 ELSE IF q[k - 1] < n THEN 2 * q[k - 1] ELSE q[k - 1]
      <3>1. CASE k = m + 1
        <4>1. k - 1 = m /\ k # 0 /\ k - 1 \in 0 .. m + 1 /\ m # m + 1
          BY <1>2, <3>1
        <4>2. q[k] = top /\ q[k - 1] = p[m]
          BY <3>1, <4>1
        <4> HIDE DEF q
        <4> QED
          BY <4>1, <4>2
      <3>2. CASE k # m + 1
        <4>1. k \in 0 .. m /\ q[k] = p[k]
          BY <1>2, <3>2
        <4>2. k # 0 => q[k - 1] = p[k - 1]
          BY <1>2, <4>1
        <4>3. p[k] = IF k = 0 THEN 1 ELSE IF p[k - 1] < n THEN 2 * p[k - 1] ELSE p[k - 1]
          BY <2>1, <4>1 DEF Doubling
        <4> HIDE DEF q
        <4> QED
          BY <4>1, <4>2, <4>3
      <3> QED
        BY <3>1, <3>2
    <2>3. q = [k \in 0 .. m + 1 |-> q[k]]
      OBVIOUS
    <2>4. Doubling(n, 0 .. m + 1, q)
      <3> HIDE DEF q
      <3> QED
        BY <2>2, <2>3 DEF Doubling
    <2> QED
      BY <1>2, <2>4
  <1>3. \A m \in Nat : m \in P
    <2> HIDE DEF P
    <2> QED
      BY <1>1, <1>2, NatInduct
  <1> QED
    BY <1>3

LEMMA PowerIs ==
    ASSUME NEW n \in Nat
    PROVE  next_pow2(n) \in Nat /\ n <= next_pow2(n)
  <1> DEFINE p == CHOOSE f : Doubling(n, 0 .. n, f)
  <1>1. Doubling(n, 0 .. n, p)
    BY DoublingExists
  <1>2. next_pow2(n) = p[n]
    BY DEF next_pow2, Doubling
  <1> HIDE DEF p
  <1> DEFINE P == {k \in Nat : k <= n => p[k] \in Nat /\ (p[k] >= n \/ p[k] >= k + 1)}
  <1>3. 0 \in P
    BY <1>1 DEF Doubling
  <1>4. ASSUME NEW k \in Nat, k \in P PROVE k + 1 \in P
    <2> SUFFICES ASSUME k + 1 <= n
                 PROVE  /\ p[k + 1] \in Nat
                        /\ p[k + 1] >= n \/ p[k + 1] >= (k + 1) + 1
      BY <1>4
    <2>1. p[k] \in Nat /\ (p[k] >= n \/ p[k] >= k + 1)
      BY <1>4
    <2>2. k + 1 \in 0 .. n /\ k + 1 # 0 /\ (k + 1) - 1 = k
      BY <1>4
    <2>3. p[k + 1] = IF p[k] < n THEN 2 * p[k] ELSE p[k]
      BY <1>1, <2>2 DEF Doubling
    <2> QED
      BY <1>4, <2>1, <2>3
  <1>5. n \in P
    <2> HIDE DEF P
    <2> QED
      BY <1>3, <1>4, NatInduct
  <1> QED
    BY <1>2, <1>5

-------------------------------------------------------------------------------
(* What the invariant says. *)

LEMMA InvFilledRight == IInv => FilledRight
  <1> SUFFICES ASSUME IInv PROVE FilledRight
    OBVIOUS
  <1>1. ASSUME pc = "done", NEW e \in Edges PROVE arena[e] = Reference(e)
    <2>1. groups = <<>> /\ DOMAIN buffers = {} /\ ~Spilling
      BY <1>1 DEF IInv, Phases, Shares, Buffered, Spilling
    <2>2. Covers(groups) = {}
      BY <2>1 DEF Covers
    <2> QED
      BY <1>1, <2>1, <2>2 DEF IInv, Phases, Shares
  <1> QED
    BY <1>1 DEF IInv, Filled, FilledRight

LEMMA InvNoLap == IInv => NoLap
  <1> SUFFICES ASSUME IInv, NEW e \in Edges
               PROVE  \/ Len(arena[e]) <= retained(Slots(e))
                      \/ Len(arena[e]) = Slots(e) /\ Slots(e) = edges[e].samples
    BY DEF NoLap
  <1>1. edges[e].samples \in Nat /\ Len(arena[e]) \in Nat
    <2>1. edges[e] \in EdgeSurvey /\ arena[e] \in Seq(Sample)
      BY DEF IInv, Types
    <2> QED
      BY <2>1 DEF EdgeSurvey
  <1>2. Len(arena[e]) <= edges[e].samples
    BY DEF IInv, Filled
  <1>3. Slots(e) \in Nat /\ edges[e].samples <= Slots(e)
    BY <1>1, PowerIs DEF Slots
  \* A ring filled to its last slot leaves its count no room.
  <1>4. CASE Len(arena[e]) = Slots(e)
    BY <1>1, <1>2, <1>3, <1>4
  \* Any other ring has a slot to spare, the one a reader may not touch.
  <1>5. CASE Len(arena[e]) # Slots(e)
    <2>1. Len(arena[e]) <= Slots(e) - 1
      BY <1>1, <1>2, <1>3, <1>5
    <2> QED
      BY <2>1, <1>1, <1>3 DEF retained
  <1> QED
    BY <1>4, <1>5

\* The survey has counted every sample of an edge.
LEMMA CountedAll ==
    ASSUME Types, Counts, at = Len(recording) + 1, NEW e \in Edges
    PROVE  edges[e].samples = Cardinality(Kept(e)) /\ edges[e].samples \in Nat
  <1>1. \A i \in Kept(e) : i < at
    BY KeptIs DEF Types
  <1>2. {i \in Kept(e) : i < at} = Kept(e)
    BY <1>1
  <1>3. edges[e] \in EdgeSurvey
    BY DEF Types
  <1> QED
    BY <1>2, <1>3 DEF Counts, EdgeSurvey

LEMMA InvWithinCap == IInv => WithinCap
  <1> SUFFICES ASSUME IInv PROVE Resident <= cap
    BY DEF WithinCap
  <1>0. max_memory \in Nat
    BY DEF IInv, Types
  <1>1. /\ cap \in Nat /\ staging \in Nat /\ (3 * cap) \div 4 + 2 * staging <= cap
        /\ 2 * ENCODED * spill_budget + staging <= cap /\ (cap * 3) \div 4 = (3 * cap) \div 4
        /\ (3 * cap) \div 4 \in Nat
    <2>1. cap \in Nat
      BY <1>0, Budgets
    <2> QED
      BY <1>0, <2>1, Budgets
  <1> DEFINE n == Len(readers)
             W == (n + 1) * merge_window_samples(n) * ENCODED
  <1>2. ASSUME pc \in {"reduce", "merge"} PROVE W + 2 * staging <= cap /\ W \in Nat
    <2>1. n \in Nat /\ n <= fan_in
      BY <1>2 DEF IInv, Phases, ReduceRight, MergeRight, Merging
    <2>2. W <= (cap * 3) \div 4 /\ merge_window_samples(n) \in Nat
      BY <1>0, <2>1, WindowIs
    <2>3. W \in Nat
      BY <2>1, <2>2, BudgetAssumption
    <2> QED
      BY <1>1, <2>2, <2>3
  <1>3. CASE pc = "sort"
    <2> DEFINE D == DOMAIN buffers
               held == [e \in D |-> ENCODED * Len(buffers[e])]
    <2>1. /\ D # {} /\ D \subseteq Edges /\ Fits(D)
          /\ \A e \in D : buffers[e] = SamplesOf(e)
      BY <1>3 DEF IInv, Phases, Buffered
    <2>2. ASSUME NEW e \in D PROVE ENCODED * Len(buffers[e]) = Bytes(e) /\ Bytes(e) \in Nat
      <3>1. e \in Edges /\ buffers[e] = SamplesOf(e) /\ recording \in Seq(Record)
        BY <2>1 DEF IInv, Types
      <3>2. Len(buffers[e]) = Cardinality(Kept(e))
        BY <3>1, SamplesRead
      <3>3. edges[e].samples = Cardinality(Kept(e)) /\ edges[e].samples \in Nat
        BY <1>3, <3>1, CountedAll DEF IInv, Phases
      <3> QED
        BY <3>2, <3>3, BudgetAssumption DEF Bytes
    <2>3. held = [e \in D |-> Bytes(e)]
      BY <2>2
    <2>4. Resident = SumFunction(held) + Max(Range(held))
      BY <1>3 DEF Resident
    <2>5. Range(held) = {Bytes(e) : e \in D}
      BY <2>3 DEF Range
    <2> HIDE DEF D, held
    <2>6. PICK e \in D : Max(Range(held)) = Bytes(e)
      <3>1. IsFiniteSet(D)
        BY <2>1, RecordingAssumption, FS_Subset
      <3>2. IsFiniteSet(Range(held)) /\ Range(held) \subseteq Nat /\ Range(held) # {}
        <4>1. held \in Surjection(D, Range(held))
          BY <2>3, <2>5 DEF Surjection
        <4>2. IsFiniteSet(Range(held))
          BY <3>1, <4>1, FS_Surjection
        <4> QED
          BY <2>1, <2>2, <2>5, <4>2
      <3>3. Max(Range(held)) \in Range(held)
        BY <3>2, MaxIs
      <3> QED
        BY <2>5, <3>3
    <2>7. Load(D) + Bytes(e) <= cap
      BY <2>1 DEF Fits
    <2> QED
      BY <2>3, <2>4, <2>6, <2>7 DEF Load
  <1>4. CASE pc = "spill"
    <2>1. Resident = 2 * ENCODED * spill_budget + staging
      BY <1>4 DEF Resident
    <2> QED
      BY <1>1, <2>1
  <1>5. CASE pc = "reduce"
    <2>1. Resident = W + 2 * staging
      BY <1>5 DEF Resident
    <2> QED
      BY <1>2, <1>5, <2>1
  <1>6. CASE pc = "merge"
    <2>1. Resident = W + staging
      BY <1>6 DEF Resident
    <2>2. W + 2 * staging <= cap /\ W \in Nat
      BY <1>2, <1>6
    <2> HIDE DEF W
    <2> QED
      BY <1>1, <2>1, <2>2
  <1>7. CASE pc \notin {"sort", "spill", "reduce", "merge"}
    <2>1. Resident = 0
      BY <1>7 DEF Resident
    <2> QED
      BY <1>1, <2>1
  <1> QED
    BY <1>3, <1>4, <1>5, <1>6, <1>7

-------------------------------------------------------------------------------
(* Chains of runs, and open merges. *)

LEMMA ChainedEmpty == Chained(<<>>) /\ Els(<<>>) = {}
  BY DEF Chained, Els

LEMMA ElsIs ==
    ASSUME NEW ss, NEW x
    PROVE  x \in Els(ss) <=> \E i \in 1 .. Len(ss) : x \in Range(ss[i])
  BY DEF Els

LEMMA ChainedAppend ==
    ASSUME NEW ss, Chained(ss), NEW s, Sorted(s), Earlier(Els(ss), Range(s))
    PROVE  Chained(Append(ss, s)) /\ Els(Append(ss, s)) = Els(ss) \cup Range(s)
  <1> DEFINE n == Len(ss)
             tt == Append(ss, s)
  <1>0. ss \in Seq(Seq(Sample)) /\ s \in Seq(Sample) /\ n \in Nat
    BY DEF Chained, Sorted
  <1>1. /\ tt \in Seq(Seq(Sample)) /\ Len(tt) = n + 1
        /\ \A i \in 1 .. n : tt[i] = ss[i]
        /\ tt[n + 1] = s
    BY <1>0
  <1> HIDE DEF tt
  <1>2. ASSUME NEW i \in 1 .. n + 1 PROVE Sorted(tt[i]) /\ (i = n + 1 \/ i \in 1 .. n)
    <2>1. CASE i = n + 1
      BY <1>1, <2>1
    <2>2. CASE i # n + 1
      <3>1. i \in 1 .. n
        BY <1>0, <2>2
      <3> QED
        BY <1>1, <3>1 DEF Chained
    <2> QED
      BY <2>1, <2>2
  <1>3. ASSUME NEW i \in 1 .. n + 1, NEW j \in 1 .. n + 1, i < j
        PROVE  Earlier(Range(tt[i]), Range(tt[j]))
    <2>1. i \in 1 .. n /\ tt[i] = ss[i]
      BY <1>0, <1>1, <1>3
    <2>2. CASE j = n + 1
      BY <1>1, <2>1, <2>2 DEF Earlier, Els
    <2>3. CASE j \in 1 .. n
      BY <1>1, <1>3, <2>1, <2>3 DEF Chained
    <2> QED
      BY <1>2, <2>2, <2>3
  <1>4. ASSUME NEW x
        PROVE  (\E i \in 1 .. n + 1 : x \in Range(tt[i]))
                    <=> (\E i \in 1 .. n : x \in Range(ss[i])) \/ x \in Range(s)
    <2>1. n + 1 \in 1 .. n + 1 /\ 1 .. n \subseteq 1 .. n + 1
      BY <1>0
    <2> QED
      BY <1>1, <1>2, <2>1
  <1>5. Els(tt) = Els(ss) \cup Range(s)
    BY <1>1, <1>4, ElsIs
  <1>6. Chained(tt)
    BY <1>1, <1>2, <1>3 DEF Chained
  <1> QED
    BY <1>5, <1>6 DEF tt

LEMMA ChainedSplit ==
    ASSUME NEW ss, Chained(ss), NEW n \in Nat
    PROVE  /\ Chained(First(ss, n)) /\ Chained(After(ss, n))
           /\ Earlier(Els(First(ss, n)), Els(After(ss, n)))
           /\ Els(ss) = Els(First(ss, n)) \cup Els(After(ss, n))
           /\ Len(First(ss, n)) <= n
  <1> DEFINE t == First(ss, n)
             u == After(ss, n)
  <1>0. ss \in Seq(Seq(Sample)) /\ Len(ss) \in Nat
    BY DEF Chained
  <1>1. /\ t \in Seq(Seq(Sample)) /\ u \in Seq(Seq(Sample))
        /\ Len(t) \in Nat /\ Len(u) \in Nat
        /\ Len(t) + Len(u) = Len(ss)
        /\ \A k \in 1 .. Len(t) : t[k] = ss[k]
        /\ \A k \in 1 .. Len(u) : u[k] = ss[k + Len(t)]
        /\ Len(t) <= n
    <2>1. Len(t) = Smaller(n, Len(ss))
      BY <1>0, FirstAfter
    <2>2. Len(t) <= n
      BY <1>0, <2>1 DEF Smaller
    <2>3. /\ t \in Seq(Seq(Sample)) /\ u \in Seq(Seq(Sample))
          /\ Len(t) + Len(u) = Len(ss)
          /\ \A k \in 1 .. Len(t) : t[k] = ss[k]
          /\ \A k \in 1 .. Len(u) : u[k] = ss[k + Len(t)]
      BY <1>0, FirstAfter
    <2> HIDE DEF t, u
    <2> QED
      BY <2>2, <2>3
  <1> HIDE DEF t, u
  <1>2. \A k \in 1 .. Len(t) : k \in 1 .. Len(ss)
    BY <1>0, <1>1
  <1>3. \A k \in 1 .. Len(u) : k + Len(t) \in 1 .. Len(ss)
    BY <1>0, <1>1
  <1>4. Chained(t)
    <2>1. \A i \in 1 .. Len(t) : Sorted(t[i])
      BY <1>1, <1>2 DEF Chained
    <2>2. ASSUME NEW i \in 1 .. Len(t), NEW j \in 1 .. Len(t), i < j
          PROVE  Earlier(Range(t[i]), Range(t[j]))
      BY <1>1, <1>2, <2>2 DEF Chained
    <2> QED
      BY <1>1, <2>1, <2>2 DEF Chained
  <1>5. Chained(u)
    <2>1. \A i \in 1 .. Len(u) : Sorted(u[i])
      BY <1>1, <1>3 DEF Chained
    <2>2. ASSUME NEW i \in 1 .. Len(u), NEW j \in 1 .. Len(u), i < j
          PROVE  Earlier(Range(u[i]), Range(u[j]))
      <3>1. i + Len(t) < j + Len(t)
        BY <1>1, <2>2
      <3> QED
        BY <1>1, <1>3, <3>1 DEF Chained
    <2> QED
      BY <1>1, <2>1, <2>2 DEF Chained
  <1>6. Earlier(Els(t), Els(u))
    <2>1. ASSUME NEW i \in 1 .. Len(t), NEW j \in 1 .. Len(u)
          PROVE  Earlier(Range(t[i]), Range(u[j]))
      <3>1. i < j + Len(t)
        BY <1>1
      <3> QED
        BY <1>1, <1>2, <1>3, <3>1 DEF Chained
    <2> QED
      BY <2>1, ElsIs DEF Earlier
  <1>7. ASSUME NEW x
        PROVE  (\E i \in 1 .. Len(ss) : x \in Range(ss[i]))
                    <=> \/ \E i \in 1 .. Len(t) : x \in Range(t[i])
                        \/ \E i \in 1 .. Len(u) : x \in Range(u[i])
    <2>1. ASSUME NEW i \in 1 .. Len(ss), x \in Range(ss[i])
          PROVE  \/ \E k \in 1 .. Len(t) : x \in Range(t[k])
                 \/ \E k \in 1 .. Len(u) : x \in Range(u[k])
      <3>1. CASE i <= Len(t)
        <4>1. i \in 1 .. Len(t)
          BY <1>1, <3>1
        <4> QED
          BY <1>1, <2>1, <4>1
      <3>2. CASE ~(i <= Len(t))
        <4>1. i - Len(t) \in 1 .. Len(u) /\ (i - Len(t)) + Len(t) = i
          BY <1>0, <1>1, <3>2
        <4>2. u[i - Len(t)] = ss[i]
          BY <1>1, <4>1
        <4> QED
          BY <2>1, <4>1, <4>2
      <3> QED
        BY <3>1, <3>2
    <2> QED
      BY <1>1, <1>2, <1>3, <2>1
  <1>8. Els(ss) = Els(t) \cup Els(u)
    BY <1>7, ElsIs
  <1>9. /\ Chained(t) /\ Chained(u) /\ Earlier(Els(t), Els(u))
        /\ Els(ss) = Els(t) \cup Els(u) /\ Len(t) <= n
    BY <1>1, <1>4, <1>5, <1>6, <1>8
  <1> QED
    BY <1>9 DEF t, u

\* A spent window is filled again and nothing that is left is lost.
LEMMA RefillIs ==
    ASSUME NEW rd \in Reader, NEW w \in Nat, w >= 1
    PROVE  /\ refill(rd, w) \in Reader
           /\ refill(rd, w).window = <<>> => refill(rd, w).left = <<>>
           /\ refill(rd, w).window \o refill(rd, w).left = rd.window \o rd.left
  <1>0. rd.window \in Seq(Sample) /\ rd.left \in Seq(Sample)
    BY DEF Reader
  <1>1. CASE rd.window # <<>>
    BY <1>1 DEF refill
  <1>2. CASE rd.window = <<>>
    <2>1. refill(rd, w) = [window |-> First(rd.left, w), left |-> After(rd.left, w)]
      BY <1>2 DEF refill
    <2>2. /\ First(rd.left, w) \in Seq(Sample) /\ After(rd.left, w) \in Seq(Sample)
          /\ First(rd.left, w) \o After(rd.left, w) = rd.left
          /\ Len(First(rd.left, w)) = Smaller(w, Len(rd.left))
          /\ Len(First(rd.left, w)) + Len(After(rd.left, w)) = Len(rd.left)
      BY <1>0, FirstAfter
    <2>3. First(rd.left, w) = <<>> => After(rd.left, w) = <<>>
      <3> SUFFICES ASSUME First(rd.left, w) = <<>> PROVE After(rd.left, w) = <<>>
        OBVIOUS
      <3>1. Len(First(rd.left, w)) = 0
        OBVIOUS
      <3>2. Len(rd.left) = 0
        BY <1>0, <2>2, <3>1 DEF Smaller
      <3>3. Len(After(rd.left, w)) = 0
        BY <2>2, <3>1, <3>2
      <3> QED
        BY <2>2, <3>3
    <2>4. <<>> \o rd.left = rd.left
      BY <1>0
    <2> QED
      BY <1>2, <2>1, <2>2, <2>3, <2>4 DEF Reader
  <1> QED
    BY <1>1, <1>2

LEMMA TailConcat ==
    ASSUME NEW S, NEW s \in Seq(S), NEW t \in Seq(S), s # <<>>
    PROVE  /\ s \o t \in Seq(S) /\ s \o t # <<>> /\ (s \o t)[1] = s[1]
           /\ Tail(s) \in Seq(S) /\ Tail(s \o t) = Tail(s) \o t
  <1>1. Len(s) \in Nat /\ Len(s) >= 1 /\ Len(t) \in Nat
    OBVIOUS
  <1>2. s \o t \in Seq(S) /\ Len(s \o t) = Len(s) + Len(t)
    OBVIOUS
  <1>3. s \o t # <<>> /\ (s \o t)[1] = s[1]
    BY <1>1, <1>2
  <1>4. Tail(s) \in Seq(S) /\ Len(Tail(s)) = Len(s) - 1
        /\ \A k \in 1 .. Len(s) - 1 : Tail(s)[k] = s[k + 1]
    OBVIOUS
  <1> DEFINE a == Tail(s \o t)
             b == Tail(s) \o t
             n == Len(s) + Len(t) - 1
  <1>5. a \in Seq(S) /\ Len(a) = n /\ \A k \in 1 .. n : a[k] = (s \o t)[k + 1]
    BY <1>1, <1>2, <1>3
  <1>6. b \in Seq(S) /\ Len(b) = n
    BY <1>1, <1>4
  <1>7. ASSUME NEW k \in 1 .. n PROVE a[k] = b[k]
    <2>1. CASE k <= Len(s) - 1
      <3>1. b[k] = Tail(s)[k] /\ k \in 1 .. Len(s) - 1
        BY <1>1, <1>4, <2>1
      <3>2. (s \o t)[k + 1] = s[k + 1]
        BY <1>1, <2>1
      <3> QED
        BY <1>4, <1>5, <3>1, <3>2
    <2>2. CASE ~(k <= Len(s) - 1)
      <3>1. b[k] = t[k - (Len(s) - 1)]
        BY <1>1, <1>4, <2>2
      <3>2. (s \o t)[k + 1] = t[(k + 1) - Len(s)]
        BY <1>1, <2>2
      <3>3. k - (Len(s) - 1) = (k + 1) - Len(s)
        BY <1>1
      <3> QED
        BY <1>5, <3>1, <3>2, <3>3
    <2> QED
      BY <2>1, <2>2
  <1>8. a = b
    <2> HIDE DEF a, b
    <2> QED
      BY <1>1, <1>5, <1>6, <1>7
  <1> QED
    BY <1>2, <1>3, <1>4, <1>8

\* A merge that is opened has its runs before it.
LEMMA OpenIs ==
    ASSUME max_memory \in Nat, NEW ss, Chained(ss), Len(ss) <= fan_in
    PROVE  Merging(merge_runs(ss)) /\ Whole(merge_runs(ss)) = ss
  <1> DEFINE n == Len(ss)
             w == merge_window_samples(n)
             Rd(i) == [window |-> <<>>, left |-> ss[i]]
             rds == merge_runs(ss)
  <1>0. ss \in Seq(Seq(Sample)) /\ n \in Nat /\ DOMAIN ss = 1 .. n
    BY DEF Chained
  <1>1. w \in Nat /\ w >= 1
    BY <1>0, WindowIs
  <1>2. rds = [i \in 1 .. n |-> refill(Rd(i), w)]
    BY <1>0 DEF merge_runs
  <1> HIDE DEF w, rds
  <1>3. ASSUME NEW i \in 1 .. n
        PROVE  /\ rds[i] \in Reader /\ (rds[i].window = <<>> => rds[i].left = <<>>)
               /\ rds[i].window \o rds[i].left = ss[i]
    <2>1. ss[i] \in Seq(Sample)
      BY <1>0
    <2>2. Rd(i) \in Reader /\ Rd(i).window \o Rd(i).left = ss[i]
      BY <2>1 DEF Reader
    <2> HIDE DEF Rd
    <2>3. rds[i] = refill(Rd(i), w)
      BY <1>2
    <2> QED
      BY <1>1, <2>2, <2>3, RefillIs
  <1>4. rds \in Seq(Reader) /\ Len(rds) = n
    <2>1. rds \in [1 .. n -> Reader]
      <3> HIDE DEF Rd
      <3> QED
        BY <1>2, <1>3
    <2> HIDE DEF n
    <2> QED
      BY <1>0, <2>1
  <1>5. Whole(rds) = ss
    <2>1. Whole(rds) = [i \in 1 .. n |-> ss[i]]
      BY <1>3, <1>4 DEF Whole
    <2>2. ss = [i \in 1 .. n |-> ss[i]]
      BY <1>0
    <2> QED
      BY <2>1, <2>2
  <1>6. Merging(rds) /\ Whole(rds) = ss
    BY <1>3, <1>4, <1>5 DEF Merging
  <1> QED
    BY <1>6 DEF rds

LEMMA WholeIs ==
    ASSUME NEW rds, Merging(rds)
    PROVE  /\ rds \in Seq(Reader) /\ Len(rds) \in Nat
           /\ DOMAIN rds = 1 .. Len(rds)
           /\ Len(Whole(rds)) = Len(rds)
           /\ \A i \in 1 .. Len(rds) :
                 /\ Whole(rds)[i] = rds[i].window \o rds[i].left
                 /\ rds[i].window \in Seq(Sample) /\ rds[i].left \in Seq(Sample)
                 /\ Sorted(Whole(rds)[i])
                 /\ Whole(rds)[i] # <<>> <=> rds[i].window # <<>>
  <1>1. rds \in Seq(Reader) /\ Len(rds) \in Nat /\ DOMAIN rds = 1 .. Len(rds)
    BY DEF Merging
  <1>2. Len(Whole(rds)) = Len(rds)
    BY <1>1 DEF Whole
  <1>3. ASSUME NEW i \in 1 .. Len(rds)
        PROVE  /\ Whole(rds)[i] = rds[i].window \o rds[i].left
               /\ rds[i].window \in Seq(Sample) /\ rds[i].left \in Seq(Sample)
               /\ Sorted(Whole(rds)[i])
               /\ Whole(rds)[i] # <<>> <=> rds[i].window # <<>>
    <2>1. Whole(rds)[i] = rds[i].window \o rds[i].left
      BY DEF Whole
    <2>2. rds[i].window \in Seq(Sample) /\ rds[i].left \in Seq(Sample)
      <3>1. rds[i] \in Reader
        BY <1>1
      <3> QED
        BY <3>1 DEF Reader
    <2>3. Sorted(Whole(rds)[i])
      BY <1>2 DEF Merging, Chained
    <2>4. rds[i].window = <<>> => Whole(rds)[i] = <<>>
      BY <2>1, <2>2 DEF Merging
    <2>5. rds[i].window # <<>> => Whole(rds)[i] # <<>>
      BY <2>1, <2>2, TailConcat
    <2> QED
      BY <2>1, <2>2, <2>3, <2>4, <2>5
  <1> QED
    BY <1>1, <1>2, <1>3

\* When no window has a sample there is nothing left.
LEMMA SpentIs ==
    ASSUME NEW rds, Merging(rds), \A i \in DOMAIN rds : rds[i].window = <<>>
    PROVE  Els(Whole(rds)) = {}
  <1>1. \A i \in 1 .. Len(rds) : Whole(rds)[i] = <<>>
    BY WholeIs
  <1>2. ASSUME NEW x, x \in Els(Whole(rds)) PROVE FALSE
    <2>1. PICK i \in 1 .. Len(rds) : x \in Range(Whole(rds)[i])
      BY <1>2, WholeIs, ElsIs
    <2>2. x \in Range(<<>>)
      BY <1>1, <2>1
    <2> QED
      BY <2>2 DEF Range
  <1> QED
    BY <1>2

\* The top of the heap precedes whatever else is left, and nothing else is taken.
Pops(i, s) ==
    /\ s \in Sample
    /\ Merging(Popped(i))
    /\ Els(Whole(readers)) = {s} \cup Els(Whole(Popped(i)))
    /\ \A y \in Els(Whole(Popped(i))) : Precedes(s, y)

LEMMA PopIs ==
    ASSUME max_memory \in Nat, Merging(readers), NEW i \in DOMAIN readers, Least(i)
    PROVE  Pops(i, readers[i].window[1])
  <1> DEFINE n == Len(readers)
             W == Whole(readers)
             w == merge_window_samples(n)
             s == readers[i].window[1]
             spent == [readers[i] EXCEPT !.window = Tail(@)]
             rds == Popped(i)
             V == Whole(rds)
  <1>0. /\ readers \in Seq(Reader) /\ n \in Nat /\ DOMAIN readers = 1 .. n /\ i \in 1 .. n
        /\ Len(W) = n
        /\ \A j \in 1 .. n :
              /\ W[j] = readers[j].window \o readers[j].left
              /\ readers[j].window \in Seq(Sample) /\ readers[j].left \in Seq(Sample)
              /\ Sorted(W[j])
              /\ W[j] # <<>> <=> readers[j].window # <<>>
    BY WholeIs
  <1>1. w \in Nat /\ w >= 1
    BY <1>0, WindowIs
  <1>2. readers[i].window # <<>>
    BY DEF Least
  <1>3. /\ \A j \in 1 .. n : readers[j].window # <<>> => W[j][1] = readers[j].window[1]
        /\ Tail(W[i]) = Tail(readers[i].window) \o readers[i].left
        /\ Tail(readers[i].window) \in Seq(Sample)
    <2>1. ASSUME NEW j \in 1 .. n, readers[j].window # <<>>
          PROVE  W[j][1] = readers[j].window[1]
      <3> DEFINE a == readers[j].window
                 b == readers[j].left
      <3>1. W[j] = a \o b /\ a \in Seq(Sample) /\ b \in Seq(Sample) /\ a # <<>>
        BY <1>0, <2>1
      <3> HIDE DEF a, b, W
      <3>2. W[j][1] = a[1]
        BY <3>1, TailConcat
      <3> QED
        BY <3>2 DEF a
    <2>2. /\ Tail(W[i]) = Tail(readers[i].window) \o readers[i].left
          /\ Tail(readers[i].window) \in Seq(Sample)
      <3> DEFINE a == readers[i].window
                 b == readers[i].left
      <3>1. W[i] = a \o b /\ a \in Seq(Sample) /\ b \in Seq(Sample) /\ a # <<>>
        BY <1>0, <1>2
      <3> HIDE DEF a, b, W
      <3>2. Tail(W[i]) = Tail(a) \o b /\ Tail(a) \in Seq(Sample)
        BY <3>1, TailConcat
      <3> QED
        BY <3>2 DEF a, b
    <2> QED
      BY <2>1, <2>2
  <1>4. rds = [readers EXCEPT ![i] = refill(spent, w)]
    BY DEF Popped
  <1>5. /\ spent \in Reader
        /\ spent.window = Tail(readers[i].window) /\ spent.left = readers[i].left
    <2>1. readers[i] \in Reader
      BY <1>0
    <2> QED
      BY <1>3, <2>1 DEF Reader
  <1>6. /\ refill(spent, w) \in Reader
        /\ refill(spent, w).window = <<>> => refill(spent, w).left = <<>>
        /\ refill(spent, w).window \o refill(spent, w).left = Tail(W[i])
    <2> HIDE DEF spent, w
    <2>1. /\ refill(spent, w) \in Reader
          /\ refill(spent, w).window = <<>> => refill(spent, w).left = <<>>
          /\ refill(spent, w).window \o refill(spent, w).left = spent.window \o spent.left
      BY <1>1, <1>5, RefillIs
    <2> QED
      BY <1>3, <1>5, <2>1
  <1> HIDE DEF w, spent, rds
  <1>7. /\ rds \in Seq(Reader) /\ Len(rds) = n
        /\ rds[i] = refill(spent, w)
        /\ \A j \in 1 .. n : j # i => rds[j] = readers[j]
    BY <1>0, <1>4, <1>6
  <1>8. /\ Len(V) = n /\ V[i] = Tail(W[i])
        /\ \A j \in 1 .. n : j # i => V[j] = W[j]
    <2>1. Len(V) = n
      BY <1>7 DEF Whole
    <2>2. \A j \in 1 .. n : V[j] = rds[j].window \o rds[j].left
      BY <1>7 DEF Whole
    <2> HIDE DEF V, W
    <2> QED
      BY <1>0, <1>6, <1>7, <2>1, <2>2
  <1>a. \A j \in 1 .. n : V[j] = rds[j].window \o rds[j].left
    BY <1>7 DEF Whole
  <1>b. V = [j \in 1 .. n |-> V[j]]
    BY <1>7 DEF Whole
  <1> HIDE DEF V, W
  <1>9. /\ Sorted(Tail(W[i])) /\ Range(W[i]) = {s} \cup Range(Tail(W[i])) /\ s \in Sample
        /\ \A y \in Range(Tail(W[i])) : Precedes(s, y)
    BY <1>0, <1>2, <1>3, SortedTail
  <1>c. \A j, k \in 1 .. n : j < k => Earlier(Range(W[j]), Range(W[k]))
    BY <1>0 DEF Merging, Chained, W
  <1>10. ASSUME NEW j \in 1 .. n, j # i, NEW y \in Range(W[j])
         PROVE  Precedes(s, y)
    <2>1. W[j] # <<>>
      BY DEF Range
    <2> DEFINE h == readers[j].window[1]
    <2>2. readers[j].window # <<>> /\ W[j][1] = h
      BY <1>0, <1>3, <2>1
    <2>3. /\ Range(W[j]) = {h} \cup Range(Tail(W[j])) /\ h \in Sample
          /\ \A z \in Range(Tail(W[j])) : Precedes(h, z)
      BY <1>0, <2>1, <2>2, SortedTail
    <2>4. s.stamp < h.stamp \/ (s.stamp = h.stamp /\ i <= j)
      BY <1>0, <2>2 DEF Least
    <2> HIDE DEF h, s
    <2>5. Precedes(s, h)
      <3>1. CASE s.stamp < h.stamp
        BY <3>1 DEF Precedes
      <3>2. CASE s.stamp = h.stamp /\ i <= j
        <4>1. i < j
          BY <1>0, <1>10, <3>2
        <4>2. Earlier(Range(W[i]), Range(W[j])) /\ s \in Range(W[i]) /\ h \in Range(W[j])
          BY <1>0, <1>9, <1>c, <2>3, <4>1
        <4> QED
          BY <3>2, <4>2 DEF Earlier, Precedes
      <3> QED
        BY <2>4, <3>1, <3>2
    <2>6. CASE y = h
      BY <2>5, <2>6
    <2>7. CASE y # h
      <3>1. y \in Range(Tail(W[j])) /\ Precedes(h, y)
        BY <2>3, <2>7
      <3>2. y \in Sample
        BY <1>0, RangeIs DEF Sorted
      <3> QED
        BY <1>9, <2>3, <2>5, <3>1, <3>2, PrecedesTransitive
    <2> QED
      BY <2>6, <2>7
  <1>11. \A j \in 1 .. n : Range(V[j]) \subseteq Range(W[j]) /\ Sorted(V[j])
    BY <1>0, <1>8, <1>9
  <1>12. Chained(V)
    <2>1. V \in Seq(Seq(Sample))
      <3>1. \A j \in 1 .. n : V[j] \in Seq(Sample)
        BY <1>11 DEF Sorted
      <3> QED
        BY <1>0, <1>b, <3>1
    <2>2. ASSUME NEW j \in 1 .. n, NEW k \in 1 .. n, j < k
          PROVE  Earlier(Range(V[j]), Range(V[k]))
      <3>1. Earlier(Range(W[j]), Range(W[k]))
        BY <1>c, <2>2
      <3> QED
        BY <1>11, <3>1 DEF Earlier
    <2> QED
      BY <1>8, <1>11, <2>1, <2>2 DEF Chained
  <1>13. Merging(rds)
    <2>1. \A j \in 1 .. n : rds[j].window = <<>> => rds[j].left = <<>>
      BY <1>6, <1>7 DEF Merging
    <2>2. Chained(Whole(rds)) /\ n <= fan_in
      BY <1>12 DEF V, Merging
    <2> QED
      BY <1>7, <2>1, <2>2 DEF Merging
  <1>14. \A y \in Els(V) : Precedes(s, y)
    <2>1. ASSUME NEW j \in 1 .. n, NEW y \in Range(V[j]) PROVE Precedes(s, y)
      <3>1. CASE j = i
        BY <1>8, <1>9, <3>1
      <3>2. CASE j # i
        BY <1>8, <1>10, <3>2
      <3> QED
        BY <3>1, <3>2
    <2> QED
      BY <1>8, <2>1, ElsIs
  <1>15. Els(W) = {s} \cup Els(V)
    <2>1. ASSUME NEW x
          PROVE  (\E j \in 1 .. n : x \in Range(W[j]))
                      <=> (x = s \/ \E j \in 1 .. n : x \in Range(V[j]))
      <3>1. ASSUME NEW j \in 1 .. n, x \in Range(W[j])
            PROVE  x = s \/ \E k \in 1 .. n : x \in Range(V[k])
        <4>1. j # i => x \in Range(V[j])
          BY <1>8, <3>1
        <4>2. j = i => x = s \/ x \in Range(V[i])
          BY <1>8, <1>9, <3>1
        <4> QED
          BY <1>0, <4>1, <4>2
      <3>2. s \in Range(W[i])
        BY <1>9
      <3> HIDE DEF s
      <3> QED
        BY <1>0, <1>11, <3>1, <3>2
    <2> HIDE DEF s
    <2> QED
      BY <1>0, <1>8, <2>1, ElsIs
  <1>16. /\ Merging(rds) /\ s \in Sample /\ Els(W) = {s} \cup Els(V)
         /\ \A y \in Els(V) : Precedes(s, y)
    BY <1>9, <1>13, <1>14, <1>15
  <1> QED
    BY <1>16 DEF Pops, rds, V, W

-------------------------------------------------------------------------------
(* The plan. *)

LEMMA BytesIs ==
    ASSUME Types, NEW e \in Edges
    PROVE  Bytes(e) \in Nat /\ edges[e].samples \in Nat /\ edges[e] \in EdgeSurvey
  <1>1. edges[e] \in EdgeSurvey
    BY DEF Types
  <1>2. edges[e].samples \in Nat
    BY <1>1 DEF EdgeSurvey
  <1> QED
    BY <1>1, <1>2, BudgetAssumption DEF Bytes

LEMMA LoadIs ==
    ASSUME Types, NEW S \in SUBSET Edges
    PROVE  /\ Load({}) = 0 /\ Load(S) \in Nat
           /\ \A e \in S : Load(S \ {e}) \in Nat /\ Load(S) = Bytes(e) + Load(S \ {e})
  <1> DEFINE w == [e \in S |-> Bytes(e)]
  <1>1. IsFiniteSet(S) /\ w \in [S -> Nat]
    <2>1. IsFiniteSet(S)
      BY RecordingAssumption, FS_Subset
    <2>2. \A e \in S : Bytes(e) \in Nat
      BY BytesIs
    <2> QED
      BY <2>1, <2>2
  <1>2. Load({}) = 0
    <2> DEFINE v == [e \in {} |-> Bytes(e)]
    <2>1. v \in [{} -> Nat]
      OBVIOUS
    <2>2. Load({}) = SumFunction(v)
      BY DEF Load
    <2> HIDE DEF v
    <2> QED
      BY <2>1, <2>2, SumEmpty
  <1>3. ASSUME NEW e \in S
        PROVE  Load(S) \in Nat /\ Load(S \ {e}) \in Nat /\ Load(S) = Bytes(e) + Load(S \ {e})
    <2> DEFINE v == [f \in S \ {e} |-> w[f]]
    <2>1. Load(S) = SumFunction(w)
      BY DEF Load
    <2>2. v = [f \in S \ {e} |-> Bytes(f)]
      OBVIOUS
    <2>3. Load(S \ {e}) = SumFunction(v)
      BY <2>2 DEF Load
    <2>4. w[e] = Bytes(e)
      OBVIOUS
    <2>5. /\ SumFunction(w) \in Nat /\ SumFunction(v) \in Nat
          /\ SumFunction(w) = w[e] + SumFunction(v)
      <3>1. v = [f \in S \ {e} |-> w[f]]
        OBVIOUS
      <3> HIDE DEF w, v
      <3> QED
        BY <1>1, <3>1, SumWithout
    <2> QED
      BY <2>1, <2>3, <2>4, <2>5
  <1>4. S = {} => Load(S) \in Nat
    BY <1>2
  <1> QED
    BY <1>2, <1>3, <1>4

LEMMA LoadWith ==
    ASSUME Types, NEW S \in SUBSET Edges, NEW e \in Edges \ S
    PROVE  Load(S \cup {e}) = Load(S) + Bytes(e) /\ Load(S) \in Nat
  <1> DEFINE T == S \cup {e}
  <1>1. T \in SUBSET Edges /\ e \in T /\ T \ {e} = S
    OBVIOUS
  <1>2. Load(T) = Bytes(e) + Load(T \ {e}) /\ Load(T \ {e}) \in Nat
    <2> HIDE DEF T
    <2> QED
      BY <1>1, LoadIs
  <1>3. Load(T) = Bytes(e) + Load(S) /\ Load(S) \in Nat
    BY <1>1, <1>2
  <1> QED
    BY <1>3, BytesIs

\* A group that an edge leaves fits all the more.
LEMMA FitsWithout ==
    ASSUME Types, NEW S \in SUBSET Edges, Fits(S), NEW e \in S, max_memory \in Nat
    PROVE  Fits(S \ {e})
  <1>1. ASSUME NEW f \in S \ {e} PROVE Load(S \ {e}) + Bytes(f) <= cap
    <2>1. Load(S) + Bytes(f) <= cap
      BY DEF Fits
    <2>2. /\ Load(S) = Bytes(e) + Load(S \ {e}) /\ Load(S \ {e}) \in Nat
          /\ Bytes(e) \in Nat /\ Bytes(f) \in Nat /\ cap \in Nat
      <3>1. e \in Edges /\ f \in Edges
        OBVIOUS
      <3> QED
        BY <3>1, LoadIs, BytesIs, Budgets
    <2> QED
      BY <2>1, <2>2
  <1> QED
    BY <1>1 DEF Fits

LEMMA PlansAppend ==
    ASSUME NEW gs, Plans(gs), NEW g \in Group, Planned(g), Covers(gs) \cap g.edges = {}
    PROVE  Plans(Append(gs, g)) /\ Covers(Append(gs, g)) = Covers(gs) \cup g.edges
  <1> DEFINE n == Len(gs)
             hs == Append(gs, g)
  <1>0. gs \in Seq(Group) /\ n \in Nat
    BY DEF Plans
  <1>1. /\ hs \in Seq(Group) /\ Len(hs) = n + 1
        /\ \A i \in 1 .. n : hs[i] = gs[i]
        /\ hs[n + 1] = g
    BY <1>0
  <1>2. /\ \A i \in 1 .. n + 1 : i \in 1 .. n \/ i = n + 1
        /\ 1 .. n \subseteq 1 .. n + 1 /\ n + 1 \in 1 .. n + 1
    BY <1>0
  <1> HIDE DEF hs, n
  <1>3. ASSUME NEW i \in 1 .. n PROVE gs[i].edges \cap g.edges = {}
    BY DEF Covers, n
  <1>4. \A i \in 1 .. n + 1 : Planned(hs[i])
    BY <1>1, <1>2 DEF Plans, n
  <1>5. ASSUME NEW i \in 1 .. n + 1, NEW j \in 1 .. n + 1, i # j
        PROVE  hs[i].edges \cap hs[j].edges = {}
    <2>1. CASE i \in 1 .. n /\ j \in 1 .. n
      BY <1>1, <1>5, <2>1 DEF Plans, n
    <2>2. CASE i \in 1 .. n /\ j = n + 1
      BY <1>1, <1>3, <2>2
    <2>3. CASE i = n + 1 /\ j \in 1 .. n
      BY <1>1, <1>3, <2>3
    <2> QED
      BY <1>2, <1>5, <2>1, <2>2, <2>3
  <1>6. Covers(hs) = Covers(gs) \cup g.edges
    <2>1. ASSUME NEW x
          PROVE  x \in Covers(hs) <=> \E i \in 1 .. n + 1 : x \in hs[i].edges
      BY <1>1 DEF Covers
    <2>2. ASSUME NEW x
          PROVE  x \in Covers(gs) <=> \E i \in 1 .. n : x \in gs[i].edges
      BY DEF Covers, n
    <2> QED
      BY <1>1, <1>2, <2>1, <2>2
  <1>7. Plans(hs)
    BY <1>1, <1>4, <1>5 DEF Plans
  <1> QED
    BY <1>6, <1>7 DEF hs

\* Packing has closed groups, and an open one that fits, for the edges of S.
Packs(acc, S) ==
    /\ Plans(acc.groups) /\ acc.cur \subseteq Edges
    /\ Covers(acc.groups) \cup acc.cur = S /\ Covers(acc.groups) \cap acc.cur = {}
    /\ \A e \in acc.cur : All(e) # {} /\ Bytes(e) <= acc.most
    /\ acc.bytes = Load(acc.cur) /\ acc.most \in Nat
    /\ acc.cur # {} => acc.bytes + acc.most <= cap

LEMMA FlushIs ==
    ASSUME Types, NEW acc, NEW S, Packs(acc, S)
    PROVE  Plans(Flushed(acc)) /\ Covers(Flushed(acc)) = S
  <1>1. CASE acc.cur = {}
    BY <1>1 DEF Packs, Flushed
  <1>2. CASE acc.cur # {}
    <2> DEFINE g == InMemory(acc.cur)
    <2>1. g \in Group /\ g.edges = acc.cur /\ ~g.spilled
      BY DEF Packs, InMemory, Group
    <2>2. ASSUME NEW e \in acc.cur PROVE Load(acc.cur) + Bytes(e) <= cap
      <3>1. Load(acc.cur) \in Nat /\ Bytes(e) \in Nat /\ cap \in Nat
        BY LoadIs, BytesIs, Budgets DEF Packs, Types
      <3>2. /\ Load(acc.cur) + acc.most <= cap /\ acc.most \in Nat
            /\ Bytes(e) <= acc.most
        BY <1>2 DEF Packs
      <3> QED
        BY <3>1, <3>2
    <2>3. Planned(g)
      BY <1>2, <2>1, <2>2 DEF Packs, Planned, Fits
    <2>4. Flushed(acc) = Append(acc.groups, g)
      BY <1>2 DEF Flushed
    <2> HIDE DEF g
    <2>5. Plans(acc.groups) /\ Covers(acc.groups) \cap g.edges = {}
      BY <2>1 DEF Packs
    <2>6. Plans(Flushed(acc)) /\ Covers(Flushed(acc)) = Covers(acc.groups) \cup g.edges
      BY <2>1, <2>3, <2>4, <2>5, PlansAppend
    <2> QED
      BY <2>1, <2>6 DEF Packs
  <1> QED
    BY <1>1, <1>2

LEMMA PackStep ==
    ASSUME Types, NEW acc, NEW S, Packs(acc, S), NEW e \in Edges, e \notin S, All(e) # {}
    PROVE  Packs(Pack(acc, e), S \cup {e})
  <1> DEFINE need == Bytes(e)
  <1>0. /\ need \in Nat /\ cap \in Nat /\ acc.most \in Nat
        /\ Load(acc.cur) \in Nat /\ acc.bytes = Load(acc.cur)
        /\ Load({}) = 0 /\ Load({e}) = need
    <2>1. need \in Nat /\ cap \in Nat
      BY BytesIs, Budgets DEF Types
    <2>2. acc.cur \in SUBSET Edges
      BY DEF Packs
    <2>3. Load(acc.cur) \in Nat /\ Load({}) = 0
      BY <2>2, LoadIs
    <2>4. Load({e}) = need
      <3>1. {e} \in SUBSET Edges /\ e \in {e} /\ {e} \ {e} = {}
        OBVIOUS
      <3>2. Load({e}) = Bytes(e) + Load({e} \ {e})
        BY <3>1, LoadIs
      <3> QED
        BY <2>1, <2>3, <3>1, <3>2
    <2> QED
      BY <2>1, <2>3, <2>4 DEF Packs
  <1> HIDE DEF need
  <1>f. Plans(Flushed(acc)) /\ Covers(Flushed(acc)) = S
    BY FlushIs
  <1>1. CASE 2 * need > cap
    <2> DEFINE g == Spilled(e)
               gs == Append(Flushed(acc), g)
    <2>1. g \in Group /\ g.edges = {e} /\ g.spilled
      BY DEF Spilled, Group
    <2>2. Planned(g)
      BY <2>1 DEF Planned
    <2> HIDE DEF g
    <2>3. Plans(gs) /\ Covers(gs) = S \cup {e}
      <3>1. Covers(Flushed(acc)) \cap g.edges = {}
        BY <1>f, <2>1
      <3>2. Plans(gs) /\ Covers(gs) = Covers(Flushed(acc)) \cup g.edges
        BY <1>f, <2>1, <2>2, <3>1, PlansAppend
      <3> QED
        BY <1>f, <2>1, <3>2
    <2>4. Pack(acc, e) = [groups |-> gs, cur |-> {}, bytes |-> 0, most |-> 0]
      BY <1>1 DEF Pack, need, g
    <2> HIDE DEF gs
    <2> QED
      BY <1>0, <2>3, <2>4 DEF Packs
  <1>2. CASE ~(2 * need > cap) /\ acc.bytes + need + Larger(acc.most, need) > cap
    <2>1. Pack(acc, e) = [groups |-> Flushed(acc), cur |-> {e}, bytes |-> need, most |-> need]
      BY <1>2 DEF Pack, need
    <2>2. need + need <= cap
      BY <1>0, <1>2
    <2>3. Bytes(e) = need
      BY DEF need
    <2> QED
      BY <1>0, <1>f, <2>1, <2>2, <2>3 DEF Packs
  <1>3. CASE ~(2 * need > cap) /\ ~(acc.bytes + need + Larger(acc.most, need) > cap)
    <2> DEFINE m == Larger(acc.most, need)
               T == acc.cur \cup {e}
    <2>1. Pack(acc, e) = [groups |-> acc.groups, cur |-> T, bytes |-> acc.bytes + need,
                          most |-> m]
      BY <1>3 DEF Pack, need
    <2>2. m \in Nat /\ acc.most <= m /\ need <= m
      BY <1>0 DEF Larger
    <2>3. acc.bytes + need + m <= cap
      BY <1>0, <1>3, <2>2
    <2>4. e \notin acc.cur /\ e \notin Covers(acc.groups)
      BY DEF Packs
    <2>5. Load(T) = acc.bytes + need
      <3>1. acc.cur \in SUBSET Edges /\ e \in Edges \ acc.cur
        BY <2>4 DEF Packs
      <3>2. Load(T) = Load(acc.cur) + Bytes(e)
        BY <3>1, LoadWith
      <3> QED
        BY <1>0, <3>2 DEF need
    <2>6. ASSUME NEW f \in T PROVE All(f) # {} /\ Bytes(f) <= m
      <3>1. CASE f = e
        BY <2>2, <3>1 DEF need
      <3>2. CASE f \in acc.cur
        <4>1. All(f) # {} /\ Bytes(f) <= acc.most /\ f \in Edges
          BY <3>2 DEF Packs
        <4>2. Bytes(f) \in Nat
          BY <4>1, BytesIs
        <4> HIDE DEF m
        <4> QED
          BY <1>0, <2>2, <4>1, <4>2
      <3> QED
        BY <3>1, <3>2
    <2>7. /\ T \subseteq Edges /\ Covers(acc.groups) \cup T = S \cup {e}
          /\ Covers(acc.groups) \cap T = {} /\ Plans(acc.groups)
      BY <2>4 DEF Packs
    <2> HIDE DEF m, T
    <2> QED
      BY <2>1, <2>2, <2>3, <2>5, <2>6, <2>7 DEF Packs
  <1> QED
    BY <1>1, <1>2, <1>3

\* The edges that are planned, from the largest.
Plannable == {e \in Edges : ~edges[e].fixed /\ edges[e].samples > 0}
BySize ==
    {p \in Edges \X Edges :
        \/ edges[p[1]].samples > edges[p[2]].samples
        \/ edges[p[1]].samples = edges[p[2]].samples /\ p[1] < p[2]}

LEMMA BySizeIs ==
    ASSUME NEW e \in Edges, NEW f \in Edges
    PROVE  <<e, f>> \in BySize <=> \/ edges[e].samples > edges[f].samples
                                   \/ edges[e].samples = edges[f].samples /\ e < f
  BY DEF BySize

LEMMA PackingLists ==
    ASSUME Types
    PROVE  Lists(BySize, Plannable, Packing)
  <1> DEFINE S == Plannable
             R == BySize
             Chosen(k) == CHOOSE x \in S : Cardinality({y \in S :
                              \/ edges[y].samples > edges[x].samples
                              \/ edges[y].samples = edges[x].samples /\ y < x}) = k - 1
             a == [k \in 1 .. Cardinality(S) |-> Chosen(k)]
  <1>0. S \subseteq Edges /\ IsFiniteSet(S)
        /\ \A x \in S : x \in Nat /\ edges[x].samples \in Nat
    <2>1. S \subseteq Edges
      BY DEF Plannable
    <2>2. IsFiniteSet(S)
      BY <2>1, RecordingAssumption, FS_Subset
    <2> QED
      BY <2>1, <2>2, BytesIs, RecordingAssumption
  <1>1. ASSUME NEW x \in S, NEW y \in S
        PROVE  <<y, x>> \in R <=> \/ edges[y].samples > edges[x].samples
                                  \/ edges[y].samples = edges[x].samples /\ y < x
    BY <1>0, BySizeIs
  <1>2. Orders(R, S)
    <2> HIDE DEF R, S
    <2>1. \A x \in S : <<x, x>> \notin R
      BY <1>0, <1>1
    <2>2. \A x, y \in S : x # y => <<x, y>> \in R \/ <<y, x>> \in R
      BY <1>0, <1>1
    <2>3. \A x, y, z \in S : <<x, y>> \in R /\ <<y, z>> \in R => <<x, z>> \in R
      BY <1>0, <1>1
    <2> QED
      BY <2>1, <2>2, <2>3 DEF Orders
  <1>3. ASSUME NEW k \in 1 .. Cardinality(S)
        PROVE  Chosen(k) \in S /\ Rank(R, S, Chosen(k)) = k - 1
    <2>1. \A x \in S : Under(R, S, x) = {y \in S : \/ edges[y].samples > edges[x].samples
                                                   \/ edges[y].samples = edges[x].samples
                                                      /\ y < x}
      BY <1>1 DEF Under
    <2>2. \E z \in S : Rank(R, S, z) = k - 1
      <3> HIDE DEF R, S
      <3> QED
        BY <1>0, <1>2, RankTaken
    <2>3. \E z \in S : Cardinality({y \in S : \/ edges[y].samples > edges[z].samples
                                              \/ edges[y].samples = edges[z].samples
                                                 /\ y < z}) = k - 1
      BY <2>1, <2>2 DEF Rank
    <2>4. /\ Chosen(k) \in S
          /\ Cardinality({y \in S : \/ edges[y].samples > edges[Chosen(k)].samples
                                    \/ edges[y].samples = edges[Chosen(k)].samples
                                       /\ y < Chosen(k)}) = k - 1
      BY <2>3
    <2> HIDE DEF R, S, Chosen
    <2> QED
      BY <2>1, <2>4 DEF Rank
  <1>4. Lists(R, S, a)
    <2>1. a \in [1 .. Cardinality(S) -> S]
      BY <1>3, Zenon
    <2>2. \A k \in 1 .. Cardinality(S) : Rank(R, S, a[k]) = k - 1
      <3> HIDE DEF R, Chosen
      <3> QED
        BY <1>3
    <2> HIDE DEF a, R, S
    <2> QED
      BY <1>0, <1>2, <2>1, <2>2, RanksList
  <1>5. Packing = a
    <2>1. Arranged(S, LAMBDA e, f : \/ edges[e].samples > edges[f].samples
                                    \/ edges[e].samples = edges[f].samples /\ e < f) = a
      BY Zenon DEF Arranged
    <2> QED
      BY <2>1, Zenon DEF Packing, Plannable
  <1> QED
    BY <1>4, <1>5

\* plan_groups puts every edge that has samples into exactly one group; a group
\* in memory fits the cap with the scratch of any of its sorts.
LEMMA PlanIs ==
    ASSUME Types, Counts, at = Len(recording) + 1
    PROVE  Plans(plan_groups) /\ Covers(plan_groups) = Plannable
  <1> DEFINE n == Cardinality(Plannable)
             seq == Packing
  <1>1. /\ n \in Nat /\ seq \in [1 .. n -> Plannable]
        /\ \A e \in Plannable : \E k \in 1 .. n : seq[k] = e
        /\ \A j, k \in 1 .. n : j < k => <<seq[j], seq[k]>> \in BySize
    <2>1. IsFiniteSet(Plannable)
      <3>1. Plannable \in SUBSET Edges
        BY DEF Plannable
      <3> QED
        BY <3>1, RecordingAssumption, FS_Subset
    <2> QED
      BY <2>1, PackingLists, FS_CardinalityType DEF Lists
  <1>2. plan_groups = Flushed(FoldLeft(Pack, Start, seq))
    BY DEF plan_groups, Start
  <1> HIDE DEF n, seq
  <1>3. \A j, k \in 1 .. n : j < k => seq[j] # seq[k]
    <2>1. \A e \in Edges : <<e, e>> \notin BySize
      <3>1. \A e \in Edges : e \in Nat /\ edges[e].samples \in Nat
        BY BytesIs, RecordingAssumption
      <3> QED
        BY <3>1, BySizeIs
    <2>2. Plannable \subseteq Edges
      BY DEF Plannable
    <2> QED
      BY <1>1, <2>1, <2>2
  <1>4. \A e \in Plannable : e \in Edges /\ All(e) # {}
    <2>1. ASSUME NEW e \in Plannable PROVE e \in Edges /\ All(e) # {}
      <3>1. e \in Edges /\ edges[e].samples > 0
        BY DEF Plannable
      <3>2. edges[e].samples = Cardinality(Kept(e))
        BY <3>1, CountedAll
      <3>3. Kept(e) # {}
        <4>1. Cardinality({}) = 0
          BY FS_EmptySet
        <4>2. Kept(e) = {} => edges[e].samples = 0
          BY <3>2, <4>1
        <4> QED
          BY <3>1, <4>2
      <3> QED
        BY <3>1, <3>3 DEF All
    <2> QED
      BY <2>1
  <1>5. PICK acc : Packed(seq, n, acc) /\ FoldLeft(Pack, Start, seq) = acc[n]
    <2>1. DOMAIN seq = 1 .. n
      BY <1>1
    <2> QED
      BY <1>1, <2>1, FoldIs
  <1> DEFINE Upto(k) == {seq[j] : j \in 1 .. k}
             P == {k \in Nat : k <= n => Packs(acc[k], Upto(k))}
  <1>6. 0 \in P
    <2>1. acc[0] = Start /\ Upto(0) = {}
      BY <1>5 DEF Packed
    <2>2. Plans(<<>>) /\ Covers(<<>>) = {}
      BY DEF Plans, Covers
    <2>3. Load({}) = 0
      BY LoadIs
    <2>4. Packs(Start, {})
      BY <2>2, <2>3 DEF Packs, Start
    <2> QED
      BY <2>1, <2>4
  <1>7. ASSUME NEW k \in Nat, k \in P PROVE k + 1 \in P
    <2> SUFFICES ASSUME k + 1 <= n PROVE Packs(acc[k + 1], Upto(k + 1))
      OBVIOUS
    <2>1. k + 1 \in 1 .. n /\ k <= n /\ (k + 1) - 1 = k
      BY <1>1
    <2>2. acc[k + 1] = Pack(acc[k], seq[k + 1])
      BY <1>5, <2>1 DEF Packed
    <2>3. seq[k + 1] \in Plannable
      BY <1>1, <2>1
    <2>4. seq[k + 1] \notin Upto(k)
      <3>1. ASSUME NEW j \in 1 .. k PROVE seq[j] # seq[k + 1]
        <4>1. j \in 1 .. n /\ j < k + 1
          BY <1>1, <2>1
        <4> QED
          BY <1>3, <2>1, <4>1
      <3> QED
        BY <3>1
    <2>5. Upto(k + 1) = Upto(k) \cup {seq[k + 1]}
      <3>1. \A j \in 1 .. k + 1 : j \in 1 .. k \/ j = k + 1
        OBVIOUS
      <3>2. 1 .. k \subseteq 1 .. k + 1 /\ k + 1 \in 1 .. k + 1
        OBVIOUS
      <3> QED
        BY <3>1, <3>2
    <2>6. Packs(acc[k], Upto(k))
      BY <1>7, <2>1
    <2> HIDE DEF Upto, P
    <2> QED
      BY <1>4, <2>2, <2>3, <2>4, <2>5, <2>6, PackStep
  <1>8. Packs(acc[n], Upto(n))
    <2>1. n \in P
      <3> HIDE DEF P
      <3> QED
        BY <1>1, <1>6, <1>7, NatInduct
    <2> QED
      BY <1>1, <2>1
  <1>9. Upto(n) = Plannable
    BY <1>1
  <1>10. Packs(acc[n], Plannable)
    BY <1>8, <1>9
  <1> QED
    BY <1>2, <1>5, <1>10, FlushIs

\* An edge that is not planned has no samples.
LEMMA NotPlannable ==
    ASSUME Types, Counts, at = Len(recording) + 1, NEW e \in Edges, e \notin Plannable
    PROVE  All(e) = {} /\ Reference(e) = <<>>
  <1>1. edges[e].samples = 0
    <2>1. edges[e].samples > 0 => edges[e].dynamic /\ ~edges[e].fixed
      BY Zenon DEF Counts
    <2>2. edges[e].fixed \/ ~(edges[e].samples > 0)
      BY Zenon DEF Plannable
    <2>3. ~(edges[e].samples > 0)
      BY <2>1, <2>2, Zenon
    <2> QED
      BY <2>3, BytesIs
  <1>2. Kept(e) = {}
    <2>1. Cardinality(Kept(e)) = 0 /\ IsFiniteSet(Kept(e))
      BY <1>1, CountedAll, KeptIs DEF Types
    <2> QED
      BY <2>1, FS_EmptySet
  <1>3. All(e) = {}
    BY <1>2 DEF All
  <1>4. Reference(e) \in Seq(Sample) /\ Range(Reference(e)) = {}
    BY <1>3, ReferenceIs DEF Types, Lasts, Rising
  <1>5. Len(Reference(e)) = 0
    BY <1>4, RangeIs
  <1> QED
    BY <1>3, <1>4, <1>5

-------------------------------------------------------------------------------
(* Steps. *)

SamplesIn(r, K) ==
    LET places == Ascending(K) IN
    [k \in DOMAIN places |-> [stamp |-> r[places[k]].stamp, pose |-> places[k]]]
ReferenceIn(r, K) ==
    LET stamps == Ascending({r[i].stamp : i \in K}) IN
    [k \in DOMAIN stamps |->
        [stamp |-> stamps[k], pose |-> Max({i \in K : r[i].stamp = stamps[k]})]]

\* The recording never changes, so neither does what an edge should get.
LEMMA SameRecording ==
    ASSUME recording' = recording, NEW e
    PROVE  /\ Kept(e)' = Kept(e) /\ All(e)' = All(e)
           /\ SamplesOf(e)' = SamplesOf(e) /\ Reference(e)' = Reference(e)
  <1>1. Kept(e)' = Kept(e)
    BY DEF Kept
  <1>2. All(e)' = All(e)
    BY <1>1 DEF All, Kept1
  <1>3. SamplesOf(e)' = SamplesOf(e)
    <2>1. SamplesOf(e) = SamplesIn(recording, Kept(e))
      BY DEF SamplesOf, SamplesIn
    <2>2. SamplesOf(e)' = SamplesIn(recording', Kept(e)')
      BY DEF SamplesOf, SamplesIn
    <2> QED
      BY <1>1, <2>1, <2>2
  <1>4. Reference(e)' = Reference(e)
    <2>1. Reference(e) = ReferenceIn(recording, Kept(e))
      BY DEF Reference, ReferenceIn
    <2>2. Reference(e)' = ReferenceIn(recording', Kept(e)')
      BY DEF Reference, ReferenceIn
    <2> QED
      BY <1>1, <2>1, <2>2
  <1> QED
    BY <1>1, <1>2, <1>3, <1>4

LEMMA SameBudget ==
    ASSUME UNCHANGED <<max_memory, edges>>
    PROVE  /\ cap' = cap /\ fan_in' = fan_in /\ \A n : merge_window_samples(n)' = merge_window_samples(n)
           /\ spill_budget' = spill_budget
           /\ \A e : Bytes(e)' = Bytes(e)
           /\ \A S : Fits(S)' <=> Fits(S)
  <1>1. cap' = cap
    BY DEF cap
  <1>2. fan_in' = fan_in /\ \A n : merge_window_samples(n)' = merge_window_samples(n)
    BY <1>1 DEF fan_in, merge_window_samples, windows
  <1>3. spill_budget' = spill_budget
    BY <1>1 DEF spill_budget, staging
  <1>4. \A e : Bytes(e)' = Bytes(e)
    BY DEF Bytes
  <1>5. \A S : Load(S)' = Load(S)
    BY <1>4 DEF Load
  <1>6. \A S : Fits(S)' <=> Fits(S)
    BY <1>1, <1>4, <1>5 DEF Fits
  <1> QED
    BY <1>1, <1>2, <1>3, <1>4, <1>6

\* The plan stays one while what it was made from does.
LEMMA SamePlans ==
    ASSUME UNCHANGED <<recording, max_memory, edges>>, NEW gs, Plans(gs), groups' = gs
    PROVE  Plans(groups)' /\ Covers(groups)' = Covers(gs)
  <1>1. ASSUME NEW i \in 1 .. Len(gs) PROVE Planned(groups[i])'
    <2>1. Planned(gs[i]) /\ groups'[i] = gs[i]
      BY DEF Plans
    <2>2. \A e : All(e)' = All(e)
      BY SameRecording
    <2>3. Fits(groups[i].edges)' <=> Fits(gs[i].edges)
      <3>1. Load(groups[i].edges)' = Load(gs[i].edges)
        BY <2>1, SameBudget DEF Load
      <3> QED
        BY <2>1, <3>1, SameBudget DEF Fits
    <2> QED
      BY <2>1, <2>2, <2>3 DEF Planned
  <1>2. Plans(groups)'
    BY <1>1 DEF Plans
  <1>3. Covers(groups)' = Covers(gs)
    BY DEF Covers
  <1> QED
    BY <1>2, <1>3

LEMMA PrefixIs ==
    ASSUME NEW s \in Seq(Sample), NEW t \in Seq(Sample),
           \A k \in 1 .. Len(s) : k <= Len(t) /\ s[k] = t[k]
    PROVE  IsPrefix(s, t) /\ Len(s) <= Len(t)
  <1>1. Len(s) <= Len(t)
    <2>1. Len(s) = 0 \/ Len(s) \in 1 .. Len(s)
      OBVIOUS
    <2> QED
      BY <2>1
  <1>2. SubSeq(s, 1, Len(s)) = s
    OBVIOUS
  <1>3. SubSeq(t, 1, Len(s)) = s
    <2> DEFINE u == SubSeq(t, 1, Len(s))
    <2>1. u \in Seq(Sample) /\ Len(u) = Len(s) /\ \A k \in 1 .. Len(s) : u[k] = t[k]
      BY <1>1
    <2> HIDE DEF u
    <2>2. u = s
      BY <2>1
    <2> QED
      BY <2>2 DEF u
  <1> QED
    BY <1>1, <1>2, <1>3 DEF IsPrefix

LEMMA ReferenceTypes ==
    ASSUME Types, NEW e \in Edges
    PROVE  /\ Reference(e) \in Seq(Sample)
           /\ IsPrefix(<<>>, Reference(e)) /\ IsPrefix(Reference(e), Reference(e))
  <1>1. Reference(e) \in Seq(Sample)
    BY ReferenceIs DEF Types, Rising
  <1>2. IsPrefix(<<>>, Reference(e))
    <2>1. <<>> \in Seq(Sample) /\ \A k \in 1 .. Len(<<>>) : FALSE
      OBVIOUS
    <2> QED
      BY <1>1, <2>1, PrefixIs
  <1>3. IsPrefix(Reference(e), Reference(e))
    <2>1. \A k \in 1 .. Len(Reference(e)) :
             k <= Len(Reference(e)) /\ Reference(e)[k] = Reference(e)[k]
      BY <1>1
    <2> QED
      BY <1>1, <2>1, PrefixIs
  <1> QED
    BY <1>1, <1>2, <1>3

\* Nothing reaches the rings.
LEMMA FilledSame ==
    ASSUME Filled, UNCHANGED <<recording, arena, edges>>, failure' # "Push"
    PROVE  Filled'
  <1>1. ASSUME NEW e \in Edges
        PROVE  IsPrefix(arena[e], Reference(e))' /\ Len(arena'[e]) <= edges'[e].samples
    BY SameRecording DEF Filled, IsPrefix
  <1> QED
    BY <1>1 DEF Filled

LEMMA TypesSame ==
    ASSUME Types, UNCHANGED <<recording, max_memory, at, edges, arena>>,
           pc' \in {"survey", "groups", "sort", "spill", "reduce", "merge", "done", "failed"}
    PROVE  Types'
  BY DEF Types

\* An ingest that fails leaves what it has filled.
LEMMA FailInv ==
    ASSUME IInv, UNCHANGED <<recording, max_memory, edges, arena>>, at' \in Nat \ {0},
           pc' = "failed", failure' # "Push"
    PROVE  IInv'
  <1>1. Types'
    BY DEF IInv, Types
  <1>2. Filled'
    BY FilledSame DEF IInv
  <1>3. Phases'
    BY DEF Phases, Spilling
  <1> QED
    BY <1>1, <1>2, <1>3 DEF IInv

LEMMA InitInv == Init => IInv
  <1> SUFFICES ASSUME Init PROVE IInv
    OBVIOUS
  <1>1. Types
    <2>1. recording \in Seq(Record) /\ max_memory \in Nat
      BY RecordingAssumption, BudgetAssumption DEF Init, Record
    <2>2. NotSeen \in EdgeSurvey
      BY DEF NotSeen, EdgeSurvey
    <2> QED
      BY <2>1, <2>2 DEF Init, Types
  <1>2. Filled
    <2>1. ASSUME NEW e \in Edges
          PROVE  IsPrefix(arena[e], Reference(e)) /\ Len(arena[e]) <= edges[e].samples
      <3>1. arena[e] = <<>> /\ edges[e].samples = 0
        BY DEF Init, NotSeen
      <3> QED
        BY <1>1, <3>1, ReferenceTypes
    <2> QED
      BY <2>1 DEF Init, Filled
  <1>3. Counts
    <2>1. ASSUME NEW e \in Edges
          PROVE  /\ ~edges[e].fixed /\ edges[e].samples = 0
                 /\ Cardinality({i \in Kept(e) : i < at}) = 0
      <3>1. {i \in Kept(e) : i < at} = {}
        BY <1>1, KeptIs DEF Init, Types
      <3> QED
        BY <3>1, FS_EmptySet DEF Init, NotSeen
    <2> QED
      BY <2>1 DEF Counts
  <1>4. Phases
    BY <1>3 DEF Init, Phases, Spilling
  <1> QED
    BY <1>1, <1>2, <1>4 DEF IInv

\* A record that pass one takes, whatever it makes of it.
LEMMA SurveyInv ==
    ASSUME IInv, pc = "survey", at <= Len(recording), at' = at + 1,
           edges' \in [Edges -> EdgeSurvey],
           \A e \in Edges :
              /\ ~(edges'[e].fixed /\ edges'[e].dynamic)
              /\ edges'[e].samples > 0 => edges'[e].dynamic
              /\ edges'[e].samples = edges[e].samples + IF at \in Kept(e) THEN 1 ELSE 0,
           UNCHANGED <<recording, max_memory, pc, failure, groups, buffers, spill, arena>>
    PROVE  IInv'
  <1>0. Types /\ Counts
    BY DEF IInv, Phases
  <1>1. Types'
    BY <1>0 DEF Types
  <1>2. Filled'
    <2>1. ASSUME NEW e \in Edges
          PROVE  IsPrefix(arena[e], Reference(e))' /\ Len(arena'[e]) <= edges'[e].samples
      <3>1. arena[e] = <<>>
        BY DEF IInv, Phases
      <3>2. IsPrefix(arena[e], Reference(e))'
        BY SameRecording DEF IInv, Filled, IsPrefix
      <3>3. edges'[e].samples \in Nat
        BY <1>1, BytesIs DEF EdgeSurvey, Types
      <3> QED
        BY <3>1, <3>2, <3>3
    <2> QED
      BY <2>1 DEF IInv, Filled
  <1>3. Counts'
    <2>1. ASSUME NEW e \in Edges
          PROVE  edges'[e].samples = Cardinality({i \in Kept(e)' : i < at'})
      <3> DEFINE S == {i \in Kept(e) : i < at}
                 T == {i \in Kept(e) : i < at'}
      <3>1. edges[e].samples = Cardinality(S)
        BY <1>0 DEF Counts
      <3>2. IsFiniteSet(S) /\ at \notin S
        BY <1>0, KeptIs, FS_Subset DEF Types
      <3>3. T = IF at \in Kept(e) THEN S \cup {at} ELSE S
        BY <1>0, KeptIs DEF Types
      <3>4. Cardinality(S) \in Nat
        BY <3>2, FS_CardinalityType
      <3>5. edges'[e].samples = Cardinality(T)
        <4> HIDE DEF S, T
        <4>1. Cardinality(S \cup {at}) = Cardinality(S) + 1
          BY <3>2, FS_AddElement
        <4>2. CASE at \in Kept(e)
          BY <3>1, <3>3, <4>1, <4>2
        <4>3. CASE at \notin Kept(e)
          <5>1. T = S /\ edges'[e].samples = edges[e].samples + 0
            BY <3>3, <4>3
          <5> QED
            BY <3>1, <3>4, <5>1
        <4> QED
          BY <4>2, <4>3
      <3>6. Kept(e)' = Kept(e)
        BY SameRecording
      <3> QED
        BY <3>5, <3>6
    <2> QED
      BY <2>1 DEF Counts
  <1>4. Phases'
    <2>1. at' <= Len(recording') + 1
      BY <1>0 DEF Types
    <2> QED
      BY <1>3, <2>1 DEF IInv, Phases, Spilling, spill
  <1> QED
    BY <1>1, <1>2, <1>4 DEF IInv

LEMMA CountedIs ==
    ASSUME NEW d \in EdgeSurvey, NEW stamp \in Nat
    PROVE  /\ Counted(d, stamp) \in EdgeSurvey
           /\ Counted(d, stamp).samples = d.samples + 1
           /\ Counted(d, stamp).dynamic = d.dynamic /\ Counted(d, stamp).fixed = d.fixed
  <1> DEFINE mark == IF d.newest # None /\ stamp < d.newest THEN d.newest ELSE stamp
  <1>1. mark \in Nat \cup {None} /\ d.samples + 1 \in Nat
    BY DEF EdgeSurvey
  <1>2. Counted(d, stamp) = [d EXCEPT !.samples = d.samples + 1, !.newest = mark]
    BY DEF Counted
  <1> HIDE DEF mark
  <1> QED
    BY <1>1, <1>2 DEF EdgeSurvey

LEMMA SurveyRecordStep ==
    ASSUME IInv, SurveyRecord
    PROVE  IInv'
  <1> DEFINE r == recording[at]
             e == r.edge
             s == edges[e]
             d == [s EXCEPT !.seen = TRUE, !.dynamic = TRUE]
  <1>0. /\ pc = "survey" /\ at \in 1 .. Len(recording) /\ at' = at + 1
        /\ UNCHANGED <<recording, max_memory, groups, buffers, spill, arena>>
    BY DEF IInv, Types, SurveyRecord, input
  <1>1. r \in Record
    BY <1>0 DEF IInv, Types
  <1>2. \A f \in Edges : at \in Kept(f) <=> r.edge = f /\ ~r.static /\ r.stamp # 0
    BY <1>0 DEF IInv, Types, Kept
  <1>3. \A f \in Edges : /\ edges[f] \in EdgeSurvey /\ edges[f].samples \in Nat
                         /\ ~(edges[f].fixed /\ edges[f].dynamic)
                         /\ edges[f].samples > 0 => edges[f].dynamic
    BY <1>0, BytesIs DEF IInv, Phases, Counts
  <1>4. edges \in [Edges -> EdgeSurvey]
    BY DEF IInv, Types
  <1>5. ASSUME UNCHANGED <<edges, pc, failure>>, \A f \in Edges : at \notin Kept(f)
        PROVE  IInv'
    BY <1>0, <1>3, <1>4, <1>5, SurveyInv
  <1>6. ASSUME NEW t \in EdgeSurvey, e \in Edges, edges' = [edges EXCEPT ![e] = t],
               ~(t.fixed /\ t.dynamic), t.samples > 0 => t.dynamic,
               t.samples = s.samples + IF at \in Kept(e) THEN 1 ELSE 0,
               UNCHANGED <<pc, failure>>
        PROVE  IInv'
    <2>1. edges' \in [Edges -> EdgeSurvey]
      BY <1>4, <1>6
    <2>2. ASSUME NEW f \in Edges
          PROVE  /\ ~(edges'[f].fixed /\ edges'[f].dynamic)
                 /\ edges'[f].samples > 0 => edges'[f].dynamic
                 /\ edges'[f].samples = edges[f].samples + IF at \in Kept(f) THEN 1 ELSE 0
      <3>1. CASE f = e
        <4>1. edges'[f] = t
          BY <1>4, <1>6, <3>1
        <4> QED
          BY <1>6, <3>1, <4>1
      <3>2. CASE f # e
        <4>1. edges'[f] = edges[f] /\ at \notin Kept(f)
          BY <1>2, <1>4, <1>6, <3>2
        <4> QED
          BY <1>3, <4>1
      <3> QED
        BY <3>1, <3>2
    <2> QED
      BY <1>0, <1>6, <2>1, <2>2, SurveyInv
  <1>7. ASSUME Fail("EdgeKindChanged") \/ Fail("ClockReset"), UNCHANGED edges
        PROVE  IInv'
    BY <1>0, <1>7, FailInv DEF Fail
  <1>8. CASE r.edge = NoName /\ UNCHANGED <<edges, pc, failure>>
    BY <1>2, <1>5, <1>8, RecordingAssumption
  <1>9. CASE /\ r.edge # NoName /\ r.static
             /\ IF s.dynamic THEN Fail("EdgeKindChanged") /\ UNCHANGED edges
                ELSE /\ edges' = [edges EXCEPT ![e] = [s EXCEPT !.seen = TRUE, !.fixed = TRUE]]
                     /\ UNCHANGED <<pc, failure>>
    <2>1. e \in Edges /\ at \notin Kept(e)
      BY <1>1, <1>2, <1>9 DEF Record
    <2>2. CASE s.dynamic
      BY <1>7, <1>9, <2>2
    <2>3. CASE ~s.dynamic
      <3> DEFINE t == [s EXCEPT !.seen = TRUE, !.fixed = TRUE]
      <3>1. /\ t \in EdgeSurvey /\ t.samples = s.samples /\ t.dynamic = s.dynamic
            /\ s.samples \in Nat
        BY <1>3, <2>1 DEF EdgeSurvey
      <3>2. ~t.dynamic /\ (t.samples > 0 => t.dynamic)
        BY <1>3, <2>1, <2>3, <3>1
      <3>3. edges' = [edges EXCEPT ![e] = t] /\ UNCHANGED <<pc, failure>>
        BY <1>9, <2>3
      <3> HIDE DEF t
      <3>4. t.samples = s.samples + IF at \in Kept(e) THEN 1 ELSE 0
        BY <2>1, <3>1
      <3>5. ~(t.fixed /\ t.dynamic)
        BY <3>2
      <3> QED
        BY <1>6, <2>1, <3>1, <3>2, <3>3, <3>4, <3>5
    <2> QED
      BY <2>2, <2>3
  <1>10. CASE /\ r.edge # NoName /\ ~r.static
              /\ IF s.fixed THEN Fail("EdgeKindChanged") /\ UNCHANGED edges
                 ELSE IF r.stamp = 0
                 THEN edges' = [edges EXCEPT ![e] = d] /\ UNCHANGED <<pc, failure>>
                 ELSE IF Resets(s, r.stamp) THEN Fail("ClockReset") /\ UNCHANGED edges
                 ELSE edges' = [edges EXCEPT ![e] = Counted(d, r.stamp)] /\ UNCHANGED <<pc, failure>>
    <2>1. e \in Edges /\ r.stamp \in Nat /\ (at \in Kept(e) <=> r.stamp # 0)
      BY <1>1, <1>2, <1>10 DEF Record
    <2>2. /\ d \in EdgeSurvey /\ d.samples = s.samples /\ d.dynamic /\ d.fixed = s.fixed
          /\ s.samples \in Nat
      BY <1>3, <2>1 DEF EdgeSurvey
    <2> HIDE DEF d
    <2>3. CASE s.fixed
      BY <1>7, <1>10, <2>3
    <2>4. CASE ~s.fixed /\ r.stamp = 0
      <3>1. edges' = [edges EXCEPT ![e] = d] /\ UNCHANGED <<pc, failure>>
        BY <1>10, <2>4
      <3>2. d.samples = s.samples + IF at \in Kept(e) THEN 1 ELSE 0
        BY <2>1, <2>2, <2>4
      <3> QED
        BY <1>6, <2>1, <2>2, <2>4, <3>1, <3>2
    <2>5. CASE ~s.fixed /\ r.stamp # 0 /\ Resets(s, r.stamp)
      BY <1>7, <1>10, <2>5
    <2>6. CASE ~s.fixed /\ r.stamp # 0 /\ ~Resets(s, r.stamp)
      <3> DEFINE t == Counted(d, r.stamp)
      <3>1. edges' = [edges EXCEPT ![e] = t] /\ UNCHANGED <<pc, failure>>
        BY <1>10, <2>6
      <3>2. /\ t \in EdgeSurvey /\ t.samples = s.samples + 1 /\ t.dynamic = d.dynamic
            /\ t.fixed = d.fixed
        <4> DEFINE st == r.stamp
        <4>1. d \in EdgeSurvey /\ st \in Nat
          BY <2>1, <2>2
        <4> HIDE DEF st
        <4>2. /\ Counted(d, st) \in EdgeSurvey /\ Counted(d, st).samples = d.samples + 1
              /\ Counted(d, st).dynamic = d.dynamic /\ Counted(d, st).fixed = d.fixed
          BY <4>1, CountedIs
        <4> QED
          BY <2>2, <4>2 DEF st
      <3> HIDE DEF t
      <3>3. /\ ~(t.fixed /\ t.dynamic) /\ (t.samples > 0 => t.dynamic)
            /\ t.samples = s.samples + IF at \in Kept(e) THEN 1 ELSE 0
        BY <2>1, <2>2, <2>6, <3>2
      <3> QED
        BY <1>6, <2>1, <3>1, <3>2, <3>3
    <2> QED
      BY <2>3, <2>4, <2>5, <2>6
  <1>11. \/ r.edge = NoName /\ UNCHANGED <<edges, pc, failure>>
         \/ /\ r.edge # NoName /\ r.static
            /\ IF s.dynamic THEN Fail("EdgeKindChanged") /\ UNCHANGED edges
               ELSE /\ edges' = [edges EXCEPT ![e] = [s EXCEPT !.seen = TRUE, !.fixed = TRUE]]
                    /\ UNCHANGED <<pc, failure>>
         \/ /\ r.edge # NoName /\ ~r.static
            /\ IF s.fixed THEN Fail("EdgeKindChanged") /\ UNCHANGED edges
               ELSE IF r.stamp = 0
               THEN edges' = [edges EXCEPT ![e] = d] /\ UNCHANGED <<pc, failure>>
               ELSE IF Resets(s, r.stamp) THEN Fail("ClockReset") /\ UNCHANGED edges
               ELSE edges' = [edges EXCEPT ![e] = Counted(d, r.stamp)] /\ UNCHANGED <<pc, failure>>
    BY Zenon DEF SurveyRecord
  <1> QED
    BY <1>8, <1>9, <1>10, <1>11

LEMMA CountsSame ==
    ASSUME Counts, UNCHANGED <<recording, edges, at>>
    PROVE  Counts'
  BY SameRecording DEF Counts

LEMMA BufferedFits ==
    ASSUME UNCHANGED <<max_memory, edges>>, NEW S, DOMAIN buffers' = S, Fits(S)
    PROVE  Fits(DOMAIN buffers)'
  <1>1. Load(DOMAIN buffers)' = Load(S)
    BY SameBudget DEF Load
  <1> QED
    BY <1>1, SameBudget DEF Fits

LEMMA EdgeAll ==
    ASSUME recording' = recording, NEW f, edge' = f
    PROVE  All(edge)' = All(f)
  BY DEF All, Kept, Kept1

\* The first group of a plan, and the others.
LEMMA PlansTail ==
    ASSUME NEW gs, Plans(gs), gs # <<>>
    PROVE  /\ Plans(Tail(gs)) /\ Planned(Head(gs)) /\ Head(gs) \in Group
           /\ Covers(gs) = Head(gs).edges \cup Covers(Tail(gs))
           /\ Head(gs).edges \cap Covers(Tail(gs)) = {}
  <1> DEFINE n == Len(gs)
             hs == Tail(gs)
             g == Head(gs)
  <1>0. gs \in Seq(Group) /\ n \in Nat /\ n >= 1
    BY DEF Plans
  <1>1. /\ hs \in Seq(Group) /\ Len(hs) = n - 1
        /\ \A i \in 1 .. n - 1 : hs[i] = gs[i + 1]
        /\ g = gs[1]
    BY <1>0
  <1>2. 1 \in 1 .. n /\ \A i \in 1 .. n - 1 : i + 1 \in 1 .. n /\ i + 1 # 1
    BY <1>0
  <1>3. \A i \in 1 .. n : i = 1 \/ (i - 1 \in 1 .. n - 1 /\ (i - 1) + 1 = i)
    BY <1>0
  <1> HIDE DEF n, hs, g
  <1>4. \A i \in 1 .. n : Planned(gs[i])
    BY DEF Plans, n
  <1>5. \A i, j \in 1 .. n : i # j => gs[i].edges \cap gs[j].edges = {}
    BY DEF Plans, n
  <1>6. Planned(g) /\ g \in Group
    BY <1>0, <1>1, <1>2, <1>4 DEF n
  <1>7. Plans(hs)
    <2>1. \A i \in 1 .. n - 1 : Planned(hs[i])
      BY <1>1, <1>2, <1>4
    <2>2. ASSUME NEW i \in 1 .. n - 1, NEW j \in 1 .. n - 1, i # j
          PROVE  hs[i].edges \cap hs[j].edges = {}
      <3>1. i + 1 # j + 1
        BY <2>2
      <3> QED
        BY <1>1, <1>2, <1>5, <3>1
    <2> QED
      BY <1>1, <2>1, <2>2 DEF Plans
  <1>8. ASSUME NEW x PROVE x \in Covers(hs) <=> \E i \in 1 .. n - 1 : x \in hs[i].edges
    BY <1>1 DEF Covers
  <1>9. ASSUME NEW x PROVE x \in Covers(gs) <=> \E i \in 1 .. n : x \in gs[i].edges
    BY DEF Covers, n
  <1>10. ASSUME NEW x PROVE x \in Covers(gs) <=> x \in g.edges \/ x \in Covers(hs)
    <2>1. ASSUME x \in Covers(gs) PROVE x \in g.edges \/ x \in Covers(hs)
      <3>1. PICK i \in 1 .. n : x \in gs[i].edges
        BY <1>9, <2>1
      <3>2. CASE i = 1
        BY <1>1, <3>1, <3>2
      <3>3. CASE i # 1
        <4>1. i - 1 \in 1 .. n - 1 /\ hs[i - 1] = gs[i]
          BY <1>1, <1>3, <3>3
        <4> QED
          BY <1>8, <3>1, <4>1
      <3> QED
        BY <3>2, <3>3
    <2>2. ASSUME x \in g.edges PROVE x \in Covers(gs)
      BY <1>1, <1>2, <1>9, <2>2
    <2>3. ASSUME x \in Covers(hs) PROVE x \in Covers(gs)
      BY <1>1, <1>2, <1>8, <1>9, <2>3
    <2> QED
      BY <2>1, <2>2, <2>3
  <1>11. ASSUME NEW x \in g.edges PROVE x \notin Covers(hs)
    BY <1>1, <1>2, <1>5, <1>8
  <1>12. /\ Plans(hs) /\ Planned(g) /\ g \in Group
         /\ Covers(gs) = g.edges \cup Covers(hs) /\ g.edges \cap Covers(hs) = {}
    BY <1>6, <1>7, <1>10, <1>11
  <1> QED
    BY <1>12 DEF hs, g

LEMMA CoversEdges ==
    ASSUME NEW gs, Plans(gs)
    PROVE  Covers(gs) \subseteq Edges
  <1>1. ASSUME NEW i \in 1 .. Len(gs) PROVE gs[i].edges \subseteq Edges
    <2>1. gs[i] \in Group
      BY DEF Plans
    <2> QED
      BY <2>1 DEF Group
  <1> QED
    BY <1>1 DEF Covers

LEMMA SurveyEndStep ==
    ASSUME IInv, SurveyEnd
    PROVE  IInv'
  <1>0. /\ pc = "survey" /\ at = Len(recording) + 1
        /\ UNCHANGED <<recording, max_memory, at, edges, buffers, spill, arena>>
        /\ Types /\ Filled /\ Counts
        /\ recording \in Seq(Record)
    BY DEF IInv, Types, Phases, SurveyEnd, input, survey
  <1>1. CASE Fail("NoTransforms") \/ Fail("Build")
    BY <1>0, <1>1, FailInv DEF Fail, IInv, Types
  <1>2. CASE groups' = plan_groups /\ pc' = "groups" /\ UNCHANGED failure
    <2>1. Plans(plan_groups) /\ Covers(plan_groups) = Plannable
      BY <1>0, PlanIs
    <2>2. Plans(groups)' /\ Covers(groups)' = Plannable
      BY <1>0, <1>2, <2>1, SamePlans
    <2>3. Types' /\ Filled' /\ Counts'
      BY <1>0, <1>2, TypesSame, FilledSame, CountsSame DEF Filled
    <2>4. \A e \in Edges : arena'[e] = <<>> /\ (e \notin Plannable => Reference(e)' = <<>>)
      BY <1>0, NotPlannable, SameRecording DEF IInv, Phases
    <2>5. DOMAIN buffers' = {} /\ Plannable \subseteq Edges
      BY <1>0 DEF IInv, Phases, Plannable
    <2>6. Shares'
      BY <1>2, <2>2, <2>4, <2>5 DEF Shares, Spilling
    <2>7. Buffered'
      BY <1>2, <2>5 DEF Buffered
    <2>8. runs' = <<>> /\ pending' = None
      BY <1>0 DEF IInv, Phases, Spilling, spill
    <2>9. Phases'
      BY <1>0, <1>2, <2>3, <2>6, <2>7, <2>8 DEF Phases, Spilling
    <2> QED
      BY <2>3, <2>9 DEF IInv
  <1> QED
    BY <1>1, <1>2 DEF SurveyEnd

LEMMA NextGroupStep ==
    ASSUME IInv, NextGroup
    PROVE  IInv'
  <1>0. /\ pc = "groups" /\ at = Len(recording) + 1
        /\ UNCHANGED <<recording, max_memory, at, edges, runs, pending, arena, failure>>
        /\ Types /\ Filled /\ Counts /\ Shares
        /\ DOMAIN buffers = {} /\ runs = <<>> /\ pending = None /\ ~Spilling
        /\ recording \in Seq(Record)
    BY DEF IInv, Types, Phases, NextGroup, input, survey, Buffered, Spilling
  <1>1. Filled' /\ Counts'
    BY <1>0, FilledSame, CountsSame DEF Filled
  <1>2. \A e : Reference(e)' = Reference(e) /\ SamplesOf(e)' = SamplesOf(e) /\ All(e)' = All(e)
    BY <1>0, SameRecording
  <1>3. CASE groups = <<>> /\ pc' = "done" /\ UNCHANGED <<groups, buffers, edge, rest>>
    <2>1. Types'
      BY <1>0, <1>3, TypesSame
    <2>2. Plans(groups)' /\ Covers(groups)' = Covers(groups)
      BY <1>0, <1>3, SamePlans DEF Shares
    <2>3. Shares'
      BY <1>0, <1>2, <1>3, <2>2 DEF Shares, Spilling
    <2>4. Buffered'
      BY <1>0, <1>3 DEF Buffered
    <2>5. Phases'
      BY <1>0, <1>1, <1>3, <2>3, <2>4 DEF Phases, Spilling
    <2> QED
      BY <1>1, <2>1, <2>5 DEF IInv
  <1>4. ASSUME groups # <<>>, groups' = Tail(groups)
        PROVE  /\ Plans(groups)' /\ Covers(groups)' = Covers(Tail(groups))
               /\ Planned(Head(groups)) /\ Head(groups) \in Group
               /\ Covers(groups) = Head(groups).edges \cup Covers(groups)'
               /\ Head(groups).edges \cap Covers(groups)' = {}
    <2>1. /\ Plans(Tail(groups)) /\ Planned(Head(groups)) /\ Head(groups) \in Group
          /\ Covers(groups) = Head(groups).edges \cup Covers(Tail(groups))
          /\ Head(groups).edges \cap Covers(Tail(groups)) = {}
      BY <1>0, <1>4, PlansTail DEF Shares
    <2>2. Plans(groups)' /\ Covers(groups)' = Covers(Tail(groups))
      BY <1>0, <1>4, <2>1, SamePlans
    <2> QED
      BY <2>1, <2>2
  <1>5. CASE /\ groups # <<>> /\ groups' = Tail(groups) /\ ~Head(groups).spilled
             /\ buffers' = [e \in Head(groups).edges |-> SamplesOf(e)]
             /\ pc' = "sort" /\ UNCHANGED <<edge, rest>>
    <2> DEFINE S == Head(groups).edges
    <2>1. Types'
      BY <1>0, <1>5, TypesSame
    <2>2. /\ Plans(groups)' /\ Covers(groups) = S \cup Covers(groups)'
          /\ S \cap Covers(groups)' = {}
          /\ S # {} /\ S \subseteq Edges /\ Fits(S)
      BY <1>4, <1>5 DEF Planned, Group
    <2>3. DOMAIN buffers' = S /\ \A e \in S : buffers'[e] = SamplesOf(e)
      BY <1>5
    <2> HIDE DEF S
    <2>4. Fits(DOMAIN buffers)'
      BY <1>0, <2>2, <2>3, BufferedFits
    <2>5. Buffered'
      BY <1>2, <1>5, <2>2, <2>3, <2>4 DEF Buffered
    <2>6. Shares'
      BY <1>0, <1>2, <1>5, <2>2, <2>3 DEF Shares, Spilling
    <2>7. Phases'
      BY <1>0, <1>1, <1>5, <2>5, <2>6 DEF Phases, Spilling
    <2> QED
      BY <1>1, <2>1, <2>7 DEF IInv
  <1>6. CASE /\ groups # <<>> /\ groups' = Tail(groups) /\ Head(groups).spilled
             /\ edge' = CHOOSE e \in Head(groups).edges : TRUE
             /\ rest' = SamplesOf(edge')
             /\ pc' = "spill" /\ UNCHANGED buffers
    <2>1. Types'
      BY <1>0, <1>6, TypesSame
    <2>2. /\ Plans(groups)' /\ Covers(groups) = Head(groups).edges \cup Covers(groups)'
          /\ Head(groups).edges \cap Covers(groups)' = {}
          /\ \E e \in Head(groups).edges : Head(groups).edges = {e}
          /\ \A e \in Head(groups).edges : All(e) # {}
          /\ Head(groups).edges \subseteq Edges
      BY <1>4, <1>6 DEF Planned, Group
    <2>3. PICK f \in Edges : Head(groups).edges = {f}
      BY <2>2
    <2>4. edge' = f /\ All(f) # {} /\ f \notin Covers(groups)' /\ f \in Covers(groups)
      BY <1>6, <2>2, <2>3
    <2>5. All(edge)' = All(f) /\ rest' = SamplesOf(f) /\ arena'[f] = <<>>
      BY <1>0, <1>6, <2>4, EdgeAll DEF Shares
    <2>6. SpillRight'
      <3>1. AsRead(rest') /\ Range(rest') = All(f)
        BY <1>0, <2>5, SamplesRead
      <3>2. runs' = <<>>
        BY <1>0
      <3>3. Chained(runs)' /\ Els(runs)' = {}
        BY <3>2, ChainedEmpty DEF Chained, Els
      <3>4. arena'[edge'] = <<>> /\ pending' = None
        BY <1>0, <2>4, <2>5
      <3>5. Earlier(Els(runs)', Range(rest'))
        BY <3>3 DEF Earlier
      <3> QED
        BY <2>5, <3>1, <3>3, <3>4, <3>5 DEF SpillRight
    <2>7. Shares'
      BY <1>0, <1>2, <1>6, <2>2, <2>3, <2>4, <2>5 DEF Shares, Spilling
    <2>8. Buffered'
      BY <1>0, <1>6 DEF Buffered
    <2>9. Phases'
      BY <1>0, <1>1, <1>6, <2>6, <2>7, <2>8 DEF Phases, Spilling
    <2> QED
      BY <1>1, <2>1, <2>9 DEF IInv
  <1> QED
    BY <1>3, <1>5, <1>6 DEF NextGroup

LEMMA SortAndPushStep ==
    ASSUME IInv, NEW e \in DOMAIN buffers, SortAndPush(e)
    PROVE  IInv'
  <1> DEFINE D == DOMAIN buffers
  <1>0. /\ pc = "sort" /\ at = Len(recording) + 1
        /\ UNCHANGED <<recording, max_memory, at, edges, groups, runs, pending, failure>>
        /\ Types /\ Filled /\ Counts /\ Shares
        /\ D \subseteq Edges /\ Fits(D) /\ \A f \in D : buffers[f] = SamplesOf(f)
        /\ runs = <<>> /\ pending = None /\ ~Spilling
        /\ recording \in Seq(Record) /\ arena \in [Edges -> Seq(Sample)] /\ e \in Edges
        /\ max_memory \in Nat
    BY DEF IInv, Types, Phases, SortAndPush, input, survey, spill, Buffered, Spilling
  <1>1. /\ arena' = [arena EXCEPT ![e] = arena[e] \o last_of_each(sort_run(buffers[e]))]
        /\ buffers' = [f \in D \ {e} |-> buffers[f]]
        /\ pc' = IF D = {e} THEN "groups" ELSE "sort"
    BY DEF SortAndPush
  <1>2. \A f : Reference(f)' = Reference(f) /\ SamplesOf(f)' = SamplesOf(f) /\ All(f)' = All(f)
    BY <1>0, SameRecording
  <1>3. Reference(e) \in Seq(Sample)
    BY <1>0, ReferenceTypes
  <1>4. arena' = [arena EXCEPT ![e] = Reference(e)]
    <2>1. arena[e] = <<>>
      BY <1>0 DEF Shares
    <2>2. last_of_each(sort_run(buffers[e])) = Reference(e)
      BY <1>0, InMemoryRight
    <2>3. <<>> \o Reference(e) = Reference(e)
      BY <1>3
    <2> QED
      BY <1>1, <2>1, <2>2, <2>3
  <1>5. /\ arena'[e] = Reference(e) /\ \A f \in Edges : f # e => arena'[f] = arena[f]
        /\ arena' \in [Edges -> Seq(Sample)]
    BY <1>0, <1>3, <1>4
  <1>6. Types'
    BY <1>0, <1>1, <1>5 DEF Types
  <1>7. Filled'
    <2>1. ASSUME NEW f \in Edges
          PROVE  IsPrefix(arena[f], Reference(f))' /\ Len(arena'[f]) <= edges'[f].samples
      <3>1. CASE f = e
        <4>1. IsPrefix(Reference(e), Reference(e))
          BY <1>0, ReferenceTypes
        <4>2. Len(Reference(e)) <= edges[e].samples
          BY <1>0, ReferenceIs, CountedAll
        <4> QED
          BY <1>0, <1>2, <1>5, <3>1, <4>1, <4>2 DEF IsPrefix
      <3>2. CASE f # e
        BY <1>0, <1>2, <1>5, <3>2 DEF Filled, IsPrefix
      <3> QED
        BY <3>1, <3>2
    <2> QED
      BY <1>0, <2>1 DEF Filled
  <1>8. Counts'
    BY <1>0, CountsSame
  <1>9. Plans(groups)' /\ Covers(groups)' = Covers(groups)
    BY <1>0, SamePlans DEF Shares
  <1>10. DOMAIN buffers' = D \ {e} /\ \A f \in D \ {e} : buffers'[f] = buffers[f]
    BY <1>1
  <1> HIDE DEF D
  <1>11. Shares'
    <2>1. Covers(groups) \cap (D \ {e}) = {} /\ e \notin Covers(groups)
      BY <1>0 DEF Shares, D
    <2>2. \A f \in Covers(groups) \cup (D \ {e}) : arena'[f] = <<>>
      <3>1. ASSUME NEW f \in Covers(groups) \cup (D \ {e}) PROVE arena'[f] = <<>>
        <4>1. arena[f] = <<>> /\ f # e
          BY <1>0, <2>1 DEF Shares, D
        <4>2. f \in Edges
          <5>1. Covers(groups) \subseteq Edges
            BY <1>0, CoversEdges DEF Shares
          <5> QED
            BY <1>0, <5>1
        <4> QED
          BY <1>5, <4>1, <4>2
      <3> QED
        BY <3>1
    <2>3. \A f \in Edges \ (Covers(groups) \cup (D \ {e})) : arena'[f] = Reference(f)
      BY <1>0, <1>5 DEF Shares, D
    <2> QED
      BY <1>1, <1>2, <1>9, <1>10, <2>1, <2>2, <2>3 DEF Shares, Spilling
  <1>12. Buffered'
    <2>1. CASE D = {e}
      BY <1>1, <1>10, <2>1 DEF Buffered
    <2>2. CASE D # {e}
      <3>1. D \ {e} # {} /\ D \ {e} \subseteq Edges
        BY <1>0, <2>2 DEF D
      <3>2. Fits(D \ {e})
        BY <1>0, FitsWithout DEF D
      <3>3. Fits(DOMAIN buffers)'
        BY <1>0, <1>10, <3>2, BufferedFits
      <3>4. \A f \in D \ {e} : buffers'[f] = SamplesOf(f)'
        BY <1>0, <1>2, <1>10 DEF D
      <3> QED
        BY <1>1, <1>10, <2>2, <3>1, <3>3, <3>4 DEF Buffered
    <2> QED
      BY <2>1, <2>2
  <1>13. Phases'
    BY <1>0, <1>1, <1>8, <1>11, <1>12 DEF Phases, Spilling
  <1> QED
    BY <1>6, <1>7, <1>13 DEF IInv

-------------------------------------------------------------------------------
(* Steps of a spilled edge. *)

\* What such a step leaves as it is: only the ring of its edge may change.
Elsewhere ==
    /\ UNCHANGED <<recording, max_memory, at, edges, groups, buffers, edge>>
    /\ \A e \in Edges : e # edge => arena'[e] = arena[e]

LEMMA ElsewhereInv ==
    ASSUME IInv, Spilling, Elsewhere, pc' \in {"spill", "reduce", "merge"}
    PROVE  Counts' /\ Shares' /\ Buffered' /\ at' = Len(recording') + 1
  <1>0. /\ UNCHANGED <<recording, max_memory, at, edges, groups, buffers, edge>>
        /\ \A e \in Edges : e # edge => arena'[e] = arena[e]
        /\ Types /\ Counts /\ Shares /\ Buffered /\ at = Len(recording) + 1
        /\ pc \in {"spill", "reduce", "merge"} /\ pc # "sort"
    BY DEF Elsewhere, IInv, Phases, Spilling
  <1>1. Counts' /\ at' = Len(recording') + 1
    BY <1>0, CountsSame
  <1>2. Plans(groups)' /\ Covers(groups)' = Covers(groups)
    BY <1>0, SamePlans DEF Shares
  <1>3. \A e : Reference(e)' = Reference(e)
    BY <1>0, SameRecording
  <1>4. All(edge)' = All(edge)
    BY <1>0, EdgeAll
  <1>5. DOMAIN buffers = {} /\ DOMAIN buffers' = {}
    BY <1>0 DEF Buffered
  <1>6. Buffered'
    BY <1>5 DEF Buffered
  <1>7. Covers(groups) \subseteq Edges
    BY <1>0, CoversEdges DEF Shares
  <1>8. Shares'
    BY <1>0, <1>2, <1>3, <1>4, <1>5, <1>7 DEF Shares, Spilling
  <1> QED
    BY <1>1, <1>6, <1>8

\* A step that sorts or reduces runs.
LEMMA RunsInv ==
    ASSUME IInv, Spilling, Elsewhere, UNCHANGED <<arena, failure>>,
           \/ pc' = "spill" /\ SpillRight'
           \/ pc' = "reduce" /\ ReduceRight'
           \/ pc' = "merge" /\ MergeRight'
    PROVE  IInv'
  <1>1. pc' \in {"spill", "reduce", "merge"}
    OBVIOUS
  <1>2. Counts' /\ Shares' /\ Buffered' /\ at' = Len(recording') + 1
    BY <1>1, ElsewhereInv
  <1>3. Types'
    BY <1>1, TypesSame DEF IInv, Elsewhere
  <1>4. Filled'
    BY FilledSame DEF IInv, Elsewhere, Filled
  <1>5. Phases'
    BY <1>1, <1>2 DEF Phases, Spilling
  <1> QED
    BY <1>3, <1>4, <1>5 DEF IInv

LEMMA MergingNow ==
    ASSUME UNCHANGED <<max_memory, edges>>, NEW rds, Merging(rds), readers' = rds
    PROVE  Merging(readers)' /\ Els(Whole(readers))' = Els(Whole(rds))
  BY SameBudget DEF Merging

LEMMA SpillRunStep ==
    ASSUME IInv, SpillRun
    PROVE  IInv'
  <1> DEFINE b == spill_budget
             run == sort_run(First(rest, b))
             left == After(rest, b)
  <1>0. /\ pc = "spill" /\ pc' = "spill" /\ Spilling /\ Elsewhere
        /\ UNCHANGED <<arena, failure, pending>>
        /\ runs' = Append(runs, run) /\ rest' = left
        /\ SpillRight /\ b \in Nat
    BY Budgets DEF SpillRun, Elsewhere, Spilling, IInv, Phases, input, survey, Types
  <1>1. /\ AsRead(First(rest, b)) /\ AsRead(left)
        /\ \A x \in Range(First(rest, b)), y \in Range(left) : x.pose < y.pose
        /\ Range(rest) = Range(First(rest, b)) \cup Range(left)
    <2>1. AsRead(rest) /\ rest \in Seq(Sample)
      BY <1>0 DEF SpillRight, AsRead
    <2> QED
      BY <1>0, <2>1, AsReadSplit, RangeSplit
  <1>2. Sorted(run) /\ Range(run) = Range(First(rest, b))
    BY <1>1, SortRun
  <1> HIDE DEF b, run, left
  <1>3. Chained(Append(runs, run)) /\ Els(Append(runs, run)) = Els(runs) \cup Range(run)
    <2>1. Chained(runs) /\ Earlier(Els(runs), Range(run))
      BY <1>0, <1>1, <1>2 DEF SpillRight, Earlier
    <2> QED
      BY <1>2, <2>1, ChainedAppend
  <1>4. All(edge)' = All(edge)
    BY <1>0, EdgeAll DEF Elsewhere
  <1>5. SpillRight'
    <2>1. Earlier(Els(runs'), Range(rest'))
      BY <1>0, <1>1, <1>2, <1>3 DEF SpillRight, Earlier
    <2>2. Els(runs') \cup Range(rest') = All(edge)
      BY <1>0, <1>1, <1>2, <1>3 DEF SpillRight
    <2>3. arena'[edge'] = <<>> /\ pending' = None
      BY <1>0 DEF SpillRight, Elsewhere
    <2> QED
      BY <1>0, <1>1, <1>3, <1>4, <2>1, <2>2, <2>3 DEF SpillRight
  <1> QED
    BY <1>0, <1>5, RunsInv

LEMMA ReduceBeginStep ==
    ASSUME IInv, ReduceBegin
    PROVE  IInv'
  <1> DEFINE chunk == First(runs, fan_in)
             others == After(runs, fan_in)
  <1>0. /\ pc = "spill" /\ pc' = "reduce" /\ Spilling /\ Elsewhere
        /\ UNCHANGED <<arena, failure, pending, rest>>
        /\ spans' = others /\ readers' = merge_runs(chunk)
        /\ next' = <<>> /\ merged' = <<>> /\ rest = <<>>
        /\ SpillRight /\ max_memory \in Nat
    BY DEF ReduceBegin, Elsewhere, Spilling, IInv, Phases, input, survey, Types
  <1>1. /\ Chained(chunk) /\ Chained(others) /\ Earlier(Els(chunk), Els(others))
        /\ Els(runs) = Els(chunk) \cup Els(others) /\ Len(chunk) <= fan_in
    BY <1>0, ChainedSplit, Budgets DEF SpillRight
  <1> HIDE DEF chunk, others
  <1>2. Merging(merge_runs(chunk)) /\ Whole(merge_runs(chunk)) = chunk
    BY <1>0, <1>1, OpenIs
  <1>3. Merging(readers)' /\ Els(Whole(readers))' = Els(chunk)
    BY <1>0, <1>2, MergingNow DEF Elsewhere
  <1>4. All(edge)' = All(edge)
    BY <1>0, EdgeAll DEF Elsewhere
  <1>5. Range(<<>>) = {} /\ Sorted(<<>>)
    BY DEF Range, Sorted
  <1>6. ReduceRight'
    <2>1. arena'[edge'] = <<>> /\ pending' = None /\ rest' = <<>>
      BY <1>0 DEF SpillRight, Elsewhere
    <2>2. Sorted(merged') /\ Range(merged') = {}
      BY <1>0, <1>5
    <2>3. Chained(next') /\ Els(next') = {} /\ Chained(spans')
      BY <1>0, <1>1, ChainedEmpty
    <2>4. Els(chunk) \cup Els(others) = All(edge)
      BY <1>0, <1>1, <1>5 DEF SpillRight
    <2> QED
      BY <1>0, <1>1, <1>3, <1>4, <2>1, <2>2, <2>3, <2>4 DEF ReduceRight, Earlier
  <1> QED
    BY <1>0, <1>6, RunsInv

LEMMA ReduceNextStep ==
    ASSUME IInv, ReduceNext
    PROVE  IInv'
  <1>0. /\ pc = "reduce" /\ pc' = "reduce" /\ Spilling /\ Elsewhere
        /\ UNCHANGED <<arena, failure, pending, rest, spans, next>>
        /\ ReduceRight /\ max_memory \in Nat
    BY DEF ReduceNext, Elsewhere, Spilling, IInv, Phases, input, survey, Types
  <1>1. PICK i \in DOMAIN readers : /\ Least(i)
                                    /\ merged' = Append(merged, readers[i].window[1])
                                    /\ readers' = Popped(i)
    BY DEF ReduceNext
  <1> DEFINE s == readers[i].window[1]
             left == Els(Whole(Popped(i)))
  <1>2. /\ s \in Sample /\ Merging(Popped(i)) /\ Els(Whole(readers)) = {s} \cup left
        /\ \A y \in left : Precedes(s, y)
    BY <1>0, <1>1, PopIs DEF ReduceRight, Pops
  <1>3. Merging(readers)' /\ Els(Whole(readers))' = left
    BY <1>0, <1>1, <1>2, MergingNow DEF Elsewhere
  <1>4. merged' = Append(merged, s)
    BY <1>1
  <1> HIDE DEF s, left
  <1>5. Sorted(Append(merged, s)) /\ Range(Append(merged, s)) = Range(merged) \cup {s}
    BY <1>0, <1>2, SortedAppend DEF ReduceRight
  <1>6. All(edge)' = All(edge)
    BY <1>0, EdgeAll DEF Elsewhere
  <1>7. Range(merged') \cup left = Range(merged) \cup Els(Whole(readers))
    BY <1>2, <1>4, <1>5
  <1>8. ReduceRight'
    <2>1. arena'[edge'] = <<>> /\ pending' = None /\ rest' = <<>>
      BY <1>0 DEF ReduceRight, Elsewhere
    <2>2. \A x \in Range(merged'), y \in left : Precedes(x, y)
      BY <1>0, <1>2, <1>4, <1>5 DEF ReduceRight
    <2> QED
      BY <1>0, <1>3, <1>4, <1>5, <1>6, <1>7, <2>1, <2>2 DEF ReduceRight
  <1> QED
    BY <1>0, <1>8, RunsInv

LEMMA ReduceEndStep ==
    ASSUME IInv, ReduceEnd
    PROVE  IInv'
  <1>0. /\ pc = "reduce" /\ Spilling /\ Elsewhere
        /\ UNCHANGED <<arena, failure, pending, rest>>
        /\ ReduceRight /\ max_memory \in Nat
        /\ merged' = <<>>
        /\ \A i \in DOMAIN readers : readers[i].window = <<>>
    BY DEF ReduceEnd, Elsewhere, Spilling, IInv, Phases, input, survey, Types
  <1>1. Els(Whole(readers)) = {}
    BY <1>0, SpentIs DEF ReduceRight
  <1>2. /\ Chained(next) /\ Sorted(merged) /\ Chained(spans)
        /\ Earlier(Els(next), Range(merged)) /\ Earlier(Els(next) \cup Range(merged), Els(spans))
        /\ Els(next) \cup Range(merged) \cup Els(spans) = All(edge)
    BY <1>0, <1>1 DEF ReduceRight
  <1>3. /\ Chained(Append(next, merged))
        /\ Els(Append(next, merged)) = Els(next) \cup Range(merged)
    BY <1>2, ChainedAppend
  <1>4. All(edge)' = All(edge)
    BY <1>0, EdgeAll DEF Elsewhere
  <1>5. arena'[edge'] = <<>> /\ pending' = None /\ rest' = <<>>
    BY <1>0 DEF ReduceRight, Elsewhere
  <1>6. Range(<<>>) = {} /\ Sorted(<<>>)
    BY DEF Range, Sorted
  <1>7. CASE /\ spans # <<>>
             /\ next' = Append(next, merged)
             /\ readers' = merge_runs(First(spans, fan_in))
             /\ spans' = After(spans, fan_in)
             /\ UNCHANGED <<runs, pc>>
    <2> DEFINE chunk == First(spans, fan_in)
               others == After(spans, fan_in)
    <2>1. /\ Chained(chunk) /\ Chained(others) /\ Earlier(Els(chunk), Els(others))
          /\ Els(spans) = Els(chunk) \cup Els(others) /\ Len(chunk) <= fan_in
      BY <1>0, <1>2, ChainedSplit, Budgets
    <2>2. readers' = merge_runs(chunk) /\ spans' = others
      BY <1>7
    <2> HIDE DEF chunk, others
    <2>3. Merging(merge_runs(chunk)) /\ Whole(merge_runs(chunk)) = chunk
      BY <1>0, <2>1, OpenIs
    <2>4. Merging(readers)' /\ Els(Whole(readers))' = Els(chunk)
      BY <1>0, <2>2, <2>3, MergingNow DEF Elsewhere
    <2>5. Sorted(merged') /\ Range(merged') = {}
      BY <1>0, <1>6
    <2>6. ReduceRight'
      BY <1>2, <1>3, <1>4, <1>5, <1>7, <2>1, <2>2, <2>4, <2>5 DEF ReduceRight, Earlier
    <2> QED
      BY <1>0, <1>7, <2>6, RunsInv
  <1>8. CASE /\ spans = <<>>
             /\ runs' = Append(next, merged)
             /\ pc' = "spill"
    <2>1. Els(spans) = {}
      BY <1>8, ChainedEmpty
    <2>2. AsRead(rest') /\ Range(rest') = {}
      BY <1>5, <1>6 DEF AsRead
    <2>3. SpillRight'
      BY <1>2, <1>3, <1>4, <1>5, <1>8, <2>1, <2>2 DEF SpillRight, Earlier
    <2> QED
      BY <1>0, <1>8, <2>3, RunsInv
  <1> QED
    BY <1>7, <1>8 DEF ReduceEnd

LEMMA MergeBeginStep ==
    ASSUME IInv, MergeBegin
    PROVE  IInv'
  <1>0. /\ pc = "spill" /\ pc' = "merge" /\ Spilling /\ Elsewhere
        /\ UNCHANGED <<arena, failure, pending, rest>>
        /\ readers' = merge_runs(runs) /\ rest = <<>> /\ Len(runs) <= fan_in
        /\ SpillRight /\ max_memory \in Nat
    BY DEF MergeBegin, Elsewhere, Spilling, IInv, Phases, input, survey, Types
  <1>1. Merging(merge_runs(runs)) /\ Whole(merge_runs(runs)) = runs
    BY <1>0, OpenIs DEF SpillRight
  <1>2. Merging(readers)' /\ Els(Whole(readers))' = Els(runs)
    BY <1>0, <1>1, MergingNow DEF Elsewhere
  <1>3. All(edge)' = All(edge)
    BY <1>0, EdgeAll DEF Elsewhere
  <1>4. Els(runs) = All(edge)
    <2>1. Range(<<>>) = {}
      BY DEF Range
    <2> QED
      BY <1>0, <2>1 DEF SpillRight
  <1>5. Taken' = {}
    BY <1>2, <1>3, <1>4 DEF Taken
  <1>6. arena'[edge'] = <<>> /\ pending' = None /\ rest' = <<>>
    BY <1>0 DEF SpillRight, Elsewhere
  <1>7. MergeRight'
    BY <1>2, <1>3, <1>4, <1>5, <1>6 DEF MergeRight, Collapsed
  <1> QED
    BY <1>0, <1>7, RunsInv

\* What is held back is the newest.
LEMMA HeldNewest ==
    ASSUME NEW a \in Seq(Sample), NEW p \in Sample, Rising(Append(a, p))
    PROVE  /\ Range(Append(a, p)) = Range(a) \cup {p} /\ Rising(a)
           /\ \A x \in Range(a) : x \in Sample /\ x.stamp < p.stamp
           /\ a # <<>> => Last(a).stamp < p.stamp
  <1>1. /\ Len(a) \in Nat /\ Len(Append(a, p)) = Len(a) + 1
        /\ Append(a, p)[Len(a) + 1] = p
        /\ \A k \in 1 .. Len(a) : Append(a, p)[k] = a[k]
    OBVIOUS
  <1>2. ASSUME NEW k \in 1 .. Len(a) PROVE a[k].stamp < p.stamp
    <2>1. Append(a, p)[k].stamp < Append(a, p)[Len(a) + 1].stamp
      BY <1>1 DEF Rising
    <2> QED
      BY <1>1, <2>1
  <1>3. \A x \in Range(a) : x \in Sample /\ x.stamp < p.stamp
    BY <1>2, RangeIs
  <1>4. Rising(a)
    <2>1. ASSUME NEW j \in 1 .. Len(a), NEW k \in 1 .. Len(a), j < k
          PROVE  a[j].stamp < a[k].stamp
      <3>1. Append(a, p)[j].stamp < Append(a, p)[k].stamp
        BY <1>1, <2>1 DEF Rising
      <3> QED
        BY <1>1, <3>1
    <2> QED
      BY <2>1 DEF Rising
  <1>5. a # <<>> => Last(a).stamp < p.stamp
    BY <1>1, <1>2 DEF Last
  <1> QED
    BY <1>3, <1>4, <1>5, RangeAppend

LEMMA RisingAppend ==
    ASSUME NEW a, Rising(a), NEW p \in Sample, \A x \in Range(a) : x.stamp < p.stamp
    PROVE  Rising(Append(a, p)) /\ Range(Append(a, p)) = Range(a) \cup {p}
  <1>1. /\ a \in Seq(Sample) /\ Len(a) \in Nat /\ Len(Append(a, p)) = Len(a) + 1
        /\ Append(a, p) \in Seq(Sample)
        /\ Append(a, p)[Len(a) + 1] = p
        /\ \A k \in 1 .. Len(a) : Append(a, p)[k] = a[k]
    BY DEF Rising
  <1>2. ASSUME NEW j \in 1 .. Len(a) + 1, NEW k \in 1 .. Len(a) + 1, j < k
        PROVE  Append(a, p)[j].stamp < Append(a, p)[k].stamp
    <2>1. j \in 1 .. Len(a) /\ Append(a, p)[j] = a[j] /\ a[j] \in Range(a)
      <3>1. j \in 1 .. Len(a) /\ Append(a, p)[j] = a[j]
        BY <1>1, <1>2
      <3> QED
        BY <1>1, <3>1, RangeIs
    <2>2. CASE k = Len(a) + 1
      BY <1>1, <2>1, <2>2
    <2>3. CASE k # Len(a) + 1
      <3>1. k \in 1 .. Len(a) /\ Append(a, p)[k] = a[k]
        BY <1>1, <2>3
      <3> QED
        BY <1>2, <2>1, <3>1 DEF Rising
    <2> QED
      BY <2>2, <2>3
  <1> QED
    BY <1>1, <1>2, RangeAppend DEF Rising

\* The first sample, a duplicate, and a newer one.
LEMMA CollapsedFirst ==
    ASSUME NEW s \in Sample
    PROVE  Collapsed(<<>>, s, {s})
  <1> DEFINE a == <<>>
  <1>1. Rising(a) /\ Range(a) = {}
    BY DEF Rising, Range
  <1>2. Lasts({s}) = {s}
    BY DEF Lasts, Sample
  <1> HIDE DEF a
  <1>3. Rising(Append(a, s)) /\ Range(Append(a, s)) = {s}
    BY <1>1, RisingAppend
  <1>4. Collapsed(a, s, {s})
    BY <1>2, <1>3 DEF Collapsed
  <1> QED
    BY <1>4 DEF a

LEMMA CollapsedSame ==
    ASSUME NEW a \in Seq(Sample), NEW p, NEW T \in SUBSET Sample, T # {}, Collapsed(a, p, T),
           NEW s \in Sample, \A x \in T : Precedes(x, s), p.stamp = s.stamp
    PROVE  Collapsed(a, s, T \cup {s})
  <1>1. p \in Sample /\ Rising(Append(a, p)) /\ Range(Append(a, p)) = Lasts(T)
    BY DEF Collapsed
  <1>2. /\ Lasts(T) = Range(a) \cup {p} /\ Rising(a)
        /\ \A x \in Range(a) : x.stamp < s.stamp
    BY <1>1, HeldNewest
  <1>3. Rising(Append(a, s)) /\ Range(Append(a, s)) = Range(a) \cup {s}
    BY <1>2, RisingAppend
  <1>4. ASSUME NEW x \in Range(a) \cup {s} PROVE x \in Lasts(T \cup {s})
    <2>1. CASE x = s
      BY <2>1 DEF Lasts, Precedes, Sample
    <2>2. CASE x # s
      <3>1. x \in Lasts(T) /\ x.stamp < s.stamp
        BY <1>2, <1>4, <2>2
      <3> QED
        BY <3>1 DEF Lasts, Sample
    <2> QED
      BY <2>1, <2>2
  <1>5. ASSUME NEW x \in Lasts(T \cup {s}), x # s PROVE x \in Range(a)
    <2>1. x \in T /\ x \in Lasts(T) /\ Precedes(x, s)
      BY <1>5 DEF Lasts
    <2>2. x.stamp # s.stamp
      BY <1>5, <2>1 DEF Lasts, Precedes, Sample
    <2> QED
      BY <1>2, <2>1, <2>2
  <1> QED
    BY <1>3, <1>4, <1>5 DEF Collapsed

LEMMA CollapsedNewer ==
    ASSUME NEW a \in Seq(Sample), NEW p, NEW T \in SUBSET Sample, T # {}, Collapsed(a, p, T),
           NEW s \in Sample, \A x \in T : Precedes(x, s), p.stamp # s.stamp
    PROVE  /\ Collapsed(Append(a, p), s, T \cup {s})
           /\ Rising(Append(a, p)) /\ Range(Append(a, p)) = Lasts(T)
           /\ \A x \in Lasts(T) : x \in Sample /\ x.stamp < s.stamp
  <1>1. p \in Sample /\ Rising(Append(a, p)) /\ Range(Append(a, p)) = Lasts(T)
    BY DEF Collapsed
  <1>2. p \in T /\ p.stamp < s.stamp
    <2>1. p \in Lasts(T)
      BY <1>1, HeldNewest
    <2> QED
      BY <2>1 DEF Lasts, Precedes, Sample
  <1>3. ASSUME NEW x \in Lasts(T) PROVE x \in Sample /\ x.stamp < s.stamp
    <2>1. x = p \/ x.stamp < p.stamp
      BY <1>1, <1>3, HeldNewest
    <2>2. x \in Sample
      BY <1>3 DEF Lasts
    <2> QED
      BY <1>1, <1>2, <2>1, <2>2 DEF Sample
  <1>4. /\ Rising(Append(Append(a, p), s))
        /\ Range(Append(Append(a, p), s)) = Lasts(T) \cup {s}
    BY <1>1, <1>3, RisingAppend
  <1>5. Lasts(T \cup {s}) = Lasts(T) \cup {s}
    <2>1. s \in Lasts(T \cup {s})
      BY DEF Lasts, Precedes, Sample
    <2>2. ASSUME NEW x \in Lasts(T) PROVE x \in Lasts(T \cup {s})
      <3>1. x.stamp # s.stamp
        BY <1>3 DEF Sample
      <3> QED
        BY <3>1 DEF Lasts
    <2>3. ASSUME NEW x \in Lasts(T \cup {s}), x # s PROVE x \in Lasts(T)
      BY <2>3 DEF Lasts
    <2> QED
      BY <2>1, <2>2, <2>3
  <1> QED
    BY <1>1, <1>3, <1>4, <1>5 DEF Collapsed

\* A ring that has the first of an edge's last samples is right so far.
LEMMA RingRight ==
    ASSUME Types, Counts, at = Len(recording) + 1, NEW e \in Edges, NEW a, Rising(a),
           Range(a) \subseteq Lasts(All(e)),
           \A x \in Lasts(All(e)) \ Range(a), y \in Range(a) : Precedes(y, x)
    PROVE  IsPrefix(a, Reference(e)) /\ Len(a) <= edges[e].samples
  <1>1. /\ Rising(Reference(e)) /\ Range(Reference(e)) = Lasts(All(e))
        /\ Len(Reference(e)) <= edges[e].samples /\ edges[e].samples \in Nat
    BY ReferenceIs, CountedAll DEF Types
  <1>2. \A k \in 1 .. Len(a) : k <= Len(Reference(e)) /\ a[k] = Reference(e)[k]
    BY <1>1, RisingIsSorted, SortedPrefix
  <1>3. a \in Seq(Sample) /\ Reference(e) \in Seq(Sample)
    BY <1>1 DEF Rising
  <1>4. IsPrefix(a, Reference(e)) /\ Len(a) <= Len(Reference(e))
    BY <1>2, <1>3, PrefixIs
  <1> QED
    BY <1>1, <1>3, <1>4

LEMMA NewerIsRight ==
    ASSUME Types, Counts, at = Len(recording) + 1, NEW e \in Edges,
           NEW T \in SUBSET All(e), NEW s \in Sample, NEW a, Rising(a), Range(a) = Lasts(T),
           \A x \in Lasts(T) : x \in Sample /\ x.stamp < s.stamp,
           \A x \in T, y \in All(e) \ T : Precedes(x, y),
           \A y \in All(e) \ T : y = s \/ Precedes(s, y)
    PROVE  IsPrefix(a, Reference(e)) /\ Len(a) <= edges[e].samples
  <1>0. All(e) \subseteq Sample
    BY KeptIs DEF Types
  <1>1. ASSUME NEW x \in Lasts(T) PROVE x \in Lasts(All(e))
    <2>1. ASSUME NEW y \in All(e) \ T PROVE y.stamp # x.stamp
      <3>1. s.stamp <= y.stamp /\ x.stamp < s.stamp /\ x \in Sample /\ y \in Sample
        BY <1>0, <1>1, <2>1 DEF Precedes, Sample
      <3> QED
        BY <3>1 DEF Sample
    <2> QED
      BY <1>1, <2>1 DEF Lasts
  <1>2. ASSUME NEW x \in Lasts(All(e)) \ Lasts(T), NEW y \in Lasts(T) PROVE Precedes(y, x)
    <2>1. x \in All(e) \ T /\ y \in T
      BY <1>2 DEF Lasts
    <2> QED
      BY <2>1
  <1> QED
    BY <1>1, <1>2, RingRight

\* A step of the last merge.
LEMMA LastMergeInv ==
    ASSUME IInv, Spilling, Elsewhere, pc' = "merge", MergeRight', failure' = failure,
           arena' \in [Edges -> Seq(Sample)],
           IsPrefix(arena'[edge], Reference(edge)), Len(arena'[edge]) <= edges[edge].samples
    PROVE  IInv'
  <1>0. /\ UNCHANGED <<recording, max_memory, at, edges>>
        /\ \A e \in Edges : e # edge => arena'[e] = arena[e]
        /\ Types /\ Filled
    BY DEF Elsewhere, IInv
  <1>1. Counts' /\ Shares' /\ Buffered' /\ at' = Len(recording') + 1
    BY ElsewhereInv
  <1>2. Types'
    BY <1>0 DEF Types
  <1>3. Filled'
    <2>1. ASSUME NEW e \in Edges
          PROVE  IsPrefix(arena[e], Reference(e))' /\ Len(arena'[e]) <= edges'[e].samples
      <3>1. Reference(e)' = Reference(e)
        BY <1>0, SameRecording
      <3>2. IsPrefix(arena'[e], Reference(e)) /\ Len(arena'[e]) <= edges[e].samples
        BY <1>0 DEF Filled
      <3> QED
        BY <1>0, <3>1, <3>2 DEF IsPrefix
    <2> QED
      BY <1>0, <2>1 DEF Filled
  <1>4. Phases'
    BY <1>1 DEF Phases, Spilling
  <1> QED
    BY <1>2, <1>3, <1>4 DEF IInv

LEMMA MergeNextStep ==
    ASSUME IInv, MergeNext
    PROVE  IInv'
  <1>0. /\ pc = "merge" /\ Spilling
        /\ UNCHANGED <<recording, max_memory, at, edges, groups, buffers, edge, rest>>
        /\ MergeRight /\ max_memory \in Nat
        /\ Types /\ Filled /\ Counts /\ Shares /\ at = Len(recording) + 1
        /\ arena \in [Edges -> Seq(Sample)] /\ recording \in Seq(Record)
    BY DEF MergeNext, Spilling, IInv, Phases, input, survey, Types
  <1>1. PICK i \in DOMAIN readers :
           LET s == readers[i].window[1] IN
           /\ Least(i)
           /\ readers' = Popped(i)
           /\ pending' = s
           /\ \/ /\ pending = None
                 /\ UNCHANGED <<pc, failure, arena>>
              \/ /\ pending # None /\ pending.stamp = s.stamp
                 /\ UNCHANGED <<pc, failure, arena>>
              \/ /\ pending # None /\ pending.stamp # s.stamp
                 /\ IF Refused THEN Fail("Push") /\ UNCHANGED arena
                    ELSE Push /\ UNCHANGED <<pc, failure>>
    BY DEF MergeNext
  <1> DEFINE s == readers[i].window[1]
             left == Els(Whole(Popped(i)))
             T == Taken
  <1>2. /\ s \in Sample /\ Merging(Popped(i)) /\ Els(Whole(readers)) = {s} \cup left
        /\ \A y \in left : Precedes(s, y)
    BY <1>0, <1>1, PopIs DEF MergeRight, Pops
  <1>3. Merging(readers)' /\ Els(Whole(readers))' = left
    BY <1>0, <1>1, <1>2, MergingNow
  <1>4. /\ pending' = s
        /\ \/ /\ pending = None
              /\ UNCHANGED <<pc, failure, arena>>
           \/ /\ pending # None /\ pending.stamp = s.stamp
              /\ UNCHANGED <<pc, failure, arena>>
           \/ /\ pending # None /\ pending.stamp # s.stamp
              /\ IF Refused THEN Fail("Push") /\ UNCHANGED arena
                 ELSE Push /\ UNCHANGED <<pc, failure>>
    BY <1>1
  <1> HIDE DEF s, left
  <1>5. /\ edge \in Edges /\ arena[edge] \in Seq(Sample)
        /\ IsPrefix(arena[edge], Reference(edge)) /\ Len(arena[edge]) <= edges[edge].samples
    <2>1. edge \in Edges
      BY <1>0 DEF Shares
    <2> QED
      BY <1>0, <2>1 DEF Filled
  <1>6. All(edge) \subseteq Sample /\ All(edge)' = All(edge)
    BY <1>0, KeptIs, EdgeAll
  <1>7. /\ T \in SUBSET Sample /\ T \in SUBSET All(edge) /\ s \in All(edge) /\ left \subseteq All(edge)
        /\ All(edge) \ T = {s} \cup left
        /\ \A x \in T : Precedes(x, s)
        /\ \A x \in T, y \in left : Precedes(x, y)
    BY <1>0, <1>2, <1>6 DEF MergeRight, Taken
  <1>8. Taken' = T \cup {s}
    <2>1. s \notin left
      BY <1>2, PrecedesIs
    <2> QED
      BY <1>3, <1>6, <1>7, <2>1 DEF Taken
  <1>9. Collapsed(arena[edge], pending, T)
    BY <1>0 DEF MergeRight
  <1>10. pending = None <=> T = {}
    <2>1. None \notin Sample
      BY NoneAssumption DEF Sample
    <2> QED
      BY <1>9, <2>1 DEF Collapsed
  <1> HIDE DEF T
  <1>11. ASSUME Collapsed(arena'[edge], s, T \cup {s})
         PROVE  MergeRight'
    <2>1. left \subseteq All(edge)' /\ \A x \in T \cup {s}, y \in left : Precedes(x, y)
      BY <1>2, <1>6, <1>7
    <2>2. Collapsed(arena[edge], pending, Taken)'
      BY <1>0, <1>4, <1>8, <1>11 DEF Collapsed
    <2>3. rest' = <<>>
      BY <1>0 DEF MergeRight
    <2> QED
      BY <1>3, <1>8, <2>1, <2>2, <2>3 DEF MergeRight
  <1>12. CASE pending = None \/ pending.stamp = s.stamp
    <2>1. UNCHANGED <<pc, failure, arena>>
      BY <1>4, <1>12
    <2>2. Collapsed(arena[edge], s, T \cup {s})
      <3>1. CASE T = {}
        <4>1. arena[edge] = <<>> /\ T \cup {s} = {s}
          BY <1>9, <3>1 DEF Collapsed
        <4> QED
          BY <1>2, <4>1, CollapsedFirst
      <3>2. CASE T # {}
        BY <1>2, <1>5, <1>7, <1>9, <1>10, <1>12, <3>2, CollapsedSame
      <3> QED
        BY <3>1, <3>2
    <2> QED
      BY <1>0, <1>5, <1>11, <2>1, <2>2, LastMergeInv DEF Elsewhere
  <1>13. CASE pending # None /\ pending.stamp # s.stamp
    <2> DEFINE a == Append(arena[edge], pending)
    <2>1. T # {} /\ pending \in Sample /\ Rising(a)
      BY <1>9, <1>10, <1>13 DEF Collapsed
    <2>2. /\ Collapsed(a, s, T \cup {s}) /\ Range(a) = Lasts(T)
          /\ \A x \in Lasts(T) : x \in Sample /\ x.stamp < s.stamp
      BY <1>2, <1>5, <1>7, <1>9, <1>13, <2>1, CollapsedNewer
    <2>3. ~Refused
      <3>1. ASSUME arena[edge] # <<>>
            PROVE  Last(arena[edge]).stamp < pending.stamp /\ Last(arena[edge]) \in Sample
        <4>1. Last(arena[edge]) \in Sample
          BY <1>5, <3>1 DEF Last
        <4> QED
          BY <1>5, <2>1, <3>1, <4>1, HeldNewest
      <3> QED
        BY <2>1, <3>1 DEF Refused, Sample
    <2>4. arena' = [arena EXCEPT ![edge] = a] /\ UNCHANGED <<pc, failure>>
      BY <1>4, <1>13, <2>3 DEF Push
    <2>5. a \in Seq(Sample)
      BY <2>1 DEF Rising
    <2> HIDE DEF a
    <2>6. /\ arena'[edge] = a /\ arena' \in [Edges -> Seq(Sample)]
          /\ \A e \in Edges : e # edge => arena'[e] = arena[e]
      BY <1>0, <1>5, <2>4, <2>5
    <2>7. IsPrefix(a, Reference(edge)) /\ Len(a) <= edges[edge].samples
      <3>1. \A x \in T, y \in All(edge) \ T : Precedes(x, y)
        BY <1>7
      <3>2. \A y \in All(edge) \ T : y = s \/ Precedes(s, y)
        BY <1>2, <1>7
      <3> QED
        BY <1>0, <1>2, <1>5, <1>7, <2>1, <2>2, <3>1, <3>2, NewerIsRight
    <2> QED
      BY <1>0, <1>11, <2>2, <2>4, <2>6, <2>7, LastMergeInv DEF Elsewhere
  <1> QED
    BY <1>12, <1>13

\* When the merge has taken everything, what it has made is the edge's filling.
LEMMA MergeEndStep ==
    ASSUME IInv, MergeEnd
    PROVE  IInv'
  <1>0. /\ pc = "merge" /\ Spilling
        /\ UNCHANGED <<recording, max_memory, at, edges, groups, buffers>>
        /\ runs' = <<>> /\ pending' = None
        /\ \A i \in DOMAIN readers : readers[i].window = <<>>
        /\ MergeRight /\ max_memory \in Nat
        /\ Types /\ Filled /\ Counts /\ Shares /\ Buffered /\ at = Len(recording) + 1
        /\ arena \in [Edges -> Seq(Sample)] /\ recording \in Seq(Record)
    BY DEF MergeEnd, Spilling, IInv, Phases, input, survey, Types
  <1> DEFINE a == Append(arena[edge], pending)
  <1>1. Els(Whole(readers)) = {}
    BY <1>0, SpentIs DEF MergeRight
  <1>2. Taken = All(edge) /\ All(edge) # {} /\ edge \in Edges
    BY <1>0, <1>1 DEF Taken, Shares
  <1>3. /\ pending \in Sample /\ Rising(a) /\ Range(a) = Lasts(All(edge))
        /\ arena[edge] \in Seq(Sample)
    BY <1>0, <1>2 DEF MergeRight, Collapsed
  <1>4. ~Refused
    <2>1. ASSUME arena[edge] # <<>>
          PROVE  Last(arena[edge]).stamp < pending.stamp /\ Last(arena[edge]) \in Sample
      <3>1. Last(arena[edge]) \in Sample
        BY <1>3, <2>1 DEF Last
      <3> QED
        BY <1>3, <2>1, <3>1, HeldNewest
    <2> QED
      BY <1>3, <2>1 DEF Refused, Sample
  <1>5. arena' = [arena EXCEPT ![edge] = a] /\ pc' = "groups" /\ failure' = failure
    BY <1>4 DEF MergeEnd, Push
  <1>6. a = Reference(edge) /\ a \in Seq(Sample)
    BY <1>0, <1>3, RisingReference DEF Rising
  <1> HIDE DEF a
  <1>7. /\ arena'[edge] = Reference(edge) /\ arena' \in [Edges -> Seq(Sample)]
        /\ \A e \in Edges : e # edge => arena'[e] = arena[e]
    BY <1>0, <1>2, <1>5, <1>6
  <1>8. Types'
    BY <1>0, <1>5, <1>7 DEF Types
  <1>9. \A e : Reference(e)' = Reference(e)
    BY <1>0, SameRecording
  <1>10. Filled'
    <2>1. ASSUME NEW e \in Edges
          PROVE  IsPrefix(arena[e], Reference(e))' /\ Len(arena'[e]) <= edges'[e].samples
      <3>1. IsPrefix(arena'[e], Reference(e)) /\ Len(arena'[e]) <= edges[e].samples
        <4>1. CASE e = edge
          <5>1. IsPrefix(Reference(e), Reference(e))
            BY <1>0, ReferenceTypes
          <5>2. Len(Reference(e)) <= edges[e].samples
            BY <1>0, ReferenceIs, CountedAll
          <5> QED
            BY <1>7, <4>1, <5>1, <5>2
        <4>2. CASE e # edge
          BY <1>0, <1>7, <4>2 DEF Filled
        <4> QED
          BY <4>1, <4>2
      <3> QED
        BY <1>0, <1>9, <3>1 DEF IsPrefix
    <2> QED
      BY <1>0, <1>5, <2>1 DEF Filled
  <1>11. Counts'
    BY <1>0, CountsSame
  <1>12. Plans(groups)' /\ Covers(groups)' = Covers(groups) /\ Covers(groups) \subseteq Edges
    BY <1>0, SamePlans, CoversEdges DEF Shares
  <1>13. DOMAIN buffers = {} /\ DOMAIN buffers' = {}
    BY <1>0 DEF Buffered
  <1>14. Buffered'
    BY <1>5, <1>13 DEF Buffered
  <1>15. Shares'
    <2>1. edge \notin Covers(groups)
      BY <1>0 DEF Shares
    <2>2. \A e \in Covers(groups) : arena'[e] = <<>>
      BY <1>0, <1>7, <1>12, <2>1 DEF Shares
    <2>3. \A e \in Edges \ Covers(groups) : arena'[e] = Reference(e)
      BY <1>0, <1>7, <1>13 DEF Shares
    <2> QED
      BY <1>5, <1>9, <1>12, <1>13, <2>2, <2>3 DEF Shares, Spilling
  <1>16. Phases'
    BY <1>0, <1>5, <1>11, <1>14, <1>15 DEF Phases, Spilling
  <1> QED
    BY <1>8, <1>10, <1>16 DEF IInv

LEMMA SpillFailsStep ==
    ASSUME IInv, SpillFails
    PROVE  IInv'
  BY FailInv DEF SpillFails, Fail, IInv, Types, input, survey

LEMMA StutterStep ==
    ASSUME IInv, UNCHANGED vars
    PROVE  IInv'
  <1>0. UNCHANGED <<recording, max_memory, pc, failure, at, edges, groups, buffers, edge, rest,
                    runs, spans, next, readers, merged, pending, arena, duplicates>>
    BY DEF vars, input, survey, spill
  <1>1. Types /\ Filled
    BY DEF IInv
  <1>2. Types'
    BY <1>0, <1>1 DEF Types
  <1>3. Filled'
    BY <1>0, <1>1, FilledSame DEF Filled
  <1>4. pc # "failed" => Counts'
    BY <1>0, CountsSame DEF IInv, Phases
  <1>5. \A e : /\ All(e)' = All(e) /\ Reference(e)' = Reference(e)
               /\ SamplesOf(e)' = SamplesOf(e)
    BY <1>0, SameRecording
  <1>6. All(edge)' = All(edge)
    BY <1>0, EdgeAll
  <1>7. ASSUME pc \notin {"survey", "failed"} PROVE Shares' /\ Buffered'
    <2>1. Shares /\ Buffered
      BY <1>7 DEF IInv, Phases
    <2>2. Plans(groups)' /\ Covers(groups)' = Covers(groups)
      BY <1>0, <2>1, SamePlans DEF Shares
    <2>3. Shares'
      BY <1>0, <1>5, <1>6, <2>1, <2>2 DEF Shares, Spilling
    <2>4. CASE pc = "sort"
      <3>1. Fits(DOMAIN buffers)'
        BY <1>0, <2>1, <2>4, BufferedFits DEF Buffered
      <3> QED
        BY <1>0, <1>5, <2>1, <2>3, <2>4, <3>1 DEF Buffered
    <2>5. CASE pc # "sort"
      BY <1>0, <2>1, <2>3, <2>5 DEF Buffered
    <2> QED
      BY <2>3, <2>4, <2>5
  <1>8. ASSUME Merging(readers)
        PROVE  Merging(readers)' /\ Els(Whole(readers))' = Els(Whole(readers))
    BY <1>0, <1>8, MergingNow
  <1>9. pc = "spill" => SpillRight'
    BY <1>0, <1>6 DEF IInv, Phases, SpillRight
  <1>10. pc = "reduce" => ReduceRight'
    BY <1>0, <1>6, <1>8 DEF IInv, Phases, ReduceRight
  <1>11. pc = "merge" => MergeRight'
    <2> SUFFICES ASSUME pc = "merge" PROVE MergeRight'
      OBVIOUS
    <2>1. MergeRight
      BY DEF IInv, Phases
    <2>2. Taken' = Taken
      BY <1>6, <1>8, <2>1 DEF Taken, MergeRight
    <2> QED
      BY <1>0, <1>6, <1>8, <2>1, <2>2 DEF MergeRight, Collapsed
  <1>12. Phases'
    BY <1>0, <1>4, <1>7, <1>9, <1>10, <1>11 DEF IInv, Phases, Spilling
  <1> QED
    BY <1>2, <1>3, <1>12 DEF IInv

LEMMA NextInv == IInv /\ [Next]_vars => IInv'
  <1> SUFFICES ASSUME IInv, [Next]_vars PROVE IInv'
    OBVIOUS
  <1>1. CASE SurveyRecord
    BY <1>1, SurveyRecordStep
  <1>2. CASE SurveyEnd
    BY <1>2, SurveyEndStep
  <1>3. CASE NextGroup
    BY <1>3, NextGroupStep
  <1>4. ASSUME NEW e \in DOMAIN buffers, SortAndPush(e) PROVE IInv'
    BY <1>4, SortAndPushStep
  <1>5. CASE SpillRun
    BY <1>5, SpillRunStep
  <1>6. CASE ReduceBegin
    BY <1>6, ReduceBeginStep
  <1>7. CASE ReduceNext
    BY <1>7, ReduceNextStep
  <1>8. CASE ReduceEnd
    BY <1>8, ReduceEndStep
  <1>9. CASE MergeBegin
    BY <1>9, MergeBeginStep
  <1>10. CASE MergeNext
    BY <1>10, MergeNextStep
  <1>11. CASE MergeEnd
    BY <1>11, MergeEndStep
  <1>12. CASE SpillFails
    BY <1>12, SpillFailsStep
  <1>13. CASE UNCHANGED vars
    BY <1>13, StutterStep
  <1> QED
    BY <1>1, <1>2, <1>3, <1>4, <1>5, <1>6, <1>7, <1>8, <1>9, <1>10, <1>11, <1>12, <1>13
       DEF Next, Spill

-------------------------------------------------------------------------------
(* The theorems. *)

\* The inductive invariant: whatever the recording and the budget, the runs, the
\* buffers and the readers of a spilled edge hold between them exactly its samples,
\* and the rings what the recording says.
THEOREM InvHolds == Spec => []IInv
  <1>1. Init => IInv
    BY InitInv
  <1>2. IInv /\ [Next]_vars => IInv'
    BY NextInv
  <1> QED
    BY <1>1, <1>2, PTL DEF Spec

\* Pass two fills each edge with its samples by stamp, the last of equal stamps
\* only, in memory, by one merge or by reduces before it, and never offers a
\* ring a stamp it refuses (fill, fill_spilled, Merger).
THEOREM FilledRightHolds == Spec => []FilledRight
  <1>1. IInv => FilledRight
    BY InvFilledRight
  <1> QED
    BY <1>1, InvHolds, PTL

\* The buffers of pass two never exceed --max-memory or its floor, whatever the
\* edges, by the group of a plan, one run or the windows of one merge
\* (plan_groups, spill_budget, fan_in, merge_window_samples).
THEOREM WithinCapHolds == Spec => []WithinCap
  <1>1. IInv => WithinCap
    BY InvWithinCap
  <1> QED
    BY <1>1, InvHolds, PTL

\* The ring declared from the count of pass one holds all that pass two pushes,
\* and lookups reach all of it but the oldest sample of an edge whose count is
\* exactly its number of slots (survey, Capacity::slots, retained).
THEOREM NoLapHolds == Spec => []NoLap
  <1>1. IInv => NoLap
    BY InvNoLap
  <1> QED
    BY <1>1, InvHolds, PTL
===============================================================================

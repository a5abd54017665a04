-------------------------------- MODULE Sums --------------------------------
(***************************************************************************)
(* Sums over finite sets, as MapThenSumSet defines them: by a recursion    *)
(* that takes the elements in an order of CHOOSE's.  What the proofs need  *)
(* is that the order does not matter.  The induction behind it is on a set *)
(* of cardinalities, by the least one that is not in it, so that nothing   *)
(* here has an operator for a parameter.  And sorted sets (Sorting).       *)
(***************************************************************************)
EXTENDS Sorting, FiniteSetsExt, FiniteSetTheorems, WellFoundedInduction, TLAPS

LEMMA LeastInduction ==
  ASSUME NEW A, \A n \in Nat : (\A m \in Nat : m < n => m \in A) => n \in A
  PROVE  \A n \in Nat : n \in A
<1> DEFINE bad == {n \in Nat : n \notin A}
<1> SUFFICES ASSUME bad # {} PROVE FALSE
  OBVIOUS
<1>1. IsWellFoundedOn(OpToRel(<,Nat), Nat)
  BY NatLessThanWellFounded
<1>2. PICK n \in bad : \A m \in bad : ~ (<<m, n>> \in OpToRel(<,Nat))
  BY <1>1, WFMin
<1>3. \A m \in Nat : m < n => m \in A
  BY <1>2 DEF OpToRel
<1> QED BY <1>2, <1>3

(* Parts of a finite set, and how their size falls. *)
LEMMA Parts ==
  ASSUME NEW S, IsFiniteSet(S), NEW s \in SUBSET S
  PROVE  /\ IsFiniteSet(s) /\ Cardinality(s) \in Nat /\ Cardinality(s) <= Cardinality(S)
         /\ Cardinality(s) = 0 <=> s = {}
         /\ \A x \in s : s \ {x} \in SUBSET S /\ Cardinality(s \ {x}) = Cardinality(s) - 1
<1>1. IsFiniteSet(s) /\ Cardinality(s) <= Cardinality(S)
  BY FS_Subset
<1>2. Cardinality(s) \in Nat /\ (Cardinality(s) = 0 <=> s = {})
  BY <1>1, FS_CardinalityType, FS_EmptySet
<1>3. \A x \in s : Cardinality(s \ {x}) = Cardinality(s) - 1
  BY <1>1, FS_RemoveElement
<1> QED BY <1>1, <1>2, <1>3

(* A set of parts that has a part when it has all smaller ones has all. *)
LEMMA PartsInduction ==
  ASSUME NEW S, IsFiniteSet(S), NEW A,
         \A s \in SUBSET S :
           (\A t \in SUBSET S : Cardinality(t) < Cardinality(s) => t \in A) => s \in A
  PROVE  \A s \in SUBSET S : s \in A
<1> DEFINE sizes == {n \in Nat : \A s \in SUBSET S : Cardinality(s) = n => s \in A}
<1>1. \A n \in Nat : (\A m \in Nat : m < n => m \in sizes) => n \in sizes
  <2> SUFFICES ASSUME NEW n \in Nat, \A m \in Nat : m < n => m \in sizes,
                      NEW s \in SUBSET S, Cardinality(s) = n
               PROVE  s \in A
    OBVIOUS
  <2>1. \A t \in SUBSET S : Cardinality(t) < n => t \in A
    BY Parts
  <2> QED BY <2>1
<1> HIDE DEF sizes
<1>2. \A n \in Nat : n \in sizes
  BY <1>1, LeastInduction
<1> QED BY <1>2, Parts DEF sizes

-----------------------------------------------------------------------------
(* The recursion of MapThenFoldSet. *)
Sum(f, S) == MapThenSumSet(LAMBDA t : f[t], S)

Chosen(s) == CHOOSE x \in s : TRUE
Added(f, g, s) == IF s = {} THEN 0 ELSE f[Chosen(s)] + g[s \ {Chosen(s)}]
Adds(g, f, S) == g = [s \in SUBSET S |-> Added(f, g, s)]

LEMMA SumIs ==
  ASSUME NEW f, NEW S PROVE Sum(f, S) = (CHOOSE g : Adds(g, f, S))[S]
BY DEF Sum, MapThenSumSet, MapThenFoldSet, Adds, Added, Chosen

LEMMA ChosenIn == ASSUME NEW s, s # {} PROVE Chosen(s) \in s
BY DEF Chosen

(* The recursion is followed as far as the size n by some function. *)
LEMMA AddsExists ==
  ASSUME NEW f, NEW S, IsFiniteSet(S)
  PROVE  \E g : Adds(g, f, S)
<1> DEFINE reached == {n \in Nat : \E g : \A s \in SUBSET S : Cardinality(s) <= n => g[s] = Added(f, g, s)}
<1>1. ASSUME NEW n \in Nat, \A m \in Nat : m < n => m \in reached PROVE n \in reached
  <2>1. CASE n = 0
    <3> DEFINE g == [s \in SUBSET S |-> 0]
    <3>1. \A s \in SUBSET S : Cardinality(s) <= 0 => g[s] = Added(f, g, s)
      <4>1. \A s \in SUBSET S : Cardinality(s) <= 0 => s = {}
        BY Parts
      <4> QED BY <4>1 DEF Added
    <3> QED BY <2>1, <3>1
  <2>2. CASE n # 0
    <3>1. n - 1 \in Nat /\ n - 1 < n
      BY <2>2
    <3>2. PICK g : \A s \in SUBSET S : Cardinality(s) <= n - 1 => g[s] = Added(f, g, s)
      BY <1>1, <3>1
    <3> DEFINE h == [s \in SUBSET S |-> Added(f, g, s)]
    <3>3. ASSUME NEW s \in SUBSET S, Cardinality(s) <= n PROVE h[s] = Added(f, h, s)
      <4>1. CASE s = {}
        BY <4>1 DEF Added
      <4>2. CASE s # {}
        <5> DEFINE t == s \ {Chosen(s)}
        <5>1. t \in SUBSET S /\ Cardinality(t) <= n - 1
          BY <3>3, <4>2, Parts, ChosenIn
        <5>2. h[t] = g[t]
          BY <3>2, <5>1
        <5> QED BY <4>2, <5>2 DEF Added
      <4> QED BY <4>1, <4>2
    <3> QED BY <3>3
  <2> QED BY <2>1, <2>2
<1>2. \A n \in Nat : n \in reached
  <2> HIDE DEF reached
  <2> QED BY <1>1, LeastInduction
<1>3. Cardinality(S) \in reached
  BY <1>2, Parts
<1>4. PICK g : \A s \in SUBSET S : Cardinality(s) <= Cardinality(S) => g[s] = Added(f, g, s)
  BY <1>3
<1>5. \A s \in SUBSET S : g[s] = Added(f, g, s)
  BY <1>4, Parts
<1> DEFINE h == [s \in SUBSET S |-> g[s]]
<1>6. \A s \in SUBSET S : Added(f, g, s) = Added(f, h, s)
  BY ChosenIn DEF Added
<1>7. Adds(h, f, S)
  BY <1>5, <1>6 DEF Adds
<1> QED BY <1>7

LEMMA AddsAgree ==
  ASSUME NEW f, NEW S, IsFiniteSet(S), NEW T \in SUBSET S,
         NEW g, Adds(g, f, S), NEW h, Adds(h, f, T)
  PROVE  g[T] = h[T]
<1> DEFINE same == {s \in SUBSET T : g[s] = h[s]}
<1>1. IsFiniteSet(T)
  BY Parts
<1>2. \A s \in SUBSET T : g[s] = Added(f, g, s) /\ h[s] = Added(f, h, s)
  BY DEF Adds
<1>3. ASSUME NEW s \in SUBSET T,
             \A t \in SUBSET T : Cardinality(t) < Cardinality(s) => t \in same
      PROVE  s \in same
  <2>1. CASE s = {}
    BY <1>2, <2>1 DEF Added
  <2>2. CASE s # {}
    <3> DEFINE t == s \ {Chosen(s)}
    <3>1. t \in SUBSET T /\ Cardinality(t) < Cardinality(s)
      BY <1>1, <2>2, Parts, ChosenIn
    <3>2. g[t] = h[t]
      BY <1>3, <3>1
    <3> QED BY <1>2, <2>2, <3>2 DEF Added
  <2> QED BY <2>1, <2>2
<1>4. \A s \in SUBSET T : s \in same
  <2> HIDE DEF same
  <2> QED BY <1>1, <1>3, PartsInduction
<1> QED BY <1>4

-----------------------------------------------------------------------------
(* What a sum is. *)
LEMMA SumEmpty == ASSUME NEW f PROVE Sum(f, {}) = 0
<1>1. IsFiniteSet({})
  BY FS_EmptySet
<1>2. Adds(CHOOSE g : Adds(g, f, {}), f, {})
  BY <1>1, AddsExists
<1> QED BY <1>2, SumIs DEF Adds, Added

LEMMA SumChosen ==
  ASSUME NEW f, NEW S, IsFiniteSet(S), S # {}
  PROVE  Sum(f, S) = f[Chosen(S)] + Sum(f, S \ {Chosen(S)})
<1> DEFINE T == S \ {Chosen(S)}
           g == CHOOSE a : Adds(a, f, S)
           h == CHOOSE a : Adds(a, f, T)
<1>1. T \in SUBSET S /\ IsFiniteSet(T)
  BY Parts
<1>2. Adds(g, f, S) /\ Adds(h, f, T)
  BY <1>1, AddsExists
<1> HIDE DEF g, h
<1>3. g[T] = h[T]
  BY <1>1, <1>2, AddsAgree
<1>4. g[S] = f[Chosen(S)] + g[T]
  BY <1>2 DEF Adds, Added
<1> QED BY <1>3, <1>4, SumIs DEF g, h

LEMMA SumIsInt ==
  ASSUME NEW f, NEW S, IsFiniteSet(S), \A x \in S : f[x] \in Int
  PROVE  Sum(f, S) \in Int
<1> DEFINE ints == {s \in SUBSET S : Sum(f, s) \in Int}
<1>1. ASSUME NEW s \in SUBSET S,
             \A t \in SUBSET S : Cardinality(t) < Cardinality(s) => t \in ints
      PROVE  s \in ints
  <2>1. CASE s = {}
    BY <2>1, SumEmpty
  <2>2. CASE s # {}
    <3>1. /\ s \ {Chosen(s)} \in SUBSET S /\ Cardinality(s \ {Chosen(s)}) < Cardinality(s)
          /\ Chosen(s) \in S /\ IsFiniteSet(s)
      BY <2>2, Parts, ChosenIn
    <3>2. Sum(f, s) = f[Chosen(s)] + Sum(f, s \ {Chosen(s)})
      BY <2>2, <3>1, SumChosen
    <3>3. f[Chosen(s)] \in Int /\ Sum(f, s \ {Chosen(s)}) \in Int
      BY <1>1, <3>1
    <3> QED BY <3>2, <3>3
  <2> QED BY <2>1, <2>2
<1>2. \A s \in SUBSET S : s \in ints
  <2> HIDE DEF ints
  <2> QED BY <1>1, PartsInduction
<1> QED BY <1>2

(* Any element may be taken first. *)
LEMMA SumTake ==
  ASSUME NEW f, NEW S, IsFiniteSet(S), \A x \in S : f[x] \in Int, NEW x \in S
  PROVE  Sum(f, S) = f[x] + Sum(f, S \ {x})
<1> DEFINE free == {s \in SUBSET S : \A y \in s : Sum(f, s) = f[y] + Sum(f, s \ {y})}
<1>1. ASSUME NEW s \in SUBSET S,
             \A t \in SUBSET S : Cardinality(t) < Cardinality(s) => t \in free,
             NEW y \in s
      PROVE  Sum(f, s) = f[y] + Sum(f, s \ {y})
  <2> DEFINE c == Chosen(s)
  <2>1. c \in s /\ IsFiniteSet(s)
    BY ChosenIn, Parts
  <2>2. Sum(f, s) = f[c] + Sum(f, s \ {c})
    BY <2>1, SumChosen
  <2> HIDE DEF c
  <2>3. CASE y = c
    BY <2>2, <2>3
  <2>4. CASE y # c
    <3>1. /\ s \ {c} \in SUBSET S /\ Cardinality(s \ {c}) < Cardinality(s) /\ y \in s \ {c}
          /\ s \ {y} \in SUBSET S /\ Cardinality(s \ {y}) < Cardinality(s) /\ c \in s \ {y}
      BY <2>1, <2>4, Parts
    <3> DEFINE r == (s \ {c}) \ {y}
    <3>2. Sum(f, s \ {c}) = f[y] + Sum(f, r)
      BY <1>1, <3>1
    <3>3. (s \ {y}) \ {c} = r
      OBVIOUS
    <3>4. Sum(f, s \ {y}) = f[c] + Sum(f, r)
      BY <1>1, <3>1, <3>3
    <3>5. f[y] \in Int /\ f[c] \in Int /\ Sum(f, r) \in Int
      <4>1. r \in SUBSET S /\ IsFiniteSet(r)
        BY Parts
      <4> QED BY <2>1, <4>1, SumIsInt
    <3> HIDE DEF r
    <3> QED BY <2>2, <3>2, <3>4, <3>5
  <2> QED BY <2>3, <2>4
<1>2. \A s \in SUBSET S : s \in free
  <2>1. \A s \in SUBSET S :
          (\A t \in SUBSET S : Cardinality(t) < Cardinality(s) => t \in free) => s \in free
    BY <1>1
  <2> HIDE DEF free
  <2> QED BY <2>1, PartsInduction
<1> QED BY <1>2

(* Only the values at the elements count. *)
LEMMA SumSame ==
  ASSUME NEW f, NEW g, NEW S, IsFiniteSet(S), \A x \in S : f[x] = g[x]
  PROVE  Sum(f, S) = Sum(g, S)
<1> DEFINE same == {s \in SUBSET S : Sum(f, s) = Sum(g, s)}
<1>1. ASSUME NEW s \in SUBSET S,
             \A t \in SUBSET S : Cardinality(t) < Cardinality(s) => t \in same
      PROVE  s \in same
  <2>1. CASE s = {}
    BY <2>1, SumEmpty
  <2>2. CASE s # {}
    <3>1. /\ s \ {Chosen(s)} \in SUBSET S /\ Cardinality(s \ {Chosen(s)}) < Cardinality(s)
          /\ Chosen(s) \in S /\ IsFiniteSet(s)
      BY <2>2, Parts, ChosenIn
    <3>2. /\ Sum(f, s) = f[Chosen(s)] + Sum(f, s \ {Chosen(s)})
          /\ Sum(g, s) = g[Chosen(s)] + Sum(g, s \ {Chosen(s)})
      BY <2>2, <3>1, SumChosen
    <3> QED BY <1>1, <3>1, <3>2
  <2> QED BY <2>1, <2>2
<1>2. \A s \in SUBSET S : s \in same
  <2> HIDE DEF same
  <2> QED BY <1>1, PartsInduction
<1> QED BY <1>2

(* One value changed. *)
LEMMA SumChanged ==
  ASSUME NEW f, NEW g, NEW S, IsFiniteSet(S), \A x \in S : f[x] \in Int /\ g[x] \in Int,
         NEW x \in S, \A y \in S \ {x} : g[y] = f[y]
  PROVE  Sum(g, S) = Sum(f, S) + (g[x] - f[x])
<1>1. IsFiniteSet(S \ {x})
  BY Parts
<1>2. Sum(f, S) = f[x] + Sum(f, S \ {x}) /\ Sum(g, S) = g[x] + Sum(g, S \ {x})
  BY SumTake
<1>3. Sum(f, S \ {x}) = Sum(g, S \ {x})
  BY <1>1, SumSame
<1>4. Sum(f, S \ {x}) \in Int /\ f[x] \in Int /\ g[x] \in Int
  BY <1>1, SumIsInt
<1> QED BY <1>2, <1>3, <1>4

(* A part and the rest. *)
LEMMA SumSplit ==
  ASSUME NEW f, NEW S, IsFiniteSet(S), \A x \in S : f[x] \in Int, NEW T \in SUBSET S
  PROVE  Sum(f, S) = Sum(f, T) + Sum(f, S \ T)
<1> DEFINE split == {s \in SUBSET S : Sum(f, S) = Sum(f, s) + Sum(f, S \ s)}
<1>1. ASSUME NEW s \in SUBSET S,
             \A t \in SUBSET S : Cardinality(t) < Cardinality(s) => t \in split
      PROVE  s \in split
  <2>1. CASE s = {}
    <3>1. S \ {} = S /\ Sum(f, S) \in Int
      BY SumIsInt
    <3> QED BY <2>1, <3>1, SumEmpty
  <2>2. CASE s # {}
    <3> DEFINE x == Chosen(s)
               t == s \ {x}
               rest == S \ s
    <3>1. /\ x \in s /\ x \in S /\ t \in SUBSET S /\ Cardinality(t) < Cardinality(s)
          /\ IsFiniteSet(s) /\ IsFiniteSet(t) /\ IsFiniteSet(rest) /\ IsFiniteSet(S \ t)
      BY <2>2, Parts, ChosenIn
    <3>2. Sum(f, S) = Sum(f, t) + Sum(f, S \ t)
      BY <1>1, <3>1
    <3>3. Sum(f, s) = f[x] + Sum(f, t)
      BY <2>2, <3>1, SumChosen
    <3>4. x \in S \ t /\ (S \ t) \ {x} = rest
      BY <3>1
    <3>5. Sum(f, S \ t) = f[x] + Sum(f, rest)
      <4>1. Sum(f, S \ t) = f[x] + Sum(f, (S \ t) \ {x})
        BY <3>1, <3>4, SumTake
      <4> QED BY <3>4, <4>1
    <3>6. f[x] \in Int /\ Sum(f, t) \in Int /\ Sum(f, rest) \in Int
      BY <3>1, SumIsInt
    <3> HIDE DEF t, rest, x
    <3>7. Sum(f, S) = Sum(f, s) + Sum(f, rest)
      BY <3>2, <3>3, <3>5, <3>6
    <3> QED BY <3>7 DEF rest
  <2> QED BY <2>1, <2>2
<1>2. \A s \in SUBSET S : s \in split
  <2> HIDE DEF split
  <2> QED BY <1>1, PartsInduction
<1> QED BY <1>2

(* A bound on every term bounds the sum. *)
LEMMA SumAtLeast ==
  ASSUME NEW f, NEW S, IsFiniteSet(S), NEW b \in Int, \A x \in S : f[x] \in Int /\ b <= f[x]
  PROVE  Cardinality(S) * b <= Sum(f, S)
<1> DEFINE above == {s \in SUBSET S : Cardinality(s) * b <= Sum(f, s)}
<1>1. ASSUME NEW s \in SUBSET S,
             \A t \in SUBSET S : Cardinality(t) < Cardinality(s) => t \in above
      PROVE  s \in above
  <2>1. CASE s = {}
    <3>1. Cardinality(s) = 0 /\ Sum(f, s) = 0
      BY <2>1, SumEmpty, FS_EmptySet
    <3> QED BY <3>1
  <2>2. CASE s # {}
    <3> DEFINE x == Chosen(s)
               t == s \ {x}
               n == Cardinality(s)
    <3>1. /\ x \in S /\ t \in SUBSET S /\ Cardinality(t) = n - 1 /\ n \in Nat
          /\ IsFiniteSet(s) /\ IsFiniteSet(t)
      BY <2>2, Parts, ChosenIn
    <3>2. Sum(f, s) = f[x] + Sum(f, t)
      BY <2>2, <3>1, SumChosen
    <3>3. (n - 1) * b <= Sum(f, t)
      BY <1>1, <3>1
    <3>4. f[x] \in Int /\ b <= f[x] /\ Sum(f, t) \in Int
      BY <3>1, SumIsInt
    <3>5. (n - 1) * b = n * b - b /\ n * b \in Int
      <4>1. \A k \in Nat : (k - 1) * b = k * b - b /\ k * b \in Int
        OBVIOUS
      <4> QED BY <3>1, <4>1
    <3> HIDE DEF x, t, n
    <3>6. n * b <= Sum(f, s)
      BY <3>2, <3>3, <3>4, <3>5
    <3> QED BY <3>6 DEF n
  <2> QED BY <2>1, <2>2
<1>2. \A s \in SUBSET S : s \in above
  <2> HIDE DEF above
  <2> QED BY <1>1, PartsInduction
<1> QED BY <1>2

LEMMA SumAtMost ==
  ASSUME NEW f, NEW S, IsFiniteSet(S), NEW b \in Int, \A x \in S : f[x] \in Int /\ f[x] <= b
  PROVE  Sum(f, S) <= Cardinality(S) * b
<1> DEFINE below == {s \in SUBSET S : Sum(f, s) <= Cardinality(s) * b}
<1>1. ASSUME NEW s \in SUBSET S,
             \A t \in SUBSET S : Cardinality(t) < Cardinality(s) => t \in below
      PROVE  s \in below
  <2>1. CASE s = {}
    <3>1. Cardinality(s) = 0 /\ Sum(f, s) = 0
      BY <2>1, SumEmpty, FS_EmptySet
    <3> QED BY <3>1
  <2>2. CASE s # {}
    <3> DEFINE x == Chosen(s)
               t == s \ {x}
               n == Cardinality(s)
    <3>1. /\ x \in S /\ t \in SUBSET S /\ Cardinality(t) = n - 1 /\ n \in Nat
          /\ IsFiniteSet(s) /\ IsFiniteSet(t)
      BY <2>2, Parts, ChosenIn
    <3>2. Sum(f, s) = f[x] + Sum(f, t)
      BY <2>2, <3>1, SumChosen
    <3>3. Sum(f, t) <= (n - 1) * b
      BY <1>1, <3>1
    <3>4. f[x] \in Int /\ f[x] <= b /\ Sum(f, t) \in Int
      BY <3>1, SumIsInt
    <3>5. (n - 1) * b = n * b - b /\ n * b \in Int
      <4>1. \A k \in Nat : (k - 1) * b = k * b - b /\ k * b \in Int
        OBVIOUS
      <4> QED BY <3>1, <4>1
    <3> HIDE DEF x, t, n
    <3>6. Sum(f, s) <= n * b
      BY <3>2, <3>3, <3>4, <3>5
    <3> QED BY <3>6 DEF n
  <2> QED BY <2>1, <2>2
<1>2. \A s \in SUBSET S : s \in below
  <2> HIDE DEF below
  <2> QED BY <1>1, PartsInduction
<1> QED BY <1>2

(* With terms that are natural numbers, more of them is no less. *)
LEMMA SumGrows ==
  ASSUME NEW f, NEW S, IsFiniteSet(S), \A x \in S : f[x] \in Nat, NEW T \in SUBSET S
  PROVE  Sum(f, T) \in Nat /\ Sum(f, S) \in Nat /\ Sum(f, T) <= Sum(f, S)
<1>1. ASSUME NEW s \in SUBSET S PROVE Sum(f, s) \in Nat
  <2>1. IsFiniteSet(s) /\ Cardinality(s) \in Nat
    BY Parts
  <2>2. Cardinality(s) * 0 <= Sum(f, s) /\ Sum(f, s) \in Int
    BY <2>1, SumAtLeast, SumIsInt
  <2> QED BY <2>1, <2>2
<1>2. Sum(f, S) = Sum(f, T) + Sum(f, S \ T)
  BY SumSplit
<1> QED BY <1>1, <1>2

(* Terms that are the sums of two. *)
LEMMA SumPlus ==
  ASSUME NEW f, NEW g, NEW h, NEW S, IsFiniteSet(S),
         \A x \in S : f[x] \in Int /\ g[x] \in Int /\ h[x] = f[x] + g[x]
  PROVE  Sum(h, S) = Sum(f, S) + Sum(g, S)
<1> DEFINE added == {s \in SUBSET S : Sum(h, s) = Sum(f, s) + Sum(g, s)}
<1>1. ASSUME NEW s \in SUBSET S,
             \A t \in SUBSET S : Cardinality(t) < Cardinality(s) => t \in added
      PROVE  s \in added
  <2>1. CASE s = {}
    BY <2>1, SumEmpty
  <2>2. CASE s # {}
    <3> DEFINE x == Chosen(s)
               t == s \ {x}
    <3>1. /\ t \in SUBSET S /\ Cardinality(t) < Cardinality(s)
          /\ x \in S /\ IsFiniteSet(s) /\ IsFiniteSet(t)
      BY <2>2, Parts, ChosenIn
    <3>2. /\ Sum(f, s) = f[x] + Sum(f, t) /\ Sum(g, s) = g[x] + Sum(g, t)
          /\ Sum(h, s) = h[x] + Sum(h, t)
      BY <2>2, <3>1, SumChosen
    <3>3. Sum(h, t) = Sum(f, t) + Sum(g, t) /\ h[x] = f[x] + g[x]
      BY <1>1, <3>1
    <3>4. Sum(f, t) \in Int /\ Sum(g, t) \in Int /\ f[x] \in Int /\ g[x] \in Int
      BY <3>1, SumIsInt
    <3> HIDE DEF x, t
    <3> QED BY <3>2, <3>3, <3>4
  <2> QED BY <2>1, <2>2
<1>2. \A s \in SUBSET S : s \in added
  <2> HIDE DEF added
  <2> QED BY <1>1, PartsInduction
<1> QED BY <1>2

LEMMA SumZero ==
  ASSUME NEW f, NEW S, IsFiniteSet(S), \A x \in S : f[x] = 0
  PROVE  Sum(f, S) = 0
<1>1. Cardinality(S) * 0 <= Sum(f, S) /\ Sum(f, S) <= Cardinality(S) * 0 /\ Sum(f, S) \in Int
  BY SumAtLeast, SumAtMost, SumIsInt
<1>2. Cardinality(S) \in Nat
  BY FS_CardinalityType
<1> QED BY <1>1, <1>2

(* A factor of every term is one of the sum. *)
LEMMA SumTimes ==
  ASSUME NEW f, NEW g, NEW S, IsFiniteSet(S), NEW k \in Int,
         \A x \in S : f[x] \in Int /\ g[x] = f[x] * k
  PROVE  Sum(g, S) = Sum(f, S) * k
<1> DEFINE scaled == {s \in SUBSET S : Sum(g, s) = Sum(f, s) * k}
<1>1. ASSUME NEW s \in SUBSET S,
             \A t \in SUBSET S : Cardinality(t) < Cardinality(s) => t \in scaled
      PROVE  s \in scaled
  <2>1. CASE s = {}
    <3>1. Sum(f, s) = 0 /\ Sum(g, s) = 0
      BY <2>1, SumEmpty
    <3> QED BY <3>1
  <2>2. CASE s # {}
    <3> DEFINE x == Chosen(s)
               t == s \ {x}
    <3>1. x \in s /\ x \in S /\ IsFiniteSet(s)
      BY <2>2, ChosenIn, Parts
    <3>2. t \in SUBSET S /\ Cardinality(t) < Cardinality(s) /\ IsFiniteSet(t)
      <4>1. t \in SUBSET S /\ Cardinality(t) = Cardinality(s) - 1 /\ Cardinality(s) \in Nat
        BY <3>1, Parts
      <4> QED BY <3>1, <4>1, FS_RemoveElement
    <3> HIDE DEF x
    <3>3. Sum(g, t) = Sum(f, t) * k
      BY <1>1, <3>2
    <3>4. \A y \in s : f[y] \in Int /\ g[y] \in Int
      OBVIOUS
    <3>5. Sum(f, s) = f[x] + Sum(f, t) /\ Sum(g, s) = g[x] + Sum(g, t)
      BY <3>1, <3>4, SumTake
    <3>6. Sum(f, t) \in Int
      BY <3>2, SumIsInt
    <3>7. f[x] \in Int /\ g[x] = f[x] * k
      BY <3>1
    <3> HIDE DEF t
    <3>8. f[x] * k + Sum(f, t) * k = (f[x] + Sum(f, t)) * k
      BY <3>6, <3>7
    <3> QED BY <3>3, <3>5, <3>7, <3>8
  <2> QED BY <2>1, <2>2
<1> HIDE DEF scaled
<1>2. \A s \in SUBSET S : s \in scaled
  BY <1>1, PartsInduction
<1> QED BY <1>2 DEF scaled

(* Terms that are all the same. *)
LEMMA SumConstant ==
  ASSUME NEW f, NEW S, IsFiniteSet(S), NEW b \in Int, \A x \in S : f[x] = b
  PROVE  Sum(f, S) = Cardinality(S) * b
<1>1. Cardinality(S) * b <= Sum(f, S) /\ Sum(f, S) <= Cardinality(S) * b /\ Sum(f, S) \in Int
  BY SumAtLeast, SumAtMost, SumIsInt
<1>2. Cardinality(S) * b \in Int
  BY FS_CardinalityType
<1> QED BY <1>1, <1>2

(***************************************************************************)
(* Sorted sets.  Places tell the elements apart, so that there is one for  *)
(* every number up to the cardinality.                                     *)
(***************************************************************************)
LEMMA PlaceIs ==
  ASSUME NEW S \in SUBSET Int, IsFiniteSet(S), NEW i \in S
  PROVE  Place(S, i) \in Nat /\ 1 <= Place(S, i) /\ Place(S, i) <= Cardinality(S)
<1> DEFINE T == {j \in S : j <= i}
<1>1. T \in SUBSET S /\ i \in T
  OBVIOUS
<1>2. /\ Cardinality(T) \in Nat /\ Cardinality(T) <= Cardinality(S)
      /\ Cardinality(T) = 0 <=> T = {}
  BY <1>1, Parts
<1> QED BY <1>1, <1>2 DEF Place

LEMMA PlacesIncrease ==
  ASSUME NEW S \in SUBSET Int, IsFiniteSet(S), NEW i \in S, NEW j \in S, i < j
  PROVE  Place(S, i) < Place(S, j)
<1> DEFINE T == {k \in S : k <= i}
           U == {k \in S : k <= j}
<1>1. T \in SUBSET U /\ j \in U /\ j \notin T /\ U \in SUBSET S
  <2>1. \A k \in S : k \in Int
    OBVIOUS
  <2>2. \A k \in S : k <= i => k <= j
    BY <2>1
  <2>3. ~(j <= i) /\ j <= j
    BY <2>1
  <2> QED BY <2>2, <2>3
<1>2. IsFiniteSet(U)
  BY <1>1, Parts
<1>3. Cardinality(T) <= Cardinality(U) /\ (Cardinality(U) = Cardinality(T) => U = T)
  BY <1>1, <1>2, FS_Subset
<1>4. Cardinality(T) \in Nat /\ Cardinality(U) \in Nat
  BY <1>1, <1>2, Parts
<1> QED BY <1>1, <1>3, <1>4 DEF Place

LEMMA InOrderIs ==
  ASSUME NEW S \in SUBSET Int, IsFiniteSet(S)
  PROVE  /\ Cardinality(S) \in Nat
         /\ InOrder(S) \in [1 .. Cardinality(S) -> S]
         /\ \A n \in 1 .. Cardinality(S) : Place(S, InOrder(S)[n]) = n
<1> DEFINE N == Cardinality(S)
           place == [i \in S |-> Place(S, i)]
<1>1. N \in Nat
  BY FS_CardinalityType
<1>2. IsFiniteSet(1 .. N) /\ Cardinality(1 .. N) = N
  <2>1. \A n \in Nat : IsFiniteSet(1 .. n) /\ Cardinality(1 .. n) = n
    BY FS_Interval
  <2> QED BY <1>1, <2>1
<1>3. place \in Injection(S, 1 .. N)
  <2>1. place \in [S -> 1 .. N]
    BY PlaceIs, <1>1
  <2>2. \A i, j \in S : place[i] = place[j] => i = j
    <3> SUFFICES ASSUME NEW i \in S, NEW j \in S, place[i] = place[j], i # j PROVE FALSE
      OBVIOUS
    <3>1. Place(S, i) \in Nat /\ Place(S, j) \in Nat
      BY PlaceIs
    <3>2. i < j \/ j < i
      OBVIOUS
    <3> QED BY <3>1, <3>2, PlacesIncrease
  <2> QED BY <2>1, <2>2 DEF Injection, IsInjective
<1>4. place \in Surjection(S, 1 .. N)
  <2> HIDE DEF place
  <2> QED BY <1>2, <1>3, FS_Injection
<1>5. \A n \in 1 .. N : \E i \in S : Place(S, i) = n
  BY <1>4 DEF Surjection
<1>6. \A n \in 1 .. N : InOrder(S)[n] \in S /\ Place(S, InOrder(S)[n]) = n
  BY <1>5 DEF InOrder
<1> QED BY <1>1, <1>6 DEF InOrder
=============================================================================

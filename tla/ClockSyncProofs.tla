--------------------------- MODULE ClockSyncProofs ---------------------------
(* Theorems about ClockSync: types, the error bound of the clock estimate,  *)
(* the calibration and the drift of steady samples, for any delays, skews,  *)
(* bounds and numbers of samples kept, and the lemmas about sums over       *)
(* finite sets that they rest on.                                          *)
EXTENDS ClockSync, FiniteSetTheorems, SequenceTheorems, TLAPS

(* Sums over finite sets.                                                  *)

(* A family of finite sets has a least member: what induction over finite  *)
(* sets rests on here.                                                     *)
LEMMA LeastSubset ==
  ASSUME NEW S, IsFiniteSet(S), NEW T, T \subseteq SUBSET S, T # {}
  PROVE  \E s \in T : \A u \in T : u \subseteq s => u = s
  <1>1. IsWellFoundedOn(StrictSubsetOrdering(S), SUBSET S)
    BY FS_StrictSubsetOrderingWellFounded, FS_FiniteSubsetsOfFinite
  <1>2. PICK s \in T : \A u \in T : <<u, s>> \notin StrictSubsetOrdering(S)
    BY <1>1, WFMin
  <1>3. ASSUME NEW u \in T, u \subseteq s, u # s PROVE FALSE
    <2>1. <<u, s>> \in (SUBSET S) \X (SUBSET S)
      BY <1>3
    <2>2. <<u, s>> \in StrictSubsetOrdering(S)
      BY <1>3, <2>1 DEF StrictSubsetOrdering
    <2>3. QED BY <1>2, <2>2
  <1>4. QED BY <1>3

(* The sum of g over s, from the sums f over smaller sets. *)
SumFrom(g, f, s) ==
  IF s = {} THEN 0
  ELSE g[CHOOSE x \in s : TRUE] + f[s \ {CHOOSE x \in s : TRUE}]

Sums(f, g, S) == f = [s \in SUBSET S |-> SumFrom(g, f, s)]

LEMMA SumsAgree ==
  ASSUME NEW S, IsFiniteSet(S), NEW g, NEW f, NEW h, NEW U, S \subseteq U,
         Sums(f, g, S), Sums(h, g, U)
  PROVE  \A s \in SUBSET S : f[s] = h[s]
  <1> DEFINE T == {s \in SUBSET S : f[s] # h[s]}
  <1>1. SUFFICES ASSUME T # {} PROVE FALSE
    OBVIOUS
  <1>2. PICK s \in T : \A u \in T : u \subseteq s => u = s
    <2>1. T \subseteq SUBSET S
      OBVIOUS
    <2> HIDE DEF T
    <2>2. QED BY <1>1, <2>1, LeastSubset
  <1>3. f[s] = SumFrom(g, f, s) /\ h[s] = SumFrom(g, h, s)
    BY DEF Sums
  <1>4. s # {}
    BY <1>3 DEF SumFrom
  <1>5. PICK x : x = CHOOSE y \in s : TRUE
    OBVIOUS
  <1>6. x \in s
    BY <1>4, <1>5
  <1>7. f[s \ {x}] = h[s \ {x}]
    BY <1>2, <1>6
  <1>8. QED BY <1>3, <1>4, <1>5, <1>7 DEF SumFrom

LEMMA SumsExist ==
  ASSUME NEW S, IsFiniteSet(S), NEW g
  PROVE  \E f : Sums(f, g, S)
  <1> DEFINE T == {s \in SUBSET S : ~ \E f : Sums(f, g, s)}
  <1>1. SUFFICES ASSUME T # {} PROVE FALSE
    OBVIOUS
  <1>2. PICK s \in T : \A u \in T : u \subseteq s => u = s
    <2>1. T \subseteq SUBSET S
      OBVIOUS
    <2> HIDE DEF T
    <2>2. QED BY <1>1, <2>1, LeastSubset
  <1> DEFINE Sum(u) == CHOOSE f : Sums(f, g, u)
             sum == [u \in SUBSET s |-> IF u = s THEN SumFrom(g, [v \in SUBSET s |-> Sum(v)[v]], s)
                                         ELSE Sum(u)[u]]
  <1>3. ASSUME NEW u \in SUBSET s, u # s PROVE Sums(Sum(u), g, u)
    <2>1. \E f : Sums(f, g, u)
      BY <1>2, <1>3
    <2>2. QED BY <2>1
  <1>4. ASSUME NEW u \in SUBSET s PROVE sum[u] = SumFrom(g, sum, u)
    <2>1. CASE u = {}
      <3>1. CASE u = s
        BY <2>1, <3>1 DEF SumFrom
      <3>2. CASE u # s
        <4>1. Sums(Sum(u), g, u)
          BY <1>3, <3>2
        <4> HIDE DEF Sum
        <4>2. Sum(u)[u] = 0
          BY <2>1, <4>1 DEF Sums, SumFrom
        <4>3. QED BY <2>1, <3>2, <4>2 DEF SumFrom
      <3>3. QED BY <3>1, <3>2
    <2>2. CASE u # {}
      <3>1. PICK x : x = CHOOSE y \in u : TRUE
        OBVIOUS
      <3>2. x \in u /\ u \ {x} \in SUBSET s /\ u \ {x} # s
        BY <2>2, <3>1
      <3>3. sum[u \ {x}] = Sum(u \ {x})[u \ {x}]
        BY <3>2
      <3>4. SumFrom(g, sum, u) = g[x] + Sum(u \ {x})[u \ {x}]
        <4> HIDE DEF sum
        <4>1. QED BY <2>2, <3>1, <3>3 DEF SumFrom
      <3>5. CASE u = s
        <4> HIDE DEF Sum
        <4>1. sum[u] = g[x] + [v \in SUBSET s |-> Sum(v)[v]][u \ {x}]
          BY <2>2, <3>1, <3>5 DEF SumFrom
        <4>2. QED BY <3>2, <3>4, <4>1
      <3>6. CASE u # s
        <4>1. Sums(Sum(u), g, u)
          BY <1>3, <3>6
        <4>2. Sums(Sum(u \ {x}), g, u \ {x})
          BY <1>3, <3>2
        <4>3. IsFiniteSet(u \ {x})
          <5>1. u \ {x} \subseteq S
            OBVIOUS
          <5>2. QED BY <5>1, FS_Subset
        <4> HIDE DEF Sum
        <4>4. Sum(u \ {x})[u \ {x}] = Sum(u)[u \ {x}]
          <5>1. u \ {x} \subseteq u
            OBVIOUS
          <5>2. \A v \in SUBSET (u \ {x}) : Sum(u \ {x})[v] = Sum(u)[v]
            BY ONLY <4>1, <4>2, <4>3, <5>1, SumsAgree
          <5>3. QED BY <5>2
        <4>5. Sum(u)[u] = g[x] + Sum(u)[u \ {x}]
          BY <2>2, <3>1, <4>1 DEF Sums, SumFrom
        <4>6. sum[u] = Sum(u)[u]
          BY <3>6
        <4>7. QED BY <3>4, <4>4, <4>5, <4>6
      <3>7. QED BY <3>5, <3>6
    <2>3. QED BY <2>1, <2>2
  <1>5. Sums(sum, g, s)
    <2>1. sum = [u \in SUBSET s |-> sum[u]]
      OBVIOUS
    <2> HIDE DEF sum
    <2>2. QED BY <1>4, <2>1 DEF Sums
  <1>6. QED BY <1>5

LEMMA SumIsRecursive ==
  ASSUME NEW S, IsFiniteSet(S), NEW g
  PROVE  \E f : /\ Sums(f, g, S)
                /\ \A s \in SUBSET S : SumFunctionOnSet(g, s) = f[s]
  <1>1. PICK f : Sums(f, g, S)
    BY SumsExist
  <1>2. ASSUME NEW s \in SUBSET S PROVE SumFunctionOnSet(g, s) = f[s]
    <2> DEFINE h == CHOOSE i : Sums(i, g, s)
    <2>1. IsFiniteSet(s)
      BY FS_Subset
    <2>2. Sums(h, g, s)
      BY <2>1, SumsExist
    <2>3. SumFunctionOnSet(g, s) = h[s]
      BY DEF SumFunctionOnSet, FoldFunctionOnSet, MapThenFoldSet, Sums, SumFrom
    <2> HIDE DEF h
    <2>4. \A t \in SUBSET s : h[t] = f[t]
      BY <1>1, <2>1, <2>2, SumsAgree
    <2>5. QED BY <2>3, <2>4
  <1>3. QED BY <1>1, <1>2

(* The sum over S of a family of integers g, of which any member may be    *)
(* taken out.                                                              *)
Total(g, S) == SumFunctionOnSet(g, S)

IntOn(g, S) == \A i \in S : g[i] \in Int

LEMMA TotalEmpty == ASSUME NEW g PROVE Total(g, {}) = 0
  <1>1. IsFiniteSet({})
    BY FS_EmptySet
  <1>2. PICK f : Sums(f, g, {}) /\ \A s \in SUBSET {} : SumFunctionOnSet(g, s) = f[s]
    BY <1>1, SumIsRecursive
  <1>3. f[{}] = 0
    BY <1>2 DEF Sums, SumFrom
  <1>4. QED BY <1>2, <1>3 DEF Total

LEMMA TotalFrom ==
  ASSUME NEW S, IsFiniteSet(S), S # {}, NEW g
  PROVE  \E x \in S : Total(g, S) = g[x] + Total(g, S \ {x})
  <1>1. PICK f : Sums(f, g, S) /\ \A s \in SUBSET S : SumFunctionOnSet(g, s) = f[s]
    BY SumIsRecursive
  <1>2. PICK x : x = CHOOSE y \in S : TRUE
    OBVIOUS
  <1>3. x \in S
    BY <1>2
  <1>4. f[S] = g[x] + f[S \ {x}]
    BY <1>1, <1>2 DEF Sums, SumFrom
  <1>5. Total(g, S) = f[S] /\ Total(g, S \ {x}) = f[S \ {x}]
    BY <1>1 DEF Total
  <1>6. QED BY <1>3, <1>4, <1>5

LEMMA TotalTyped ==
  ASSUME NEW S, IsFiniteSet(S), NEW g, IntOn(g, S)
  PROVE  Total(g, S) \in Int
  <1> DEFINE T == {s \in SUBSET S : Total(g, s) \notin Int}
  <1>1. SUFFICES ASSUME T # {} PROVE FALSE
    OBVIOUS
  <1>2. PICK s \in T : \A u \in T : u \subseteq s => u = s
    <2>1. T \subseteq SUBSET S
      OBVIOUS
    <2> HIDE DEF T
    <2>2. QED BY <1>1, <2>1, LeastSubset
  <1>3. s # {}
    BY <1>2, TotalEmpty
  <1>4. IsFiniteSet(s)
    BY FS_Subset
  <1>5. PICK x \in s : Total(g, s) = g[x] + Total(g, s \ {x})
    BY <1>3, <1>4, TotalFrom
  <1>6. Total(g, s \ {x}) \in Int
    BY <1>2
  <1>7. QED BY <1>5, <1>6 DEF IntOn

LEMMA TotalWithout ==
  ASSUME NEW S, IsFiniteSet(S), NEW g, IntOn(g, S), NEW x \in S
  PROVE  Total(g, S) = g[x] + Total(g, S \ {x})
  <1> DEFINE Fails(s) == \E y \in s : Total(g, s) # g[y] + Total(g, s \ {y})
             T == {s \in SUBSET S : Fails(s)}
  <1>1. SUFFICES ASSUME T # {} PROVE FALSE
    OBVIOUS
  <1>2. PICK s \in T : \A u \in T : u \subseteq s => u = s
    <2>1. T \subseteq SUBSET S
      OBVIOUS
    <2> HIDE DEF T
    <2>2. QED BY <1>1, <2>1, LeastSubset
  <1>3. PICK y \in s : Total(g, s) # g[y] + Total(g, s \ {y})
    OBVIOUS
  <1>4. PICK c \in s : Total(g, s) = g[c] + Total(g, s \ {c})
    <2>1. IsFiniteSet(s) /\ s # {}
      BY FS_Subset
    <2>2. QED BY <2>1, TotalFrom
  <1>5. c # y
    BY <1>3, <1>4
  <1>6. ASSUME NEW u \in SUBSET s, u # s, NEW z \in u
        PROVE  Total(g, u) = g[z] + Total(g, u \ {z})
    BY <1>2, <1>6
  <1>7. Total(g, s \ {c}) = g[y] + Total(g, (s \ {c}) \ {y})
    BY <1>5, <1>6
  <1>8. Total(g, s \ {y}) = g[c] + Total(g, (s \ {y}) \ {c})
    BY <1>5, <1>6
  <1>9. (s \ {c}) \ {y} = (s \ {y}) \ {c}
    OBVIOUS
  <1>10. Total(g, (s \ {c}) \ {y}) \in Int /\ g[c] \in Int /\ g[y] \in Int
    <2>1. IsFiniteSet((s \ {c}) \ {y})
      <3>1. (s \ {c}) \ {y} \subseteq S
        OBVIOUS
      <3>2. QED BY <3>1, FS_Subset
    <2>2. IntOn(g, (s \ {c}) \ {y})
      BY DEF IntOn
    <2>3. QED BY <2>1, <2>2, TotalTyped DEF IntOn
  <1>11. PICK r \in Int : r = Total(g, (s \ {c}) \ {y})
    BY <1>10
  <1>12. /\ Total(g, s) = g[c] + (g[y] + r)
         /\ Total(g, s \ {y}) = g[c] + r
    BY <1>4, <1>7, <1>8, <1>9, <1>11
  <1>13. QED BY <1>3, <1>10, <1>11, <1>12

(* A family of one value, and a family times a number. *)
LEMMA TotalOfConstant ==
  ASSUME NEW S, IsFiniteSet(S), NEW g, NEW c \in Int, \A i \in S : g[i] = c
  PROVE  Total(g, S) = c * Cardinality(S)
  <1> DEFINE T == {s \in SUBSET S : Total(g, s) # c * Cardinality(s)}
  <1>1. SUFFICES ASSUME T # {} PROVE FALSE
    OBVIOUS
  <1>2. PICK s \in T : \A u \in T : u \subseteq s => u = s
    <2>1. T \subseteq SUBSET S
      OBVIOUS
    <2> HIDE DEF T
    <2>2. QED BY <1>1, <2>1, LeastSubset
  <1>3. s # {}
    <2>1. Cardinality({}) = 0 /\ c * 0 = 0
      BY FS_EmptySet
    <2>2. QED BY <1>2, <2>1, TotalEmpty
  <1>4. PICK x \in s : TRUE
    BY <1>3
  <1>5. IsFiniteSet(s) /\ IntOn(g, s)
    BY FS_Subset DEF IntOn
  <1>6. Total(g, s) = c + Total(g, s \ {x})
    <2>1. Total(g, s) = g[x] + Total(g, s \ {x})
      BY <1>5, TotalWithout
    <2>2. QED BY <2>1
  <1>7. Total(g, s \ {x}) = c * Cardinality(s \ {x})
    BY <1>2
  <1>8. /\ Cardinality(s \ {x}) = Cardinality(s) - 1
        /\ Cardinality(s) \in Nat
    BY <1>5, FS_RemoveElement, FS_CardinalityType
  <1>9. \A n \in Nat : c + c * (n - 1) = c * n
    OBVIOUS
  <1>10. QED BY <1>2, <1>6, <1>7, <1>8, <1>9

LEMMA TotalOfMultiple ==
  ASSUME NEW S, IsFiniteSet(S), NEW g, IntOn(g, S), NEW h, NEW c \in Int,
         \A i \in S : h[i] = c * g[i]
  PROVE  Total(h, S) = c * Total(g, S)
  <1> DEFINE T == {s \in SUBSET S : Total(h, s) # c * Total(g, s)}
  <1>1. SUFFICES ASSUME T # {} PROVE FALSE
    OBVIOUS
  <1>2. PICK s \in T : \A u \in T : u \subseteq s => u = s
    <2>1. T \subseteq SUBSET S
      OBVIOUS
    <2> HIDE DEF T
    <2>2. QED BY <1>1, <2>1, LeastSubset
  <1>3. s # {}
    <2>1. c * 0 = 0
      OBVIOUS
    <2>2. QED BY <1>2, <2>1, TotalEmpty
  <1>4. PICK x \in s : TRUE
    BY <1>3
  <1>5. /\ IsFiniteSet(s) /\ IsFiniteSet(s \ {x})
        /\ IntOn(g, s) /\ IntOn(g, s \ {x}) /\ g[x] \in Int
    BY FS_Subset DEF IntOn
  <1>6. IntOn(h, s)
    BY <1>5 DEF IntOn
  <1>7. /\ Total(g, s) = g[x] + Total(g, s \ {x})
        /\ Total(h, s) = h[x] + Total(h, s \ {x})
        /\ Total(g, s \ {x}) \in Int
    BY <1>5, <1>6, TotalWithout, TotalTyped
  <1>8. Total(h, s \ {x}) = c * Total(g, s \ {x}) /\ h[x] = c * g[x]
    BY <1>2
  <1>9. \A a, b \in Int : c * a + c * b = c * (a + b)
    OBVIOUS
  <1>10. QED BY <1>2, <1>5, <1>7, <1>8, <1>9

(* The squares of the differences from a have the sum n a^2 - 2 a L + Q.   *)
Square(g) == [i \in DOMAIN g |-> g[i] * g[i]]

Apart(g, S, a) ==
  Total(Square(g), S) - 2 * (a * Total(g, S)) + Cardinality(S) * (a * a)

LEMMA ApartSquares ==
  ASSUME NEW Q \in Int, NEW L \in Int, NEW n \in Int, NEW a \in Int,
         NEW b \in Int
  PROVE  (b * b + Q) - 2 * (a * (b + L)) + n * (a * a)
           = (Q - 2 * (a * L) + (n - 1) * (a * a)) + (b - a) * (b - a)
  OBVIOUS

LEMMA SpreadSquares ==
  ASSUME NEW Q \in Int, NEW L \in Int, NEW n \in Int, NEW a \in Int
  PROVE  n * (a * a + Q) - (a + L) * (a + L)
           = ((n - 1) * Q - L * L) + (Q - 2 * (a * L) + (n - 1) * (a * a))
  OBVIOUS

LEMMA SquareIsNat ==
  ASSUME NEW a \in Int PROVE a * a \in Nat /\ (a # 0 => a * a > 0)
  OBVIOUS

LEMMA SquareOn ==
  ASSUME NEW S, NEW g, IntOn(g, S), S \subseteq DOMAIN g
  PROVE  /\ IntOn(Square(g), S)
         /\ \A i \in S : Square(g)[i] = g[i] * g[i]
  <1>1. \A i \in S : Square(g)[i] = g[i] * g[i]
    BY DEF Square
  <1>2. \A i \in S : g[i] * g[i] \in Int
    BY DEF IntOn
  <1>3. QED BY <1>1, <1>2 DEF IntOn

(* Taking out one member takes its square out. *)
LEMMA ApartWithout ==
  ASSUME NEW S, IsFiniteSet(S), NEW g, IntOn(g, S), S \subseteq DOMAIN g,
         NEW a \in Int, NEW x \in S
  PROVE  /\ Apart(g, S \ {x}, a) \in Int
         /\ Apart(g, S, a) = Apart(g, S \ {x}, a) + (g[x] - a) * (g[x] - a)
  <1> DEFINE R == S \ {x}
  <1>1. IsFiniteSet(R) /\ IntOn(g, R) /\ R \subseteq DOMAIN g
    BY FS_Subset DEF IntOn
  <1>2. IntOn(Square(g), S) /\ IntOn(Square(g), R) /\ Square(g)[x] = g[x] * g[x]
    BY <1>1, SquareOn
  <1>3. PICK Q \in Int, L \in Int, n \in Int, b \in Int :
          /\ Q = Total(Square(g), R) /\ L = Total(g, R)
          /\ n = Cardinality(S) /\ b = g[x]
    BY <1>1, <1>2, TotalTyped, FS_CardinalityType DEF IntOn
  <1>4. /\ Total(Square(g), S) = b * b + Q /\ Total(g, S) = b + L
        /\ Cardinality(R) = n - 1
    <2>1. Total(Square(g), S) = Square(g)[x] + Total(Square(g), R)
      BY <1>2, TotalWithout
    <2>2. Total(g, S) = g[x] + Total(g, R)
      BY TotalWithout
    <2>3. Cardinality(R) = Cardinality(S) - 1
      BY FS_RemoveElement
    <2> HIDE DEF R
    <2>4. QED BY <1>2, <1>3, <2>1, <2>2, <2>3
  <1>5. Apart(g, S, a) = (b * b + Q) - 2 * (a * (b + L)) + n * (a * a)
    BY <1>3, <1>4 DEF Apart
  <1>6. Apart(g, R, a) = Q - 2 * (a * L) + (n - 1) * (a * a)
    BY <1>3, <1>4 DEF Apart
  <1>7. Q - 2 * (a * L) + (n - 1) * (a * a) \in Int
    OBVIOUS
  <1>8. QED BY <1>3, <1>5, <1>6, <1>7, ApartSquares

LEMMA ApartIsNat ==
  ASSUME NEW S, IsFiniteSet(S), NEW g, IntOn(g, S), S \subseteq DOMAIN g,
         NEW a \in Int
  PROVE  /\ Apart(g, S, a) \in Nat
         /\ (\E x \in S : g[x] # a) => Apart(g, S, a) > 0
  <1>1. \A s \in SUBSET S : Apart(g, s, a) \in Nat
    <2> DEFINE T == {s \in SUBSET S : Apart(g, s, a) \notin Nat}
    <2>1. SUFFICES ASSUME T # {} PROVE FALSE
      OBVIOUS
    <2>2. PICK s \in T : \A u \in T : u \subseteq s => u = s
      <3>1. T \subseteq SUBSET S
        OBVIOUS
      <3> HIDE DEF T
      <3>2. QED BY <2>1, <3>1, LeastSubset
    <2>3. s # {}
      <3>1. /\ Total(g, {}) = 0 /\ Total(Square(g), {}) = 0
            /\ Cardinality({}) = 0
        BY TotalEmpty, FS_EmptySet
      <3>2. 0 - 2 * (a * 0) + 0 * (a * a) = 0
        OBVIOUS
      <3>3. Apart(g, {}, a) = 0
        BY <3>1, <3>2 DEF Apart
      <3>4. Apart(g, {}, a) \in Nat
        BY <3>3
      <3>5. QED BY <2>2, <3>4
    <2>4. PICK x \in s : TRUE
      BY <2>3
    <2>5. IsFiniteSet(s) /\ IntOn(g, s) /\ s \subseteq DOMAIN g
      BY FS_Subset DEF IntOn
    <2>6. Apart(g, s, a) = Apart(g, s \ {x}, a) + (g[x] - a) * (g[x] - a)
      BY <2>5, ApartWithout
    <2>7. Apart(g, s \ {x}, a) \in Nat
      BY <2>2
    <2>8. g[x] - a \in Int
      BY DEF IntOn
    <2>9. (g[x] - a) * (g[x] - a) \in Nat
      BY <2>8, SquareIsNat
    <2>10. QED BY <2>2, <2>6, <2>7, <2>9
  <1>2. ASSUME NEW x \in S, g[x] # a PROVE Apart(g, S, a) > 0
    <2>1. Apart(g, S, a) = Apart(g, S \ {x}, a) + (g[x] - a) * (g[x] - a)
      BY ApartWithout
    <2>2. Apart(g, S \ {x}, a) \in Nat
      BY <1>1
    <2>3. g[x] - a \in Int /\ g[x] - a # 0
      BY <1>2 DEF IntOn
    <2>4. (g[x] - a) * (g[x] - a) \in Nat /\ (g[x] - a) * (g[x] - a) > 0
      BY <2>3, SquareIsNat
    <2>5. QED BY <2>1, <2>2, <2>4
  <1>3. QED BY <1>1, <1>2

(* The Cauchy-Schwarz inequality for a family and 1: what the regression   *)
(* divides by is positive unless all times are the same.                   *)
Spread(g, S) ==
  Cardinality(S) * Total(Square(g), S) - Total(g, S) * Total(g, S)

LEMMA SpreadWithout ==
  ASSUME NEW S, IsFiniteSet(S), NEW g, IntOn(g, S), S \subseteq DOMAIN g,
         NEW x \in S
  PROVE  Spread(g, S) = Spread(g, S \ {x}) + Apart(g, S \ {x}, g[x])
  <1> DEFINE R == S \ {x}
  <1>1. IsFiniteSet(R) /\ IntOn(g, R) /\ R \subseteq DOMAIN g
    BY FS_Subset DEF IntOn
  <1>2. IntOn(Square(g), S) /\ IntOn(Square(g), R) /\ Square(g)[x] = g[x] * g[x]
    BY <1>1, SquareOn
  <1>3. PICK Q \in Int, L \in Int, n \in Int, a \in Int :
          /\ Q = Total(Square(g), R) /\ L = Total(g, R)
          /\ n = Cardinality(S) /\ a = g[x]
    BY <1>1, <1>2, TotalTyped, FS_CardinalityType DEF IntOn
  <1>4. /\ Total(Square(g), S) = a * a + Q /\ Total(g, S) = a + L
        /\ Cardinality(R) = n - 1
    <2>1. Total(Square(g), S) = Square(g)[x] + Total(Square(g), R)
      BY <1>2, TotalWithout
    <2>2. Total(g, S) = g[x] + Total(g, R)
      BY TotalWithout
    <2>3. Cardinality(R) = Cardinality(S) - 1
      BY FS_RemoveElement
    <2> HIDE DEF R
    <2>4. QED BY <1>2, <1>3, <2>1, <2>2, <2>3
  <1>5. Spread(g, S) = n * (a * a + Q) - (a + L) * (a + L)
    BY <1>3, <1>4 DEF Spread
  <1>6. Spread(g, R) = (n - 1) * Q - L * L
    BY <1>3, <1>4 DEF Spread
  <1>7. Apart(g, R, g[x]) = Q - 2 * (a * L) + (n - 1) * (a * a)
    BY <1>3, <1>4 DEF Apart
  <1>8. QED BY <1>5, <1>6, <1>7, SpreadSquares

LEMMA SpreadIsPositive ==
  ASSUME NEW S, IsFiniteSet(S), NEW g, IntOn(g, S), S \subseteq DOMAIN g,
         NEW x \in S, NEW y \in S, g[x] # g[y]
  PROVE  Spread(g, S) > 0
  <1>1. \A s \in SUBSET S : Spread(g, s) \in Nat
    <2> DEFINE T == {s \in SUBSET S : Spread(g, s) \notin Nat}
    <2>1. SUFFICES ASSUME T # {} PROVE FALSE
      OBVIOUS
    <2>2. PICK s \in T : \A u \in T : u \subseteq s => u = s
      <3>1. T \subseteq SUBSET S
        OBVIOUS
      <3> HIDE DEF T
      <3>2. QED BY <2>1, <3>1, LeastSubset
    <2>3. s # {}
      <3>1. /\ Total(g, {}) = 0 /\ Total(Square(g), {}) = 0
            /\ Cardinality({}) = 0
        BY TotalEmpty, FS_EmptySet
      <3>2. Spread(g, {}) = 0
        BY <3>1 DEF Spread
      <3>3. Spread(g, {}) \in Nat
        BY <3>2
      <3>4. QED BY <2>2, <3>3
    <2>4. PICK z \in s : TRUE
      BY <2>3
    <2>5. /\ IsFiniteSet(s) /\ IntOn(g, s) /\ s \subseteq DOMAIN g
          /\ IsFiniteSet(s \ {z}) /\ IntOn(g, s \ {z}) /\ s \ {z} \subseteq DOMAIN g
          /\ g[z] \in Int
      BY FS_Subset DEF IntOn
    <2>6. Spread(g, s) = Spread(g, s \ {z}) + Apart(g, s \ {z}, g[z])
      BY <2>5, SpreadWithout
    <2>7. Spread(g, s \ {z}) \in Nat
      BY <2>2
    <2>8. Apart(g, s \ {z}, g[z]) \in Nat
      BY <2>5, ApartIsNat
    <2>9. QED BY <2>2, <2>6, <2>7, <2>8
  <1>2. Spread(g, S) = Spread(g, S \ {x}) + Apart(g, S \ {x}, g[x])
    BY SpreadWithout
  <1>3. Spread(g, S \ {x}) \in Nat
    BY <1>1
  <1>4. Apart(g, S \ {x}, g[x]) \in Nat /\ Apart(g, S \ {x}, g[x]) > 0
    <2>1. /\ IsFiniteSet(S \ {x}) /\ IntOn(g, S \ {x}) /\ S \ {x} \subseteq DOMAIN g
          /\ g[x] \in Int /\ y \in S \ {x}
      BY FS_Subset DEF IntOn
    <2>2. QED BY <2>1, ApartIsNat
  <1>5. QED BY <1>2, <1>3, <1>4

-----------------------------------------------------------------------------
(* The regression.                                                         *)

Point == [time : Int, offset : Int]

LEMMA PointFields ==
  ASSUME NEW h \in Seq(Point), NEW i \in DOMAIN h
  PROVE  h[i].time \in Int /\ h[i].offset \in Int
  <1>1. h[i] \in Point
    OBVIOUS
  <1>2. QED BY <1>1 DEF Point

LEMMA DomainIsFinite ==
  ASSUME NEW T, NEW h \in Seq(T)
  PROVE  /\ IsFiniteSet(DOMAIN h) /\ Cardinality(DOMAIN h) = Len(h)
         /\ DOMAIN h = 1 .. Len(h) /\ Len(h) \in Nat
  <1>1. DOMAIN h = 1 .. Len(h) /\ Len(h) \in Nat
    OBVIOUS
  <1>2. /\ IsFiniteSet(1 .. Len(h))
        /\ Cardinality(1 .. Len(h)) = IF 1 > Len(h) THEN 0 ELSE Len(h) - 1 + 1
    BY <1>1, FS_Interval
  <1>3. QED BY <1>1, <1>2

(* The four families that the regression sums up. *)
X(h) == [i \in DOMAIN h |-> h[i].time - h[1].time]
Y(h) == [i \in DOMAIN h |-> h[i].offset]
XY(h) == [i \in DOMAIN h |-> X(h)[i] * Y(h)[i]]

LEMMA RegressionSums ==
  ASSUME NEW h \in Seq(Point), NEW n \in Int
  PROVE  LET D == DOMAIN h IN
         /\ IntOn(X(h), D) /\ IntOn(Y(h), D) /\ IntOn(XY(h), D)
         /\ IntOn(Square(X(h)), D)
         /\ Regression(n, h) =
              [num |-> n * Total(XY(h), D) - Total(X(h), D) * Total(Y(h), D),
               den |-> n * Total(Square(X(h)), D)
                         - Total(X(h), D) * Total(X(h), D)]
  <1> DEFINE D == DOMAIN h
  <1>1. ASSUME NEW i \in D
        PROVE  /\ X(h)[i] \in Int /\ Y(h)[i] \in Int /\ XY(h)[i] \in Int
               /\ Square(X(h))[i] \in Int
    <2>1. 1 \in D
      BY DomainIsFinite
    <2>2. /\ h[1].time \in Int /\ h[i].time \in Int /\ h[i].offset \in Int
      BY <2>1, PointFields
    <2>3. X(h)[i] \in Int /\ Y(h)[i] \in Int
      BY <2>2 DEF X, Y
    <2>4. XY(h)[i] = X(h)[i] * Y(h)[i] /\ Square(X(h))[i] = X(h)[i] * X(h)[i]
      BY DEF XY, X, Square
    <2>5. QED BY <2>3, <2>4
  <1>2. \A g : DOMAIN g = D => SumFunction(g) = Total(g, D)
    BY DEF SumFunction, Total
  <1>3. /\ DOMAIN X(h) = D /\ DOMAIN Y(h) = D /\ DOMAIN XY(h) = D
        /\ DOMAIN Square(X(h)) = D
    BY DEF X, Y, XY, Square
  <1>4. Regression(n, h) =
          [num |-> n * SumFunction(XY(h)) - SumFunction(X(h)) * SumFunction(Y(h)),
           den |-> n * SumFunction(Square(X(h)))
                     - SumFunction(X(h)) * SumFunction(X(h))]
    BY DEF Regression, X, Y, XY, Square
  <1>5. QED BY <1>1, <1>2, <1>3, <1>4 DEF IntOn

LEMMA RegressionTyped ==
  ASSUME NEW h \in Seq(Point), NEW n \in Int
  PROVE  Regression(n, h) \in [num : Int, den : Int]
  <1> DEFINE D == DOMAIN h
  <1>1. /\ Total(X(h), D) \in Int /\ Total(Y(h), D) \in Int
        /\ Total(XY(h), D) \in Int /\ Total(Square(X(h)), D) \in Int
    BY RegressionSums, DomainIsFinite, TotalTyped
  <1>2. \A a, b, c, d \in Int : a * b - c * d \in Int
    OBVIOUS
  <1>3. Regression(n, h) =
          [num |-> n * Total(XY(h), D) - Total(X(h), D) * Total(Y(h), D),
           den |-> n * Total(Square(X(h)), D) - Total(X(h), D) * Total(X(h), D)]
    BY RegressionSums
  <1>4. QED BY <1>1, <1>2, <1>3

(* Offsets that are all the same have no drift. *)
LEMMA SteadyRegression ==
  ASSUME NEW h \in Seq(Point),
         \A i \in DOMAIN h : h[i].offset = h[1].offset
  PROVE  Regression(Len(h), h).num = 0
  <1> DEFINE D == DOMAIN h
  <1>1. CASE Len(h) = 0
    <2>1. D = {}
      BY <1>1, DomainIsFinite
    <2>2. Total(XY(h), D) = 0 /\ Total(X(h), D) = 0 /\ Total(Y(h), D) = 0
      BY <2>1, TotalEmpty
    <2>3. Regression(Len(h), h).num
            = Len(h) * Total(XY(h), D) - Total(X(h), D) * Total(Y(h), D)
      <3>1. Len(h) \in Int
        BY <1>1
      <3>2. QED BY ONLY <3>1, RegressionSums, h \in Seq(Point)
    <2> HIDE DEF D
    <2>4. QED BY <1>1, <2>2, <2>3
  <1>2. CASE Len(h) # 0
    <2>1. PICK c \in Int : c = h[1].offset
      <3>1. 1 \in D
        BY <1>2, DomainIsFinite
      <3>2. QED BY <3>1, PointFields
    <2>2. \A i \in D : Y(h)[i] = c /\ XY(h)[i] = c * X(h)[i]
      <3>1. \A i \in D : Y(h)[i] = c /\ XY(h)[i] = X(h)[i] * Y(h)[i]
        BY <2>1 DEF Y, XY
      <3>2. \A i \in D : X(h)[i] \in Int
        BY RegressionSums DEF IntOn
      <3>3. \A a \in Int : a * c = c * a
        OBVIOUS
      <3>4. QED BY <3>1, <3>2, <3>3
    <2> HIDE DEF D
    <2>3. IsFiniteSet(D) /\ Cardinality(D) = Len(h) /\ Len(h) \in Int /\ IntOn(X(h), D)
      BY DomainIsFinite, RegressionSums DEF D
    <2>4. /\ Total(Y(h), D) = c * Len(h)
          /\ Total(XY(h), D) = c * Total(X(h), D) /\ Total(X(h), D) \in Int
      <3>1. Total(Y(h), D) = c * Cardinality(D)
        BY <2>2, <2>3, TotalOfConstant
      <3>2. Total(XY(h), D) = c * Total(X(h), D)
        BY <2>2, <2>3, TotalOfMultiple
      <3>3. QED BY <2>3, <3>1, <3>2, TotalTyped
    <2>5. \A n, l \in Int : n * (c * l) - l * (c * n) = 0
      OBVIOUS
    <2>6. Len(h) * Total(XY(h), D) - Total(X(h), D) * Total(Y(h), D) = 0
      BY <2>3, <2>4, <2>5
    <2>7. QED BY <2>6, RegressionSums DEF D
  <1>3. QED BY <1>1, <1>2

(* Samples of different times determine a line. *)
LEMMA LineExists ==
  ASSUME NEW h \in Seq(Point), NEW j \in DOMAIN h, h[j].time # h[1].time
  PROVE  Regression(Len(h), h).den # 0
  <1> DEFINE D == DOMAIN h
  <1>1. 1 \in D /\ j \in D
    BY DomainIsFinite
  <1>2. X(h)[1] # X(h)[j] /\ DOMAIN X(h) = D
    <2>1. h[1].time \in Int /\ h[j].time \in Int
      BY <1>1, PointFields
    <2>2. QED BY <1>1, <2>1 DEF X
  <1>3. Spread(X(h), D) > 0
    BY <1>1, <1>2, RegressionSums, DomainIsFinite, SpreadIsPositive
  <1>4. Spread(X(h), D) = Regression(Len(h), h).den
    BY RegressionSums, DomainIsFinite DEF Spread
  <1>5. QED BY <1>3, <1>4

-----------------------------------------------------------------------------
USE ClockAssumption

-----------------------------------------------------------------------------
(* Ranks.  The keys of a finite family of integers, ordered with their      *)
(* indices, have the ranks 0 .. n - 1, so there is a median.               *)

Before(key, i) ==
  {j \in DOMAIN key : key[j] < key[i] \/ (key[j] = key[i] /\ j < i)}

LEMMA RankIsSize ==
  ASSUME NEW key, NEW i
  PROVE  RankBy(key, i) = Cardinality(Before(key, i))
  BY DEF RankBy, Before

LEMMA RankFollows ==
  ASSUME NEW D, D \subseteq Int, IsFiniteSet(D), NEW key \in [D -> Int],
         NEW a \in D, NEW b \in D,
         key[a] < key[b] \/ (key[a] = key[b] /\ a < b)
  PROVE  RankBy(key, a) < RankBy(key, b)
  <1>1. DOMAIN key = D /\ \A x \in D : key[x] \in Int /\ x \in Int
    OBVIOUS
  <1>2. ASSUME NEW x \in Before(key, a) PROVE x \in Before(key, b)
    <2>1. x \in D /\ (key[x] < key[a] \/ (key[x] = key[a] /\ x < a))
      BY <1>1 DEF Before
    <2>2. key[x] < key[b] \/ (key[x] = key[b] /\ x < b)
      BY <1>1, <2>1
    <2>3. QED BY <1>1, <2>1, <2>2 DEF Before
  <1>3. a \in Before(key, b) /\ a \notin Before(key, a)
    BY <1>1 DEF Before
  <1>4. IsFiniteSet(Before(key, b))
    <2>1. Before(key, b) \subseteq D
      BY <1>1 DEF Before
    <2>2. QED BY <2>1, FS_Subset
  <1>5. /\ IsFiniteSet(Before(key, a))
        /\ Cardinality(Before(key, a)) \in Nat
        /\ Cardinality(Before(key, b)) \in Nat
        /\ Cardinality(Before(key, a)) <= Cardinality(Before(key, b))
        /\ Cardinality(Before(key, a)) = Cardinality(Before(key, b))
             => Before(key, a) = Before(key, b)
    BY <1>2, <1>4, FS_Subset, FS_CardinalityType
  <1>6. QED BY <1>3, <1>5, RankIsSize

LEMMA RankBelow ==
  ASSUME NEW D, D \subseteq Int, IsFiniteSet(D), NEW key \in [D -> Int],
         NEW i \in D
  PROVE  RankBy(key, i) \in 0 .. Cardinality(D) - 1
  <1>1. Before(key, i) \subseteq D \ {i}
    <2>1. key[i] \in Int /\ i \in Int
      OBVIOUS
    <2>2. QED BY <2>1 DEF Before
  <1>2. /\ IsFiniteSet(D \ {i})
        /\ Cardinality(D \ {i}) = Cardinality(D) - 1
    BY FS_RemoveElement
  <1>3. /\ IsFiniteSet(Before(key, i))
        /\ Cardinality(Before(key, i)) <= Cardinality(D \ {i})
    BY <1>1, <1>2, FS_Subset
  <1>4. Cardinality(Before(key, i)) \in Nat /\ Cardinality(D) \in Nat
    BY <1>3, FS_CardinalityType
  <1>5. QED BY <1>2, <1>3, <1>4, RankIsSize

LEMMA RanksDiffer ==
  ASSUME NEW D, D \subseteq Int, IsFiniteSet(D), NEW key \in [D -> Int],
         NEW i \in D, NEW j \in D, i # j
  PROVE  RankBy(key, i) # RankBy(key, j)
  <1>1. /\ i \in Int /\ j \in Int /\ key[i] \in Int /\ key[j] \in Int
    OBVIOUS
  <1>2. /\ RankBy(key, i) \in 0 .. Cardinality(D) - 1
        /\ RankBy(key, j) \in 0 .. Cardinality(D) - 1
    BY RankBelow
  <1>3. Cardinality(D) \in Nat
    BY FS_CardinalityType
  <1>4. CASE key[i] < key[j] \/ (key[i] = key[j] /\ i < j)
    <2>1. RankBy(key, i) < RankBy(key, j)
      BY <1>4, RankFollows
    <2>2. QED BY <1>2, <1>3, <2>1
  <1>5. CASE key[j] < key[i] \/ (key[j] = key[i] /\ j < i)
    <2>1. RankBy(key, j) < RankBy(key, i)
      BY <1>5, RankFollows
    <2>2. QED BY <1>2, <1>3, <2>1
  <1>6. QED BY <1>1, <1>4, <1>5

(* Who comes later has no smaller key. *)
LEMMA RankOrders ==
  ASSUME NEW D, D \subseteq Int, IsFiniteSet(D), NEW key \in [D -> Int],
         NEW i \in D, NEW j \in D, RankBy(key, i) <= RankBy(key, j)
  PROVE  key[i] <= key[j]
  <1>1. key[i] \in Int /\ key[j] \in Int
    OBVIOUS
  <1>2. /\ RankBy(key, i) \in 0 .. Cardinality(D) - 1
        /\ RankBy(key, j) \in 0 .. Cardinality(D) - 1
    BY RankBelow
  <1>3. Cardinality(D) \in Nat
    BY FS_CardinalityType
  <1>4. CASE key[j] < key[i]
    <2>1. RankBy(key, j) < RankBy(key, i)
      BY <1>4, RankFollows
    <2>2. QED BY <1>2, <1>3, <2>1
  <1>5. QED BY <1>1, <1>4

LEMMA EveryRank ==
  ASSUME NEW D, D \subseteq Int, IsFiniteSet(D), NEW key \in [D -> Int],
         NEW k \in 0 .. Cardinality(D) - 1
  PROVE  \E i \in D : RankBy(key, i) = k
  <1> DEFINE rank == [i \in D |-> RankBy(key, i)]
             below == 0 .. Cardinality(D) - 1
  <1>1. Cardinality(D) \in Nat
    BY FS_CardinalityType
  <1>2. IsFiniteSet(below) /\ Cardinality(below) = Cardinality(D)
    BY <1>1, FS_Interval
  <1>3. \A i \in D : rank[i] \in below
    BY RankBelow
  <1>4. rank \in Injection(D, below)
    <2>1. rank \in [D -> below]
      BY <1>3
    <2>2. \A i, j \in D : rank[i] = rank[j] => i = j
      BY RanksDiffer
    <2>3. QED BY <2>1, <2>2 DEF Injection, IsInjective
  <1>5. rank \in Surjection(D, below)
    BY <1>2, <1>4, FS_Injection
  <1>6. \E i \in D : rank[i] = k
    BY <1>5 DEF Surjection
  <1>7. QED BY <1>6

Ranked(D, key, a, b) == {i \in D : RankBy(key, i) \in a .. b}

(* There are as many members with ranks from a to b as there are ranks. *)
LEMMA RanksCount ==
  ASSUME NEW D, D \subseteq Int, IsFiniteSet(D), NEW key \in [D -> Int],
         NEW a \in Nat, NEW b \in Int, a <= b + 1, b < Cardinality(D)
  PROVE  /\ IsFiniteSet(Ranked(D, key, a, b))
         /\ Cardinality(Ranked(D, key, a, b)) = b - a + 1
  <1> DEFINE S == {i \in D : RankBy(key, i) \in a .. b}
             rank == [i \in S |-> RankBy(key, i)]
  <1>1. Cardinality(D) \in Nat
    BY FS_CardinalityType
  <1>2. IsFiniteSet(S)
    BY FS_Subset
  <1>3. rank \in [S -> a .. b]
    OBVIOUS
  <1>4. \A i, j \in S : rank[i] = rank[j] => i = j
    BY RanksDiffer
  <1>5. \A k \in a .. b : \E i \in S : rank[i] = k
    <2>1. TAKE k \in a .. b
    <2>2. k \in 0 .. Cardinality(D) - 1
      BY <1>1
    <2>3. PICK i \in D : RankBy(key, i) = k
      <3> HIDE DEF S, rank
      <3>1. QED BY ONLY <2>2, EveryRank, D \subseteq Int, IsFiniteSet(D),
                        key \in [D -> Int]
    <2>4. RankBy(key, i) \in a .. b
      BY <2>3
    <2>5. i \in S
      BY <2>4
    <2>6. rank[i] = k
      BY <2>3, <2>5
    <2>7. QED BY <2>5, <2>6
  <1>6. rank \in Bijection(S, a .. b)
    BY <1>3, <1>4, <1>5
       DEF Bijection, Injection, Surjection, IsInjective
  <1>7. IsFiniteSet(a .. b) /\ Cardinality(a .. b) = b - a + 1
    <2>1. /\ IsFiniteSet(a .. b)
          /\ Cardinality(a .. b) = IF a > b THEN 0 ELSE b - a + 1
      BY FS_Interval
    <2>2. QED BY <2>1
  <1>8. ExistsBijection(S, a .. b)
    BY <1>6 DEF ExistsBijection
  <1>9. Cardinality(S) = Cardinality(a .. b)
    BY <1>2, <1>8, FS_Bijection
  <1>10. QED BY <1>2, <1>7, <1>9 DEF Ranked

-----------------------------------------------------------------------------
(* A calibration takes the offset of one of its samples.                   *)

Sample == [offset : Int, rtt : Int]

LEMMA SampleFields ==
  ASSUME NEW s \in Seq(Sample), NEW i \in DOMAIN s
  PROVE  s[i].offset \in Int /\ s[i].rtt \in Int
  <1>1. s[i] \in Sample
    OBVIOUS
  <1>2. QED BY <1>1 DEF Sample

Rtts(s) == [i \in DOMAIN s |-> s[i].rtt]
Offsets(s) == [i \in BestHalf(s) |-> s[i].offset]
HalfSize(s) == (Len(s) + 1) \div 2

LEMMA HalfAndMedian ==
  ASSUME NEW s \in Seq(Sample), Enough(s)
  PROVE  /\ IsFiniteSet(DOMAIN s) /\ Cardinality(DOMAIN s) = Len(s)
         /\ DOMAIN s \subseteq Int /\ Rtts(s) \in [DOMAIN s -> Int]
         /\ BestHalf(s) = Ranked(DOMAIN s, Rtts(s), 0, HalfSize(s) - 1)
         /\ IsFiniteSet(BestHalf(s)) /\ Cardinality(BestHalf(s)) = HalfSize(s)
         /\ Offsets(s) \in [BestHalf(s) -> Int]
         /\ \E m \in BestHalf(s) : /\ RankBy(Offsets(s), m) = HalfSize(s) \div 2
                                   /\ MedianOffset(s) = s[m].offset
  <1> DEFINE D == DOMAIN s
             B == BestHalf(s)
             rtts == [i \in DOMAIN s |-> s[i].rtt]
             best == [i \in BestHalf(s) |-> s[i].offset]
             h == (Len(s) + 1) \div 2
  <1>1. /\ Len(s) \in Nat /\ D = 1 .. Len(s) /\ Len(s) >= 3
        /\ h \in Nat /\ h >= 1 /\ h < Len(s)
    BY DEF Enough
  <1>2. IsFiniteSet(D) /\ Cardinality(D) = Len(s) /\ D \subseteq Int
    <2>1. /\ IsFiniteSet(1 .. Len(s))
          /\ Cardinality(1 .. Len(s)) = IF 1 > Len(s) THEN 0
                                        ELSE Len(s) - 1 + 1
      BY <1>1, FS_Interval
    <2> HIDE DEF D
    <2>2. QED BY <1>1, <2>1
  <1>3. rtts \in [D -> Int]
    <2>1. \A i \in D : s[i].rtt \in Int
      BY SampleFields
    <2>2. QED BY <2>1
  <1>4. B = {i \in D : RankBy(rtts, i) \in 0 .. h - 1}
    <2>1. B = {i \in D : RankBy(rtts, i) < h}
      BY DEF BestHalf, FirstHalf
    <2>2. \A i \in D : RankBy(rtts, i) \in Nat
      <3>1. \A i \in D : RankBy(rtts, i) \in 0 .. Cardinality(D) - 1
        BY <1>2, <1>3, RankBelow
      <3>2. QED BY <1>1, <1>2, <3>1
    <2>3. \A i \in D : RankBy(rtts, i) < h <=> RankBy(rtts, i) \in 0 .. h - 1
      BY <1>1, <2>2
    <2>4. QED BY <2>1, <2>3
  <1>5. IsFiniteSet(B) /\ Cardinality(B) = h
    <2> HIDE DEF B, D
    <2> DEFINE top == h - 1
    <2>1. top \in Int /\ 0 <= top + 1 /\ top < Cardinality(D) /\ 0 \in Nat
      BY <1>1, <1>2
    <2> HIDE DEF top
    <2> HIDE DEF rtts
    <2>2. /\ IsFiniteSet(Ranked(D, rtts, 0, top))
          /\ Cardinality(Ranked(D, rtts, 0, top)) = top - 0 + 1
      BY ONLY <1>2, <1>3, <2>1, RanksCount
    <2>3. Ranked(D, rtts, 0, top) = B
      BY <1>4 DEF top, Ranked
    <2>4. top - 0 + 1 = h
      BY <1>1 DEF top
    <2>5. QED BY <2>2, <2>3, <2>4
  <1>6. B \subseteq D /\ B \subseteq Int
    BY <1>2, <1>4
  <1>7. best \in [B -> Int]
    <2>1. \A i \in D : s[i].offset \in Int
      BY SampleFields
    <2>2. QED BY <1>6, <2>1
  <1>8. \E i \in B : RankBy(best, i) = h \div 2
    <2> DEFINE half == h \div 2
    <2> HIDE DEF B
    <2>1. half \in 0 .. Cardinality(B) - 1
      BY <1>1, <1>5
    <2> HIDE DEF half, best
    <2>2. \E i \in B : RankBy(best, i) = half
      BY ONLY <1>5, <1>6, <1>7, <2>1, EveryRank
    <2>3. QED BY <2>2 DEF half
  <1>9. PICK m : m = CHOOSE i \in B : RankBy(best, i) = h \div 2
    OBVIOUS
  <1>10. m \in B /\ RankBy(best, m) = h \div 2
    BY <1>8, <1>9
  <1>11. MedianOffset(s) = best[m]
    <2>1. DOMAIN best = B
      OBVIOUS
    <2>2. QED BY <1>5, <1>9, <2>1 DEF MedianOffset
  <1>12. QED
    BY <1>2, <1>3, <1>4, <1>5, <1>7, <1>10, <1>11
       DEF Rtts, Offsets, HalfSize, Ranked

LEMMA MedianIsSample ==
  ASSUME NEW s \in Seq(Sample), Enough(s)
  PROVE  \E m \in DOMAIN s : MedianOffset(s) = s[m].offset
  <1>1. PICK m \in BestHalf(s) : MedianOffset(s) = s[m].offset
    BY HalfAndMedian
  <1>2. m \in DOMAIN s
    BY HalfAndMedian DEF Ranked
  <1>3. QED BY <1>1, <1>2

(* Most samples took at least as long as their median is off, when each is *)
(* off by at most its round trip.                                          *)
LEMMA MedianIsRobust ==
  ASSUME NEW s \in Seq(Sample), Enough(s), NEW true \in Int,
         \A i \in DOMAIN s : /\ s[i].offset - true <= s[i].rtt
                             /\ true - s[i].offset <= s[i].rtt
  PROVE  LET error == Abs(MedianOffset(s) - true)
         IN 2 * Cardinality({i \in DOMAIN s : s[i].rtt >= error}) > Len(s)
  <1> DEFINE D == DOMAIN s
             B == BestHalf(s)
             rtts == Rtts(s)
             best == Offsets(s)
             h == HalfSize(s)
             half == h \div 2
             error == Abs(MedianOffset(s) - true)
             Slow == {i \in DOMAIN s : s[i].rtt >= error}
             Rest == Ranked(D, rtts, h, Len(s) - 1)
  <1>1. /\ Len(s) \in Nat /\ Len(s) >= 3 /\ h \in Nat /\ h < Len(s) /\ h >= 2
        /\ half \in Nat /\ half < h /\ 2 * half <= h
    BY DEF Enough, HalfSize
  <1>2. /\ IsFiniteSet(D) /\ Cardinality(D) = Len(s)
        /\ D \subseteq Int /\ rtts \in [D -> Int]
        /\ B = {i \in D : RankBy(rtts, i) \in 0 .. h - 1}
        /\ IsFiniteSet(B) /\ Cardinality(B) = h
        /\ best \in [B -> Int]
        /\ \E m \in B : /\ RankBy(best, m) = half
                        /\ MedianOffset(s) = s[m].offset
    BY HalfAndMedian DEF Ranked
  <1>3. PICK m \in B : /\ RankBy(best, m) = half
                       /\ MedianOffset(s) = s[m].offset
    BY <1>2
  <1>4. /\ B \subseteq D /\ B \subseteq Int
        /\ \A i \in D : /\ s[i].offset \in Int /\ s[i].rtt \in Int
                        /\ rtts[i] = s[i].rtt
        /\ \A i \in B : best[i] = s[i].offset
    <2>1. B \subseteq D /\ B \subseteq Int
      BY <1>2
    <2>2. \A i \in D : s[i].offset \in Int /\ s[i].rtt \in Int
      BY SampleFields
    <2>3. QED BY <2>1, <2>2 DEF Rtts, Offsets
  <1>5. /\ error \in Int
        /\ error = s[m].offset - true \/ error = true - s[m].offset
        /\ error >= s[m].offset - true /\ error >= true - s[m].offset
    BY <1>3, <1>4 DEF Abs
  <1> HIDE DEF D, B, rtts, best, h, half, error
  <1>6. /\ IsFiniteSet(Rest) /\ Cardinality(Rest) = Len(s) - h
        /\ Rest \cap B = {}
    <2> DEFINE last == Len(s) - 1
    <2>1. last \in Int /\ h <= last + 1 /\ last < Cardinality(D)
      BY <1>1, <1>2
    <2> HIDE DEF last
    <2>2. /\ IsFiniteSet(Ranked(D, rtts, h, last))
          /\ Cardinality(Ranked(D, rtts, h, last)) = last - h + 1
      BY ONLY <1>1, <1>2, <2>1, RanksCount
    <2>3. ASSUME NEW i \in Rest, i \in B PROVE FALSE
      BY <1>1, <1>2, <2>3 DEF Ranked
    <2>4. QED BY <1>1, <2>2, <2>3 DEF last
  (* The best half was faster than the rest. *)
  <1>7. ASSUME NEW i \in Rest PROVE i \in Slow
    <2>1. /\ i \in D /\ m \in D
          /\ RankBy(rtts, i) \in h .. Len(s) - 1
          /\ RankBy(rtts, m) \in 0 .. h - 1
      BY <1>2, <1>3 DEF Ranked
    <2>2. RankBy(rtts, m) <= RankBy(rtts, i)
      BY <1>1, <2>1
    <2>3. rtts[m] <= rtts[i]
      BY ONLY <1>2, <2>1, <2>2, RankOrders
    <2>4. error <= s[m].rtt
      BY <1>5, <2>1 DEF D
    <2>5. s[i].rtt >= error
      BY <1>4, <1>5, <2>1, <2>3, <2>4
    <2>6. QED BY <2>1, <2>5 DEF D
  (* Half of the best half is off at least as far as the median. *)
  <1>8. \E U : /\ IsFiniteSet(U) /\ U \subseteq B /\ U \subseteq Slow
               /\ Cardinality(U) >= h - half /\ Cardinality(U) \in Nat
    <2>1. ASSUME NEW a \in Nat, NEW b \in Int, a <= b + 1, b < h,
                 b - a + 1 >= h - half,
                 \A i \in B : RankBy(best, i) \in a .. b
                                => s[i].rtt >= error
          PROVE  \E U : /\ IsFiniteSet(U) /\ U \subseteq B /\ U \subseteq Slow
                        /\ Cardinality(U) >= h - half
                        /\ Cardinality(U) \in Nat
      <3> DEFINE U == Ranked(B, best, a, b)
      <3>1. b < Cardinality(B)
        BY <1>2, <2>1
      <3>2. IsFiniteSet(U) /\ Cardinality(U) = b - a + 1
        <4>1. /\ B \subseteq Int /\ IsFiniteSet(B) /\ best \in [B -> Int]
              /\ a \in Nat /\ b \in Int /\ a <= b + 1
          BY <1>2, <1>4, <2>1
        <4>2. QED BY ONLY <3>1, <4>1, RanksCount
      <3>3. U \subseteq B /\ U \subseteq Slow
        BY <1>4, <2>1 DEF D, Ranked
      <3>4. Cardinality(U) >= h - half /\ Cardinality(U) \in Nat
        BY <1>1, <2>1, <3>2, FS_CardinalityType
      <3>5. QED BY <3>2, <3>3, <3>4
    <2>2. \A i \in B : RankBy(best, i) \in 0 .. h - 1
      <3>1. \A i \in B : RankBy(best, i) \in 0 .. Cardinality(B) - 1
        BY ONLY <1>2, <1>4, RankBelow
      <3>2. QED BY <1>2, <3>1
    <2>3. CASE error = s[m].offset - true
      <3>1. ASSUME NEW i \in B, RankBy(best, i) \in half .. h - 1
            PROVE  s[i].rtt >= error
        <4>1. RankBy(best, m) <= RankBy(best, i)
          BY <1>1, <1>3, <3>1
        <4>2. best[m] <= best[i]
          BY ONLY <1>2, <1>4, <1>3, <3>1, <4>1, RankOrders
        <4>3. s[m].offset <= s[i].offset /\ i \in D /\ m \in D
          BY <1>3, <1>4, <4>2
        <4>4. s[i].offset - true <= s[i].rtt
          BY <4>3 DEF D
        <4>5. QED BY <1>4, <2>3, <4>3, <4>4
      <3>2. /\ h - 1 \in Int /\ half <= (h - 1) + 1 /\ h - 1 < h
            /\ (h - 1) - half + 1 >= h - half
        BY <1>1
      <3>3. QED BY <1>1, <2>1, <3>1, <3>2
    <2>4. CASE error = true - s[m].offset
      <3>1. ASSUME NEW i \in B, RankBy(best, i) \in 0 .. half
            PROVE  s[i].rtt >= error
        <4>1. RankBy(best, i) <= RankBy(best, m)
          BY <1>1, <1>3, <3>1
        <4>2. best[i] <= best[m]
          BY ONLY <1>2, <1>4, <1>3, <3>1, <4>1, RankOrders
        <4>3. s[i].offset <= s[m].offset /\ i \in D /\ m \in D
          BY <1>3, <1>4, <4>2
        <4>4. true - s[i].offset <= s[i].rtt
          BY <4>3 DEF D
        <4>5. QED BY <1>4, <2>4, <4>3, <4>4
      <3>2. 0 \in Nat /\ half \in Int /\ half - 0 + 1 >= h - half
        <4>1. h <= 2 * half + 1
          BY <1>1 DEF half
        <4>2. QED BY <1>1, <4>1
      <3>3. QED BY <1>1, <2>1, <3>1, <3>2
    <2>5. QED BY <1>5, <2>3, <2>4
  <1>9. PICK U : /\ IsFiniteSet(U) /\ U \subseteq B /\ U \subseteq Slow
                 /\ Cardinality(U) >= h - half /\ Cardinality(U) \in Nat
    BY <1>8
  <1>10. Cardinality(U \cup Rest) = Cardinality(U) + Cardinality(Rest)
    <2>1. U \cap Rest = {}
      BY <1>6, <1>9
    <2> HIDE DEF Rest
    <2>2. /\ Cardinality(U \cap Rest) = 0 /\ Cardinality(Rest) \in Nat
          /\ Cardinality(U \cup Rest) = Cardinality(U) + Cardinality(Rest)
                                          - Cardinality(U \cap Rest)
      BY <1>6, <1>9, <2>1, FS_Union, FS_EmptySet, FS_CardinalityType
    <2>3. QED BY <1>9, <2>2
  <1>11. IsFiniteSet(Slow) /\ U \cup Rest \subseteq Slow
    <2>1. Slow \subseteq D
      BY DEF D
    <2>2. QED BY <1>2, <1>7, <1>9, <2>1, FS_Subset
  <1>12. /\ Cardinality(U \cup Rest) <= Cardinality(Slow)
         /\ Cardinality(Slow) \in Nat
    BY <1>11, FS_Subset, FS_CardinalityType
  <1>13. 2 * Cardinality(Slow) > Len(s)
    <2>1. Cardinality(Slow) >= Len(s) - half
      BY <1>1, <1>6, <1>9, <1>10, <1>12
    <2>2. QED BY <1>1, <1>12, <2>1
  <1>14. QED BY <1>13 DEF error

-----------------------------------------------------------------------------
(* The error bound.  An exchange under way is honest: the server's time in  *)
(* it is its clock at some moment between ping and pong.                    *)

Exchange == [t1 : Int, t2 : Int, t4 : Int]

Honest(r) ==
  /\ r.t1 <= r.t4
  /\ r.t2 - skew >= r.t1 /\ r.t2 - skew <= r.t4

Near2(o, error) == o - 2 * skew <= error /\ 2 * skew - o <= error

Base ==
  /\ offset \in Int /\ skew \in Int /\ steps \in Nat /\ worst \in Int
  /\ flight \in Seq(Exchange) /\ samples \in Seq(Sample)

BoundInv ==
  steps = 0 =>
    /\ \A i \in DOMAIN flight : Honest(flight[i])
    /\ \A i \in DOMAIN samples : /\ Near2(samples[i].offset, samples[i].rtt)
                                 /\ samples[i].rtt <= worst
    /\ start = "raw" => Near2(offset, worst)

Bounded == Base /\ BoundInv

(* What a pong that is read says.                                           *)
LEMMA PongHonest ==
  ASSUME Bounded, NEW i \in DOMAIN flight, steps = 0
  PROVE  /\ flight[i] \in Exchange
         /\ RawOffset(flight[i]) \in Int /\ RoundTrip(flight[i]) \in Nat
         /\ Near2(RawOffset(flight[i]), RoundTrip(flight[i]))
  <1>1. flight[i] \in Exchange /\ Honest(flight[i]) /\ skew \in Int
    BY DEF Bounded, Base, BoundInv
  <1>2. /\ flight[i].t1 \in Int /\ flight[i].t2 \in Int /\ flight[i].t4 \in Int
    BY <1>1 DEF Exchange
  <1>3. QED
    BY <1>1, <1>2 DEF Honest, RawOffset, RoundTrip, SentAt, Near2

LEMMA KeepTyped ==
  ASSUME NEW T, NEW s \in Seq(T), NEW e \in T, NEW max \in Nat \ {0}
  PROVE  /\ Keep(s, e, max) \in Seq(T)
         /\ \A k \in DOMAIN Keep(s, e, max) :
              Keep(s, e, max)[k] = e
                \/ \E j \in DOMAIN s : Keep(s, e, max)[k] = s[j]
  <1> DEFINE long == Append(s, e)
  <1>1. /\ Len(s) \in Nat /\ long \in Seq(T) /\ long # <<>>
        /\ DOMAIN s = 1 .. Len(s) /\ DOMAIN long = 1 .. Len(s) + 1
        /\ long[Len(s) + 1] = e /\ \A j \in 1 .. Len(s) : long[j] = s[j]
        /\ Len(long) = Len(s) + 1
    OBVIOUS
  <1>2. \A k \in DOMAIN long : long[k] = e \/ \E j \in DOMAIN s : long[k] = s[j]
    BY <1>1
  <1>3. CASE Len(s) < max
    BY <1>1, <1>2, <1>3 DEF Keep
  <1>4. CASE ~(Len(s) < max)
    <2>1. Keep(s, e, max) = Tail(long)
      BY <1>4 DEF Keep
    <2>2. /\ Tail(long) \in Seq(T) /\ DOMAIN Tail(long) = 1 .. Len(s)
          /\ \A k \in 1 .. Len(s) : Tail(long)[k] = long[k + 1]
      BY <1>1
    <2>3. \A k \in 1 .. Len(s) : k + 1 \in DOMAIN long
      BY <1>1
    <2>4. QED BY <1>2, <2>1, <2>2, <2>3
  <1>5. QED BY <1>3, <1>4

LEMMA PongTyped ==
  ASSUME Base, NEW i \in DOMAIN flight
  PROVE  RawOffset(flight[i]) \in Int /\ RoundTrip(flight[i]) \in Int
  <1>1. flight[i] \in Exchange
    BY DEF Base
  <1>2. QED BY <1>1 DEF Exchange, RawOffset, RoundTrip, SentAt

LEMMA BiggerIsUpper ==
  ASSUME NEW a \in Int, NEW b \in Int
  PROVE  Bigger(a, b) \in Int /\ Bigger(a, b) >= a /\ Bigger(a, b) >= b
  BY DEF Bigger

(* An average of two values that are near is near. *)
LEMMA AverageIsNear ==
  ASSUME NEW k \in Int, NEW raw \in Int, NEW o \in Int, NEW e \in Int,
         raw - 2 * k <= e, 2 * k - raw <= e, o - 2 * k <= e, 2 * k - o <= e
  PROVE  /\ (2 * raw + 8 * o) \div 10 - 2 * k <= e
         /\ 2 * k - (2 * raw + 8 * o) \div 10 <= e
  <1> DEFINE total == 2 * raw + 8 * o
  <1>1. total \in Int /\ total <= 10 * (2 * k + e) /\ total >= 10 * (2 * k - e)
    OBVIOUS
  <1>2. /\ total \div 10 \in Int
        /\ 10 * (total \div 10) <= total /\ total < 10 * (total \div 10) + 10
    BY <1>1
  <1>3. QED
    <2> HIDE DEF total
    <2>1. total \div 10 <= 2 * k + e
      BY <1>1, <1>2
    <2>2. total \div 10 >= 2 * k - e
      BY <1>1, <1>2
    <2>3. (2 * raw + 8 * o) \div 10 = total \div 10
      BY DEF total
    <2>4. QED BY <1>2, <2>1, <2>2, <2>3

(* A ping makes what is under way older, and adds an honest exchange. *)
LEMMA InFlightHonest ==
  ASSUME Bounded
  PROVE  /\ InFlight \in Seq(Exchange)
         /\ steps = 0 => \A i \in DOMAIN InFlight : Honest(InFlight[i])
  <1>1. /\ flight \in Seq(Exchange) /\ Len(flight) \in Nat
        /\ DOMAIN flight = 1 .. Len(flight) /\ skew \in Int
    BY DEF Bounded, Base
  <1>2. ASSUME NEW i \in DOMAIN flight
        PROVE  /\ Older(flight[i]) \in Exchange
               /\ Honest(flight[i]) => Honest(Older(flight[i]))
    <2>1. /\ flight[i].t1 \in Int /\ flight[i].t2 \in Int
          /\ flight[i].t4 \in Int
      <3>1. flight[i] \in Exchange
        BY <1>1
      <3>2. QED BY <3>1 DEF Exchange
    <2>2. /\ Older(flight[i]).t1 = flight[i].t1 - 2000
          /\ Older(flight[i]).t2 = flight[i].t2 - 2000
          /\ Older(flight[i]).t4 = flight[i].t4 - 2000
      BY DEF Older, Period
    <2>3. Older(flight[i]) \in Exchange
      BY <2>1 DEF Older, Period, Exchange
    <2>4. Honest(flight[i]) => Honest(Older(flight[i]))
      BY <1>1, <2>1, <2>2 DEF Honest
    <2>5. QED BY <2>3, <2>4
  <1>3. InFlight \in Seq(Exchange) /\ DOMAIN InFlight = DOMAIN flight
    BY <1>1, <1>2 DEF InFlight
  <1>4. \A i \in DOMAIN flight : InFlight[i] = Older(flight[i])
    BY DEF InFlight
  <1>5. QED BY <1>2, <1>3, <1>4 DEF Bounded, BoundInv

(* What a pong that is read leaves under way. *)
LEMMA TailHonest ==
  ASSUME Bounded, NEW p, Pong(p)
  PROVE  /\ 1 \in DOMAIN flight /\ p = flight[1]
         /\ flight' \in Seq(Exchange)
         /\ steps' = steps /\ skew' = skew
         /\ steps = 0 => \A i \in DOMAIN flight' : Honest(flight'[i])
  <1>1. /\ flight \in Seq(Exchange) /\ flight # <<>> /\ p = Head(flight)
        /\ flight' = Tail(flight) /\ steps' = steps /\ skew' = skew
    BY DEF Bounded, Base, Pong, world
  <1>2. /\ Len(flight) \in Nat /\ Len(flight) >= 1
        /\ DOMAIN flight = 1 .. Len(flight) /\ p = flight[1]
        /\ DOMAIN flight' = 1 .. Len(flight) - 1 /\ flight' \in Seq(Exchange)
        /\ \A i \in 1 .. Len(flight) - 1 : flight'[i] = flight[i + 1]
    BY <1>1
  <1>3. \A i \in 1 .. Len(flight) - 1 : i + 1 \in DOMAIN flight
    BY <1>2
  <1>4. steps = 0 => \A i \in DOMAIN flight' : Honest(flight'[i])
    BY <1>2, <1>3 DEF Bounded, BoundInv
  <1>5. QED BY <1>1, <1>2, <1>4

-----------------------------------------------------------------------------
(* The pings keep the bound. *)

LEMMA PingBounded ==
  ASSUME Bounded, Ping \/ PingLost
  PROVE  Bounded'
  <1>1. SendPing
    BY DEF Ping, PingLost
  <1>2. /\ offset' = offset /\ skew' = skew /\ steps' = steps /\ worst' = worst
        /\ samples' = samples /\ start' = start
    BY <1>1 DEF SendPing, skewed, world
  <1>3. Base /\ skew \in Int
    BY DEF Bounded, Base
  <1>4. /\ flight' \in Seq(Exchange)
        /\ steps = 0 =>
             \A i \in DOMAIN flight' : /\ flight'[i].t1 <= flight'[i].t4
                                       /\ flight'[i].t2 - skew >= flight'[i].t1
                                       /\ flight'[i].t2 - skew <= flight'[i].t4
    <2>1. CASE PingLost
      <3>1. flight' = InFlight
        BY <2>1 DEF PingLost
      <3>2. QED BY <3>1, InFlightHonest DEF Honest
    <2>2. CASE Ping
      <3>1. PICK up \in Delay, down \in Delay :
              flight' = Append(InFlight, [t1 |-> 0, t2 |-> up + skew,
                                          t4 |-> up + down])
        BY <2>2 DEF Ping
      <3> DEFINE e == [t1 |-> 0, t2 |-> up + skew, t4 |-> up + down]
      <3>2. up \in Nat /\ down \in Nat
        BY DEF Delay, ClockAssumption
      <3>3. e \in Exchange /\ Honest(e)
        BY <1>3, <3>2 DEF Exchange, Honest
      <3>4. InFlight \in Seq(Exchange) /\ Len(InFlight) \in Nat
        BY InFlightHonest
      <3> HIDE DEF e
      <3>5. flight' = Append(InFlight, e)
        BY <3>1 DEF e
      <3>6. /\ flight' \in Seq(Exchange)
            /\ \A i \in DOMAIN flight' :
                 flight'[i] = e \/ (i \in DOMAIN InFlight
                                      /\ flight'[i] = InFlight[i])
        BY <3>3, <3>4, <3>5
      <3>7. steps = 0 => \A i \in DOMAIN flight' : Honest(flight'[i])
        BY <3>3, <3>6, InFlightHonest
      <3>8. QED BY <3>6, <3>7 DEF Honest
    <2>3. QED BY <2>1, <2>2
  <1>5. Base'
    BY <1>2, <1>3, <1>4 DEF Base
  <1>6. BoundInv'
    BY <1>2, <1>4 DEF Bounded, BoundInv, Honest, Near2
  <1>7. QED BY <1>5, <1>6 DEF Bounded

(* A pong that is not used changes no estimate. *)
LEMMA UnusedBounded ==
  ASSUME Bounded, NEW p, Pong(p),
         offset' = offset, worst' = worst, start' = start,
         samples' = samples \/ samples' = <<>>
  PROVE  Bounded'
  <1>1. Base /\ samples' \in Seq(Sample)
    <2>1. Base /\ samples \in Seq(Sample) /\ <<>> \in Seq(Sample)
      BY DEF Bounded, Base
    <2>2. QED BY <2>1
  <1>2. Base'
    BY <1>1, TailHonest DEF Base
  <1>3. ASSUME steps = 0, NEW i \in DOMAIN samples'
        PROVE  /\ Near2(samples'[i].offset, samples'[i].rtt)
               /\ samples'[i].rtt <= worst
    <2>1. samples' = samples
      OBVIOUS
    <2>2. QED BY <1>3, <2>1 DEF Bounded, BoundInv
  <1>4. BoundInv'
    BY <1>3, TailHonest DEF Bounded, BoundInv, Honest, Near2
  <1>5. QED BY <1>2, <1>4 DEF Bounded

(* A pong with a large offset: the sample that is kept is near, and so is   *)
(* the median.                                                             *)
LEMMA LargeBounded ==
  ASSUME Bounded, NEW p, LargeSample(p)
  PROVE  Bounded'
  <1> DEFINE e == [offset |-> RawOffset(p), rtt |-> RoundTrip(p)]
             w == Bigger(worst, RoundTrip(p))
  <1>1. /\ Pong(p) /\ RoundTrip(p) \in 0 .. 5000
        /\ samples' = SkewSamples(p) /\ worst' = w
        /\ \/ /\ Enough(SkewSamples(p))
              /\ offset' = MedianOffset(SkewSamples(p)) /\ start' = "raw"
           \/ offset' = offset /\ start' = start
    <2>1. Pong(p) /\ RoundTrip(p) \in 0 .. 5000
      BY DEF LargeSample, Usable
    <2>2. samples' = SkewSamples(p) /\ worst' = w
      BY DEF LargeSample
    <2>3. CASE Enough(SkewSamples(p))
      <3>1. offset' = MedianOffset(SkewSamples(p)) /\ start' = "raw"
        BY <2>3 DEF LargeSample
      <3>2. QED BY <2>1, <2>2, <2>3, <3>1
    <2>4. CASE ~Enough(SkewSamples(p))
      <3>1. offset' = offset /\ start' = start
        BY <2>4 DEF LargeSample
      <3>2. QED BY <2>1, <2>2, <3>1
    <2>5. QED BY <2>3, <2>4
  <1>2. /\ p = flight[1] /\ 1 \in DOMAIN flight /\ flight' \in Seq(Exchange)
        /\ steps' = steps /\ skew' = skew
        /\ steps = 0 => \A i \in DOMAIN flight' : Honest(flight'[i])
    BY <1>1, TailHonest
  <1>3. /\ Base /\ samples \in Seq(Sample) /\ worst \in Int /\ offset \in Int
        /\ skew \in Int /\ steps \in Nat
    BY DEF Bounded, Base
  <1>4. RawOffset(p) \in Int /\ RoundTrip(p) \in Int
    BY <1>2, <1>3, PongTyped
  <1>5. e \in Sample /\ e.offset = RawOffset(p) /\ e.rtt = RoundTrip(p)
    BY <1>1, <1>4 DEF Sample
  <1>6. w \in Int /\ w >= worst /\ w >= RoundTrip(p)
    BY <1>3, <1>4, BiggerIsUpper
  <1>7. samples' = Keep(samples, e, MaxSkewSamples)
    BY <1>1 DEF SkewSamples
  <1> HIDE DEF e, w
  <1>8. /\ samples' \in Seq(Sample)
        /\ \A k \in DOMAIN samples' :
             samples'[k] = e \/ \E j \in DOMAIN samples : samples'[k] = samples[j]
    <2>1. MaxSkewSamples \in Nat \ {0}
      BY DEF ClockAssumption
    <2>2. QED BY <1>3, <1>5, <1>7, <2>1, KeepTyped
  <1>9. ASSUME steps = 0, NEW k \in DOMAIN samples'
        PROVE  /\ Near2(samples'[k].offset, samples'[k].rtt)
               /\ samples'[k].rtt <= w
    <2>1. CASE samples'[k] = e
      <3>1. Near2(RawOffset(p), RoundTrip(p))
        BY <1>2, <1>9, PongHonest
      <3>2. QED BY <1>5, <1>6, <2>1, <3>1
    <2>2. ASSUME NEW j \in DOMAIN samples, samples'[k] = samples[j]
          PROVE  /\ Near2(samples'[k].offset, samples'[k].rtt)
                 /\ samples'[k].rtt <= w
      <3>1. Near2(samples[j].offset, samples[j].rtt) /\ samples[j].rtt <= worst
        BY <1>9 DEF Bounded, BoundInv
      <3>2. samples[j].rtt \in Int
        BY <1>3, SampleFields
      <3>3. samples[j].rtt <= w
        BY <1>3, <1>6, <3>1, <3>2
      <3>4. QED BY <2>2, <3>1, <3>3
    <2>3. QED BY <1>8, <2>1, <2>2
  <1>10. offset' \in Int /\ (steps = 0 /\ start' = "raw" => Near2(offset', w))
    <2>1. CASE /\ Enough(SkewSamples(p))
               /\ offset' = MedianOffset(SkewSamples(p)) /\ start' = "raw"
      <3>1. Enough(samples') /\ offset' = MedianOffset(samples')
        BY <1>1, <2>1
      <3>2. PICK m \in DOMAIN samples' : offset' = samples'[m].offset
        BY <1>8, <3>1, MedianIsSample
      <3>3. samples'[m].offset \in Int /\ samples'[m].rtt \in Int
        BY <1>8, SampleFields
      <3>4. steps = 0 => Near2(offset', samples'[m].rtt) /\ samples'[m].rtt <= w
        BY <1>9, <3>2
      <3>5. steps = 0 => Near2(offset', w)
        BY <1>3, <1>6, <3>2, <3>3, <3>4 DEF Near2
      <3>6. QED BY <3>2, <3>3, <3>5
    <2>2. CASE offset' = offset /\ start' = start
      <3>1. steps = 0 /\ start = "raw" => Near2(offset, worst)
        BY DEF Bounded, BoundInv
      <3>2. QED BY <1>3, <1>6, <2>2, <3>1 DEF Near2
    <2>3. QED BY <1>1, <2>1, <2>2
  <1>11. Base'
    BY <1>1, <1>2, <1>3, <1>6, <1>8, <1>10 DEF Base
  <1>12. BoundInv'
    BY <1>1, <1>2, <1>9, <1>10 DEF BoundInv, Honest, Near2
  <1>13. QED BY <1>11, <1>12 DEF Bounded

(* A pong that is accepted: the offset becomes the raw one or an average. *)
LEMMA AcceptBounded ==
  ASSUME Bounded, NEW p, AcceptSample(p)
  PROVE  Bounded'
  <1> DEFINE w == Bigger(worst, RoundTrip(p))
             average == (2 * RawOffset(p) + 8 * offset) \div 10
  <1>1. /\ Pong(p) /\ worst' = w
        /\ samples' = samples \/ samples' = <<>>
        /\ \/ offset' = RawOffset(p)
           \/ offset' = average /\ (start' = "raw" => start = "raw")
    <2>1. /\ SmallSample(p) /\ worst' = w
          /\ offset' = IF count <= 3 THEN RawOffset(p) ELSE average
          /\ start' = IF start # "none" THEN start
                      ELSE IF count <= 3 THEN "raw" ELSE "averaged"
      BY DEF AcceptSample
    <2>2. Pong(p) /\ (samples' = samples \/ samples' = <<>>)
      BY <2>1 DEF SmallSample, ResetCalibration
    <2>3. QED BY <2>1, <2>2
  <1>2. /\ p = flight[1] /\ 1 \in DOMAIN flight /\ flight' \in Seq(Exchange)
        /\ steps' = steps /\ skew' = skew
        /\ steps = 0 => \A i \in DOMAIN flight' : Honest(flight'[i])
    BY <1>1, TailHonest
  <1>3. /\ Base /\ samples \in Seq(Sample) /\ worst \in Int /\ offset \in Int
        /\ skew \in Int /\ steps \in Nat
    BY DEF Bounded, Base
  <1>4. RawOffset(p) \in Int /\ RoundTrip(p) \in Int
    BY <1>2, <1>3, PongTyped
  <1>5. w \in Int /\ w >= worst /\ w >= RoundTrip(p)
    BY <1>3, <1>4, BiggerIsUpper
  <1>6. average \in Int
    BY <1>3, <1>4
  <1>7. ASSUME steps = 0, start' = "raw"
        PROVE  Near2(offset', w)
    <2>1. Near2(RawOffset(p), RoundTrip(p))
      BY <1>2, <1>7, PongHonest
    <2>2. RawOffset(p) - 2 * skew <= w /\ 2 * skew - RawOffset(p) <= w
      BY <1>3, <1>4, <1>5, <2>1 DEF Near2
    <2>3. CASE offset' = RawOffset(p)
      BY <2>2, <2>3 DEF Near2
    <2>4. CASE offset' = average /\ start = "raw"
      <3>1. Near2(offset, worst)
        BY <1>7, <2>4 DEF Bounded, BoundInv
      <3>2. offset - 2 * skew <= w /\ 2 * skew - offset <= w
        BY <1>3, <1>5, <3>1 DEF Near2
      <3>3. average - 2 * skew <= w /\ 2 * skew - average <= w
        <4> HIDE DEF w
        <4>1. QED BY <1>3, <1>4, <1>5, <2>2, <3>2, AverageIsNear
      <3>4. QED BY <2>4, <3>3 DEF Near2
    <2>5. QED BY <1>1, <1>7, <2>3, <2>4
  <1>8. samples' \in Seq(Sample)
    <2>1. <<>> \in Seq(Sample)
      OBVIOUS
    <2>2. QED BY <1>1, <1>3, <2>1
  <1>9. Base'
    BY <1>1, <1>2, <1>3, <1>4, <1>5, <1>6, <1>8 DEF Base
  <1>10. ASSUME steps = 0, NEW k \in DOMAIN samples'
         PROVE  /\ Near2(samples'[k].offset, samples'[k].rtt)
                /\ samples'[k].rtt <= w
    <2>1. samples' = samples
      BY <1>1
    <2>2. Near2(samples[k].offset, samples[k].rtt) /\ samples[k].rtt <= worst
      BY <1>10, <2>1 DEF Bounded, BoundInv
    <2>3. samples[k].rtt \in Int
      BY <1>3, <2>1, SampleFields
    <2>4. samples[k].rtt <= w
      BY <1>3, <1>5, <2>2, <2>3
    <2>5. QED BY <2>1, <2>2, <2>4
  <1>11. BoundInv'
    BY <1>1, <1>2, <1>7, <1>10 DEF BoundInv, Honest, Near2
  <1>12. QED BY <1>9, <1>11 DEF Bounded

-----------------------------------------------------------------------------
LEMMA BoundedInit == ASSUME Init PROVE Bounded
  <1>1. /\ offset = 0 /\ worst = 0 /\ flight = <<>> /\ samples = <<>>
        /\ steps = 0 /\ start = "none" /\ skew \in Int
    BY DEF Init, ClockAssumption
  <1>2. Base
    BY <1>1 DEF Base
  <1>3. BoundInv
    BY <1>1 DEF BoundInv
  <1>4. QED BY <1>2, <1>3 DEF Bounded

LEMMA BoundedStep ==
  ASSUME Bounded, [Next]_vars
  PROVE  Bounded'
  <1>1. CASE Ping \/ PingLost
    BY <1>1, PingBounded
  <1>2. CASE IgnorePong
    <2>1. PICK p : Pong(p)
      BY <1>2 DEF IgnorePong
    <2>2. /\ offset' = offset /\ worst' = worst /\ start' = start
          /\ samples' = samples
      BY <1>2 DEF IgnorePong, estimate, skewed
    <2>3. QED BY <2>1, <2>2, UnusedBounded
  <1>3. ASSUME NEW p, LargeSample(p) PROVE Bounded'
    BY <1>3, LargeBounded
  <1>4. ASSUME NEW p, DropSample(p) PROVE Bounded'
    <2>1. /\ Pong(p) /\ offset' = offset /\ worst' = worst /\ start' = start
          /\ samples' = samples
      BY <1>4 DEF DropSample, estimate, skewed
    <2>2. QED BY <2>1, UnusedBounded
  <1>5. ASSUME NEW p, RejectSample(p) PROVE Bounded'
    <2>1. /\ Pong(p) /\ offset' = offset /\ worst' = worst /\ start' = start
          /\ samples' = samples \/ samples' = <<>>
      BY <1>5 DEF RejectSample, SmallSample, ResetCalibration, estimate
    <2>2. QED BY <2>1, UnusedBounded
  <1>6. ASSUME NEW p, AcceptSample(p) PROVE Bounded'
    BY <1>6, AcceptBounded
  <1>7. CASE RouteChange \/ UNCHANGED vars
    <2>1. /\ offset' = offset /\ skew' = skew /\ steps' = steps
          /\ worst' = worst /\ start' = start /\ samples' = samples
          /\ flight' = flight
      BY <1>7 DEF RouteChange, vars, estimate, skewed, world
    <2>2. QED BY <2>1 DEF Bounded, Base, BoundInv, Honest, Near2
  <1>8. CASE StepClock
    <2>1. /\ offset' = offset /\ worst' = worst /\ samples' = samples
          /\ flight' = flight /\ steps' = steps + 1 /\ skew' \in Int
      BY <1>8 DEF StepClock, estimate, skewed, ClockAssumption
    <2>2. Base /\ steps \in Nat
      BY DEF Bounded, Base
    <2>3. Base' /\ steps' # 0
      BY <2>1, <2>2 DEF Base
    <2>4. QED BY <2>3 DEF Bounded, BoundInv
  <1>9. CASE Reload
    <2>1. /\ offset' = 0 /\ worst' = 0 /\ samples' = <<>> /\ flight' = <<>>
          /\ skew' = skew /\ steps' = steps /\ start' = "none"
      BY <1>9 DEF Reload, world
    <2>2. Base'
      BY <2>1 DEF Bounded, Base
    <2>3. BoundInv'
      BY <2>1 DEF BoundInv
    <2>4. QED BY <2>2, <2>3 DEF Bounded
  <1>10. QED
    BY <1>1, <1>2, <1>3, <1>4, <1>5, <1>6, <1>7, <1>8, <1>9 DEF Next, PongStep

(* The estimate of the server clock is never off by more than half the     *)
(* longest round trip it was made from, while that clock is not stepped    *)
(* and the first estimate was a raw sample or a calibration                *)
(* (clock_sync.js:77-152, 159-194).                                        *)
THEOREM EstimateBounded == Spec => []OffsetIsBounded
  <1>1. Init => Bounded
    BY BoundedInit
  <1>2. Bounded /\ [Next]_vars => Bounded'
    BY BoundedStep
  <1>3. Bounded => OffsetIsBounded
    <2>1. SUFFICES ASSUME Bounded, start = "raw", steps = 0
                   PROVE  Abs(offset - 2 * skew) <= worst
      BY DEF OffsetIsBounded
    <2>2. Near2(offset, worst) /\ offset \in Int /\ skew \in Int /\ worst \in Int
      BY <2>1 DEF Bounded, Base, BoundInv
    <2>3. QED BY <2>2 DEF Near2, Abs
  <1>4. QED BY <1>1, <1>2, <1>3, PTL DEF Spec

-----------------------------------------------------------------------------
(* Estimates that started from an average.                                 *)

(* A page whose first pongs were all lost starts averaging from 0, which   *)
(* no pong said.  The estimate is then not within the round trips it was   *)
(* made from, but it is never further off than the larger of those and the *)
(* skew itself: synchronizing never leaves the page worse off than both    *)
(* having no estimate and its slowest exchange (clock_sync.js:112-135).    *)
NeverWorse ==
  steps = 0 => Abs(offset - 2 * skew) <= Bigger(worst, 2 * Abs(skew))

Reach == Bigger(worst, 2 * Abs(skew))

WithinReach == steps = 0 => Near2(offset, Reach)

LEMMA ReachTyped ==
  ASSUME NEW w \in Int, NEW k \in Int
  PROVE  /\ Bigger(w, 2 * Abs(k)) \in Int /\ Bigger(w, 2 * Abs(k)) >= w
         /\ 0 - 2 * k <= Bigger(w, 2 * Abs(k))
         /\ 2 * k - 0 <= Bigger(w, 2 * Abs(k))
         /\ \A v \in Int : v >= w
              => Bigger(v, 2 * Abs(k)) >= Bigger(w, 2 * Abs(k))
  BY DEF Bigger, Abs

(* The pong that is read is the first one under way. *)
LEMMA PongIsFirst ==
  ASSUME Bounded, NEW p, Pong(p)
  PROVE  /\ RawOffset(p) \in Int /\ RoundTrip(p) \in Int
         /\ steps = 0 => Near2(RawOffset(p), RoundTrip(p))
  <1>1. /\ p = flight[1] /\ 1 \in DOMAIN flight /\ Base
    BY TailHonest DEF Bounded
  <1>2. QED BY <1>1, PongTyped, PongHonest

LEMMA ReachGrows ==
  ASSUME Bounded, WithinReach, NEW r \in Int, worst' = Bigger(worst, r),
         offset' = offset, skew' = skew, steps' = steps
  PROVE  WithinReach'
  <1>1. offset \in Int /\ worst \in Int /\ skew \in Int
    BY DEF Bounded, Base
  <1>2. worst' \in Int /\ worst' >= worst
    BY <1>1, BiggerIsUpper
  <1>3. Reach \in Int /\ Reach' \in Int /\ Reach' >= Reach
    BY <1>1, <1>2, ReachTyped DEF Reach
  <1>4. QED BY <1>1, <1>3 DEF WithinReach, Near2

LEMMA ReachStep ==
  ASSUME Bounded, WithinReach, [Next]_vars
  PROVE  WithinReach'
  <1>1. /\ offset \in Int /\ worst \in Int /\ skew \in Int /\ steps \in Nat
        /\ offset' \in Int /\ worst' \in Int /\ skew' \in Int /\ steps' \in Nat
        /\ Bounded'
    BY BoundedStep DEF Bounded, Base
  <1>2. ASSUME offset' = offset, worst' = worst, skew' = skew, steps' = steps
        PROVE  WithinReach'
    BY <1>2 DEF WithinReach, Reach, Near2
  <1>3. ASSUME steps' = 0, skew' = skew, Near2(offset', worst')
        PROVE  WithinReach'
    <2>1. Reach' \in Int /\ Reach' >= worst'
      BY <1>1, ReachTyped DEF Reach
    <2>2. offset' - 2 * skew <= worst' /\ 2 * skew - offset' <= worst'
      BY <1>3 DEF Near2
    <2>3. offset' - 2 * skew <= Reach' /\ 2 * skew - offset' <= Reach'
      <3>1. PICK o \in Int, k \in Int, e \in Int, reach \in Int :
              o = offset' /\ k = skew /\ e = worst' /\ reach = Reach'
        BY <1>1, <2>1
      <3>2. reach >= e /\ o - 2 * k <= e /\ 2 * k - o <= e
        BY <2>1, <2>2, <3>1
      <3>3. o - 2 * k <= reach /\ 2 * k - o <= reach
        BY ONLY <3>2, o \in Int, k \in Int, e \in Int, reach \in Int
      <3>4. QED BY <3>1, <3>3
    <2>4. QED BY <1>3, <2>3 DEF WithinReach, Near2
  <1>4. CASE Ping \/ PingLost \/ IgnorePong \/ RouteChange \/ UNCHANGED vars
    <2>1. /\ offset' = offset /\ worst' = worst
          /\ skew' = skew /\ steps' = steps
      BY <1>4 DEF Ping, PingLost, SendPing, IgnorePong, Pong, RouteChange,
         vars, estimate, world
    <2>2. QED BY <1>2, <2>1
  <1>5. ASSUME NEW p, DropSample(p) \/ RejectSample(p) PROVE WithinReach'
    <2>1. /\ offset' = offset /\ worst' = worst
          /\ skew' = skew /\ steps' = steps
      BY <1>5 DEF DropSample, RejectSample, SmallSample, Pong, estimate, world
    <2>2. QED BY <1>2, <2>1
  <1>6. ASSUME NEW p, LargeSample(p) PROVE WithinReach'
    <2>1. skew' = skew /\ steps' = steps /\ worst' = Bigger(worst, RoundTrip(p))
      BY <1>6 DEF LargeSample, Pong, world
    <2>2. CASE steps' = 0 /\ start' = "raw"
      <3>1. Near2(offset, worst)'
        BY <1>1, <2>2 DEF Bounded, BoundInv
      <3>2. Near2(offset', worst')
        BY <2>1, <3>1 DEF Near2
      <3>3. QED BY <1>3, <2>1, <2>2, <3>2
    <2>3. CASE start' # "raw"
      <3>1. offset' = offset
        BY <1>6, <2>3 DEF LargeSample
      <3>2. RoundTrip(p) \in Int
        BY <1>6, PongIsFirst DEF LargeSample
      <3>3. QED BY <1>1, <2>1, <3>1, <3>2, ReachGrows
    <2>4. QED BY <2>2, <2>3 DEF WithinReach
  <1>7. ASSUME NEW p, AcceptSample(p) PROVE WithinReach'
    <2> DEFINE average == (2 * RawOffset(p) + 8 * offset) \div 10
    <2>1. /\ skew' = skew /\ steps' = steps
          /\ worst' = Bigger(worst, RoundTrip(p))
          /\ offset' = RawOffset(p) \/ offset' = average
      BY <1>7 DEF AcceptSample, SmallSample, Pong, world
    <2>2. SUFFICES ASSUME steps = 0 PROVE Near2(offset', Reach')
      BY <2>1 DEF WithinReach, Near2
    <2>3. /\ RawOffset(p) \in Int /\ RoundTrip(p) \in Int
          /\ Near2(RawOffset(p), RoundTrip(p))
      BY <1>7, <2>2, PongIsFirst DEF AcceptSample, SmallSample
    <2>4. worst' >= worst /\ worst' >= RoundTrip(p)
      BY <1>1, <2>1, <2>3, BiggerIsUpper
    <2>5. Reach \in Int /\ Reach' \in Int /\ Reach' >= Reach /\ Reach' >= worst'
      BY <1>1, <2>1, <2>4, ReachTyped DEF Reach
    <2>6. RawOffset(p) - 2 * skew <= Reach' /\ 2 * skew - RawOffset(p) <= Reach'
      BY <1>1, <2>3, <2>4, <2>5 DEF Near2
    <2>7. offset - 2 * skew <= Reach' /\ 2 * skew - offset <= Reach'
      BY <1>1, <2>2, <2>5 DEF WithinReach, Near2
    <2>8. average - 2 * skew <= Reach' /\ 2 * skew - average <= Reach'
      BY <1>1, <2>3, <2>5, <2>6, <2>7, AverageIsNear
    <2> HIDE DEF average
    <2>9. QED BY <2>1, <2>6, <2>8 DEF Near2
  <1>8. CASE StepClock
    <2>1. steps' = steps + 1
      BY <1>8 DEF StepClock
    <2>2. QED BY <1>1, <2>1 DEF WithinReach
  <1>9. CASE Reload
    <2>1. offset' = 0 /\ skew' = skew
      BY <1>9 DEF Reload, world
    <2>2. QED BY <1>1, <2>1, ReachTyped DEF WithinReach, Reach, Near2
  <1>10. QED
    BY <1>4, <1>5, <1>6, <1>7, <1>8, <1>9 DEF Next, PongStep

(* NeverWorse always holds, for any delays, losses, skews and bounds.      *)
THEOREM EstimateNeverWorse == Spec => []NeverWorse
  <1>1. Init => WithinReach
    <2>1. ASSUME Init PROVE WithinReach
      <3>1. offset = 0 /\ worst = 0 /\ skew \in Int
        BY <2>1 DEF Init, ClockAssumption
      <3>2. QED BY <3>1, ReachTyped DEF WithinReach, Reach, Near2
    <2>2. QED BY <2>1
  <1>2. Init => Bounded
    BY BoundedInit
  <1>3. Bounded /\ [Next]_vars => Bounded'
    BY BoundedStep
  <1>4. Bounded /\ WithinReach /\ [Next]_vars => WithinReach'
    BY ReachStep
  <1>5. Bounded /\ WithinReach => NeverWorse
    <2>1. SUFFICES ASSUME Bounded, WithinReach, steps = 0
                   PROVE  Abs(offset - 2 * skew) <= Reach
      BY DEF NeverWorse, Reach
    <2>2. offset \in Int /\ worst \in Int /\ skew \in Int
      BY <2>1 DEF Bounded, Base
    <2>3. Reach \in Int
      BY <2>2, ReachTyped DEF Reach
    <2>4. QED BY <2>1, <2>2, <2>3 DEF WithinReach, Near2, Abs
  <1>6. QED BY <1>1, <1>2, <1>3, <1>4, <1>5, PTL DEF Spec

-----------------------------------------------------------------------------
(* After a calibration the offset is the median of the samples kept. *)
MedianInv ==
  outcome = "calibrated" => Enough(samples) /\ offset = MedianOffset(samples)

LEMMA MedianStep ==
  ASSUME MedianInv, [Next]_vars
  PROVE  MedianInv'
  <1>1. CASE outcome' = outcome /\ offset' = offset /\ samples' = samples
    BY <1>1 DEF MedianInv
  <1>2. CASE outcome' # "calibrated"
    BY <1>2 DEF MedianInv
  <1>3. ASSUME NEW p, LargeSample(p) PROVE MedianInv'
    <2>1. samples' = SkewSamples(p)
      BY <1>3 DEF LargeSample
    <2>2. CASE Enough(SkewSamples(p))
      <3>1. offset' = MedianOffset(SkewSamples(p))
        BY <1>3, <2>2 DEF LargeSample
      <3>2. QED BY <2>1, <2>2, <3>1 DEF MedianInv
    <2>3. CASE ~Enough(SkewSamples(p))
      <3>1. outcome' = "collected"
        BY <1>3, <2>3 DEF LargeSample
      <3>2. QED BY <3>1, <1>2
    <2>4. QED BY <2>2, <2>3
  <1>4. CASE Ping \/ PingLost
    BY <1>1, <1>4 DEF Ping, PingLost, SendPing, skewed
  <1>5. CASE IgnorePong
    BY <1>2, <1>5 DEF IgnorePong
  <1>6. ASSUME NEW p, DropSample(p) \/ RejectSample(p) \/ AcceptSample(p)
        PROVE  MedianInv'
    <2>1. outcome' \in {"dropped", "rejected", "resolved", "accepted"}
      BY <1>6 DEF DropSample, RejectSample, AcceptSample
    <2>2. QED BY <1>2, <2>1
  <1>7. CASE RouteChange \/ StepClock \/ UNCHANGED vars
    BY <1>1, <1>7 DEF RouteChange, StepClock, vars, estimate, skewed
  <1>8. CASE Reload
    BY <1>2, <1>8 DEF Reload
  <1>9. QED
    BY <1>3, <1>4, <1>5, <1>6, <1>7, <1>8 DEF Next, PongStep

(* A calibration is right although a few exchanges are slow: most of the   *)
(* samples it has kept took at least as long as the estimate is off        *)
(* (clock_sync.js:169-178).                                                *)
THEOREM CalibrationIsRobust == Spec => []FewCannotMislead
  <1>1. Init => Bounded /\ MedianInv
    <2>1. Init => MedianInv
      BY DEF Init, MedianInv
    <2>2. QED BY <2>1, BoundedInit
  <1>2. Bounded /\ MedianInv /\ [Next]_vars => (Bounded /\ MedianInv)'
    BY BoundedStep, MedianStep
  <1>3. Bounded /\ MedianInv => FewCannotMislead
    <2>1. SUFFICES ASSUME Bounded, MedianInv, outcome = "calibrated", steps = 0
                   PROVE  2 * Cardinality({i \in DOMAIN samples :
                                samples[i].rtt >= Abs(offset - 2 * skew)})
                            > Len(samples)
      BY DEF FewCannotMislead
    <2>2. /\ samples \in Seq(Sample) /\ 2 * skew \in Int
          /\ Enough(samples) /\ offset = MedianOffset(samples)
      BY <2>1 DEF Bounded, Base, MedianInv
    <2>3. \A i \in DOMAIN samples :
            /\ samples[i].offset - 2 * skew <= samples[i].rtt
            /\ 2 * skew - samples[i].offset <= samples[i].rtt
      BY <2>1 DEF Bounded, BoundInv, Near2
    <2>4. QED BY <2>2, <2>3, MedianIsRobust
  <1>4. QED BY <1>1, <1>2, <1>3, PTL DEF Spec

-----------------------------------------------------------------------------
(* Types.                                                                  *)

SkewSample == [offset : Int, rtt : 0 .. 5000]
Slope == [num : Int, den : Int]

LEMMA UsableIsWhole == ASSUME NEW n, n \in 0 .. 5000 PROVE n \in Int
  OBVIOUS

LEMMA SkewSamplesAreSamples ==
  ASSUME NEW s \in Seq(SkewSample) PROVE s \in Seq(Sample)
  <1>1. ASSUME NEW x \in SkewSample PROVE x \in Sample
    <2>1. x = [offset |-> x.offset, rtt |-> x.rtt]
      BY DEF SkewSample
    <2>2. x.offset \in Int
      BY DEF SkewSample
    <2>3. x.rtt \in 0 .. 5000
      BY DEF SkewSample
    <2>4. x.rtt \in Int
      BY ONLY <2>3, UsableIsWhole
    <2>5. QED BY <2>1, <2>2, <2>4 DEF Sample
  <1>2. \A i \in 1 .. Len(s) : s[i] \in Sample
    BY <1>1
  <1>3. QED BY <1>2

LEMMA MeanTyped ==
  ASSUME NEW s \in Seq(Sample), Enough(s)
  PROVE  MeanRtt(s) \in Int /\ MedianOffset(s) \in Int
  <1> DEFINE B == BestHalf(s)
             rtts == [i \in BestHalf(s) |-> s[i].rtt]
  <1>1. /\ IsFiniteSet(B) /\ Cardinality(B) = HalfSize(s)
        /\ B \subseteq DOMAIN s
    BY HalfAndMedian DEF Ranked
  <1>2. HalfSize(s) \in Nat /\ HalfSize(s) >= 1
    BY DEF HalfSize, Enough
  <1>3. IntOn(rtts, B)
    BY <1>1, SampleFields DEF IntOn
  <1>4. SumFunction(rtts) \in Int
    <2>1. SumFunction(rtts) = Total(rtts, B)
      BY DEF SumFunction, Total
    <2> HIDE DEF B, rtts
    <2>2. QED BY <1>1, <1>3, <2>1, TotalTyped
  <1>5. MeanRtt(s) = SumFunction(rtts) \div HalfSize(s)
    BY <1>1 DEF MeanRtt
  <1>6. MeanRtt(s) \in Int
    <2> HIDE DEF rtts
    <2>1. QED BY <1>2, <1>4, <1>5
  <1>7. MedianOffset(s) \in Int
    BY MedianIsSample, SampleFields
  <1>8. QED BY <1>6, <1>7

(* The newest sample comes last, what is before it was there already. *)
LEMMA KeepShape ==
  ASSUME NEW T, NEW s \in Seq(T), NEW e \in T, NEW max \in Nat \ {0},
         NEW k, k = Keep(s, e, max)
  PROVE  /\ k \in Seq(T) /\ Len(k) \in Nat /\ Len(k) >= 1 /\ k[Len(k)] = e
         /\ Len(k) = IF Len(s) < max THEN Len(s) + 1 ELSE Len(s)
         /\ \A i \in 1 .. Len(k) - 1 : \E j \in DOMAIN s : k[i] = s[j]
  <1> DEFINE long == Append(s, e)
  <1>1. /\ Len(s) \in Nat /\ long \in Seq(T) /\ long # <<>>
        /\ DOMAIN s = 1 .. Len(s) /\ Len(long) = Len(s) + 1
        /\ long[Len(s) + 1] = e /\ \A j \in 1 .. Len(s) : long[j] = s[j]
    OBVIOUS
  <1>2. CASE Len(s) < max
    <2>1. k = long
      BY <1>2 DEF Keep
    <2> HIDE DEF long
    <2>2. QED BY <1>1, <1>2, <2>1
  <1>3. CASE ~(Len(s) < max)
    <2>1. k = Tail(long)
      BY <1>3 DEF Keep
    <2>2. Len(s) >= 1
      BY <1>1, <1>3
    <2>3. /\ Tail(long) \in Seq(T) /\ Len(Tail(long)) = Len(s)
          /\ \A i \in 1 .. Len(s) : Tail(long)[i] = long[i + 1]
      <3> HIDE DEF long
      <3>1. QED BY <1>1
    <2> HIDE DEF long
    <2>4. k[Len(k)] = e
      BY <1>1, <2>1, <2>2, <2>3
    <2>5. ASSUME NEW i \in 1 .. Len(k) - 1 PROVE \E j \in DOMAIN s : k[i] = s[j]
      <3>1. i \in 1 .. Len(s) /\ i + 1 \in 1 .. Len(s)
        BY <1>1, <2>1, <2>3
      <3>2. k[i] = s[i + 1]
        BY <1>1, <2>1, <2>3, <3>1
      <3>3. QED BY <1>1, <3>1, <3>2
    <2>6. QED BY <1>1, <1>3, <2>1, <2>2, <2>3, <2>4, <2>5
  <1>4. QED BY <1>2, <1>3

LEMMA DriftTyped ==
  ASSUME drift \in Slope, NEW h \in Seq(Point)
  PROVE  EstimateDrift(h) \in Slope
  <1>1. CASE Len(h) < MinHistory
    BY <1>1 DEF EstimateDrift, NoDrift, Slope
  <1>2. CASE ~(Len(h) < MinHistory)
    <2>1. /\ Len(h) \in Nat /\ Len(h) >= 1
          /\ Bigger(1, Len(h) - Window + 1) \in 1 .. Len(h)
      BY <1>2 DEF ClockAssumption, Bigger
    <2>2. Recent(h) \in Seq(Point)
      BY <2>1, SubSeqProperties DEF Recent
    <2>3. Regression(Len(h), Recent(h)) \in Slope
      BY <2>1, <2>2, RegressionTyped DEF Slope
    <2>4. QED BY <1>2, <2>3 DEF EstimateDrift
  <1>3. QED BY <1>1, <1>2

LEMMA QualityTyped ==
  ASSUME NEW cal, NEW r, NEW d
  PROVE  Quality(cal, r, d) \in {"unknown", "excellent", "good", "fair", "poor"}
  BY DEF Quality

(* The type invariant in two parts: what pings and pongs are about, and what *)
(* the page makes of them. *)
Travel ==
  /\ pending \in {0, NoPing} /\ count \in 0 .. MaxPings
  /\ route \in {"near", "far"} /\ skew \in Skews /\ steps \in 0 .. MaxSteps
  /\ flight \in Seq(Exchange)

Page ==
  /\ offset \in Int /\ rtt \in Int /\ drift \in Slope
  /\ history \in Seq(Point) /\ Len(history) <= MaxHistory
  /\ quality \in {"unknown", "excellent", "good", "fair", "poor"}
  /\ calibrated \in BOOLEAN
  /\ samples \in Seq(SkewSample) /\ Len(samples) <= MaxSkewSamples
  /\ worst \in Int /\ start \in {"none", "raw", "averaged"}
  /\ outcome \in {"none", "ignored", "collected", "calibrated", "dropped",
                  "rejected", "accepted", "resolved"}

LEMMA TypeParts == TypeOK <=> Travel /\ Page
  BY DEF TypeOK, Travel, Page, Exchange, Slope, Point, SkewSample

LEMMA TravelBase ==
  ASSUME Travel, Page PROVE Base
  <1>1. /\ offset \in Int /\ skew \in Int /\ steps \in Nat /\ worst \in Int
        /\ flight \in Seq(Exchange)
    BY DEF Travel, Page, ClockAssumption
  <1>2. samples \in Seq(Sample)
    BY SkewSamplesAreSamples DEF Page
  <1>3. QED BY <1>1, <1>2 DEF Base

LEMMA PongTravels ==
  ASSUME Travel, Page, NEW p, Pong(p)
  PROVE  /\ Travel' /\ count' = count
         /\ RawOffset(p) \in Int /\ RoundTrip(p) \in Int /\ p.t4 \in Int
  <1>1. /\ flight \in Seq(Exchange) /\ flight # <<>> /\ p = Head(flight)
        /\ flight' = Tail(flight) /\ pending' = NoPing
        /\ count' = count /\ route' = route /\ skew' = skew /\ steps' = steps
    BY DEF Travel, Pong, world
  <1>2. /\ 1 \in DOMAIN flight /\ p = flight[1] /\ flight' \in Seq(Exchange)
    BY <1>1
  <1>3. Travel'
    BY <1>1, <1>2 DEF Travel
  <1>4. p.t4 \in Int
    <2>1. p \in Exchange
      BY <1>1, <1>2
    <2>2. QED BY <2>1 DEF Exchange
  <1>5. QED BY <1>1, <1>2, <1>3, <1>4, TravelBase, PongTyped

LEMMA SendPingTyped ==
  ASSUME Travel, Page, SendPing
  PROVE  /\ Page' /\ pending' = 0 /\ count' \in 0 .. MaxPings
         /\ InFlight \in Seq(Exchange)
  <1>1. /\ offset' = offset /\ rtt' = rtt /\ drift' = drift
        /\ quality' = quality /\ calibrated' = calibrated
        /\ samples' = samples /\ worst' = worst /\ start' = start
        /\ outcome' = outcome /\ pending' = 0
        /\ count' = IF count < MaxPings THEN count + 1 ELSE count
        /\ history' = [i \in DOMAIN history |->
                         [history[i] EXCEPT !.time = Bigger(@ - Period, -Horizon)]]
    BY DEF SendPing, skewed
  <1>2. history \in Seq(Point) /\ Len(history) \in Nat
    BY DEF Page
  <1>3. ASSUME NEW i \in DOMAIN history
        PROVE  [history[i] EXCEPT !.time = Bigger(@ - Period, -Horizon)] \in Point
    <2>1. history[i].time \in Int /\ history[i] \in Point
      BY <1>2, PointFields
    <2>2. Bigger(history[i].time - Period, -Horizon) \in Int
      <3>1. history[i].time - Period \in Int /\ -Horizon \in Int
        BY <2>1 DEF Period, ClockAssumption
      <3>2. QED BY <3>1, BiggerIsUpper
    <2>3. QED BY <2>1, <2>2 DEF Point
  <1>4. history' \in Seq(Point) /\ Len(history') = Len(history)
    BY <1>1, <1>2, <1>3
  <1>5. count' \in 0 .. MaxPings
    BY <1>1 DEF Travel, ClockAssumption
  <1>6. InFlight \in Seq(Exchange)
    <2>1. flight \in Seq(Exchange)
      BY DEF Travel
    <2>2. \A i \in DOMAIN flight : Older(flight[i]) \in Exchange
      <3>1. \A i \in DOMAIN flight : flight[i] \in Exchange
        BY <2>1
      <3>2. \A r \in Exchange : Older(r) \in Exchange
        BY DEF Older, Exchange, Period
      <3>3. QED BY <3>1, <3>2
    <2>3. QED BY <2>1, <2>2 DEF InFlight
  <1>7. Page'
    BY <1>1, <1>4 DEF Page
  <1>8. QED BY <1>1, <1>5, <1>6, <1>7

LEMMA PingTyped ==
  ASSUME Travel, Page, Ping \/ PingLost
  PROVE  Travel' /\ Page'
  <1>1. SendPing
    BY DEF Ping, PingLost
  <1>2. route' = route /\ skew' = skew /\ steps' = steps
    BY <1>1 DEF SendPing, world
  <1>3. flight' \in Seq(Exchange)
    <2>1. InFlight \in Seq(Exchange)
      BY <1>1, SendPingTyped
    <2>2. CASE PingLost
      BY <2>1, <2>2 DEF PingLost
    <2>3. CASE Ping
      <3>1. PICK up \in Delay, down \in Delay :
              flight' = Append(InFlight, [t1 |-> 0, t2 |-> up + skew,
                                          t4 |-> up + down])
        BY <2>3 DEF Ping
      <3>2. up \in Nat /\ down \in Nat /\ skew \in Int
        BY DEF Delay, ClockAssumption, Travel
      <3>3. [t1 |-> 0, t2 |-> up + skew, t4 |-> up + down] \in Exchange
        BY <3>2 DEF Exchange
      <3>4. QED BY <2>1, <3>1, <3>3
    <2>4. QED BY <2>2, <2>3
  <1>4. Travel'
    <2>1. pending' = 0 /\ count' \in 0 .. MaxPings
      BY <1>1, SendPingTyped
    <2>2. QED BY <1>2, <1>3, <2>1 DEF Travel
  <1>5. QED BY <1>1, <1>4, SendPingTyped

LEMMA LargeTyped ==
  ASSUME Travel, Page, NEW p, LargeSample(p)
  PROVE  Travel' /\ Page'
  <1> DEFINE e == [offset |-> RawOffset(p), rtt |-> RoundTrip(p)]
             s == SkewSamples(p)
  <1>1. /\ Pong(p) /\ RoundTrip(p) \in 0 .. 5000
        /\ samples' = s /\ worst' = Bigger(worst, RoundTrip(p))
        /\ drift' = drift /\ history' = history
    BY DEF LargeSample, Usable
  <1>2. Travel' /\ RawOffset(p) \in Int /\ RoundTrip(p) \in Int
    BY <1>1, PongTravels
  <1>3. s \in Seq(SkewSample) /\ Len(s) <= MaxSkewSamples
    <2>1. e \in SkewSample
      BY <1>1, <1>2 DEF SkewSample
    <2>2. s = Keep(samples, e, MaxSkewSamples)
      BY DEF SkewSamples
    <2>3. /\ samples \in Seq(SkewSample) /\ Len(samples) \in Nat
          /\ Len(samples) <= MaxSkewSamples /\ MaxSkewSamples \in Nat \ {0}
      BY DEF Page, ClockAssumption
    <2> HIDE DEF e, s
    <2>4. s \in Seq(SkewSample)
      BY <2>1, <2>2, <2>3, KeepShape
    <2>5. Len(s) = IF Len(samples) < MaxSkewSamples THEN Len(samples) + 1
                   ELSE Len(samples)
      BY <2>1, <2>2, <2>3, KeepShape
    <2>6. QED BY <2>3, <2>4, <2>5
  <1>4. worst' \in Int
    BY <1>1, <1>2, BiggerIsUpper DEF Page
  <1> HIDE DEF s
  <1>5. CASE Enough(s)
    <2>1. s \in Seq(Sample)
      BY <1>3, SkewSamplesAreSamples
    <2>2. /\ calibrated' = TRUE
          /\ offset' = MedianOffset(s) /\ rtt' = MeanRtt(s)
          /\ quality' = Quality(TRUE, MeanRtt(s), drift)
          /\ start' = "raw" /\ outcome' = "calibrated"
      BY <1>5 DEF LargeSample, s
    <2>3. offset' \in Int /\ rtt' \in Int
      BY <1>5, <2>1, <2>2, MeanTyped
    <2>4. quality' \in {"unknown", "excellent", "good", "fair", "poor"}
      <3>1. Quality(TRUE, MeanRtt(s), drift)
              \in {"unknown", "excellent", "good", "fair", "poor"}
        BY QualityTyped
      <3>2. QED BY ONLY <2>2, <3>1
    <2>5. /\ drift' \in Slope /\ history' \in Seq(Point)
          /\ Len(history') <= MaxHistory
          /\ samples' \in Seq(SkewSample) /\ Len(samples') <= MaxSkewSamples
      BY <1>1, <1>3 DEF Page
    <2>6. Page'
      BY ONLY <1>4, <2>2, <2>3, <2>4, <2>5 DEF Page
    <2>7. QED BY <1>2, <2>6
  <1>6. CASE ~Enough(s)
    <2>1. /\ outcome' = "collected"
          /\ offset' = offset /\ rtt' = rtt /\ quality' = quality
          /\ calibrated' = calibrated /\ start' = start
      BY <1>6 DEF LargeSample, s
    <2>2. Page'
      BY <1>1, <1>3, <1>4, <2>1 DEF Page
    <2>3. QED BY <1>2, <2>2
  <1>7. QED BY <1>5, <1>6

LEMMA NothingTyped ==
  ASSUME NEW T, NEW n \in Nat
  PROVE  <<>> \in Seq(T) /\ Len(<<>>) <= n
  OBVIOUS

LEMMA FewerSamples ==
  ASSUME Page, NEW s, s = samples \/ s = <<>>
  PROVE  s \in Seq(SkewSample) /\ Len(s) <= MaxSkewSamples
  <1>1. <<>> \in Seq(SkewSample) /\ Len(<<>>) <= MaxSkewSamples
    BY NothingTyped DEF ClockAssumption
  <1>2. QED BY <1>1 DEF Page

LEMMA AcceptTyped ==
  ASSUME Travel, Page, NEW p, AcceptSample(p)
  PROVE  Travel' /\ Page'
  <1> DEFINE o == IF count <= 3 THEN RawOffset(p)
                  ELSE (2 * RawOffset(p) + 8 * offset) \div 10
             r == IF count <= 3 THEN RoundTrip(p)
                  ELSE (3 * RoundTrip(p) + 7 * rtt) \div 10
             e == [time |-> p.t4, offset |-> o]
             h == Keep(history, e, MaxHistory)
  <1>1. /\ SmallSample(p) /\ offset' = o /\ rtt' = r /\ history' = h
        /\ drift' = EstimateDrift(h)
        /\ quality' = Quality(Calibrated(p), r, EstimateDrift(h))
        /\ worst' = Bigger(worst, RoundTrip(p))
        /\ start' = IF start # "none" THEN start
                    ELSE IF count <= 3 THEN "raw" ELSE "averaged"
        /\ outcome' = IF Resolves(p) THEN "resolved" ELSE "accepted"
    BY DEF AcceptSample
  <1>2. Pong(p) /\ ResetCalibration(p)
    BY <1>1 DEF SmallSample
  <1>3. /\ Travel' /\ RawOffset(p) \in Int /\ RoundTrip(p) \in Int
        /\ p.t4 \in Int
    BY <1>2, PongTravels
  <1>4. /\ offset \in Int /\ rtt \in Int /\ worst \in Int /\ drift \in Slope
        /\ history \in Seq(Point) /\ Len(history) \in Nat
        /\ Len(history) <= MaxHistory /\ MaxHistory \in Nat \ {0}
    BY DEF Page, ClockAssumption
  <1>5. o \in Int /\ r \in Int
    BY <1>3, <1>4
  <1>6. e \in Point
    BY <1>3, <1>5 DEF Point
  <1> HIDE DEF o, r, e
  <1>7. h \in Seq(Point) /\ Len(h) <= MaxHistory
    <2>1. h \in Seq(Point)
      BY <1>4, <1>6, KeepShape
    <2>2. Len(h) = IF Len(history) < MaxHistory THEN Len(history) + 1
                   ELSE Len(history)
      BY <1>4, <1>6, KeepShape
    <2> HIDE DEF h
    <2>3. QED BY <1>4, <2>1, <2>2
  <1> HIDE DEF h
  <1>8. /\ drift' \in Slope /\ worst' \in Int
        /\ quality' \in {"unknown", "excellent", "good", "fair", "poor"}
    <2>1. drift' \in Slope
      BY <1>1, <1>4, <1>7, DriftTyped
    <2>2. worst' \in Int
      BY <1>1, <1>3, <1>4, BiggerIsUpper
    <2>3. Quality(Calibrated(p), r, EstimateDrift(h))
            \in {"unknown", "excellent", "good", "fair", "poor"}
      BY QualityTyped
    <2>4. quality' = Quality(Calibrated(p), r, EstimateDrift(h))
      BY <1>1
    <2>5. QED BY ONLY <2>1, <2>2, <2>3, <2>4
  <1>9. samples' \in Seq(SkewSample) /\ Len(samples') <= MaxSkewSamples
    <2>1. samples' = samples \/ samples' = <<>>
      BY <1>2 DEF ResetCalibration
    <2>2. QED BY <2>1, FewerSamples
  <1>10. calibrated' \in BOOLEAN
    BY <1>2 DEF ResetCalibration, Calibrated, Page
  <1>11. start' \in {"none", "raw", "averaged"}
    BY <1>1 DEF Page
  <1>12. outcome' \in {"resolved", "accepted"}
    BY <1>1
  <1>13. Page'
    BY ONLY <1>1, <1>5, <1>7, <1>8, <1>9, <1>10, <1>11, <1>12 DEF Page
  <1>14. QED BY <1>3, <1>13

(* A pong that is not used. *)
LEMMA UnusedTyped ==
  ASSUME Travel, Page, NEW p, Pong(p),
         offset' = offset, rtt' = rtt, drift' = drift, history' = history,
         quality' = quality, worst' = worst, start' = start,
         samples' = samples \/ samples' = <<>>, calibrated' \in BOOLEAN,
         outcome' \in {"ignored", "dropped", "rejected"}
  PROVE  Travel' /\ Page'
  <1>1. samples' \in Seq(SkewSample) /\ Len(samples') <= MaxSkewSamples
    BY FewerSamples
  <1>2. Page'
    BY <1>1 DEF Page
  <1>3. QED BY <1>2, PongTravels

LEMMA TypeStep ==
  ASSUME Travel, Page, [Next]_vars
  PROVE  Travel' /\ Page'
  <1>1. CASE Ping \/ PingLost
    BY <1>1, PingTyped
  <1>2. CASE IgnorePong
    <2>1. PICK p : Pong(p)
      BY <1>2 DEF IgnorePong
    <2>2. /\ offset' = offset /\ rtt' = rtt /\ drift' = drift
          /\ history' = history /\ quality' = quality /\ worst' = worst
          /\ start' = start /\ samples' = samples /\ calibrated' = calibrated
          /\ outcome' = "ignored"
      BY <1>2 DEF IgnorePong, estimate, skewed
    <2>3. calibrated' \in BOOLEAN
      BY <2>2 DEF Page
    <2>4. QED BY <2>1, <2>2, <2>3, UnusedTyped
  <1>3. ASSUME NEW p, LargeSample(p) PROVE Travel' /\ Page'
    BY <1>3, LargeTyped
  <1>4. ASSUME NEW p, DropSample(p) PROVE Travel' /\ Page'
    <2>1. /\ Pong(p) /\ offset' = offset /\ rtt' = rtt /\ drift' = drift
          /\ history' = history /\ quality' = quality /\ worst' = worst
          /\ start' = start /\ samples' = samples /\ calibrated' = calibrated
          /\ outcome' = "dropped"
      BY <1>4 DEF DropSample, estimate, skewed
    <2>2. calibrated' \in BOOLEAN
      BY <2>1 DEF Page
    <2>3. QED BY <2>1, <2>2, UnusedTyped
  <1>5. ASSUME NEW p, RejectSample(p) PROVE Travel' /\ Page'
    <2>1. /\ Pong(p) /\ offset' = offset /\ rtt' = rtt /\ drift' = drift
          /\ history' = history /\ quality' = quality /\ worst' = worst
          /\ start' = start /\ (samples' = samples \/ samples' = <<>>)
          /\ calibrated' = Calibrated(p) /\ outcome' = "rejected"
      BY <1>5 DEF RejectSample, SmallSample, ResetCalibration, estimate
    <2>2. calibrated' \in BOOLEAN
      BY <2>1 DEF Page, Calibrated
    <2>3. QED BY <2>1, <2>2, UnusedTyped
  <1>6. ASSUME NEW p, AcceptSample(p) PROVE Travel' /\ Page'
    BY <1>6, AcceptTyped
  <1>7. CASE RouteChange \/ StepClock \/ UNCHANGED vars
    <2>1. Page'
      BY <1>7 DEF Page, RouteChange, StepClock, vars, estimate, skewed
    <2>2. Travel'
      BY <1>7 DEF Travel, RouteChange, StepClock, vars, world, ClockAssumption
    <2>3. QED BY <2>1, <2>2
  <1>8. CASE Reload
    <2>1. Page'
      <3>1. /\ offset' = 0 /\ rtt' = 0 /\ drift' = NoDrift /\ history' = <<>>
            /\ quality' = "unknown" /\ samples' = <<>>
            /\ worst' = 0 /\ start' = "none" /\ outcome' = "none"
        BY <1>8 DEF Reload
      <3>2. history' \in Seq(Point) /\ Len(history') <= MaxHistory
        BY <3>1, NothingTyped DEF ClockAssumption
      <3>3. samples' \in Seq(SkewSample) /\ Len(samples') <= MaxSkewSamples
        BY <3>1, NothingTyped DEF ClockAssumption
      <3>4. drift' \in Slope
        BY <3>1 DEF NoDrift, Slope
      <3>5. calibrated' \in BOOLEAN
        BY <1>8 DEF Reload
      <3>6. QED BY ONLY <3>1, <3>2, <3>3, <3>4, <3>5 DEF Page
    <2>2. Travel'
      BY <1>8 DEF Travel, Reload, world, ClockAssumption
    <2>3. QED BY <2>1, <2>2
  <1>9. QED
    BY <1>1, <1>2, <1>3, <1>4, <1>5, <1>6, <1>7, <1>8 DEF Next, PongStep

LEMMA TypeInit == ASSUME Init PROVE TypeOK
  <1>1. Page
    <2>1. /\ offset = 0 /\ rtt = 0 /\ drift = NoDrift /\ history = <<>>
          /\ quality = "unknown" /\ samples = <<>>
          /\ worst = 0 /\ start = "none" /\ outcome = "none"
      BY DEF Init
    <2>2. history \in Seq(Point) /\ Len(history) <= MaxHistory
      BY <2>1, NothingTyped DEF ClockAssumption
    <2>3. samples \in Seq(SkewSample) /\ Len(samples) <= MaxSkewSamples
      BY <2>1, NothingTyped DEF ClockAssumption
    <2>4. drift \in Slope
      BY <2>1 DEF NoDrift, Slope
    <2>5. calibrated \in BOOLEAN
      BY DEF Init
    <2>6. QED BY ONLY <2>1, <2>2, <2>3, <2>4, <2>5 DEF Page
  <1>2. Travel
    BY NothingTyped DEF Travel, Init, ClockAssumption
  <1>3. QED BY <1>1, <1>2, TypeParts

LEMMA TypeKept ==
  ASSUME TypeOK, [Next]_vars PROVE TypeOK'
  <1>1. Travel' /\ Page'
    BY TypeParts, TypeStep
  <1>2. QED
    BY <1>1 DEF TypeOK, Travel, Page, Exchange, Slope, Point, SkewSample

(* Every variable has its type: averages, medians and the regression stay  *)
(* whole numbers, and the samples kept never become more than the code     *)
(* keeps (clock_sync.js:45-194, 245-280).                                  *)
THEOREM ClockTypeCorrect == Spec => []TypeOK
  <1>1. QED BY TypeInit, TypeKept, PTL DEF Spec

-----------------------------------------------------------------------------
(* The drift of steady samples.  A pong comes after the newest ping, and    *)
(* while that ping is pending every sample is older: the times that the     *)
(* regression is given are never all the same.                             *)

PongsToCome == \A i \in DOMAIN flight : flight[i].t4 >= 0

PastSamples ==
  \A i \in DOMAIN history :
    history[i].time < (IF pending = NoPing THEN Period ELSE 0)

SteadyInv == TypeOK /\ PongsToCome /\ PastSamples /\ SteadyHasNoDrift

(* What the invariant says of the variables, with the types' names. *)
LEMMA SteadyTypes ==
  ASSUME TypeOK
  PROVE  /\ Travel /\ Page
         /\ flight \in Seq(Exchange) /\ Len(flight) \in Nat
         /\ DOMAIN flight = 1 .. Len(flight)
         /\ history \in Seq(Point) /\ Len(history) \in Nat
         /\ DOMAIN history = 1 .. Len(history)
         /\ drift \in Slope
  <1>1. Travel /\ Page
    BY TypeParts
  <1>2. QED BY <1>1 DEF Travel, Page

LEMMA PingSteady ==
  ASSUME SteadyInv, Ping \/ PingLost, Horizon > 0
  PROVE  PongsToCome' /\ PastSamples' /\ SteadyHasNoDrift'
  <1>1. SendPing
    BY DEF Ping, PingLost
  <1>2. /\ pending' = 0 /\ drift' = drift
        /\ \A i \in DOMAIN flight : flight[i].t4 >= Period
        /\ history' = [i \in DOMAIN history |->
                         [history[i] EXCEPT !.time = Bigger(@ - Period, -Horizon)]]
    BY <1>1 DEF SendPing
  <1>3. /\ flight \in Seq(Exchange) /\ Len(flight) \in Nat
        /\ DOMAIN flight = 1 .. Len(flight)
        /\ history \in Seq(Point) /\ Len(history) \in Nat
        /\ DOMAIN history = 1 .. Len(history)
        /\ Travel /\ Page
    BY SteadyTypes DEF SteadyInv
  <1>4. ASSUME NEW i \in DOMAIN flight
        PROVE  InFlight[i] = Older(flight[i]) /\ InFlight[i].t4 >= 0
    <2>1. InFlight[i] = Older(flight[i])
      BY DEF InFlight
    <2>2. InFlight[i].t4 = flight[i].t4 - 2000
      BY <2>1 DEF Older, Period
    <2>3. flight[i].t4 \in Int
      <3>1. flight[i] \in Exchange
        BY <1>3
      <3>2. QED BY <3>1 DEF Exchange
    <2>4. flight[i].t4 >= 2000
      BY <1>2 DEF Period
    <2>5. QED BY <2>1, <2>2, <2>3, <2>4
  <1>5. PongsToCome'
    <2>1. /\ DOMAIN InFlight = DOMAIN flight /\ InFlight \in Seq(Exchange)
          /\ Len(InFlight) = Len(flight)
      BY <1>1, <1>3, SendPingTyped DEF InFlight
    <2>2. CASE PingLost
      <3>1. flight' = InFlight
        BY <2>2 DEF PingLost
      <3>2. QED BY <1>4, <2>1, <3>1 DEF PongsToCome
    <2>3. CASE Ping
      <3>1. PICK up \in Delay, down \in Delay :
              flight' = Append(InFlight, [t1 |-> 0, t2 |-> up + skew,
                                          t4 |-> up + down])
        BY <2>3 DEF Ping
      <3> DEFINE e == [t1 |-> 0, t2 |-> up + skew, t4 |-> up + down]
      <3>2. up \in Nat /\ down \in Nat /\ skew \in Int
        BY <1>3 DEF Delay, ClockAssumption, Travel
      <3>3. e \in Exchange /\ e.t4 >= 0
        BY <3>2 DEF Exchange
      <3>4. flight' = Append(InFlight, e)
        BY <3>1
      <3> HIDE DEF e
      <3>5. \A i \in DOMAIN flight' :
              flight'[i] = e \/ (i \in DOMAIN InFlight
                                   /\ flight'[i] = InFlight[i])
        BY <2>1, <3>3, <3>4
      <3>6. QED BY <1>4, <2>1, <3>3, <3>5 DEF PongsToCome
    <2>4. QED BY <2>2, <2>3
  <1>6. ASSUME NEW i \in DOMAIN history
        PROVE  /\ history'[i].offset = history[i].offset
               /\ history'[i].time < 0
    <2>1. history[i].time \in Int /\ history[i] \in Point
      BY <1>3, PointFields
    <2>2. history[i].time < Period
      BY <2>1 DEF SteadyInv, PastSamples, Period
    <2>3. history'[i]
            = [history[i] EXCEPT !.time = Bigger(history[i].time - Period, -Horizon)]
      BY <1>2
    <2>4. Bigger(history[i].time - Period, -Horizon) < 0
      BY <2>1, <2>2 DEF Bigger, Period, ClockAssumption
    <2>5. QED BY <2>1, <2>3, <2>4 DEF Point
  <1>7. DOMAIN history' = DOMAIN history /\ Len(history') = Len(history)
    <2>1. \A i \in DOMAIN history :
            [history[i] EXCEPT !.time = Bigger(@ - Period, -Horizon)]
              = history'[i]
      BY <1>2
    <2>2. DOMAIN history' = 1 .. Len(history)
      BY <1>2, <1>3
    <2>3. history' \in Seq(Point)
      BY <1>1, <1>3, SendPingTyped DEF Page
    <2>4. QED BY <1>3, <2>2, <2>3
  <1>8. PastSamples'
    BY <1>2, <1>6, <1>7 DEF PastSamples, NoPing
  <1>9. SteadyHasNoDrift'
    <2>1. SUFFICES ASSUME Len(history') <= Window,
                          \A i \in DOMAIN history' :
                            history'[i].offset = history'[1].offset
                   PROVE  drift'.num = 0
      BY DEF SteadyHasNoDrift
    <2>2. \A i \in DOMAIN history : history[i].offset = history[1].offset
      <3>1. TAKE i \in DOMAIN history
      <3>2. 1 \in DOMAIN history
        BY <1>3
      <3>3. QED BY <1>6, <1>7, <2>1, <3>2
    <2>3. QED BY <1>2, <1>7, <2>1, <2>2 DEF SteadyInv, SteadyHasNoDrift
  <1>10. QED BY <1>5, <1>8, <1>9

(* What a pong leaves, when no sample is taken from it. *)
LEMMA PongSteady ==
  ASSUME SteadyInv, NEW p, Pong(p)
  PROVE  /\ PongsToCome' /\ p.t4 \in Int /\ p.t4 >= 0 /\ p.t4 < Period
         /\ (history' = history => PastSamples')
  <1>1. /\ flight # <<>> /\ p = Head(flight) /\ flight' = Tail(flight)
        /\ pending' = NoPing /\ p.t4 < Period
    BY DEF Pong
  <1>2. /\ flight \in Seq(Exchange) /\ Travel /\ Page
        /\ history \in Seq(Point) /\ Len(flight) \in Nat
    BY SteadyTypes DEF SteadyInv
  <1>3. /\ 1 \in DOMAIN flight /\ p = flight[1]
        /\ DOMAIN flight' = 1 .. Len(flight) - 1
        /\ \A i \in 1 .. Len(flight) - 1 :
             i + 1 \in DOMAIN flight /\ flight'[i] = flight[i + 1]
    BY <1>1, <1>2
  <1>4. PongsToCome'
    BY <1>3 DEF SteadyInv, PongsToCome
  <1>5. p.t4 \in Int /\ p.t4 >= 0
    <2>1. p.t4 \in Int
      BY <1>2, PongTravels
    <2>2. QED BY <1>3, <2>1 DEF SteadyInv, PongsToCome
  <1>6. history' = history => PastSamples'
    <2>1. SUFFICES ASSUME history' = history, NEW i \in DOMAIN history
                   PROVE  history[i].time < 2000
      BY <1>1 DEF PastSamples, Period
    <2>2. history[i].time \in Int
      BY <1>2, PointFields
    <2>3. QED BY <2>2 DEF SteadyInv, PastSamples, Period
  <1>7. QED BY <1>1, <1>4, <1>5, <1>6

(* The drift of a history whose newest sample is later than the others. *)
LEMMA NewDrift ==
  ASSUME drift \in Slope,
         Len(history) <= 1 => drift.num = 0,
         NEW h \in Seq(Point), Len(h) >= 1, Len(h) <= Window,
         Len(h) = 1 => Len(history) <= 1,
         Len(h) >= 2 => h[1].time # h[Len(h)].time,
         \A i \in DOMAIN h : h[i].offset = h[1].offset
  PROVE  EstimateDrift(h).num = 0
  <1>1. CASE Len(h) < MinHistory
    BY <1>1 DEF EstimateDrift, NoDrift
  <1>2. CASE ~(Len(h) < MinHistory)
    <2> DEFINE r == Regression(Len(h), h)
    <2>1. Len(h) \in Nat /\ Window \in Nat
      BY DEF ClockAssumption
    <2>2. Recent(h) = h
      <3>1. Bigger(1, Len(h) - Window + 1) = 1
        BY <2>1 DEF Bigger
      <3>2. SubSeq(h, 1, Len(h)) = h
        OBVIOUS
      <3>3. QED BY <3>1, <3>2 DEF Recent
    <2>3. EstimateDrift(h) = IF r.den = 0 THEN drift ELSE r
      BY <1>2, <2>2 DEF EstimateDrift
    <2>4. r.num = 0
      BY SteadyRegression
    <2>5. Len(h) >= 2 => r.den # 0
      <3>1. SUFFICES ASSUME Len(h) >= 2 PROVE r.den # 0
        OBVIOUS
      <3>2. Len(h) \in DOMAIN h
        BY <2>1, <3>1
      <3>3. QED BY <3>1, <3>2, LineExists
    <2>6. Len(h) = 1 => drift.num = 0
      OBVIOUS
    <2> HIDE DEF r
    <2>7. CASE r.den = 0
      <3>1. ~(Len(h) >= 2)
        BY ONLY <2>5, <2>7
      <3>2. Len(h) = 1
        <4>1. Len(h) \in Nat /\ Len(h) >= 1
          BY <2>1
        <4>2. \A n \in Nat : n >= 1 /\ ~(n >= 2) => n = 1
          OBVIOUS
        <4>3. QED BY ONLY <3>1, <4>1, <4>2
      <3>3. QED BY <2>3, <2>6, <2>7, <3>2
    <2>8. CASE r.den # 0
      BY <2>3, <2>4, <2>8
    <2>9. QED BY <2>7, <2>8
  <1>3. QED BY <1>1, <1>2

LEMMA AcceptSteady ==
  ASSUME SteadyInv, NEW p, AcceptSample(p)
  PROVE  PongsToCome' /\ PastSamples' /\ SteadyHasNoDrift'
  <1> DEFINE o == IF count <= 3 THEN RawOffset(p)
                  ELSE (2 * RawOffset(p) + 8 * offset) \div 10
             e == [time |-> p.t4, offset |-> o]
             h == Keep(history, e, MaxHistory)
  <1>1. SmallSample(p) /\ history' = h /\ drift' = EstimateDrift(h)
    BY DEF AcceptSample
  <1>2. Pong(p) /\ pending # NoPing /\ pending' = NoPing
    BY <1>1 DEF SmallSample, Pong
  <1>3. /\ history \in Seq(Point) /\ Len(history) \in Nat /\ Travel /\ Page
        /\ DOMAIN history = 1 .. Len(history) /\ drift \in Slope
        /\ MaxHistory \in Nat \ {0} /\ Window \in Nat \ {0}
    BY SteadyTypes DEF SteadyInv, ClockAssumption
  <1>4. /\ PongsToCome' /\ p.t4 \in Int /\ p.t4 >= 0 /\ p.t4 < 2000
    BY <1>2, PongSteady DEF Period
  <1>5. e \in Point /\ e.time = p.t4
    <2>1. RawOffset(p) \in Int /\ offset \in Int
      BY <1>2, <1>3, PongTravels DEF Page
    <2>2. o \in Int
      BY <2>1
    <2> HIDE DEF o
    <2>3. QED BY <1>4, <2>2 DEF Point
  <1> HIDE DEF o, e, h
  <1>6. /\ h \in Seq(Point) /\ Len(h) \in Nat /\ Len(h) >= 1 /\ h[Len(h)] = e
        /\ Len(h) = IF Len(history) < MaxHistory THEN Len(history) + 1
                    ELSE Len(history)
        /\ \A i \in 1 .. Len(h) - 1 : \E j \in DOMAIN history : h[i] = history[j]
    <2>1. h = Keep(history, e, MaxHistory)
      BY DEF h
    <2>2. QED BY ONLY <1>3, <1>5, <2>1, KeepShape
  <1>7. ASSUME NEW i \in 1 .. Len(h) - 1
        PROVE  h[i].time \in Int /\ h[i].time < 0
    <2>1. PICK j \in DOMAIN history : h[i] = history[j]
      BY <1>6
    <2>2. history[j].time \in Int
      BY <1>3, PointFields
    <2>3. history[j].time < 0
      BY <1>2 DEF SteadyInv, PastSamples
    <2>4. QED BY <2>1, <2>2, <2>3
  <1>8. PastSamples'
    <2>1. SUFFICES ASSUME NEW i \in DOMAIN h PROVE h[i].time < 2000
      BY <1>1, <1>2 DEF PastSamples, Period
    <2>2. i \in 1 .. Len(h) - 1 \/ i = Len(h)
      BY <1>6
    <2>3. CASE i = Len(h)
      BY <1>4, <1>5, <1>6, <2>3
    <2>4. CASE i \in 1 .. Len(h) - 1
      BY <1>7, <2>4
    <2>5. QED BY <2>2, <2>3, <2>4
  <1>9. SteadyHasNoDrift'
    <2>1. SUFFICES ASSUME Len(h) <= Window,
                          \A i \in DOMAIN h : h[i].offset = h[1].offset
                   PROVE  EstimateDrift(h).num = 0
      BY <1>1 DEF SteadyHasNoDrift
    <2>2. Len(history) <= 1 => drift.num = 0
      <3>1. SUFFICES ASSUME Len(history) <= 1 PROVE drift.num = 0
        OBVIOUS
      <3>2. \A i \in DOMAIN history : i = 1
        BY <1>3, <3>1
      <3>3. Len(history) <= Window
        BY <1>3, <3>1
      <3>4. QED BY <3>2, <3>3 DEF SteadyInv, SteadyHasNoDrift
    <2>3. Len(h) = 1 => Len(history) <= 1
      BY <1>3, <1>6
    <2>4. Len(h) >= 2 => h[1].time # h[Len(h)].time
      <3>1. SUFFICES ASSUME Len(h) >= 2 PROVE h[1].time # h[Len(h)].time
        OBVIOUS
      <3>2. 1 \in 1 .. Len(h) - 1
        BY <1>6, <3>1
      <3>3. h[1].time \in Int /\ h[1].time < 0
        BY <1>7, <3>2
      <3>4. QED BY <1>4, <1>5, <1>6, <3>3
    <2>5. QED BY <1>3, <1>6, <2>1, <2>2, <2>3, <2>4, NewDrift
  <1>10. QED BY <1>4, <1>8, <1>9

LEMMA SteadyStep ==
  ASSUME SteadyInv, [Next]_vars, Horizon > 0
  PROVE  SteadyInv'
  <1> USE DEF SteadyInv
  <1>1. TypeOK'
    BY TypeKept
  <1>2. CASE Ping \/ PingLost
    BY <1>1, <1>2, PingSteady
  <1>3. ASSUME NEW p, Pong(p), history' = history, drift' = drift
        PROVE  SteadyInv'
    <2>1. PongsToCome' /\ PastSamples'
      BY <1>3, PongSteady
    <2>2. SteadyHasNoDrift'
      BY <1>3 DEF SteadyHasNoDrift
    <2>3. QED BY <1>1, <2>1, <2>2
  <1>4. CASE IgnorePong
    BY <1>3, <1>4 DEF IgnorePong, estimate
  <1>5. ASSUME NEW p, LargeSample(p) \/ DropSample(p) \/ RejectSample(p)
        PROVE  SteadyInv'
    <2>1. Pong(p) /\ history' = history /\ drift' = drift
      BY <1>5 DEF LargeSample, DropSample, RejectSample, SmallSample, estimate
    <2>2. QED BY <1>3, <2>1
  <1>6. ASSUME NEW p, AcceptSample(p) PROVE SteadyInv'
    BY <1>1, <1>6, AcceptSteady
  <1>7. CASE RouteChange \/ StepClock \/ UNCHANGED vars
    <2>1. /\ flight' = flight /\ history' = history /\ drift' = drift
          /\ pending' = pending
      BY <1>7 DEF RouteChange, StepClock, vars, estimate
    <2>2. QED
      BY <1>1, <2>1 DEF PongsToCome, PastSamples, SteadyHasNoDrift
  <1>8. CASE Reload
    <2>1. flight' = <<>> /\ history' = <<>> /\ drift'.num = 0
      BY <1>8 DEF Reload, NoDrift
    <2>2. QED
      BY <1>1, <2>1 DEF PongsToCome, PastSamples, SteadyHasNoDrift
  <1>9. QED
    BY <1>2, <1>4, <1>5, <1>6, <1>7, <1>8 DEF Next, PongStep

(* Offsets that stay the same have no drift, however irregular the sample   *)
(* times, as long as the history is no longer than the regression's window: *)
(* the regression always has a line, since no two samples it is given have  *)
(* the time of the newest one (clock_sync.js:245-280).  The code has no     *)
(* horizon; any that is not empty will do.                                 *)
THEOREM SteadyClockHasNoDrift ==
  ASSUME Horizon > 0
  PROVE  Spec => []SteadyHasNoDrift
  <1>1. Init => SteadyInv
    <2>1. SUFFICES ASSUME Init PROVE SteadyInv
      OBVIOUS
    <2>2. TypeOK
      BY <2>1, TypeInit
    <2>3. flight = <<>> /\ history = <<>> /\ drift.num = 0
      BY <2>1 DEF Init, NoDrift
    <2>4. QED
      BY <2>2, <2>3
         DEF SteadyInv, PongsToCome, PastSamples, SteadyHasNoDrift
  <1>2. SteadyInv /\ [Next]_vars => SteadyInv'
    BY SteadyStep
  <1>3. SteadyInv => SteadyHasNoDrift
    BY DEF SteadyInv
  <1>4. QED BY <1>1, <1>2, <1>3, PTL DEF Spec
=============================================================================

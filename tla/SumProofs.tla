------------------------------ MODULE SumProofs ------------------------------
(***************************************************************************)
(* What SumFunction of module Functions computes, for every function of a  *)
(* finite domain.  It folds over the domain in an order nobody knows; the  *)
(* lemmas show that the order does not matter.  In place of an induction   *)
(* over finite sets, they look at a least set that refutes the claim.      *)
(***************************************************************************)
EXTENDS Integers, Functions, FiniteSetTheorems, WellFoundedInduction, TLAPS

(* Of any collection of subsets of a finite set, one has none of the       *)
(* others as a part.                                                       *)
LEMMA LeastSet ==
    ASSUME NEW I, IsFiniteSet(I), NEW C \in SUBSET (SUBSET I), C # {}
    PROVE  \E s \in C : \A t \in C : t \subseteq s => t = s
<1>1. IsWellFoundedOn(StrictSubsetOrdering(I), FiniteSubsetsOf(I))
  BY FS_StrictSubsetOrderingWellFounded
<1>2. C \subseteq FiniteSubsetsOf(I)
  BY FS_Subset DEF FiniteSubsetsOf
<1>3. \E s \in C : \A t \in C : ~(<<t, s>> \in StrictSubsetOrdering(I))
  BY <1>1, <1>2, WFMin
<1> QED
  BY <1>2, <1>3 DEF StrictSubsetOrdering, FiniteSubsetsOf

-----------------------------------------------------------------------------
(* The recursion *)

(* The element the fold takes out of a set. *)
Chosen(s) == CHOOSE x \in s : TRUE

(* What the fold makes of s when g holds its results for the parts of s.   *)
Turn(f, g, s) == IF s = {} THEN 0 ELSE f[Chosen(s)] + g[s \ {Chosen(s)}]

Solves(f, S, g) == g = [s \in SUBSET S |-> Turn(f, g, s)]

Fold(f, S) == CHOOSE g : Solves(f, S, g)

(* The sum of f over s. *)
Part(f, s) == Fold(f, s)[s]

(* SumFunction, without operators as parameters.                           *)
LEMMA SumUnfolds ==
    ASSUME NEW f
    PROVE  SumFunction(f) = Part(f, DOMAIN f)
  BY Zenon DEF SumFunction, SumFunctionOnSet, FoldFunctionOnSet, MapThenFoldSet,
               Part, Fold, Solves, Turn, Chosen

(* A set that is not empty loses an element at each turn.                  *)
LEMMA ChosenOut ==
    ASSUME NEW s, s # {}
    PROVE  /\ Chosen(s) \in s
           /\ s \ {Chosen(s)} \subseteq s /\ s \ {Chosen(s)} # s
  BY DEF Chosen

(* Solutions for two sets agree on what both of them cover.                *)
LEMMA SolutionsAgree ==
    ASSUME NEW I, IsFiniteSet(I), NEW f, NEW S \in SUBSET I, NEW T \in SUBSET S,
           NEW g, NEW h, Solves(f, S, g), Solves(f, T, h)
    PROVE  \A s \in SUBSET T : g[s] = h[s]
<1> DEFINE Differ == {s \in SUBSET T : g[s] # h[s]}
<1> SUFFICES ASSUME Differ # {}
             PROVE  FALSE
  OBVIOUS
<1>1. PICK s \in Differ : \A t \in Differ : t \subseteq s => t = s
  <2>1. Differ \in SUBSET (SUBSET I)
    OBVIOUS
  <2> HIDE DEF Differ
  <2> QED
    BY <2>1, LeastSet
<1>2. g[s] = Turn(f, g, s) /\ h[s] = Turn(f, h, s)
  BY <1>1 DEF Solves
<1>3. s # {}
  BY <1>1, <1>2 DEF Turn
<1>4. g[s \ {Chosen(s)}] = h[s \ {Chosen(s)}]
  BY <1>1, <1>3, ChosenOut
<1> QED
  BY <1>1, <1>2, <1>3, <1>4 DEF Turn

(* Every subset has a solution, and the sums satisfy the recursion.        *)
LEMMA FoldSolves ==
    ASSUME NEW I, IsFiniteSet(I), NEW f
    PROVE  \A S \in SUBSET I : Solves(f, S, Fold(f, S))
<1> DEFINE Unsolved == {S \in SUBSET I : ~ \E g : Solves(f, S, g)}
<1>1. ASSUME Unsolved # {}
      PROVE  FALSE
  <2>1. PICK S \in Unsolved : \A T \in Unsolved : T \subseteq S => T = S
    <3>1. Unsolved \in SUBSET (SUBSET I)
      OBVIOUS
    <3> HIDE DEF Unsolved
    <3> QED
      BY <1>1, <3>1, LeastSet
  <2>2. \A t \in SUBSET S : t # S => Solves(f, t, Fold(f, t))
    <3> SUFFICES ASSUME NEW t \in SUBSET S, t # S
                 PROVE  Solves(f, t, Fold(f, t))
      OBVIOUS
    <3>1. t \notin Unsolved /\ t \in SUBSET I
      BY <2>1
    <3>2. PICK g : Solves(f, t, g)
      BY <3>1
    <3> QED
      BY <3>2 DEF Fold
  <2> DEFINE g == [s \in SUBSET S |-> IF s = {} THEN 0
                                     ELSE f[Chosen(s)] + Part(f, s \ {Chosen(s)})]
  <2>3. ASSUME NEW t \in SUBSET S, t # S
        PROVE  g[t] = Part(f, t)
    <3>1. Solves(f, t, Fold(f, t))
      BY <2>2, <2>3
    <3>2. Part(f, t) = Turn(f, Fold(f, t), t)
      BY <3>1 DEF Solves, Part
    <3>3. CASE t = {}
      BY <3>2, <3>3 DEF Turn
    <3>4. CASE t # {}
      <4> DEFINE u == t \ {Chosen(t)}
      <4>1. u \in SUBSET t /\ u \in SUBSET S /\ u # S
        BY <3>4, ChosenOut
      <4>2. Solves(f, u, Fold(f, u))
        BY <2>2, <4>1
      <4>3. t \in SUBSET I
        BY <2>1
      <4> HIDE DEF u
      <4>4. Fold(f, t)[u] = Fold(f, u)[u]
        BY <3>1, <4>1, <4>2, <4>3, SolutionsAgree
      <4>5. Fold(f, t)[t \ {Chosen(t)}] = Part(f, t \ {Chosen(t)})
        BY <4>4 DEF Part, u
      <4> QED
        BY <3>2, <3>4, <4>5 DEF Turn
    <3> QED
      BY <3>3, <3>4
  <2>4. Solves(f, S, g)
    <3>1. ASSUME NEW s \in SUBSET S
          PROVE  g[s] = Turn(f, g, s)
      <4>1. CASE s = {}
        BY <4>1 DEF Turn
      <4>2. CASE s # {}
        <5>1. s \ {Chosen(s)} \in SUBSET S /\ s \ {Chosen(s)} # S
          BY <4>2, ChosenOut
        <5>2. g[s \ {Chosen(s)}] = Part(f, s \ {Chosen(s)})
          BY <2>3, <5>1
        <5>3. g[s] = f[Chosen(s)] + Part(f, s \ {Chosen(s)})
          BY <4>2
        <5> HIDE DEF g
        <5> QED
          BY <4>2, <5>2, <5>3 DEF Turn
      <4> QED
        BY <4>1, <4>2
    <3>2. g = [s \in SUBSET S |-> g[s]]
      OBVIOUS
    <3> HIDE DEF g
    <3> QED
      BY <3>1, <3>2 DEF Solves
  <2> QED
    BY <2>1, <2>4
<1>2. \A S \in SUBSET I : \E g : Solves(f, S, g)
  BY <1>1
<1> QED
  BY <1>2 DEF Fold

(* The sum of a set, one element taken out.                                *)
LEMMA PartRecursion ==
    ASSUME NEW I, IsFiniteSet(I), NEW f, NEW s \in SUBSET I
    PROVE  /\ s = {} => Part(f, s) = 0
           /\ s # {} => Part(f, s) = f[Chosen(s)] + Part(f, s \ {Chosen(s)})
<1>1. Solves(f, s, Fold(f, s))
  BY FoldSolves
<1>2. Part(f, s) = Turn(f, Fold(f, s), s)
  BY <1>1 DEF Solves, Part
<1>3. ASSUME s # {}
      PROVE  Fold(f, s)[s \ {Chosen(s)}] = Part(f, s \ {Chosen(s)})
  <2> DEFINE u == s \ {Chosen(s)}
  <2>1. u \in SUBSET s /\ u \in SUBSET I
    OBVIOUS
  <2> HIDE DEF u
  <2>2. Solves(f, u, Fold(f, u))
    BY <2>1, FoldSolves
  <2>3. Fold(f, s)[u] = Fold(f, u)[u]
    BY <1>1, <2>1, <2>2, SolutionsAgree
  <2> QED
    BY <2>3 DEF Part, u
<1> QED
  BY <1>2, <1>3 DEF Turn

-----------------------------------------------------------------------------
(* Integers *)

(* Sums of integers are integers.                                          *)
LEMMA PartType ==
    ASSUME NEW I, IsFiniteSet(I), NEW f \in [I -> Int]
    PROVE  \A s \in SUBSET I : Part(f, s) \in Int
<1> DEFINE Odd == {s \in SUBSET I : Part(f, s) \notin Int}
<1> SUFFICES ASSUME Odd # {}
             PROVE  FALSE
  OBVIOUS
<1>1. PICK s \in Odd : \A t \in Odd : t \subseteq s => t = s
  <2>1. Odd \in SUBSET (SUBSET I)
    OBVIOUS
  <2> HIDE DEF Odd
  <2> QED
    BY <2>1, LeastSet
<1>2. s # {}
  BY <1>1, PartRecursion
<1>3. Part(f, s \ {Chosen(s)}) \in Int /\ f[Chosen(s)] \in Int
  BY <1>1, <1>2, ChosenOut
<1> QED
  BY <1>1, <1>2, <1>3, PartRecursion

(* Whichever element is taken out, the sum is what it adds and the rest.   *)
LEMMA AnyOut ==
    ASSUME NEW I, IsFiniteSet(I), NEW f \in [I -> Int]
    PROVE  \A s \in SUBSET I : \A x \in s : Part(f, s) = f[x] + Part(f, s \ {x})
<1> DEFINE Ordered == {s \in SUBSET I : \E x \in s : Part(f, s) # f[x] + Part(f, s \ {x})}
<1> SUFFICES ASSUME Ordered # {}
             PROVE  FALSE
  OBVIOUS
<1>1. PICK s \in Ordered : \A t \in Ordered : t \subseteq s => t = s
  <2>1. Ordered \in SUBSET (SUBSET I)
    OBVIOUS
  <2> HIDE DEF Ordered
  <2> QED
    BY <2>1, LeastSet
<1>2. PICK x \in s : Part(f, s) # f[x] + Part(f, s \ {x})
  BY <1>1
<1> DEFINE c == Chosen(s)
<1>3. c \in s /\ Part(f, s) = f[c] + Part(f, s \ {c})
  BY <1>1, <1>2, ChosenOut, PartRecursion
<1> HIDE DEF c
<1>4. c # x
  BY <1>2, <1>3
<1>5. /\ s \ {c} \in SUBSET I /\ s \ {c} \notin Ordered /\ x \in s \ {c}
      /\ s \ {x} \in SUBSET I /\ s \ {x} \notin Ordered /\ c \in s \ {x}
  BY <1>1, <1>2, <1>3, <1>4
<1>6. /\ Part(f, s \ {c}) = f[x] + Part(f, (s \ {c}) \ {x})
      /\ Part(f, s \ {x}) = f[c] + Part(f, (s \ {x}) \ {c})
  BY <1>5
<1> DEFINE rest == (s \ {c}) \ {x}
<1>7. (s \ {x}) \ {c} = rest /\ rest \in SUBSET I
  BY <1>5
<1>8. /\ Part(f, s \ {c}) = f[x] + Part(f, rest)
      /\ Part(f, s \ {x}) = f[c] + Part(f, rest)
  BY <1>6, <1>7
<1> HIDE DEF rest
<1>9. f[x] \in Int /\ f[c] \in Int /\ Part(f, rest) \in Int
  BY <1>1, <1>2, <1>3, <1>7, PartType
<1> QED
  BY <1>2, <1>3, <1>8, <1>9

(* The sums of f and g differ by d over the sets that hold i.              *)
LEMMA PartMoves ==
    ASSUME NEW I, IsFiniteSet(I), NEW f \in [I -> Int], NEW g \in [I -> Int],
           NEW i \in I, NEW d \in Int,
           \A j \in I : g[j] = f[j] + IF j = i THEN d ELSE 0
    PROVE  \A s \in SUBSET I : Part(g, s) = Part(f, s) + IF i \in s THEN d ELSE 0
<1> DEFINE Off == {s \in SUBSET I : Part(g, s) # Part(f, s) + IF i \in s THEN d ELSE 0}
<1> SUFFICES ASSUME Off # {}
             PROVE  FALSE
  OBVIOUS
<1>1. PICK s \in Off : \A t \in Off : t \subseteq s => t = s
  <2>1. Off \in SUBSET (SUBSET I)
    OBVIOUS
  <2> HIDE DEF Off
  <2> QED
    BY <2>1, LeastSet
<1> DEFINE c == Chosen(s)
<1>2. s # {}
  <2> SUFFICES ASSUME s = {}
               PROVE  FALSE
    OBVIOUS
  <2>1. Part(f, s) = 0 /\ Part(g, s) = 0
    BY <1>1, PartRecursion
  <2>2. Part(g, s) # Part(f, s) + IF i \in s THEN d ELSE 0
    BY <1>1
  <2> QED
    BY <2>1, <2>2
<1>3. /\ c \in s /\ s \ {c} \in SUBSET I /\ s \ {c} # s
      /\ Part(f, s) = f[c] + Part(f, s \ {c})
      /\ Part(g, s) = g[c] + Part(g, s \ {c})
  BY <1>1, <1>2, ChosenOut, PartRecursion
<1> HIDE DEF c
<1>4. Part(g, s \ {c}) = Part(f, s \ {c}) + IF i \in s \ {c} THEN d ELSE 0
  BY <1>1, <1>3
<1>5. /\ g[c] = f[c] + IF c = i THEN d ELSE 0
      /\ f[c] \in Int /\ Part(f, s \ {c}) \in Int
  BY <1>1, <1>3, PartType
<1>6. Part(g, s) # Part(f, s) + IF i \in s THEN d ELSE 0
  BY <1>1
<1>7. CASE c = i
  BY <1>3, <1>4, <1>5, <1>6, <1>7
<1>8. CASE c # i
  BY <1>3, <1>4, <1>5, <1>6, <1>8
<1> QED
  BY <1>7, <1>8

(* Two bounds with the same factors add up.                                *)
LEMMA ScaledAddition ==
    ASSUME NEW p \in Nat, NEW q \in Nat, NEW a \in Int, NEW b \in Int, NEW c \in Int,
           NEW d \in Int, p * a <= q * b, p * c <= q * d
    PROVE  p * (a + c) <= q * (b + d)
<1>1. p * (a + c) = p * a + p * c /\ q * (b + d) = q * b + q * d
  OBVIOUS
<1>2. p * a \in Int /\ p * c \in Int /\ q * b \in Int /\ q * d \in Int
  OBVIOUS
<1> QED
  BY <1>1, <1>2

(* A proportion that no summand exceeds is not exceeded by the sums.       *)
LEMMA PartScaled ==
    ASSUME NEW I, IsFiniteSet(I), NEW f \in [I -> Int], NEW g \in [I -> Int],
           NEW p \in Nat, NEW q \in Nat, \A i \in I : p * g[i] <= q * f[i]
    PROVE  \A s \in SUBSET I : p * Part(g, s) <= q * Part(f, s)
<1> DEFINE Over == {s \in SUBSET I : ~(p * Part(g, s) <= q * Part(f, s))}
<1> SUFFICES ASSUME Over # {}
             PROVE  FALSE
  OBVIOUS
<1>1. PICK s \in Over : \A t \in Over : t \subseteq s => t = s
  <2>1. Over \in SUBSET (SUBSET I)
    OBVIOUS
  <2> HIDE DEF Over
  <2> QED
    BY <2>1, LeastSet
<1> DEFINE c == Chosen(s)
<1>2. s # {}
  <2> SUFFICES ASSUME s = {}
               PROVE  FALSE
    OBVIOUS
  <2>1. Part(f, s) = 0 /\ Part(g, s) = 0
    BY <1>1, PartRecursion
  <2>2. ~(p * Part(g, s) <= q * Part(f, s))
    BY <1>1
  <2> QED
    BY <2>1, <2>2
<1>3. /\ c \in s /\ s \ {c} \in SUBSET I /\ s \ {c} # s
      /\ Part(f, s) = f[c] + Part(f, s \ {c})
      /\ Part(g, s) = g[c] + Part(g, s \ {c})
  BY <1>1, <1>2, ChosenOut, PartRecursion
<1> HIDE DEF c
<1>4. p * Part(g, s \ {c}) <= q * Part(f, s \ {c})
  BY <1>1, <1>3
<1>5. /\ p * g[c] <= q * f[c] /\ f[c] \in Int /\ g[c] \in Int
      /\ Part(f, s \ {c}) \in Int /\ Part(g, s \ {c}) \in Int
  BY <1>1, <1>3, PartType
<1>6. ~(p * Part(g, s) <= q * Part(f, s))
  BY <1>1
<1> QED
  BY <1>3, <1>4, <1>5, <1>6, ScaledAddition

(* Summing two functions side by side is summing either and adding.        *)
LEMMA PartAdds ==
    ASSUME NEW I, IsFiniteSet(I), NEW f \in [I -> Int], NEW g \in [I -> Int], NEW h \in [I -> Int],
           \A i \in I : h[i] = f[i] + g[i]
    PROVE  \A s \in SUBSET I : Part(h, s) = Part(f, s) + Part(g, s)
<1> DEFINE Off == {s \in SUBSET I : Part(h, s) # Part(f, s) + Part(g, s)}
<1> SUFFICES ASSUME Off # {}
             PROVE  FALSE
  OBVIOUS
<1>1. PICK s \in Off : \A t \in Off : t \subseteq s => t = s
  <2>1. Off \in SUBSET (SUBSET I)
    OBVIOUS
  <2> HIDE DEF Off
  <2> QED
    BY <2>1, LeastSet
<1> DEFINE c == Chosen(s)
<1>2. s # {}
  <2> SUFFICES ASSUME s = {}
               PROVE  FALSE
    OBVIOUS
  <2>1. Part(f, s) = 0 /\ Part(g, s) = 0 /\ Part(h, s) = 0
    BY <1>1, PartRecursion
  <2>2. Part(h, s) # Part(f, s) + Part(g, s)
    BY <1>1
  <2> QED
    BY <2>1, <2>2
<1>3. /\ c \in s /\ s \ {c} \in SUBSET I /\ s \ {c} # s
      /\ Part(f, s) = f[c] + Part(f, s \ {c})
      /\ Part(g, s) = g[c] + Part(g, s \ {c})
      /\ Part(h, s) = h[c] + Part(h, s \ {c})
  BY <1>1, <1>2, ChosenOut, PartRecursion
<1> HIDE DEF c
<1>4. Part(h, s \ {c}) = Part(f, s \ {c}) + Part(g, s \ {c})
  BY <1>1, <1>3
<1>5. /\ h[c] = f[c] + g[c] /\ f[c] \in Int /\ g[c] \in Int
      /\ Part(f, s \ {c}) \in Int /\ Part(g, s \ {c}) \in Int
  BY <1>1, <1>3, PartType
<1>6. Part(h, s) # Part(f, s) + Part(g, s)
  BY <1>1
<1> QED
  BY <1>3, <1>4, <1>5, <1>6

(* No part of a sum of naturals is negative.                               *)
LEMMA PartNatural ==
    ASSUME NEW I, IsFiniteSet(I), NEW f \in [I -> Nat]
    PROVE  \A s \in SUBSET I : Part(f, s) \in Nat
<1> DEFINE Below == {s \in SUBSET I : Part(f, s) \notin Nat}
<1> SUFFICES ASSUME Below # {}
             PROVE  FALSE
  OBVIOUS
<1>1. PICK s \in Below : \A t \in Below : t \subseteq s => t = s
  <2>1. Below \in SUBSET (SUBSET I)
    OBVIOUS
  <2> HIDE DEF Below
  <2> QED
    BY <2>1, LeastSet
<1>2. s # {}
  <2> SUFFICES ASSUME s = {}
               PROVE  FALSE
    OBVIOUS
  <2>1. s \in SUBSET I /\ Part(f, s) \notin Nat
    BY <1>1
  <2>2. Part(f, s) = 0
    BY <2>1, PartRecursion
  <2> QED
    BY <2>1, <2>2
<1>3. Part(f, s \ {Chosen(s)}) \in Nat /\ f[Chosen(s)] \in Nat
  BY <1>1, <1>2, ChosenOut
<1> QED
  BY <1>1, <1>2, <1>3, PartRecursion

-----------------------------------------------------------------------------
(* Whole sums *)

(* A sum of naturals is natural, and no smaller than any of them.          *)
LEMMA SumCovers ==
    ASSUME NEW I, IsFiniteSet(I), NEW f \in [I -> Nat]
    PROVE  /\ SumFunction(f) \in Nat
           /\ \A i \in I : f[i] <= SumFunction(f)
<1>1. SumFunction(f) = Part(f, I)
  BY SumUnfolds
<1>2. f \in [I -> Int]
  OBVIOUS
<1>3. ASSUME NEW i \in I
      PROVE  f[i] <= Part(f, I)
  <2>1. I \ {i} \in SUBSET I
    OBVIOUS
  <2>2. Part(f, I) = f[i] + Part(f, I \ {i}) /\ Part(f, I \ {i}) \in Nat /\ f[i] \in Nat
    BY <1>2, <2>1, AnyOut, PartNatural
  <2> QED
    BY <2>2
<1> QED
  BY <1>1, <1>3, PartNatural

(* A sum of nothing is 0.                                                  *)
LEMMA SumZero ==
    ASSUME NEW I, IsFiniteSet(I), NEW f \in [I -> Nat], \A i \in I : f[i] = 0
    PROVE  SumFunction(f) = 0
<1> DEFINE Above == {s \in SUBSET I : Part(f, s) # 0}
<1>1. ASSUME Above # {}
      PROVE  FALSE
  <2>1. PICK s \in Above : \A t \in Above : t \subseteq s => t = s
    <3>1. Above \in SUBSET (SUBSET I)
      OBVIOUS
    <3> HIDE DEF Above
    <3> QED
      BY <1>1, <3>1, LeastSet
  <2>2. s # {}
    BY <2>1, PartRecursion
  <2>3. Part(f, s \ {Chosen(s)}) = 0 /\ f[Chosen(s)] = 0
    BY <2>1, <2>2, ChosenOut
  <2> QED
    BY <2>1, <2>2, <2>3, PartRecursion
<1>2. Part(f, I) = 0
  BY <1>1
<1> QED
  BY <1>2, SumUnfolds

(* Moving one summand moves the sum by as much.                            *)
LEMMA SumMoves ==
    ASSUME NEW I, IsFiniteSet(I), NEW f \in [I -> Nat], NEW g \in [I -> Nat],
           NEW i \in I, NEW d \in Int,
           g[i] = f[i] + d, \A j \in I : j # i => g[j] = f[j]
    PROVE  SumFunction(g) = SumFunction(f) + d
<1>1. SumFunction(f) = Part(f, I) /\ SumFunction(g) = Part(g, I)
  BY SumUnfolds
<1>2. f \in [I -> Int] /\ g \in [I -> Int]
  OBVIOUS
<1>3. \A j \in I : g[j] = f[j] + IF j = i THEN d ELSE 0
  OBVIOUS
<1>4. Part(g, I) = Part(f, I) + IF i \in I THEN d ELSE 0
  BY <1>2, <1>3, PartMoves
<1> QED
  BY <1>1, <1>4

(* Where no summand exceeds its proportion of the other, neither does the  *)
(* sum.                                                                    *)
LEMMA SumScaled ==
    ASSUME NEW I, IsFiniteSet(I), NEW f \in [I -> Nat], NEW g \in [I -> Nat],
           NEW p \in Nat, NEW q \in Nat, \A i \in I : p * g[i] <= q * f[i]
    PROVE  p * SumFunction(g) <= q * SumFunction(f)
<1>1. SumFunction(f) = Part(f, I) /\ SumFunction(g) = Part(g, I)
  BY SumUnfolds
<1>2. f \in [I -> Int] /\ g \in [I -> Int]
  OBVIOUS
<1>3. p * Part(g, I) <= q * Part(f, I)
  BY <1>2, PartScaled
<1> QED
  BY <1>1, <1>3

(* The sum of two functions side by side.                                  *)
LEMMA SumAdds ==
    ASSUME NEW I, IsFiniteSet(I), NEW f \in [I -> Nat], NEW g \in [I -> Nat], NEW h \in [I -> Nat],
           \A i \in I : h[i] = f[i] + g[i]
    PROVE  SumFunction(h) = SumFunction(f) + SumFunction(g)
<1>1. /\ SumFunction(f) = Part(f, I) /\ SumFunction(g) = Part(g, I)
      /\ SumFunction(h) = Part(h, I)
  BY SumUnfolds
<1>2. f \in [I -> Int] /\ g \in [I -> Int] /\ h \in [I -> Int]
  OBVIOUS
<1>3. Part(h, I) = Part(f, I) + Part(g, I)
  BY <1>2, PartAdds
<1> QED
  BY <1>1, <1>3

(* Where every element of a finite set has a part of it, one has a part    *)
(* that includes no smaller one.                                           *)
LEMMA LeastPart ==
    ASSUME NEW S, IsFiniteSet(S), S # {}, NEW f \in [S -> SUBSET S]
    PROVE  \E m \in S : \A n \in S : f[n] \subseteq f[m] => f[n] = f[m]
<1> DEFINE Parts == {f[m] : m \in S}
<1>1. Parts \in SUBSET (SUBSET S) /\ Parts # {} /\ \A m \in S : f[m] \in Parts
  OBVIOUS
<1>2. \A U \in Parts : \E m \in S : U = f[m]
  OBVIOUS
<1> HIDE DEF Parts
<1>3. PICK U \in Parts : \A V \in Parts : V \subseteq U => V = U
  BY <1>1, LeastSet
<1> QED
  BY <1>1, <1>2, <1>3

(* A finite set of integers that is not empty has a greatest element.      *)
LEMMA GreatestExists ==
    ASSUME NEW S, IsFiniteSet(S), S # {}, \A n \in S : n \in Int
    PROVE  \E m \in S : \A n \in S : n <= m
<1> DEFINE above == [m \in S |-> {n \in S : n > m}]
<1>1. above \in [S -> SUBSET S]
  OBVIOUS
<1>2. PICK m \in S : \A n \in S : above[n] \subseteq above[m] => above[n] = above[m]
  <2> HIDE DEF above
  <2> QED
    BY <1>1, LeastPart
<1>3. ASSUME NEW n \in S, n > m
      PROVE  FALSE
  <2>1. \A k \in S : k > n => k > m
    BY <1>3
  <2>2. above[n] \subseteq above[m]
    BY <2>1
  <2>3. n \in above[m] /\ n \notin above[n]
    BY <1>3
  <2> QED
    BY <1>2, <2>2, <2>3
<1> QED
  BY <1>3

(* And it has a least one.                                                 *)
LEMMA LeastExists ==
    ASSUME NEW S, IsFiniteSet(S), S # {}, \A n \in S : n \in Int
    PROVE  \E m \in S : \A n \in S : m <= n
<1> DEFINE below == [m \in S |-> {n \in S : n < m}]
<1>1. below \in [S -> SUBSET S]
  OBVIOUS
<1>2. PICK m \in S : \A n \in S : below[n] \subseteq below[m] => below[n] = below[m]
  <2> HIDE DEF below
  <2> QED
    BY <1>1, LeastPart
<1>3. ASSUME NEW n \in S, n < m
      PROVE  FALSE
  <2>1. \A k \in S : k < n => k < m
    BY <1>3
  <2>2. below[n] \subseteq below[m]
    BY <2>1
  <2>3. n \in below[m] /\ n \notin below[n]
    BY <1>3
  <2> QED
    BY <1>2, <2>2, <2>3
<1> QED
  BY <1>3

=============================================================================

------------------------------ MODULE Sums_proofs ---------------------------
(***************************************************************************)
(* Sums over finite sets, SumFunctionOnSet of the community module         *)
(* Functions: that its recursive definition defines it, what it adds up    *)
(* to, and how sums compare.  The induction theorems of the library take   *)
(* an operator, so inductions here choose a counterexample of the least    *)
(* cardinality.                                                            *)
(***************************************************************************)
EXTENDS Integers, FiniteSets, Functions, FiniteSetTheorems, WellFoundedInduction, TLAPS

-----------------------------------------------------------------------------
(* A set of numbers has a least one.                                       *)
LEMMA Least ==
  ASSUME NEW T \in SUBSET Nat, T # {}
  PROVE  \E n \in T : \A m \in T : n <= m
  <1>1. IsWellFoundedOn(OpToRel(<, Nat), Nat)
    BY NatLessThanWellFounded
  <1>2. PICK n \in T : \A m \in T : ~(<<m, n>> \in OpToRel(<, Nat))
    BY <1>1, WFMin
  <1>3. \A m \in T : ~(m < n)
    BY <1>2 DEF OpToRel
  <1> QED BY <1>3

(* g is what the definition of the sum recurs on.                          *)
Sums(f, S, g) ==
  g = [s \in SUBSET S |-> IF s = {} THEN 0
                          ELSE f[CHOOSE x \in s : TRUE] + g[s \ {CHOOSE x \in s : TRUE}]]

LEMMA SumIs == \A f, S : SumFunctionOnSet(f, S) = (CHOOSE g : Sums(f, S, g))[S]
  BY DEF SumFunctionOnSet, FoldFunctionOnSet, MapThenFoldSet, Sums

(* There is one, by induction on the size of the sets it is defined for.   *)
LEMMA SumsOf ==
  ASSUME NEW f, NEW S, IsFiniteSet(S)
  PROVE  \E g : Sums(f, S, g)
  <1> DEFINE Small(n) == {s \in SUBSET S : Cardinality(s) <= n}
             first(s) == CHOOSE x \in s : TRUE
             Upto(n, g) == g = [s \in Small(n) |-> IF s = {} THEN 0
                                                  ELSE f[first(s)] + g[s \ {first(s)}]]
             Bad == {n \in Nat : ~ \E g : Upto(n, g)}
  <1>1. \A s \in SUBSET S : IsFiniteSet(s) /\ Cardinality(s) \in Nat
    BY FS_Subset, FS_CardinalityType
  <1>2. \A s \in SUBSET S : s # {} =>
          first(s) \in s /\ Cardinality(s \ {first(s)}) = Cardinality(s) - 1
    BY <1>1, FS_RemoveElement
  <1>3. \A s \in SUBSET S : Cardinality(s) = 0 <=> s = {}
    BY <1>1, FS_EmptySet
  <1>4. Bad = {}
    <2> SUFFICES ASSUME Bad # {} PROVE FALSE
      OBVIOUS
    <2>1. PICK n \in Bad : \A m \in Bad : n <= m
      <3> HIDE DEF Bad
      <3>1. Bad \in SUBSET Nat
        BY DEF Bad
      <3> QED BY <3>1, Least
    <2>2. CASE n = 0
      <3> DEFINE g == [s \in Small(0) |-> 0]
      <3>1. \A s \in Small(0) : s = {}
        BY <1>1, <1>3
      <3> HIDE DEF Small
      <3>2. g = [s \in Small(0) |-> IF s = {} THEN 0 ELSE f[first(s)] + g[s \ {first(s)}]]
        BY <3>1
      <3>4. Upto(0, g)
        BY <3>2
      <3> HIDE DEF Upto, g
      <3> QED BY <2>1, <2>2, <3>4
    <2>3. CASE n # 0
      <3>1. n - 1 \in Nat /\ n - 1 \notin Bad
        <4>1. n \in Nat
          OBVIOUS
        <4> HIDE DEF Bad
        <4> QED BY <2>1, <2>3, <4>1
      <3>2. PICK h : Upto(n - 1, h)
        BY <3>1
      <3> DEFINE g == [s \in Small(n) |-> IF s = {} THEN 0
                                          ELSE f[first(s)] + h[s \ {first(s)}]]
      <3>3. \A s \in Small(n) : s # {} => s \ {first(s)} \in Small(n - 1)
        BY <1>1, <1>2, <2>1
      <3>4. \A s \in Small(n - 1) : s # {} => s \ {first(s)} \in Small(n - 1)
        BY <1>1, <1>2, <2>1
      <3>5. \A s \in Small(n - 1) : s \in Small(n)
        BY <1>1, <2>1
      <3> HIDE DEF first, Small
      <3>6. \A s \in Small(n - 1) :
              h[s] = IF s = {} THEN 0 ELSE f[first(s)] + h[s \ {first(s)}]
        BY <3>2
      <3>7. \A s \in Small(n - 1) : g[s] = h[s]
        BY <3>5, <3>6
      <3>8. Upto(n, g)
        BY <3>3, <3>7
      <3> HIDE DEF Upto, g
      <3> QED BY <2>1, <3>8
    <2> QED BY <2>2, <2>3
  <1>5. PICK g : Upto(Cardinality(S), g)
    BY <1>1, <1>4
  <1>6. Small(Cardinality(S)) = SUBSET S
    BY <1>1, FS_Subset
  <1>7. Sums(f, S, g)
    BY <1>5, <1>6 DEF Sums
  <1> QED BY <1>7

(* Two functions that are defined so agree.                                *)
LEMMA SumsAgree ==
  ASSUME NEW f, NEW h, NEW R, NEW S, IsFiniteSet(R), NEW d, NEW e, Sums(f, R, d),
         Sums(h, S, e), \A x \in R \cap S : f[x] = h[x]
  PROVE  \A s \in SUBSET (R \cap S) : d[s] = e[s]
  <1> DEFINE Bad == {n \in Nat : \E s \in SUBSET (R \cap S) :
                                   Cardinality(s) = n /\ d[s] # e[s]}
             first(s) == CHOOSE x \in s : TRUE
  <1>1. \A s \in SUBSET (R \cap S) : IsFiniteSet(s) /\ Cardinality(s) \in Nat
    BY FS_Subset, FS_CardinalityType
  <1>2. \A s \in SUBSET (R \cap S) : s # {} =>
          first(s) \in s /\ Cardinality(s \ {first(s)}) = Cardinality(s) - 1
    BY <1>1, FS_RemoveElement
  <1>3. \A s \in SUBSET (R \cap S) :
          /\ d[s] = IF s = {} THEN 0 ELSE f[first(s)] + d[s \ {first(s)}]
          /\ e[s] = IF s = {} THEN 0 ELSE h[first(s)] + e[s \ {first(s)}]
    BY DEF Sums
  <1>4. Bad = {}
    <2> SUFFICES ASSUME Bad # {} PROVE FALSE
      OBVIOUS
    <2>1. PICK n \in Bad : \A m \in Bad : n <= m
      <3> HIDE DEF Bad
      <3>1. Bad \in SUBSET Nat
        BY DEF Bad
      <3> QED BY <3>1, Least
    <2>2. PICK s \in SUBSET (R \cap S) : Cardinality(s) = n /\ d[s] # e[s]
      BY <2>1
    <2>3. s # {}
      BY <1>3, <2>2
    <2> DEFINE r == s \ {first(s)}
    <2>4. r \in SUBSET (R \cap S) /\ Cardinality(r) = n - 1 /\ first(s) \in s
      BY <1>2, <2>2, <2>3
    <2>5. n - 1 \in Nat /\ n - 1 \notin Bad
      BY <1>1, <2>1, <2>4
    <2>6. d[r] = e[r]
      BY <2>4, <2>5
    <2> QED BY <1>3, <2>2, <2>3, <2>4, <2>6
  <1> QED BY <1>1, <1>4

LEMMA SumOf ==
  ASSUME NEW f, NEW S, IsFiniteSet(S), NEW g, Sums(f, S, g)
  PROVE  \A s \in SUBSET S : SumFunctionOnSet(f, s) = g[s]
  <1> SUFFICES ASSUME NEW s \in SUBSET S PROVE SumFunctionOnSet(f, s) = g[s]
    OBVIOUS
  <1>1. IsFiniteSet(s)
    BY FS_Subset
  <1> DEFINE d == CHOOSE e : Sums(f, s, e)
  <1>2. Sums(f, s, d)
    BY <1>1, SumsOf
  <1>3. SumFunctionOnSet(f, s) = d[s]
    BY SumIs
  <1> HIDE DEF d
  <1>4. s \cap S = s /\ s \in SUBSET (s \cap S)
    OBVIOUS
  <1>5. \A r \in SUBSET (s \cap S) : d[r] = g[r]
    BY <1>1, <1>2, SumsAgree
  <1> QED BY <1>3, <1>4, <1>5

-----------------------------------------------------------------------------
(* The recursive definition defines the sum.                               *)
LEMMA SumFacts ==
  ASSUME NEW f, NEW S, IsFiniteSet(S)
  PROVE  /\ S = {} => SumFunctionOnSet(f, S) = 0
         /\ S # {} => SumFunctionOnSet(f, S) = f[CHOOSE x \in S : TRUE]
                                   + SumFunctionOnSet(f, S \ {CHOOSE x \in S : TRUE})
  <1>1. PICK g : Sums(f, S, g)
    BY SumsOf
  <1>2. \A s \in SUBSET S : SumFunctionOnSet(f, s) = g[s]
    BY <1>1, SumOf
  <1>3. S \in SUBSET S /\ S \ {CHOOSE x \in S : TRUE} \in SUBSET S
    OBVIOUS
  <1>4. g[S] = IF S = {} THEN 0
               ELSE f[CHOOSE x \in S : TRUE] + g[S \ {CHOOSE x \in S : TRUE}]
    BY <1>1, <1>3 DEF Sums
  <1> QED BY <1>2, <1>3, <1>4

LEMMA SumEqual ==
  ASSUME NEW f, NEW h, NEW S, IsFiniteSet(S), \A x \in S : f[x] = h[x]
  PROVE  SumFunctionOnSet(f, S) = SumFunctionOnSet(h, S)
  <1>1. PICK d : Sums(f, S, d)
    BY SumsOf
  <1>2. PICK e : Sums(h, S, e)
    BY SumsOf
  <1>3. S \cap S = S /\ S \in SUBSET S
    OBVIOUS
  <1>4. \A s \in SUBSET (S \cap S) : d[s] = e[s]
    BY <1>1, <1>2, SumsAgree
  <1> QED BY <1>1, <1>2, <1>3, <1>4, SumOf

LEMMA OneLess ==
  ASSUME NEW S, IsFiniteSet(S), NEW x \in S
  PROVE  /\ IsFiniteSet(S \ {x}) /\ Cardinality(S \ {x}) = Cardinality(S) - 1
         /\ Cardinality(S) - 1 \in Nat
  <1>1. IsFiniteSet(S \ {x}) /\ Cardinality(S \ {x}) = Cardinality(S) - 1
    BY FS_RemoveElement
  <1> QED BY <1>1, FS_CardinalityType

LEMMA SumType ==
  ASSUME NEW f, NEW S, IsFiniteSet(S), \A x \in S : f[x] \in Nat
  PROVE  SumFunctionOnSet(f, S) \in Nat
  <1> DEFINE Wrong(s) == SumFunctionOnSet(f, s) \notin Nat
             Bad == {n \in Nat : \E s \in SUBSET S : Cardinality(s) = n /\ Wrong(s)}
  <1>1. \A s \in SUBSET S : IsFiniteSet(s) /\ Cardinality(s) \in Nat
    BY FS_Subset, FS_CardinalityType
  <1>2. Bad = {}
    <2> SUFFICES ASSUME Bad # {} PROVE FALSE
      OBVIOUS
    <2>1. PICK n \in Bad : \A m \in Bad : n <= m
      <3> HIDE DEF Bad
      <3>1. Bad \in SUBSET Nat
        BY DEF Bad
      <3> QED BY <3>1, Least
    <2>2. PICK s \in SUBSET S : Cardinality(s) = n /\ SumFunctionOnSet(f, s) \notin Nat
      BY <2>1
    <2>3. s # {} /\ IsFiniteSet(s)
      <3>1. IsFiniteSet(s)
        BY <1>1
      <3>2. s = {} => SumFunctionOnSet(f, s) = 0
        BY <3>1, SumFacts
      <3> QED BY <2>2, <3>1, <3>2
    <2>4. PICK x \in s : SumFunctionOnSet(f, s) = f[x] + SumFunctionOnSet(f, s \ {x})
      BY <2>3, SumFacts
    <2>5. s \ {x} \in SUBSET S /\ Cardinality(s \ {x}) = n - 1 /\ n - 1 \in Nat
      BY <1>1, <2>2, OneLess
    <2>6. n - 1 \notin Bad
      BY <2>1, <2>5
    <2>7. SumFunctionOnSet(f, s \ {x}) \in Nat
      BY <2>5, <2>6
    <2>8. f[x] \in Nat
      OBVIOUS
    <2> HIDE DEF Bad
    <2> QED BY <2>2, <2>4, <2>7, <2>8
  <1> QED BY <1>1, <1>2

(* The order does not matter: any element can be the first.                *)
LEMMA SumRemove ==
  ASSUME NEW f, NEW S, IsFiniteSet(S), \A x \in S : f[x] \in Nat, NEW y \in S
  PROVE  SumFunctionOnSet(f, S) = f[y] + SumFunctionOnSet(f, S \ {y})
  <1> DEFINE Wrong(s) ==
               \E z \in s : SumFunctionOnSet(f, s) # f[z] + SumFunctionOnSet(f, s \ {z})
             Bad == {n \in Nat : \E s \in SUBSET S : Cardinality(s) = n /\ Wrong(s)}
  <1>1. \A s \in SUBSET S : IsFiniteSet(s) /\ Cardinality(s) \in Nat
    BY FS_Subset, FS_CardinalityType
  <1>2. Bad = {}
    <2> SUFFICES ASSUME Bad # {} PROVE FALSE
      OBVIOUS
    <2>1. PICK n \in Bad : \A m \in Bad : n <= m
      <3> HIDE DEF Bad
      <3>1. Bad \in SUBSET Nat
        BY DEF Bad
      <3> QED BY <3>1, Least
    <2>2. PICK s \in SUBSET S : Cardinality(s) = n /\ Wrong(s)
      BY <2>1
    <2>3. PICK z \in s : SumFunctionOnSet(f, s) # f[z] + SumFunctionOnSet(f, s \ {z})
      BY <2>2
    <2>4. IsFiniteSet(s) /\ s # {}
      BY <1>1, <2>3
    <2>5. PICK x \in s : SumFunctionOnSet(f, s) = f[x] + SumFunctionOnSet(f, s \ {x})
      BY <2>4, SumFacts
    <2>6. x # z
      BY <2>3, <2>5
    <2>7. /\ s \ {x} \in SUBSET S /\ s \ {z} \in SUBSET S
          /\ Cardinality(s \ {x}) = n - 1 /\ Cardinality(s \ {z}) = n - 1 /\ n - 1 \in Nat
      BY <1>1, <2>2, OneLess
    <2>8. n - 1 \notin Bad
      BY <2>1, <2>7
    <2>9. ~Wrong(s \ {x}) /\ ~Wrong(s \ {z})
      BY <2>7, <2>8
    <2>10. /\ SumFunctionOnSet(f, s \ {x}) = f[z] + SumFunctionOnSet(f, (s \ {x}) \ {z})
           /\ SumFunctionOnSet(f, s \ {z}) = f[x] + SumFunctionOnSet(f, (s \ {z}) \ {x})
      BY <2>6, <2>9
    <2>11. (s \ {x}) \ {z} = (s \ {z}) \ {x} /\ IsFiniteSet((s \ {x}) \ {z})
      BY <2>4, FS_Subset
    <2>12. SumFunctionOnSet(f, (s \ {x}) \ {z}) \in Nat
      BY <2>11, SumType
    <2>13. f[x] \in Nat /\ f[z] \in Nat
      OBVIOUS
    <2> HIDE DEF Bad, Wrong
    <2>14. \A a, b, c \in Nat : a + (b + c) = b + (a + c)
      OBVIOUS
    <2> QED BY <2>3, <2>5, <2>10, <2>11, <2>12, <2>13, <2>14
  <1>3. ~Wrong(S)
    BY <1>1, <1>2
  <1> QED BY <1>3

LEMMA SumAdd ==
  ASSUME NEW f, NEW S, IsFiniteSet(S), NEW y, y \notin S,
         \A x \in S \cup {y} : f[x] \in Nat
  PROVE  SumFunctionOnSet(f, S \cup {y}) = f[y] + SumFunctionOnSet(f, S)
  <1>1. IsFiniteSet(S \cup {y}) /\ (S \cup {y}) \ {y} = S
    BY FS_AddElement
  <1> QED BY <1>1, SumRemove

(* An addend for each addend that is not less makes no smaller sum.        *)
LEMMA SumInjected ==
  ASSUME NEW f, NEW g, NEW S, NEW T, IsFiniteSet(S), IsFiniteSet(T), NEW j,
         \A x \in S : f[x] \in Nat, \A y \in T : g[y] \in Nat,
         \A x \in S : j[x] \in T /\ f[x] <= g[j[x]],
         \A x, y \in S : j[x] = j[y] => x = y
  PROVE  SumFunctionOnSet(f, S) <= SumFunctionOnSet(g, T)
  <1> DEFINE Wrong(s, t) == /\ \A x \in s : j[x] \in t
                            /\ ~(SumFunctionOnSet(f, s) <= SumFunctionOnSet(g, t))
             Bad == {n \in Nat : \E s \in SUBSET S, t \in SUBSET T :
                                   Cardinality(s) = n /\ Wrong(s, t)}
  <1>1. /\ \A s \in SUBSET S : IsFiniteSet(s) /\ Cardinality(s) \in Nat
        /\ \A t \in SUBSET T : IsFiniteSet(t)
    BY FS_Subset, FS_CardinalityType
  <1>2. Bad = {}
    <2> SUFFICES ASSUME Bad # {} PROVE FALSE
      OBVIOUS
    <2>1. PICK n \in Bad : \A m \in Bad : n <= m
      <3> HIDE DEF Bad
      <3>1. Bad \in SUBSET Nat
        BY DEF Bad
      <3> QED BY <3>1, Least
    <2>2. PICK s \in SUBSET S, t \in SUBSET T : Cardinality(s) = n /\ Wrong(s, t)
      BY <2>1
    <2>3. IsFiniteSet(s) /\ IsFiniteSet(t)
      BY <1>1
    <2>4. SumFunctionOnSet(g, t) \in Nat
      BY <2>3, SumType
    <2>5. PICK x : x \in s
      <3>1. s = {} => SumFunctionOnSet(f, s) = 0
        BY <2>3, SumFacts
      <3> QED BY <2>2, <2>4, <3>1
    <2> DEFINE r == s \ {x}
               u == t \ {j[x]}
    <2>6. /\ r \in SUBSET S /\ u \in SUBSET T /\ j[x] \in t
          /\ Cardinality(r) = n - 1 /\ n - 1 \in Nat
      BY <1>1, <2>2, <2>5, OneLess
    <2>7. n - 1 \notin Bad
      BY <2>1, <2>6
    <2>8. \A y \in r : j[y] \in u
      BY <2>2, <2>5
    <2>9. SumFunctionOnSet(f, r) <= SumFunctionOnSet(g, u)
      BY <2>6, <2>7, <2>8
    <2>10. /\ SumFunctionOnSet(f, s) = f[x] + SumFunctionOnSet(f, r)
           /\ SumFunctionOnSet(g, t) = g[j[x]] + SumFunctionOnSet(g, u)
      BY <2>3, <2>5, <2>6, SumRemove
    <2>11. SumFunctionOnSet(f, r) \in Nat /\ SumFunctionOnSet(g, u) \in Nat
      BY <1>1, <2>6, SumType
    <2>12. f[x] \in Nat /\ g[j[x]] \in Nat /\ f[x] <= g[j[x]]
      BY <2>5
    <2> HIDE DEF Bad, r, u
    <2>13. SumFunctionOnSet(f, s) <= SumFunctionOnSet(g, t)
      BY <2>9, <2>10, <2>11, <2>12
    <2> QED BY <2>2, <2>13
  <1>3. ~Wrong(S, T)
    BY <1>1, <1>2
  <1> QED BY <1>3

=============================================================================

----------------------------- MODULE Arithmetic -----------------------------
(***************************************************************************)
(* What the proofs about the components need of integers: quotients that   *)
(* round, induction over the subsets of a finite set, and from it the      *)
(* sums of the community modules (SumFunctionOnSet), whose definition is   *)
(* recursive: a term taken out, a term changed, terms compared.            *)
(***************************************************************************)
EXTENDS Integers, FiniteSets, Functions, FiniteSetTheorems, TLAPS

-----------------------------------------------------------------------------
(* Products and quotients *)

\* What \div returns: the largest quotient whose product fits.
LEMMA DivNat ==
    ASSUME NEW a \in Nat, NEW b \in Nat \ {0}
    PROVE  a \div b \in Nat /\ (a \div b) * b <= a /\ a < (a \div b) * b + b
  OBVIOUS

LEMMA DivMonotone ==
    ASSUME NEW a \in Nat, NEW c \in Nat, NEW b \in Nat \ {0}, a <= c
    PROVE  a \div b <= c \div b
  BY DivNat

LEMMA DivAtLeast ==
    ASSUME NEW a \in Nat, NEW b \in Nat \ {0}, NEW q \in Nat, q * b <= a
    PROVE  q <= a \div b
  BY DivNat

LEMMA ProductNat == ASSUME NEW a \in Nat, NEW b \in Nat PROVE a * b \in Nat
  OBVIOUS

LEMMA ProductMonotone ==
    ASSUME NEW a \in Nat, NEW b \in Nat, NEW c \in Nat, a <= b
    PROVE  a * c <= b * c
  OBVIOUS

LEMMA CancelFactor ==
    ASSUME NEW a \in Nat, NEW c \in Nat, NEW b \in Nat \ {0}, a * b <= c * b
    PROVE  a <= c
  OBVIOUS

-----------------------------------------------------------------------------
(* Induction *)

\* A property of sets, given as the set of the sets that lack it, has a least offender.
LEMMA LeastSet ==
    ASSUME NEW S, IsFiniteSet(S), NEW B \in SUBSET (SUBSET S), B # {}
    PROVE  \E T \in B : \A U \in B : U \subseteq T => U = T
<1> DEFINE R == StrictSubsetOrdering(S)
<1>1. IsWellFoundedOn(R, SUBSET S)
  BY FS_StrictSubsetOrderingWellFounded, FS_FiniteSubsetsOfFinite
<1> HIDE DEF R
<1>2. PICK T \in B : \A U \in B : ~ (<<U, T>> \in R)
  BY <1>1, WFMin
<1>3. ASSUME NEW U \in B, U \subseteq T PROVE U = T
  <2>1. U # T => <<U, T>> \in R
    BY <1>3 DEF R, StrictSubsetOrdering
  <2> QED BY <1>2, <2>1
<1> QED BY <1>3

-----------------------------------------------------------------------------
(* The recursion of SumFunctionOnSet is well defined *)

\* The member of s that the definition of the sum takes first.
Chosen(s) == CHOOSE x \in s : TRUE

\* One step of the recursion: the chosen term and what g gives for the others.
Unfolded(f, g, s) == IF s = {} THEN 0 ELSE f[Chosen(s)] + g[s \ {Chosen(s)}]

\* g gives the sum of f over the subsets of S.
SumsUp(f, g, S) == g = [s \in SUBSET S |-> Unfolded(f, g, s)]

\* A set that is not empty has a member to choose.
LEMMA ChosenIn == ASSUME NEW s, s # {} PROVE Chosen(s) \in s
  BY DEF Chosen

\* Two such functions agree on the subsets both know.
LEMMA SumsAgree ==
    ASSUME NEW S, IsFiniteSet(S), NEW f, NEW T \in SUBSET S, NEW U \in SUBSET S,
           NEW g, NEW h, SumsUp(f, g, T), SumsUp(f, h, U), NEW s \in SUBSET (T \cap U)
    PROVE  g[s] = h[s]
<1> DEFINE B == {r \in SUBSET (T \cap U) : g[r] # h[r]}
<1>1. SUFFICES ASSUME B # {} PROVE FALSE
  OBVIOUS
<1>2. PICK r \in B : \A q \in B : q \subseteq r => q = r
  <2>1. B \in SUBSET (SUBSET S)
    OBVIOUS
  <2> HIDE DEF B
  <2> QED BY <1>1, <2>1, LeastSet
<1>3. r \in SUBSET T /\ r \in SUBSET U
  OBVIOUS
<1>4. g[r] = Unfolded(f, g, r) /\ h[r] = Unfolded(f, h, r)
  BY <1>3 DEF SumsUp
<1>5. CASE r = {}
  BY <1>4, <1>5 DEF Unfolded
<1>6. CASE r # {}
  <2>1. Chosen(r) \in r
    BY <1>6, ChosenIn
  <2>2. r \ {Chosen(r)} \notin B
    BY <1>2, <2>1
  <2>3. g[r \ {Chosen(r)}] = h[r \ {Chosen(r)}]
    BY <2>2
  <2> QED BY <1>4, <1>6, <2>3 DEF Unfolded
<1> QED BY <1>5, <1>6

\* There is one for every finite set: the least set without one could take it from its subsets.
LEMMA SumsExist ==
    ASSUME NEW S, IsFiniteSet(S), NEW f
    PROVE  \E g : SumsUp(f, g, S)
<1> DEFINE B == {T \in SUBSET S : ~ \E g : SumsUp(f, g, T)}
<1>1. SUFFICES ASSUME B # {} PROVE FALSE
  OBVIOUS
<1>2. PICK T \in B : \A U \in B : U \subseteq T => U = T
  <2>1. B \in SUBSET (SUBSET S)
    OBVIOUS
  <2> HIDE DEF B
  <2> QED BY <1>1, <2>1, LeastSet
<1> DEFINE G(U) == CHOOSE g : SumsUp(f, g, U)
           at(s) == G(s)[s]
           h == [s \in SUBSET T |-> Unfolded(f, [r \in SUBSET T |-> at(r)], s)]
<1>3. \A U \in SUBSET T : U # T => SumsUp(f, G(U), U)
  <2>1. \A U \in SUBSET T : U # T => U \notin B /\ U \in SUBSET S
    BY <1>2
  <2> QED BY <2>1
<1> HIDE DEF G
<1>4. \A s \in SUBSET T : s # T => h[s] = at(s)
  <2> SUFFICES ASSUME NEW s \in SUBSET T, s # T PROVE h[s] = at(s)
    OBVIOUS
  <2>1. at(s) = Unfolded(f, G(s), s)
    BY <1>3 DEF SumsUp
  <2>2. h[s] = Unfolded(f, [r \in SUBSET T |-> at(r)], s)
    OBVIOUS
  <2>3. CASE s = {}
    BY <2>1, <2>2, <2>3 DEF Unfolded
  <2>4. CASE s # {}
    <3> DEFINE r == s \ {Chosen(s)}
    <3>1. Chosen(s) \in s /\ r \in SUBSET T /\ r # T /\ r \subseteq s
      BY <2>4, ChosenIn
    <3>2. G(s)[r] = G(r)[r]
      <4>1. SumsUp(f, G(s), s) /\ SumsUp(f, G(r), r) /\ r \in SUBSET (s \cap r)
            /\ s \in SUBSET S /\ r \in SUBSET S
        BY <1>3, <3>1
      <4> HIDE DEF r
      <4> QED BY <4>1, SumsAgree
    <3> QED BY <2>1, <2>2, <2>4, <3>1, <3>2 DEF Unfolded
  <2> QED BY <2>3, <2>4
<1>5. SumsUp(f, h, T)
  <2>1. \A s \in SUBSET T : h[s] = Unfolded(f, h, s)
    <3> SUFFICES ASSUME NEW s \in SUBSET T PROVE h[s] = Unfolded(f, h, s)
      OBVIOUS
    <3>1. h[s] = Unfolded(f, [r \in SUBSET T |-> at(r)], s)
      OBVIOUS
    <3>2. CASE s = {}
      BY <3>1, <3>2 DEF Unfolded
    <3>3. CASE s # {}
      <4> DEFINE r == s \ {Chosen(s)}
      <4>1. r \in SUBSET T /\ r # T
        BY <3>3, ChosenIn
      <4>2. h[r] = at(r)
        BY <1>4, <4>1
      <4> HIDE DEF h
      <4> QED BY <3>1, <3>3, <4>1, <4>2 DEF Unfolded
    <3> QED BY <3>2, <3>3
  <2>2. h = [s \in SUBSET T |-> h[s]]
    OBVIOUS
  <2> HIDE DEF h
  <2> QED BY <2>1, <2>2 DEF SumsUp
<1> QED BY <1>2, <1>5

\* So the CHOOSE inside SumFunctionOnSet picks one of them.
LEMMA SumIsSum ==
    ASSUME NEW S, IsFiniteSet(S), NEW f
    PROVE  \E g : SumsUp(f, g, S) /\ SumFunctionOnSet(f, S) = g[S]
<1> DEFINE g == CHOOSE g : SumsUp(f, g, S)
<1>1. SumsUp(f, g, S)
  BY SumsExist
<1>2. SumFunctionOnSet(f, S) = g[S]
  BY DEF SumFunctionOnSet, FoldFunctionOnSet, MapThenFoldSet, SumsUp, Unfolded, Chosen
<1> QED BY <1>1, <1>2

\* Nothing adds up to zero.
LEMMA SumEmpty == ASSUME NEW f PROVE SumFunctionOnSet(f, {}) = 0
<1>1. IsFiniteSet({})
  BY FS_EmptySet
<1>2. PICK g : SumsUp(f, g, {}) /\ SumFunctionOnSet(f, {}) = g[{}]
  BY <1>1, SumIsSum
<1> QED BY <1>2 DEF SumsUp, Unfolded

\* A sum is the term chosen first and the sum of the others.
LEMMA SumStep ==
    ASSUME NEW S, IsFiniteSet(S), S # {}, NEW f
    PROVE  SumFunctionOnSet(f, S) = f[Chosen(S)] + SumFunctionOnSet(f, S \ {Chosen(S)})
<1> DEFINE R == S \ {Chosen(S)}
<1>1. R \in SUBSET S /\ IsFiniteSet(R)
  BY FS_RemoveElement
<1>2. PICK g : SumsUp(f, g, S) /\ SumFunctionOnSet(f, S) = g[S]
  BY SumIsSum
<1>3. PICK h : SumsUp(f, h, R) /\ SumFunctionOnSet(f, R) = h[R]
  BY <1>1, SumIsSum
<1>4. g[R] = h[R]
  <2>1. R \in SUBSET (S \cap R) /\ S \in SUBSET S
    BY <1>1
  <2> HIDE DEF R
  <2> QED BY <1>1, <1>2, <1>3, <2>1, SumsAgree
<1>5. g[S] = f[Chosen(S)] + g[R]
  BY <1>2 DEF SumsUp, Unfolded
<1> QED BY <1>2, <1>3, <1>4, <1>5

-----------------------------------------------------------------------------
(* What a sum is, whatever the order in which it adds *)

\* A sum of integers is an integer.
LEMMA SumType ==
    ASSUME NEW S, IsFiniteSet(S), NEW f, \A x \in S : f[x] \in Int
    PROVE  SumFunctionOnSet(f, S) \in Int
<1> DEFINE B == {T \in SUBSET S : SumFunctionOnSet(f, T) \notin Int}
<1>1. SUFFICES ASSUME B # {} PROVE FALSE
  OBVIOUS
<1>2. PICK T \in B : \A U \in B : U \subseteq T => U = T
  <2>1. B \in SUBSET (SUBSET S)
    OBVIOUS
  <2> HIDE DEF B
  <2> QED BY <1>1, <2>1, LeastSet
<1>3. IsFiniteSet(T)
  BY FS_Subset
<1>4. T # {}
  BY SumEmpty
<1>5. Chosen(T) \in T
  BY <1>4, ChosenIn
<1>6. SumFunctionOnSet(f, T \ {Chosen(T)}) \in Int
  BY <1>2, <1>5
<1>7. SumFunctionOnSet(f, T) = f[Chosen(T)] + SumFunctionOnSet(f, T \ {Chosen(T)})
  BY <1>3, <1>4, SumStep
<1>8. f[Chosen(T)] \in Int
  BY <1>5
<1> QED BY <1>6, <1>7, <1>8

\* Any term can be taken out of a sum, not only the one its definition takes first.
LEMMA SumRemove ==
    ASSUME NEW S, IsFiniteSet(S), NEW f, \A x \in S : f[x] \in Int, NEW a \in S
    PROVE  SumFunctionOnSet(f, S) = f[a] + SumFunctionOnSet(f, S \ {a})
<1> DEFINE Sum(T) == SumFunctionOnSet(f, T)
           B == {T \in SUBSET S : \E x \in T : Sum(T) # f[x] + Sum(T \ {x})}
<1>1. SUFFICES ASSUME B # {} PROVE FALSE
  <2>1. S \in SUBSET S
    OBVIOUS
  <2> QED BY <2>1
<1>2. PICK T \in B : \A U \in B : U \subseteq T => U = T
  <2>1. B \in SUBSET (SUBSET S)
    OBVIOUS
  <2> HIDE DEF B
  <2> QED BY <1>1, <2>1, LeastSet
<1>3. \A U \in SUBSET S : IsFiniteSet(U) /\ Sum(U) \in Int
  <2> SUFFICES ASSUME NEW U \in SUBSET S PROVE IsFiniteSet(U) /\ Sum(U) \in Int
    OBVIOUS
  <2>1. IsFiniteSet(U)
    BY FS_Subset
  <2> QED BY <2>1, SumType
<1>4. PICK c \in T : Sum(T) # f[c] + Sum(T \ {c})
  OBVIOUS
<1> DEFINE b == Chosen(T)
<1>5. T \in SUBSET S /\ c \in T /\ b \in T
  BY ChosenIn
<1>6. Sum(T) = f[b] + Sum(T \ {b})
  <2>1. IsFiniteSet(T) /\ T # {}
    BY <1>3, <1>5
  <2> QED BY <2>1, SumStep
<1>7. \A U \in SUBSET T : U # T => \A x \in U : Sum(U) = f[x] + Sum(U \ {x})
  <2> SUFFICES ASSUME NEW U \in SUBSET T, U # T
               PROVE  \A x \in U : Sum(U) = f[x] + Sum(U \ {x})
    OBVIOUS
  <2>1. U \notin B /\ U \in SUBSET S
    BY <1>2
  <2> QED BY <2>1
<1> HIDE DEF Sum, B, b
<1>8. c # b
  BY <1>4, <1>6
<1> DEFINE U == T \ {b}
           V == T \ {c}
           W == T \ {b, c}
<1>9. Sum(U) = f[c] + Sum(W)
  <2>1. U \in SUBSET T /\ U # T /\ c \in U /\ U \ {c} = W
    BY <1>5, <1>8
  <2> QED BY <1>7, <2>1
<1>10. Sum(V) = f[b] + Sum(W)
  <2>1. V \in SUBSET T /\ V # T /\ b \in V /\ V \ {b} = W
    BY <1>5, <1>8
  <2> QED BY <1>7, <2>1
<1>11. /\ W \in SUBSET S /\ U \in SUBSET S /\ V \in SUBSET S
       /\ f[b] \in Int /\ f[c] \in Int
  BY <1>5
<1>12. Sum(W) \in Int
  BY <1>3, <1>11
<1> HIDE DEF U, V, W
<1> QED BY <1>4, <1>6, <1>9, <1>10, <1>11, <1>12 DEF U, V

\* Induction over the subsets of a finite set: G is the set of those for which a claim holds.
LEMMA SetInduction ==
    ASSUME NEW S, IsFiniteSet(S), NEW G, {} \in G,
           \A T \in SUBSET S : \A x \in S \ T : T \in G => T \cup {x} \in G
    PROVE  S \in G
<1> DEFINE B == {T \in SUBSET S : T \notin G}
<1>1. SUFFICES ASSUME B # {} PROVE FALSE
  <2>1. S \in SUBSET S
    OBVIOUS
  <2> QED BY <2>1
<1>2. PICK T \in B : \A U \in B : U \subseteq T => U = T
  <2>1. B \in SUBSET (SUBSET S)
    OBVIOUS
  <2> HIDE DEF B
  <2> QED BY <1>1, <2>1, LeastSet
<1>3. T # {}
  OBVIOUS
<1>4. PICK x \in T : TRUE
  BY <1>3
<1> DEFINE U == T \ {x}
<1>5. U \in SUBSET S /\ x \in S \ U /\ U \cup {x} = T
  BY <1>4
<1>6. U \in G
  BY <1>2, <1>4
<1> HIDE DEF U
<1> QED BY <1>5, <1>6

\* The same, read the other way.
LEMMA SumAdd ==
    ASSUME NEW S, IsFiniteSet(S), NEW f, \A x \in S : f[x] \in Int,
           NEW T \in SUBSET S, NEW a \in S \ T
    PROVE  /\ SumFunctionOnSet(f, T \cup {a}) = f[a] + SumFunctionOnSet(f, T)
           /\ SumFunctionOnSet(f, T) \in Int /\ f[a] \in Int
<1> DEFINE U == T \cup {a}
<1>1. U \in SUBSET S /\ a \in U /\ U \ {a} = T
  OBVIOUS
<1>2. IsFiniteSet(U) /\ IsFiniteSet(T)
  BY <1>1, FS_Subset
<1> HIDE DEF U
<1>3. \A x \in U : f[x] \in Int
  BY <1>1
<1>4. SumFunctionOnSet(f, U) = f[a] + SumFunctionOnSet(f, U \ {a})
  BY <1>1, <1>2, <1>3, SumRemove
<1>5. SumFunctionOnSet(f, T) \in Int
  BY <1>2, SumType
<1> QED BY <1>1, <1>4, <1>5 DEF U

\* Larger terms make a larger sum.
LEMMA SumMonotone ==
    ASSUME NEW S, IsFiniteSet(S), NEW f, NEW g,
           \A x \in S : f[x] \in Int /\ g[x] \in Int /\ f[x] <= g[x]
    PROVE  SumFunctionOnSet(f, S) <= SumFunctionOnSet(g, S)
<1> DEFINE G == {T \in SUBSET S : SumFunctionOnSet(f, T) <= SumFunctionOnSet(g, T)}
<1>1. {} \in G
  BY SumEmpty
<1>2. ASSUME NEW T \in SUBSET S, NEW x \in S \ T, T \in G PROVE T \cup {x} \in G
  <2>1. /\ SumFunctionOnSet(f, T \cup {x}) = f[x] + SumFunctionOnSet(f, T)
        /\ SumFunctionOnSet(g, T \cup {x}) = g[x] + SumFunctionOnSet(g, T)
        /\ SumFunctionOnSet(f, T) \in Int /\ SumFunctionOnSet(g, T) \in Int
    BY SumAdd
  <2> QED BY <1>2, <2>1
<1> HIDE DEF G
<1>3. S \in G
  BY <1>1, <1>2, SetInduction
<1> QED BY <1>3 DEF G

\* A sum depends on its terms only.
LEMMA SumSame ==
    ASSUME NEW S, IsFiniteSet(S), NEW f, NEW g,
           \A x \in S : f[x] \in Int /\ f[x] = g[x]
    PROVE  SumFunctionOnSet(f, S) = SumFunctionOnSet(g, S)
<1>1. /\ SumFunctionOnSet(f, S) <= SumFunctionOnSet(g, S)
      /\ SumFunctionOnSet(g, S) <= SumFunctionOnSet(f, S)
  BY SumMonotone
<1>2. SumFunctionOnSet(f, S) \in Int /\ SumFunctionOnSet(g, S) \in Int
  BY SumType
<1> QED BY <1>1, <1>2

\* A sum of sums is added term by term.
LEMMA SumPlus ==
    ASSUME NEW S, IsFiniteSet(S), NEW f, NEW g, NEW h,
           \A x \in S : f[x] \in Int /\ g[x] \in Int /\ h[x] = f[x] + g[x]
    PROVE  SumFunctionOnSet(h, S) = SumFunctionOnSet(f, S) + SumFunctionOnSet(g, S)
<1> DEFINE G == {T \in SUBSET S : SumFunctionOnSet(h, T)
                                    = SumFunctionOnSet(f, T) + SumFunctionOnSet(g, T)}
<1>1. {} \in G
  BY SumEmpty
<1>2. ASSUME NEW T \in SUBSET S, NEW x \in S \ T, T \in G PROVE T \cup {x} \in G
  <2>1. (\A y \in S : f[y] \in Int) /\ (\A y \in S : g[y] \in Int) /\ (\A y \in S : h[y] \in Int)
    OBVIOUS
  <2>2. /\ SumFunctionOnSet(f, T \cup {x}) = f[x] + SumFunctionOnSet(f, T)
        /\ SumFunctionOnSet(g, T \cup {x}) = g[x] + SumFunctionOnSet(g, T)
        /\ SumFunctionOnSet(h, T \cup {x}) = h[x] + SumFunctionOnSet(h, T)
        /\ SumFunctionOnSet(f, T) \in Int /\ SumFunctionOnSet(g, T) \in Int
    BY <2>1, SumAdd
  <2> QED BY <1>2, <2>2
<1> HIDE DEF G
<1>3. S \in G
  BY <1>1, <1>2, SetInduction
<1> QED BY <1>3 DEF G

\* A common factor can be taken out of a sum.
LEMMA SumTimes ==
    ASSUME NEW S, IsFiniteSet(S), NEW f, NEW c \in Int, NEW h,
           \A x \in S : f[x] \in Int /\ h[x] = c * f[x]
    PROVE  SumFunctionOnSet(h, S) = c * SumFunctionOnSet(f, S)
<1> DEFINE G == {T \in SUBSET S : SumFunctionOnSet(h, T) = c * SumFunctionOnSet(f, T)}
<1>1. {} \in G
  BY SumEmpty
<1>2. ASSUME NEW T \in SUBSET S, NEW x \in S \ T, T \in G PROVE T \cup {x} \in G
  <2>1. (\A y \in S : f[y] \in Int) /\ (\A y \in S : h[y] \in Int)
    OBVIOUS
  <2>2. /\ SumFunctionOnSet(f, T \cup {x}) = f[x] + SumFunctionOnSet(f, T)
        /\ SumFunctionOnSet(f, T) \in Int /\ f[x] \in Int
    BY <2>1, SumAdd
  <2>3. SumFunctionOnSet(h, T \cup {x}) = c * f[x] + SumFunctionOnSet(h, T)
    <3>1. SumFunctionOnSet(h, T \cup {x}) = h[x] + SumFunctionOnSet(h, T)
      BY <2>1, SumAdd
    <3> QED BY <3>1
  <2>4. c * (f[x] + SumFunctionOnSet(f, T)) = c * f[x] + c * SumFunctionOnSet(f, T)
    BY <2>2
  <2> QED BY <1>2, <2>2, <2>3, <2>4
<1> HIDE DEF G
<1>3. S \in G
  BY <1>1, <1>2, SetInduction
<1> QED BY <1>3 DEF G

\* Zeros add up to zero.
LEMMA SumZero ==
    ASSUME NEW S, IsFiniteSet(S), NEW f, \A x \in S : f[x] = 0
    PROVE  SumFunctionOnSet(f, S) = 0
<1>1. SumFunctionOnSet(f, S) \in Int
  BY SumType
<1>2. SumFunctionOnSet(f, S) = 2 * SumFunctionOnSet(f, S)
  BY SumTimes
<1> QED BY <1>1, <1>2

\* A sum of natural numbers is one, and no term exceeds it.
LEMMA SumNat ==
    ASSUME NEW S, IsFiniteSet(S), NEW f, \A x \in S : f[x] \in Nat
    PROVE  /\ SumFunctionOnSet(f, S) \in Nat
           /\ \A a \in S : f[a] <= SumFunctionOnSet(f, S)
<1>1. ASSUME NEW T \in SUBSET S PROVE SumFunctionOnSet(f, T) \in Nat
  <2> DEFINE z == [x \in S |-> 0]
  <2>1. IsFiniteSet(T)
    BY FS_Subset
  <2>2. SumFunctionOnSet(f, T) \in Int
    BY <2>1, SumType
  <2>3. SumFunctionOnSet(z, T) <= SumFunctionOnSet(f, T)
    BY <2>1, SumMonotone
  <2>4. SumFunctionOnSet(z, T) = 0
    BY <2>1, SumZero
  <2> QED BY <2>2, <2>3, <2>4
<1>2. ASSUME NEW a \in S PROVE f[a] <= SumFunctionOnSet(f, S)
  <2>1. SumFunctionOnSet(f, S) = f[a] + SumFunctionOnSet(f, S \ {a})
    BY SumRemove
  <2>2. SumFunctionOnSet(f, S \ {a}) \in Nat
    BY <1>1
  <2> QED BY <2>1, <2>2
<1>3. S \in SUBSET S
  OBVIOUS
<1> QED BY <1>1, <1>2, <1>3

\* Where one term changes, the sum changes by as much.
LEMMA SumChange ==
    ASSUME NEW S, IsFiniteSet(S), NEW f, NEW g, NEW a \in S,
           \A x \in S : f[x] \in Int /\ g[x] \in Int,
           \A x \in S \ {a} : g[x] = f[x]
    PROVE  SumFunctionOnSet(g, S) = SumFunctionOnSet(f, S) + (g[a] - f[a])
<1>1. /\ SumFunctionOnSet(f, S) = f[a] + SumFunctionOnSet(f, S \ {a})
      /\ SumFunctionOnSet(g, S) = g[a] + SumFunctionOnSet(g, S \ {a})
  BY SumRemove
<1>2. IsFiniteSet(S \ {a})
  BY FS_RemoveElement
<1>3. SumFunctionOnSet(f, S \ {a}) = SumFunctionOnSet(g, S \ {a})
  BY <1>2, SumSame
<1>4. SumFunctionOnSet(f, S \ {a}) \in Int
  BY <1>2, SumType
<1> QED BY <1>1, <1>3, <1>4
=============================================================================

---------------------------- MODULE SumTheorems ----------------------------
(***************************************************************************)
(* What the proofs need of induction and of sums.  The library's induction *)
(* theorems take a predicate, which the provers cannot instantiate; that   *)
(* every set of naturals has a least element says the same of a set.  From *)
(* it follow induction, and the laws of the sum of a function over a       *)
(* finite set (SumFunction and SumFunctionOnSet of the community modules): *)
(* a term can be split off, in any order.                                  *)
(***************************************************************************)
EXTENDS Integers, FiniteSets, FiniteSetTheorems, Functions, WellFoundedInduction, TLAPS

-----------------------------------------------------------------------------
(* Induction *)

\* Every set of naturals has a least element.
LEMMA Least ==
  ASSUME NEW T, T \subseteq Nat, T # {}
  PROVE  \E n \in T : \A m \in T : n <= m
<1> DEFINE R == {p \in Nat \X Nat : p[1] < p[2]}
<1>1. IsWellFoundedOn(R, Nat)
  BY NatLessThanWellFounded DEF OpToRel
<1> HIDE DEF R
<1>2. PICK n \in T : \A m \in T : ~(<<m, n>> \in R)
  BY <1>1, WFMin
<1>3. ASSUME NEW m \in T
      PROVE  n <= m
  <2>1. <<m, n>> \in Nat \X Nat /\ m \in Nat /\ n \in Nat
    OBVIOUS
  <2>2. m < n => <<m, n>> \in R
    BY <2>1 DEF R
  <2> QED
    BY <1>2, <2>1, <2>2
<1> QED
  BY <1>3

\* A set that holds zero, and with each number the next, holds every number.
LEMMA Induction ==
  ASSUME NEW S, 0 \in S, \A n \in Nat : n \in S => n + 1 \in S
  PROVE  \A n \in Nat : n \in S
<1> DEFINE T == Nat \ S
<1>1. SUFFICES ASSUME T # {} PROVE FALSE
  OBVIOUS
<1>2. PICK n \in T : \A m \in T : n <= m
  BY <1>1, Least
<1>3. n # 0 /\ n - 1 \in Nat
  BY <1>2
<1>4. n - 1 \in S
  BY <1>2, <1>3
<1> QED
  BY <1>2, <1>3, <1>4

\* The same for finite sets: a family of subsets that holds the empty set, and
\* with each of its members the ones larger by an element, holds the whole set.
LEMMA SetInduction ==
  ASSUME NEW S, IsFiniteSet(S), NEW P, {} \in P,
         \A T \in SUBSET S : T \in P => \A x \in S \ T : T \cup {x} \in P
  PROVE  S \in P
<1> DEFINE Good == {n \in Nat : \A T \in SUBSET S : Cardinality(T) = n => T \in P}
<1>1. ASSUME NEW T \in SUBSET S
      PROVE  IsFiniteSet(T) /\ Cardinality(T) \in Nat /\ (Cardinality(T) = 0 <=> T = {})
  BY FS_Subset, FS_EmptySet, FS_CardinalityType
<1>2. 0 \in Good
  BY <1>1
<1>3. ASSUME NEW n \in Nat, n \in Good, NEW T \in SUBSET S, Cardinality(T) = n + 1
      PROVE  T \in P
  <2>1. PICK x : x \in T
    BY <1>1, <1>3
  <2>2. Cardinality(T \ {x}) = Cardinality(T) - 1
    BY <1>1, <2>1, FS_RemoveElement
  <2>3. T \ {x} \in P
    BY <1>3, <2>2
  <2>4. (T \ {x}) \cup {x} = T /\ x \in S \ (T \ {x}) /\ T \ {x} \in SUBSET S
    BY <2>1
  <2> QED
    BY <2>3, <2>4
<1>4. ASSUME NEW n \in Nat, n \in Good
      PROVE  n + 1 \in Good
  BY <1>3, <1>4
<1> HIDE DEF Good
<1>5. \A n \in Nat : n \in Good
  BY <1>2, <1>4, Induction
<1> QED
  BY <1>1, <1>5 DEF Good

-----------------------------------------------------------------------------
(* Sums *)

\* The sum of f over a set takes off one element after the other.
Sums(f, S, iter) ==
  iter = [s \in SUBSET S |->
            IF s = {} THEN 0
            ELSE f[CHOOSE x \in s : TRUE] + iter[s \ {CHOOSE x \in s : TRUE}]]

IntOn(f, S) == \A x \in S : f[x] \in Int

LEMMA SumIs ==
  ASSUME NEW f, NEW S
  PROVE  SumFunctionOnSet(f, S) = (CHOOSE iter : Sums(f, S, iter))[S]
  BY DEF SumFunctionOnSet, FoldFunctionOnSet, MapThenFoldSet, Sums

LEMMA SumAll ==
  ASSUME NEW f
  PROVE  SumFunction(f) = SumFunctionOnSet(f, DOMAIN f)
  BY DEF SumFunction

\* Up to any size there is a function that takes the sums.
Small(S, n) == {s \in SUBSET S : Cardinality(s) <= n}

SumsUpTo(f, S, n, g) ==
  /\ g \in [Small(S, n) -> Int]
  /\ \A s \in Small(S, n) :
       g[s] = IF s = {} THEN 0
              ELSE f[CHOOSE x \in s : TRUE] + g[s \ {CHOOSE x \in s : TRUE}]

LEMMA SmallerSet ==
  ASSUME NEW S, IsFiniteSet(S), NEW n \in Nat, NEW s \in Small(S, n + 1), s # {}
  PROVE  LET c == CHOOSE x \in s : TRUE
         IN  c \in s /\ c \in S /\ s \ {c} \in Small(S, n)
<1> DEFINE c == CHOOSE x \in s : TRUE
<1>1. c \in s /\ s \subseteq S
  BY DEF Small
<1>2. IsFiniteSet(s) /\ Cardinality(s) <= n + 1
  BY FS_Subset DEF Small
<1> HIDE DEF c
<1>3. Cardinality(s \ {c}) = Cardinality(s) - 1 /\ Cardinality(s) \in Nat
  BY <1>1, <1>2, FS_RemoveElement, FS_CardinalityType
<1>4. s \ {c} \in Small(S, n)
  BY <1>1, <1>2, <1>3 DEF Small
<1> QED
  BY <1>1, <1>4 DEF c

LEMMA SumsExistUpTo ==
  ASSUME NEW f, NEW S, IsFiniteSet(S), IntOn(f, S)
  PROVE  \A n \in Nat : \E g : SumsUpTo(f, S, n, g)
<1> DEFINE Good == {n \in Nat : \E g : SumsUpTo(f, S, n, g)}
<1>1. 0 \in Good
  <2> DEFINE g == [s \in Small(S, 0) |-> 0]
  <2>1. \A s \in Small(S, 0) : s = {}
    BY FS_Subset, FS_EmptySet, FS_CardinalityType DEF Small
  <2>2. g \in [Small(S, 0) -> Int]
    OBVIOUS
  <2>3. SumsUpTo(f, S, 0, g)
    BY <2>1, <2>2 DEF SumsUpTo
  <2> QED
    BY <2>3
<1>2. ASSUME NEW n \in Nat, n \in Good
      PROVE  n + 1 \in Good
  <2>1. PICK g : SumsUpTo(f, S, n, g)
    BY <1>2
  <2> DEFINE h == [s \in Small(S, n + 1) |->
                     IF s = {} THEN 0
                     ELSE f[CHOOSE x \in s : TRUE] + g[s \ {CHOOSE x \in s : TRUE}]]
  <2>2. ASSUME NEW s \in Small(S, n + 1)
        PROVE  h[s] \in Int
    <3>1. CASE s = {}
      BY <3>1
    <3>2. CASE s # {}
      <4> DEFINE c == CHOOSE x \in s : TRUE
      <4>1. c \in S /\ s \ {c} \in Small(S, n)
        BY <3>2, SmallerSet
      <4> HIDE DEF c
      <4>2. f[c] \in Int /\ g[s \ {c}] \in Int
        BY <2>1, <4>1 DEF SumsUpTo, IntOn
      <4>3. h[s] = f[c] + g[s \ {c}]
        BY <3>2 DEF c
      <4> QED
        BY <4>2, <4>3
    <3> QED
      BY <3>1, <3>2
  <2>3. Small(S, n) \subseteq Small(S, n + 1)
    <3> SUFFICES ASSUME NEW s \in Small(S, n)
                 PROVE  s \in Small(S, n + 1)
      OBVIOUS
    <3>1. Cardinality(s) \in Nat /\ Cardinality(s) <= n
      BY FS_Subset, FS_CardinalityType DEF Small
    <3> QED
      BY <3>1 DEF Small
  <2>4. ASSUME NEW s \in Small(S, n)
        PROVE  h[s] = g[s]
    BY <2>1, <2>3 DEF SumsUpTo
  <2>5. ASSUME NEW s \in Small(S, n + 1)
        PROVE  h[s] = IF s = {} THEN 0
                      ELSE f[CHOOSE x \in s : TRUE] + h[s \ {CHOOSE x \in s : TRUE}]
    <3>1. CASE s = {}
      BY <3>1
    <3>2. CASE s # {}
      <4> DEFINE c == CHOOSE x \in s : TRUE
      <4>1. s \ {c} \in Small(S, n)
        BY <3>2, SmallerSet
      <4>2. h[s] = f[c] + g[s \ {c}]
        BY <3>2
      <4>3. h[s \ {c}] = g[s \ {c}]
        BY <2>4, <4>1
      <4> HIDE DEF h, c
      <4>4. h[s] = f[c] + h[s \ {c}]
        BY <4>2, <4>3
      <4> QED
        BY <3>2, <4>4 DEF c
    <3> QED
      BY <3>1, <3>2
  <2>6. h \in [Small(S, n + 1) -> Int]
    BY <2>2
  <2> HIDE DEF h
  <2>7. SumsUpTo(f, S, n + 1, h)
    BY <2>5, <2>6 DEF SumsUpTo
  <2> QED
    BY <2>7
<1> HIDE DEF Good
<1>3. \A n \in Nat : n \in Good
  BY <1>1, <1>2, Induction
<1> QED
  BY <1>3 DEF Good

\* So the function that SumFunctionOnSet chooses exists.
LEMMA SumsExist ==
  ASSUME NEW f, NEW S, IsFiniteSet(S), IntOn(f, S)
  PROVE  \E g \in [SUBSET S -> Int] : Sums(f, S, g)
<1>1. Cardinality(S) \in Nat
  BY FS_CardinalityType
<1>2. Small(S, Cardinality(S)) = SUBSET S
  BY FS_Subset DEF Small
<1>3. PICK g : SumsUpTo(f, S, Cardinality(S), g)
  BY <1>1, SumsExistUpTo
<1>4. /\ g \in [SUBSET S -> Int]
      /\ \A s \in SUBSET S :
           g[s] = IF s = {} THEN 0
                  ELSE f[CHOOSE x \in s : TRUE] + g[s \ {CHOOSE x \in s : TRUE}]
  BY <1>2, <1>3 DEF SumsUpTo
<1>5. Sums(f, S, g)
  BY <1>4 DEF Sums
<1> QED
  BY <1>4, <1>5

\* It is the only one, and on a smaller set it gives the same sums.
LEMMA SumsAgree ==
  ASSUME NEW f, NEW S, IsFiniteSet(S), NEW T, T \subseteq S,
         NEW g, Sums(f, S, g), NEW h, Sums(f, T, h)
  PROVE  \A s \in SUBSET T : g[s] = h[s]
<1> DEFINE Good == {n \in Nat : \A s \in SUBSET T : Cardinality(s) = n => g[s] = h[s]}
<1>1. ASSUME NEW s \in SUBSET T
      PROVE  IsFiniteSet(s) /\ Cardinality(s) \in Nat /\ (Cardinality(s) = 0 <=> s = {})
  BY FS_Subset, FS_EmptySet, FS_CardinalityType
<1>2. ASSUME NEW s \in SUBSET T, s = {}
      PROVE  g[s] = h[s]
  BY <1>2 DEF Sums
<1>3. 0 \in Good
  BY <1>1, <1>2
<1>4. ASSUME NEW n \in Nat, n \in Good, NEW s \in SUBSET T, Cardinality(s) = n + 1
      PROVE  g[s] = h[s]
  <2> DEFINE c == CHOOSE x \in s : TRUE
  <2>1. s # {} /\ IsFiniteSet(s)
    BY <1>1, <1>4
  <2>2. c \in s
    BY <2>1
  <2>3. g[s] = f[c] + g[s \ {c}] /\ h[s] = f[c] + h[s \ {c}]
    BY <2>1 DEF Sums
  <2> HIDE DEF c
  <2>4. s \ {c} \in SUBSET T /\ Cardinality(s \ {c}) = n
    <3>1. Cardinality(s \ {c}) = Cardinality(s) - 1
      BY <2>1, <2>2, FS_RemoveElement
    <3> QED
      BY <1>4, <3>1
  <2>5. g[s \ {c}] = h[s \ {c}]
    BY <1>4, <2>4
  <2> QED
    BY <2>3, <2>5
<1>5. ASSUME NEW n \in Nat, n \in Good
      PROVE  n + 1 \in Good
  <2>1. \A s \in SUBSET T : Cardinality(s) = n + 1 => g[s] = h[s]
    BY <1>4, <1>5
  <2> QED
    BY <2>1
<1> HIDE DEF Good
<1>6. \A n \in Nat : n \in Good
  BY <1>3, <1>5, Induction
<1> QED
  BY <1>1, <1>6 DEF Good

\* What SumFunctionOnSet yields on every subset of S.
LEMMA SumOnSubset ==
  ASSUME NEW f, NEW S, IsFiniteSet(S), IntOn(f, S), NEW g, Sums(f, S, g),
         NEW T, T \subseteq S
  PROVE  SumFunctionOnSet(f, T) = g[T]
<1>1. IsFiniteSet(T) /\ IntOn(f, T)
  BY FS_Subset DEF IntOn
<1>2. \E h : Sums(f, T, h)
  BY <1>1, SumsExist
<1> DEFINE h == CHOOSE iter : Sums(f, T, iter)
<1>3. Sums(f, T, h)
  BY <1>2
<1>4. SumFunctionOnSet(f, T) = h[T]
  BY SumIs
<1> HIDE DEF h
<1> QED
  BY <1>3, <1>4, SumsAgree

\* The sum of no terms.
LEMMA SumEmpty == ASSUME NEW f PROVE SumFunctionOnSet(f, {}) = 0
<1>1. IsFiniteSet({}) /\ IntOn(f, {})
  BY FS_EmptySet DEF IntOn
<1>2. PICK g : Sums(f, {}, g)
  BY <1>1, SumsExist
<1>3. SumFunctionOnSet(f, {}) = g[{}]
  BY <1>1, <1>2, SumOnSubset
<1>4. g[{}] = 0
  BY <1>2 DEF Sums
<1> QED
  BY <1>3, <1>4

\* A sum of integers is an integer.
LEMMA SumInt ==
  ASSUME NEW f, NEW S, IsFiniteSet(S), IntOn(f, S)
  PROVE  SumFunctionOnSet(f, S) \in Int
<1>1. PICK g \in [SUBSET S -> Int] : Sums(f, S, g)
  BY SumsExist
<1>2. SumFunctionOnSet(f, S) = g[S]
  BY <1>1, SumOnSubset
<1> QED
  BY <1>1, <1>2

\* Any term can be split off, not only the one taken first.
LEMMA SumSplit ==
  ASSUME NEW f, NEW S, IsFiniteSet(S), IntOn(f, S), NEW x \in S
  PROVE  SumFunctionOnSet(f, S) = f[x] + SumFunctionOnSet(f, S \ {x})
<1>1. PICK g \in [SUBSET S -> Int] : Sums(f, S, g)
  BY SumsExist
<1> DEFINE Good == {n \in Nat : \A s \in SUBSET S : Cardinality(s) = n =>
                                  \A y \in s : g[s] = f[y] + g[s \ {y}]}
<1>2. ASSUME NEW s \in SUBSET S
      PROVE  IsFiniteSet(s) /\ Cardinality(s) \in Nat /\ (Cardinality(s) = 0 <=> s = {})
  BY FS_Subset, FS_EmptySet, FS_CardinalityType
<1>3. 0 \in Good
  BY <1>2
<1>4. ASSUME NEW n \in Nat, n \in Good, NEW s \in SUBSET S, Cardinality(s) = n + 1,
             NEW y \in s
      PROVE  g[s] = f[y] + g[s \ {y}]
  <2> DEFINE c == CHOOSE z \in s : TRUE
  <2>1. s # {} /\ IsFiniteSet(s)
    BY <1>2
  <2>2. c \in s
    BY <2>1
  <2>3. g[s] = f[c] + g[s \ {c}]
    BY <1>1, <2>1 DEF Sums
  <2> HIDE DEF c
  <2>4. CASE y = c
    BY <2>3, <2>4
  <2>5. CASE y # c
    <3>1. /\ s \ {c} \in SUBSET S /\ s \ {y} \in SUBSET S
          /\ (s \ {c}) \ {y} \in SUBSET S
          /\ y \in s \ {c} /\ c \in s \ {y}
      BY <2>2, <2>5
    <3>2. (s \ {c}) \ {y} = (s \ {y}) \ {c}
      OBVIOUS
    <3>3. Cardinality(s \ {c}) = Cardinality(s) - 1 /\ Cardinality(s \ {y}) = Cardinality(s) - 1
      BY <2>1, <2>2, FS_RemoveElement
    <3>4. Cardinality(s \ {c}) = n /\ Cardinality(s \ {y}) = n
      BY <1>4, <3>3
    <3>5. g[s \ {c}] = f[y] + g[(s \ {c}) \ {y}]
      BY <1>4, <3>1, <3>4
    <3>6. g[s \ {y}] = f[c] + g[(s \ {y}) \ {c}]
      BY <1>4, <3>1, <3>4
    <3>7. f[y] \in Int /\ f[c] \in Int /\ g[(s \ {c}) \ {y}] \in Int
      BY <1>1, <2>2, <3>1 DEF IntOn
    <3>8. g[s \ {y}] = f[c] + g[(s \ {c}) \ {y}]
      BY <3>6, <3>2
    <3> QED
      BY <2>3, <3>5, <3>7, <3>8
  <2> QED
    BY <2>4, <2>5
<1>5. \A n \in Nat : n \in Good => n + 1 \in Good
  BY <1>4, SMTT(30)
<1> HIDE DEF Good
<1>6. \A n \in Nat : n \in Good
  BY <1>3, <1>5, Induction
<1>7. g[S] = f[x] + g[S \ {x}]
  BY <1>2, <1>6 DEF Good
<1>8. SumFunctionOnSet(f, S) = g[S] /\ SumFunctionOnSet(f, S \ {x}) = g[S \ {x}]
  BY <1>1, SumOnSubset
<1> QED
  BY <1>7, <1>8

\* Functions that agree on a set have the same sum over it.
LEMMA SumSame ==
  ASSUME NEW f, NEW g, NEW S, IsFiniteSet(S), IntOn(f, S), \A x \in S : f[x] = g[x]
  PROVE  SumFunctionOnSet(f, S) = SumFunctionOnSet(g, S)
<1>1. PICK i \in [SUBSET S -> Int] : Sums(f, S, i)
  BY SumsExist
<1>2. ASSUME NEW s \in SUBSET S, s # {}
      PROVE  (CHOOSE x \in s : TRUE) \in S
  BY <1>2
<1>3. i = [s \in SUBSET S |->
            IF s = {} THEN 0
            ELSE f[CHOOSE x \in s : TRUE] + i[s \ {CHOOSE x \in s : TRUE}]]
  BY <1>1 DEF Sums
<1>4. ASSUME NEW s \in SUBSET S
      PROVE  i[s] = IF s = {} THEN 0
                    ELSE g[CHOOSE x \in s : TRUE] + i[s \ {CHOOSE x \in s : TRUE}]
  BY <1>2, <1>3
<1>5. Sums(g, S, i)
  BY <1>1, <1>4 DEF Sums
<1>6. IntOn(g, S)
  BY DEF IntOn
<1> QED
  BY <1>1, <1>5, <1>6, SumOnSubset

-----------------------------------------------------------------------------
(* What follows from splitting *)

\* Changing one term changes the sum by as much.
LEMMA SumChange ==
  ASSUME NEW f, NEW g, NEW S, IsFiniteSet(S), IntOn(f, S), IntOn(g, S), NEW x \in S,
         \A y \in S \ {x} : f[y] = g[y]
  PROVE  SumFunctionOnSet(g, S) = SumFunctionOnSet(f, S) + g[x] - f[x]
<1> DEFINE R == S \ {x}
<1>1. IsFiniteSet(R) /\ IntOn(f, R)
  BY FS_RemoveElement DEF IntOn
<1>2. SumFunctionOnSet(f, R) = SumFunctionOnSet(g, R)
  BY <1>1, SumSame
<1>3. SumFunctionOnSet(f, R) \in Int /\ f[x] \in Int /\ g[x] \in Int
  BY <1>1, SumInt DEF IntOn
<1>4. /\ SumFunctionOnSet(f, S) = f[x] + SumFunctionOnSet(f, R)
      /\ SumFunctionOnSet(g, S) = g[x] + SumFunctionOnSet(g, R)
  BY SumSplit
<1> QED
  BY <1>2, <1>3, <1>4

\* One term more.
LEMMA SumAdd ==
  ASSUME NEW f, NEW S, IsFiniteSet(S), IntOn(f, S), NEW T, T \subseteq S, NEW x \in S \ T
  PROVE  SumFunctionOnSet(f, T \cup {x}) = f[x] + SumFunctionOnSet(f, T)
<1> DEFINE U == T \cup {x}
<1>1. U \subseteq S /\ x \in U /\ U \ {x} = T
  OBVIOUS
<1>2. IsFiniteSet(U) /\ IntOn(f, U)
  BY <1>1, FS_Subset DEF IntOn
<1> QED
  BY <1>1, <1>2, SumSplit

\* The sums over subsets are integers too.
LEMMA SumSubset ==
  ASSUME NEW f, NEW S, IsFiniteSet(S), IntOn(f, S), NEW T, T \subseteq S
  PROVE  IsFiniteSet(T) /\ IntOn(f, T) /\ SumFunctionOnSet(f, T) \in Int
<1>1. IsFiniteSet(T) /\ IntOn(f, T)
  BY FS_Subset DEF IntOn
<1> QED
  BY <1>1, SumInt

\* Sums add up term by term.
LEMMA SumPlus ==
  ASSUME NEW f, NEW g, NEW h, NEW S, IsFiniteSet(S), IntOn(f, S), IntOn(g, S),
         \A x \in S : h[x] = f[x] + g[x]
  PROVE  SumFunctionOnSet(h, S) = SumFunctionOnSet(f, S) + SumFunctionOnSet(g, S)
<1> DEFINE Good == {T \in SUBSET S :
             SumFunctionOnSet(h, T) = SumFunctionOnSet(f, T) + SumFunctionOnSet(g, T)}
<1>1. IntOn(h, S)
  BY DEF IntOn
<1>2. {} \in Good
  BY SumEmpty
<1>3. ASSUME NEW T \in SUBSET S, T \in Good, NEW x \in S \ T
      PROVE  T \cup {x} \in Good
  <2>1. /\ SumFunctionOnSet(f, T \cup {x}) = f[x] + SumFunctionOnSet(f, T)
        /\ SumFunctionOnSet(g, T \cup {x}) = g[x] + SumFunctionOnSet(g, T)
        /\ SumFunctionOnSet(h, T \cup {x}) = h[x] + SumFunctionOnSet(h, T)
    BY <1>1, SumAdd
  <2>2. /\ SumFunctionOnSet(f, T) \in Int /\ SumFunctionOnSet(g, T) \in Int
        /\ f[x] \in Int /\ g[x] \in Int /\ h[x] = f[x] + g[x]
    BY SumSubset DEF IntOn
  <2>3. SumFunctionOnSet(h, T) = SumFunctionOnSet(f, T) + SumFunctionOnSet(g, T)
    BY <1>3
  <2>4. SumFunctionOnSet(h, T \cup {x})
          = SumFunctionOnSet(f, T \cup {x}) + SumFunctionOnSet(g, T \cup {x})
    BY <2>1, <2>2, <2>3
  <2> QED
    BY <2>4
<1> HIDE DEF Good
<1>4. S \in Good
  BY <1>2, <1>3, SetInduction
<1> QED
  BY <1>4 DEF Good

\* A common factor comes out of the sum.
LEMMA SumScaled ==
  ASSUME NEW f, NEW h, NEW S, IsFiniteSet(S), IntOn(f, S), NEW c \in Int,
         \A x \in S : h[x] = c * f[x]
  PROVE  SumFunctionOnSet(h, S) = c * SumFunctionOnSet(f, S)
<1> DEFINE Good == {T \in SUBSET S : SumFunctionOnSet(h, T) = c * SumFunctionOnSet(f, T)}
<1>1. IntOn(h, S)
  BY DEF IntOn
<1>2. {} \in Good
  BY SumEmpty
<1>3. ASSUME NEW T \in SUBSET S, T \in Good, NEW x \in S \ T
      PROVE  T \cup {x} \in Good
  <2> DEFINE a == f[x]
             b == SumFunctionOnSet(f, T)
  <2>1. /\ SumFunctionOnSet(f, T \cup {x}) = a + b
        /\ SumFunctionOnSet(h, T \cup {x}) = h[x] + SumFunctionOnSet(h, T)
    BY <1>1, SumAdd
  <2>2. a \in Int /\ b \in Int /\ h[x] = c * a
    BY SumSubset DEF IntOn
  <2>3. SumFunctionOnSet(h, T) = c * b
    BY <1>3
  <2> HIDE DEF a, b
  <2>4. c * (a + b) = c * a + c * b
    BY <2>2
  <2>5. SumFunctionOnSet(h, T \cup {x}) = c * SumFunctionOnSet(f, T \cup {x})
    BY <2>1, <2>2, <2>3, <2>4
  <2> QED
    BY <2>5
<1> HIDE DEF Good
<1>4. S \in Good
  BY <1>2, <1>3, SetInduction
<1> QED
  BY <1>4 DEF Good

\* As many equal terms as the set has elements.
LEMMA SumConstant ==
  ASSUME NEW f, NEW S, IsFiniteSet(S), NEW c \in Int, \A x \in S : f[x] = c
  PROVE  SumFunctionOnSet(f, S) = c * Cardinality(S)
<1> DEFINE Good == {T \in SUBSET S : SumFunctionOnSet(f, T) = c * Cardinality(T)}
<1>1. IntOn(f, S)
  BY DEF IntOn
<1>2. {} \in Good
  BY SumEmpty, FS_EmptySet
<1>3. ASSUME NEW T \in SUBSET S, T \in Good, NEW x \in S \ T
      PROVE  T \cup {x} \in Good
  <2> DEFINE n == Cardinality(T)
  <2>1. SumFunctionOnSet(f, T \cup {x}) = f[x] + SumFunctionOnSet(f, T)
    BY <1>1, SumAdd
  <2>2. IsFiniteSet(T) /\ n \in Nat
    BY FS_Subset, FS_CardinalityType
  <2>3. Cardinality(T \cup {x}) = n + 1
    BY <2>2, FS_AddElement
  <2>4. SumFunctionOnSet(f, T) = c * n
    BY <1>3
  <2> HIDE DEF n
  <2>5. SumFunctionOnSet(f, T \cup {x}) = c * Cardinality(T \cup {x})
    BY <2>1, <2>2, <2>3, <2>4
  <2> QED
    BY <2>5
<1> HIDE DEF Good
<1>4. S \in Good
  BY <1>2, <1>3, SetInduction
<1> QED
  BY <1>4 DEF Good

\* Terms that are zero do not count.
LEMMA SumWide ==
  ASSUME NEW f, NEW S, IsFiniteSet(S), IntOn(f, S), NEW R, R \subseteq S,
         \A x \in S \ R : f[x] = 0
  PROVE  SumFunctionOnSet(f, S) = SumFunctionOnSet(f, R)
<1> DEFINE Good == {T \in SUBSET S : SumFunctionOnSet(f, T) = SumFunctionOnSet(f, T \cap R)}
<1>1. {} \in Good
  <2>1. {} \cap R = {}
    OBVIOUS
  <2> QED
    BY <2>1
<1>2. ASSUME NEW T \in SUBSET S, T \in Good, NEW x \in S \ T
      PROVE  T \cup {x} \in Good
  <2>1. SumFunctionOnSet(f, T \cup {x}) = f[x] + SumFunctionOnSet(f, T)
    BY SumAdd
  <2>2. SumFunctionOnSet(f, T) = SumFunctionOnSet(f, T \cap R)
    BY <1>2
  <2>3. CASE x \in R
    <3>1. (T \cup {x}) \cap R = (T \cap R) \cup {x} /\ x \in S \ (T \cap R) /\ T \cap R \subseteq S
      BY <2>3
    <3>2. SumFunctionOnSet(f, (T \cap R) \cup {x}) = f[x] + SumFunctionOnSet(f, T \cap R)
      BY <3>1, SumAdd
    <3> QED
      BY <2>1, <2>2, <3>1, <3>2
  <2>4. CASE x \notin R
    <3>1. (T \cup {x}) \cap R = T \cap R /\ f[x] = 0
      BY <2>4
    <3>2. SumFunctionOnSet(f, T) \in Int
      BY SumSubset
    <3>3. SumFunctionOnSet(f, T \cup {x}) = SumFunctionOnSet(f, T)
      BY <2>1, <3>1, <3>2
    <3>4. SumFunctionOnSet(f, (T \cup {x}) \cap R) = SumFunctionOnSet(f, T \cap R)
      BY <3>1
    <3>5. SumFunctionOnSet(f, T \cup {x}) = SumFunctionOnSet(f, (T \cup {x}) \cap R)
      BY <2>2, <3>3, <3>4
    <3> QED
      BY <3>5
  <2> QED
    BY <2>3, <2>4
<1> HIDE DEF Good
<1>3. S \in Good
  BY <1>1, <1>2, SetInduction
<1>4. S \cap R = R
  OBVIOUS
<1> QED
  BY <1>3, <1>4 DEF Good

\* A sum of multiples of d is one.
Multiple(x, d) == x \in Int /\ \E q \in Int : x = d * q

LEMMA SumMultiple ==
  ASSUME NEW f, NEW S, IsFiniteSet(S), NEW d \in Int, \A x \in S : Multiple(f[x], d)
  PROVE  Multiple(SumFunctionOnSet(f, S), d)
<1> DEFINE g == [x \in S |-> CHOOSE q \in Int : f[x] = d * q]
<1>1. \A x \in S : g[x] \in Int /\ f[x] = d * g[x]
  BY DEF Multiple
<1> HIDE DEF g
<1>2. IntOn(g, S)
  BY <1>1 DEF IntOn
<1>3. SumFunctionOnSet(f, S) = d * SumFunctionOnSet(g, S)
  BY <1>1, <1>2, SumScaled
<1>4. SumFunctionOnSet(g, S) \in Int
  BY <1>2, SumInt
<1> QED
  BY <1>3, <1>4 DEF Multiple

\* A sum of natural numbers is one, and none of its terms is above it.
LEMMA SumNat ==
  ASSUME NEW f, NEW S, IsFiniteSet(S), \A x \in S : f[x] \in Nat
  PROVE  /\ SumFunctionOnSet(f, S) \in Nat
         /\ \A x \in S : f[x] <= SumFunctionOnSet(f, S)
<1> DEFINE P == {T \in SUBSET S : SumFunctionOnSet(f, T) \in Nat}
<1>1. IntOn(f, S)
  BY DEF IntOn
<1>2. \A T \in SUBSET S : SumFunctionOnSet(f, T) \in Nat
  <2> SUFFICES ASSUME NEW U \in SUBSET S
               PROVE  U \in P
    OBVIOUS
  <2>1. {} \in P
    BY SumEmpty
  <2>2. ASSUME NEW T \in SUBSET U, T \in P, NEW x \in U \ T
        PROVE  T \cup {x} \in P
    <3>1. x \in S \ T /\ T \subseteq S
      OBVIOUS
    <3>2. SumFunctionOnSet(f, T \cup {x}) = f[x] + SumFunctionOnSet(f, T)
      BY <1>1, <3>1, SumAdd
    <3> QED
      BY <2>2, <3>1, <3>2
  <2>3. IsFiniteSet(U)
    BY FS_Subset
  <2> HIDE DEF P
  <2> QED
    BY <2>1, <2>2, <2>3, SetInduction
<1>3. ASSUME NEW x \in S
      PROVE  f[x] <= SumFunctionOnSet(f, S)
  <2> DEFINE rest == SumFunctionOnSet(f, S \ {x})
  <2>1. rest \in Nat
    BY <1>2
  <2>2. SumFunctionOnSet(f, S) = f[x] + rest
    BY <1>1, SumSplit
  <2>3. f[x] \in Nat
    OBVIOUS
  <2> HIDE DEF rest
  <2> QED
    BY <2>1, <2>2, <2>3
<1> QED
  BY <1>2, <1>3
=============================================================================

------------------------------ MODULE OperatorProofs ------------------------------
(***************************************************************************)
(* Facts about the pure operators the model is built from: sums over       *)
(* finite sets (SumFunctionOnSet of Functions, which the properties of the *)
(* ledger and of the reservations are stated with), conversions of Money   *)
(* and verdicts of ReservationPolicies.                                    *)
(*                                                                         *)
(* A sum folds a recursive function on the subsets of its set. The         *)
(* induction such a function needs is had here from well-foundedness, for  *)
(* sets instead of predicates: whoever uses it names the set of those      *)
(* numbers, or of those finite sets, for which the statement holds.        *)
(***************************************************************************)
EXTENDS ReservationPolicies, FiniteSets, Functions, FiniteSetTheorems, WellFoundedInduction, TLAPS

-------------------------------------------------------------------------------
(* Induction.                                                              *)

(* A set that holds zero and, with a number, the next one holds them all.  *)
LEMMA SetOfAllNaturals ==
  ASSUME NEW S, 0 \in S, \A n \in Nat : n \in S => n + 1 \in S
  PROVE  Nat \subseteq S
<1> DEFINE missing == Nat \ S
<1> SUFFICES ASSUME missing # {} PROVE FALSE
  OBVIOUS
<1>1. PICK k \in missing : \A j \in missing : ~(<<j, k>> \in OpToRel(<, Nat))
  BY NatLessThanWellFounded, WFMin, Zenon
<1>2. k \in Nat /\ k # 0
  OBVIOUS
<1>3. k - 1 \in Nat /\ k - 1 < k
  BY <1>2
<1>4. k - 1 \notin missing
  BY <1>1, <1>3, <1>2, Zenon DEF OpToRel
<1> QED BY <1>2, <1>3, <1>4

(* A family that has in it every subset of S whose smaller subsets it has  *)
(* has them all, if S is finite.                                           *)
LEMMA AllSubsets ==
  ASSUME NEW S, IsFiniteSet(S), NEW F,
         \A s \in SUBSET S : (\A t \in SUBSET S : t \subseteq s /\ t # s => t \in F) => s \in F
  PROVE  SUBSET S \subseteq F
<1> DEFINE missing == (SUBSET S) \ F
<1> SUFFICES ASSUME missing # {} PROVE FALSE
  OBVIOUS
<1>1. missing \subseteq FiniteSubsetsOf(S)
  BY FS_Subset DEF FiniteSubsetsOf
<1>2. PICK s \in missing : \A t \in missing : ~(<<t, s>> \in StrictSubsetOrdering(S))
  <2>1. IsWellFoundedOn(StrictSubsetOrdering(S), FiniteSubsetsOf(S))
    BY FS_StrictSubsetOrderingWellFounded
  <2>2. \A R, U, T : IsWellFoundedOn(R, U) /\ T \subseteq U /\ T # {} =>
          \E s \in T : \A t \in T : ~(<<t, s>> \in R)
    BY WFMin, SMT
  <2> HIDE DEF missing
  <2> QED BY <1>1, <2>1, <2>2, SMT
<1>3. ASSUME NEW t \in SUBSET S, t \subseteq s, t # s PROVE t \in F
  BY <1>2, <1>3 DEF StrictSubsetOrdering
<1> QED BY <1>2, <1>3

-------------------------------------------------------------------------------
(* The partial sums.                                                       *)

Pick(s) == CHOOSE x \in s : TRUE

(* One step of the fold: from the sums of smaller sets to that of s.       *)
Step(g, f, s) == IF s = {} THEN 0 ELSE f[Pick(s)] + g[s \ {Pick(s)}]

(* g gives the sum of f over each subset of S.                             *)
PartialSums(g, f, S) == g = [s \in SUBSET S |-> Step(g, f, s)]

LEMMA SumByDefinition ==
  ASSUME NEW f, NEW S
  PROVE  SumFunctionOnSet(f, S) = (CHOOSE g : PartialSums(g, f, S))[S]
BY Zenon DEF SumFunctionOnSet, FoldFunctionOnSet, MapThenFoldSet, PartialSums, Step, Pick

(* The recursion is well founded on a finite set.                          *)
LEMMA PartialSumsExist ==
  ASSUME NEW f, NEW S, IsFiniteSet(S)
  PROVE  \E g : PartialSums(g, f, S)
<1> DEFINE Small(n)   == {s \in SUBSET S : Cardinality(s) <= n}
           Sums(g, n) == g = [s \in Small(n) |-> Step(g, f, s)]
           Sizes      == {n \in Nat : \E g : Sums(g, n)}
<1>1. \A T \in SUBSET S : IsFiniteSet(T) /\ Cardinality(T) \in Nat /\ Cardinality(T) <= Cardinality(S)
  BY FS_Subset, FS_CardinalityType
<1>2. \A T \in SUBSET S : T # {} => /\ Pick(T) \in T
                                    /\ T \ {Pick(T)} \in SUBSET S
                                    /\ Cardinality(T \ {Pick(T)}) = Cardinality(T) - 1
  BY <1>1, FS_RemoveElement DEF Pick
<1>3. 0 \in Sizes
  <2>1. Sums([s \in Small(0) |-> 0], 0)
    BY <1>1, FS_EmptySet DEF Step
  <2> QED BY <2>1
<1>4. ASSUME NEW n \in Nat, n \in Sizes PROVE n + 1 \in Sizes
  <2>1. PICK g : Sums(g, n)
    BY <1>4
  <2> DEFINE h == [s \in Small(n + 1) |-> Step(g, f, s)]
  <2>2. ASSUME NEW s \in Small(n + 1), s # {}
        PROVE  s \ {Pick(s)} \in Small(n)
    BY <1>1, <1>2, <2>2
  <2>3. ASSUME NEW t \in Small(n) PROVE h[t] = g[t]
    <3>1. t \in Small(n + 1)
      BY <1>1
    <3>2. g[t] = Step(g, f, t)
      BY <2>1
    <3> QED BY <3>1, <3>2
  <2>4. ASSUME NEW s \in Small(n + 1) PROVE Step(g, f, s) = Step(h, f, s)
    BY <2>2, <2>3 DEF Step
  <2>5. h = [s \in Small(n + 1) |-> Step(h, f, s)]
    <3>1. [s \in Small(n + 1) |-> Step(h, f, s)] = [s \in Small(n + 1) |-> Step(g, f, s)]
      BY <2>4, Zenon
    <3> QED BY <3>1, Zenon
  <2> HIDE DEF h
  <2>6. \E k : Sums(k, n + 1)
    BY <2>5
  <2>7. n + 1 \in Nat
    OBVIOUS
  <2> HIDE DEF Sums
  <2> QED BY <2>6, <2>7
<1>5. Nat \subseteq Sizes
  <2> HIDE DEF Sizes
  <2> QED BY <1>3, <1>4, SetOfAllNaturals
<1>6. PICK g : Sums(g, Cardinality(S))
  BY <1>1, <1>5
<1>7. Small(Cardinality(S)) = SUBSET S
  BY <1>1
<1> QED BY <1>6, <1>7 DEF PartialSums

(* The sums of a set and those of a larger one agree where both are given. *)
LEMMA PartialSumsAgree ==
  ASSUME NEW f, NEW S, IsFiniteSet(S), NEW T \in SUBSET S,
         NEW g, PartialSums(g, f, S), NEW h, PartialSums(h, f, T)
  PROVE  \A s \in SUBSET T : g[s] = h[s]
<1> DEFINE F == {s \in SUBSET T : g[s] = h[s]}
<1>1. ASSUME NEW s \in SUBSET T, \A t \in SUBSET T : t \subseteq s /\ t # s => t \in F
      PROVE  s \in F
  <2>1. g[s] = Step(g, f, s) /\ h[s] = Step(h, f, s)
    BY DEF PartialSums
  <2>2. s # {} => s \ {Pick(s)} \in F
    BY <1>1 DEF Pick
  <2> QED BY <2>1, <2>2 DEF Step
<1>2. IsFiniteSet(T)
  BY FS_Subset
<1>3. SUBSET T \subseteq F
  <2> HIDE DEF F
  <2> QED BY <1>1, <1>2, AllSubsets
<1> QED BY <1>3

(* The sum over a finite set and over all its subsets.                     *)
LEMMA SumIsPartialSum ==
  ASSUME NEW f, NEW S, IsFiniteSet(S), NEW g, PartialSums(g, f, S)
  PROVE  \A T \in SUBSET S : SumFunctionOnSet(f, T) = g[T]
<1> SUFFICES ASSUME NEW T \in SUBSET S PROVE SumFunctionOnSet(f, T) = g[T]
  OBVIOUS
<1> DEFINE h == CHOOSE k : PartialSums(k, f, T)
<1>1. PartialSums(h, f, T)
  <2>1. \E k : PartialSums(k, f, T)
    BY FS_Subset, PartialSumsExist
  <2> QED BY <2>1, Zenon
<1>2. SumFunctionOnSet(f, T) = h[T]
  BY SumByDefinition, Zenon
<1> HIDE DEF h
<1>3. g[T] = h[T]
  BY <1>1, PartialSumsAgree
<1> QED BY <1>2, <1>3

-------------------------------------------------------------------------------
(* Sums of integers.                                                       *)

LEMMA SumEmpty ==
  ASSUME NEW f
  PROVE  SumFunctionOnSet(f, {}) = 0
<1>1. IsFiniteSet({})
  BY FS_EmptySet
<1>2. PICK g : PartialSums(g, f, {})
  BY <1>1, PartialSumsExist
<1>3. SumFunctionOnSet(f, {}) = g[{}]
  BY <1>1, <1>2, SumIsPartialSum
<1> QED BY <1>2, <1>3 DEF PartialSums, Step

LEMMA SumInt ==
  ASSUME NEW S, IsFiniteSet(S), NEW f, \A x \in S : f[x] \in Int
  PROVE  SumFunctionOnSet(f, S) \in Int
<1>1. PICK g : PartialSums(g, f, S)
  BY PartialSumsExist
<1> DEFINE F == {s \in SUBSET S : g[s] \in Int}
<1>2. ASSUME NEW s \in SUBSET S, \A t \in SUBSET S : t \subseteq s /\ t # s => t \in F
      PROVE  s \in F
  <2>1. g[s] = Step(g, f, s)
    BY <1>1 DEF PartialSums
  <2>2. s # {} => s \ {Pick(s)} \in F /\ Pick(s) \in S
    BY <1>2 DEF Pick
  <2>3. s # {} => f[Pick(s)] \in Int /\ g[s \ {Pick(s)}] \in Int
    BY <2>2
  <2> QED BY <2>1, <2>3 DEF Step
<1>3. SUBSET S \subseteq F
  <2> HIDE DEF F
  <2> QED BY <1>2, AllSubsets
<1> QED BY <1>1, <1>3, SumIsPartialSum

(* The sum of all but one element, whichever that is.                      *)
LEMMA SumWithout ==
  ASSUME NEW S, IsFiniteSet(S), NEW f, \A x \in S : f[x] \in Int, NEW y \in S
  PROVE  SumFunctionOnSet(f, S) = f[y] + SumFunctionOnSet(f, S \ {y})
<1>1. PICK g : PartialSums(g, f, S)
  BY PartialSumsExist
<1>2. \A s \in SUBSET S : g[s] \in Int
  <2> SUFFICES ASSUME NEW s \in SUBSET S PROVE g[s] \in Int
    OBVIOUS
  <2>1. IsFiniteSet(s)
    BY FS_Subset
  <2>2. SumFunctionOnSet(f, s) \in Int
    BY <2>1, SumInt
  <2> QED BY <2>2, <1>1, SumIsPartialSum
<1> DEFINE F == {s \in SUBSET S : \A x \in s : g[s] = f[x] + g[s \ {x}]}
<1>3. ASSUME NEW s \in SUBSET S, \A t \in SUBSET S : t \subseteq s /\ t # s => t \in F
      PROVE  s \in F
  <2> SUFFICES ASSUME NEW x \in s PROVE g[s] = f[x] + g[s \ {x}]
    OBVIOUS
  <2> DEFINE c == Pick(s)
  <2>1. c \in s
    BY DEF Pick
  <2>2. g[s] = f[c] + g[s \ {c}]
    BY <1>1 DEF PartialSums, Step
  <2> HIDE DEF c
  <2>3. CASE x = c
    BY <2>2, <2>3
  <2>4. CASE x # c
    <3>1. s \ {c} \in F /\ x \in s \ {c} /\ s \ {x} \in F /\ c \in s \ {x}
      BY <1>3, <2>1, <2>4
    <3>2. (s \ {c}) \ {x} = (s \ {x}) \ {c}
      OBVIOUS
    <3>3. g[s \ {c}] = f[x] + g[(s \ {c}) \ {x}] /\ g[s \ {x}] = f[c] + g[(s \ {c}) \ {x}]
      BY <3>1, <3>2
    <3>4. f[x] \in Int /\ f[c] \in Int /\ g[(s \ {c}) \ {x}] \in Int
      BY <1>2, <2>1
    <3> QED BY <2>2, <3>3, <3>4
  <2> QED BY <2>3, <2>4
<1>4. S \in F
  <2> HIDE DEF F
  <2>1. SUBSET S \subseteq F
    BY <1>3, AllSubsets
  <2> QED BY <2>1
<1> QED BY <1>1, <1>4, SumIsPartialSum

(* The sum with one element more.                                          *)
LEMMA SumAdd ==
  ASSUME NEW S, IsFiniteSet(S), NEW y, y \notin S, NEW f, \A x \in S \cup {y} : f[x] \in Int
  PROVE  SumFunctionOnSet(f, S \cup {y}) = f[y] + SumFunctionOnSet(f, S)
<1>1. IsFiniteSet(S \cup {y})
  BY FS_AddElement
<1>2. (S \cup {y}) \ {y} = S
  OBVIOUS
<1>3. SumFunctionOnSet(f, S \cup {y}) = f[y] + SumFunctionOnSet(f, (S \cup {y}) \ {y})
  BY <1>1, SumWithout
<1> QED BY <1>2, <1>3

(* Summands that are the same add up to the same.                          *)
LEMMA SumSame ==
  ASSUME NEW S, IsFiniteSet(S), NEW f, NEW g, \A x \in S : f[x] \in Int /\ g[x] = f[x]
  PROVE  SumFunctionOnSet(g, S) = SumFunctionOnSet(f, S)
<1> DEFINE F == {s \in SUBSET S : SumFunctionOnSet(g, s) = SumFunctionOnSet(f, s)}
<1>1. ASSUME NEW s \in SUBSET S, \A t \in SUBSET S : t \subseteq s /\ t # s => t \in F
      PROVE  s \in F
  <2>1. CASE s = {}
    BY <2>1, SumEmpty
  <2>2. CASE s # {}
    <3>1. PICK x \in s : TRUE
      BY <2>2
    <3>2. s \ {x} \in F
      BY <1>1
    <3>3. IsFiniteSet(s)
      BY FS_Subset
    <3>4. SumFunctionOnSet(f, s) = f[x] + SumFunctionOnSet(f, s \ {x})
      BY <3>3, SumWithout
    <3>5. SumFunctionOnSet(g, s) = g[x] + SumFunctionOnSet(g, s \ {x})
      BY <3>3, SumWithout
    <3> QED BY <3>2, <3>4, <3>5
  <2> QED BY <2>1, <2>2
<1>2. SUBSET S \subseteq F
  <2> HIDE DEF F
  <2> QED BY <1>1, AllSubsets
<1> QED BY <1>2

(* The sum over two parts.                                                 *)
LEMMA SumParts ==
  ASSUME NEW S, IsFiniteSet(S), NEW T, IsFiniteSet(T), S \cap T = {},
         NEW f, \A x \in S \cup T : f[x] \in Int
  PROVE  SumFunctionOnSet(f, S \cup T) = SumFunctionOnSet(f, S) + SumFunctionOnSet(f, T)
<1> DEFINE F == {s \in SUBSET S :
                   SumFunctionOnSet(f, s \cup T) = SumFunctionOnSet(f, s) + SumFunctionOnSet(f, T)}
<1>1. SumFunctionOnSet(f, T) \in Int
  BY SumInt
<1>2. ASSUME NEW s \in SUBSET S, \A t \in SUBSET S : t \subseteq s /\ t # s => t \in F
      PROVE  s \in F
  <2>1. CASE s = {}
    <3>1. s \cup T = T
      BY <2>1
    <3> QED BY <1>1, <2>1, <3>1, SumEmpty
  <2>2. CASE s # {}
    <3>1. PICK x \in s : TRUE
      BY <2>2
    <3>2. s \ {x} \in F
      BY <1>2
    <3>3. IsFiniteSet(s) /\ IsFiniteSet(s \ {x}) /\ IsFiniteSet((s \ {x}) \cup T)
      BY FS_Subset, FS_Union
    <3>4. SumFunctionOnSet(f, s) = f[x] + SumFunctionOnSet(f, s \ {x})
      BY <3>3, SumWithout
    <3>5. SumFunctionOnSet(f, s \cup T) = f[x] + SumFunctionOnSet(f, (s \ {x}) \cup T)
      <4>1. x \notin (s \ {x}) \cup T /\ s \cup T = ((s \ {x}) \cup T) \cup {x}
        OBVIOUS
      <4> QED BY <3>3, <4>1, SumAdd
    <3>6. f[x] \in Int /\ SumFunctionOnSet(f, s \ {x}) \in Int
      BY <3>3, SumInt
    <3> QED BY <1>1, <3>2, <3>4, <3>5, <3>6
  <2> QED BY <2>1, <2>2
<1>3. SUBSET S \subseteq F
  <2> HIDE DEF F
  <2> QED BY <1>2, AllSubsets
<1> QED BY <1>3

(* Nothing but zeros adds up to zero.                                      *)
LEMMA SumZero ==
  ASSUME NEW S, IsFiniteSet(S), NEW f, \A x \in S : f[x] = 0
  PROVE  SumFunctionOnSet(f, S) = 0
<1> DEFINE F == {s \in SUBSET S : SumFunctionOnSet(f, s) = 0}
<1>1. ASSUME NEW s \in SUBSET S, \A t \in SUBSET S : t \subseteq s /\ t # s => t \in F
      PROVE  s \in F
  <2>1. CASE s = {}
    BY <2>1, SumEmpty
  <2>2. CASE s # {}
    <3>1. PICK x \in s : TRUE
      BY <2>2
    <3>2. s \ {x} \in F /\ IsFiniteSet(s)
      BY <1>1, FS_Subset
    <3>3. SumFunctionOnSet(f, s) = f[x] + SumFunctionOnSet(f, s \ {x})
      BY <3>2, SumWithout
    <3> QED BY <3>2, <3>3
  <2> QED BY <2>1, <2>2
<1>2. SUBSET S \subseteq F
  <2> HIDE DEF F
  <2> QED BY <1>1, AllSubsets
<1> QED BY <1>2

(* Elements that count for nothing may be left out.                        *)
LEMMA SumWithoutZeros ==
  ASSUME NEW S, IsFiniteSet(S), NEW T \in SUBSET S, NEW f,
         \A x \in S : f[x] \in Int, \A x \in S \ T : f[x] = 0
  PROVE  SumFunctionOnSet(f, S) = SumFunctionOnSet(f, T)
<1>1. IsFiniteSet(T) /\ IsFiniteSet(S \ T)
  BY FS_Subset
<1>2. SumFunctionOnSet(f, T \cup (S \ T)) = SumFunctionOnSet(f, T) + SumFunctionOnSet(f, S \ T)
  BY <1>1, SumParts
<1>3. SumFunctionOnSet(f, S \ T) = 0
  BY <1>1, SumZero
<1>4. SumFunctionOnSet(f, T) \in Int
  BY <1>1, SumInt
<1>5. SumFunctionOnSet(f, S) = SumFunctionOnSet(f, T) + SumFunctionOnSet(f, S \ T)
  <2>1. T \cup (S \ T) = S
    OBVIOUS
  <2> QED BY <1>2, <2>1, Zenon
<1> QED BY <1>3, <1>4, <1>5

(* What a single element counts for.                                       *)
LEMMA SumSingle ==
  ASSUME NEW S, IsFiniteSet(S), NEW y \in S, NEW f, f[y] \in Int, \A x \in S \ {y} : f[x] = 0
  PROVE  SumFunctionOnSet(f, S) = f[y]
<1>1. SumFunctionOnSet(f, S) = f[y] + SumFunctionOnSet(f, S \ {y})
  BY SumWithout
<1>2. SumFunctionOnSet(f, S \ {y}) = 0
  BY FS_Subset, SumZero
<1> QED BY <1>1, <1>2

(* One summand changes.                                                    *)
LEMMA SumChange ==
  ASSUME NEW S, IsFiniteSet(S), NEW y \in S, NEW f, NEW g,
         \A x \in S : f[x] \in Int /\ g[x] \in Int, \A x \in S \ {y} : g[x] = f[x]
  PROVE  SumFunctionOnSet(g, S) = SumFunctionOnSet(f, S) - f[y] + g[y]
<1>1. IsFiniteSet(S \ {y})
  BY FS_Subset
<1>2. SumFunctionOnSet(f, S) = f[y] + SumFunctionOnSet(f, S \ {y})
  BY SumWithout
<1>3. SumFunctionOnSet(g, S) = g[y] + SumFunctionOnSet(g, S \ {y})
  BY SumWithout
<1>4. SumFunctionOnSet(g, S \ {y}) = SumFunctionOnSet(f, S \ {y})
  BY <1>1, SumSame
<1>5. SumFunctionOnSet(f, S \ {y}) \in Int
  BY <1>1, SumInt
<1> QED BY <1>2, <1>3, <1>4, <1>5

(* Naturals add up to no less than any of them.                            *)
LEMMA SumNat ==
  ASSUME NEW S, IsFiniteSet(S), NEW f, \A x \in S : f[x] \in Nat
  PROVE  /\ SumFunctionOnSet(f, S) \in Nat
         /\ \A x \in S : f[x] <= SumFunctionOnSet(f, S)
<1> DEFINE F == {s \in SUBSET S : SumFunctionOnSet(f, s) \in Nat}
<1>1. ASSUME NEW s \in SUBSET S, \A t \in SUBSET S : t \subseteq s /\ t # s => t \in F
      PROVE  s \in F
  <2>1. CASE s = {}
    BY <2>1, SumEmpty
  <2>2. CASE s # {}
    <3>1. PICK x \in s : TRUE
      BY <2>2
    <3>2. s \ {x} \in F /\ IsFiniteSet(s)
      BY <1>1, FS_Subset
    <3>3. SumFunctionOnSet(f, s) = f[x] + SumFunctionOnSet(f, s \ {x})
      BY <3>2, SumWithout
    <3>4. f[x] \in Nat
      OBVIOUS
    <3> QED BY <3>2, <3>3, <3>4
  <2> QED BY <2>1, <2>2
<1>2. SUBSET S \subseteq F
  <2> HIDE DEF F
  <2> QED BY <1>1, AllSubsets
<1>3. ASSUME NEW x \in S PROVE f[x] <= SumFunctionOnSet(f, S)
  <2>1. SumFunctionOnSet(f, S) = f[x] + SumFunctionOnSet(f, S \ {x})
    BY SumWithout
  <2>2. SumFunctionOnSet(f, S \ {x}) \in Nat
    BY <1>2
  <2> QED BY <2>1, <2>2
<1> QED BY <1>2, <1>3

-------------------------------------------------------------------------------
(* Conversions.                                                            *)

(* A natural amount converts to a natural one.                             *)
LEMMA ConvertNat ==
  ASSUME NEW amount \in Nat, NEW rate \in Nat
  PROVE  Convert(amount, rate) \in Nat
<1>1. amount * rate \in Nat
  OBVIOUS
<1>2. ASSUME NEW n \in Nat PROVE RoundHalfUp(n, RateScale) \in Nat
  <2> DEFINE quotient == n \div RateScale
  <2>1. quotient \in Nat
    BY RateScaleAssumption
  <2>2. Magnitude(n) = n /\ ~(n < 0)
    BY DEF Magnitude
  <2>3. RoundHalfUp(n, RateScale) \in {quotient, quotient + 1}
    BY <2>2, Zenon DEF RoundHalfUp
  <2> QED BY <2>1, <2>3
<1> QED BY <1>1, <1>2 DEF Convert

(* Three summands.                                                         *)
LEMMA SumThree ==
  ASSUME NEW f, NEW S, NEW a \in S, NEW b \in S, NEW c \in S, a # b, a # c, b # c,
         \A x \in S : f[x] \in Int /\ (x = a \/ x = b \/ x = c)
  PROVE  SumFunctionOnSet(f, S) = f[a] + f[b] + f[c]
<1>1. IsFiniteSet({c}) /\ IsFiniteSet({c} \cup {b})
  BY FS_AddElement, FS_Singleton
<1>2. SumFunctionOnSet(f, {c}) = f[c]
  <2>1. \A x \in {c} \ {c} : f[x] = 0
    OBVIOUS
  <2> QED BY <1>1, <2>1, SumSingle
<1>3. SumFunctionOnSet(f, {c} \cup {b}) = f[b] + SumFunctionOnSet(f, {c})
  <2>1. b \notin {c} /\ \A x \in {c} \cup {b} : f[x] \in Int
    OBVIOUS
  <2> QED BY <1>1, <2>1, SumAdd
<1>4. SumFunctionOnSet(f, ({c} \cup {b}) \cup {a}) = f[a] + SumFunctionOnSet(f, {c} \cup {b})
  <2>1. a \notin {c} \cup {b} /\ \A x \in ({c} \cup {b}) \cup {a} : f[x] \in Int
    OBVIOUS
  <2> QED BY <1>1, <2>1, SumAdd
<1>5. S = ({c} \cup {b}) \cup {a}
  OBVIOUS
<1>6. SumFunctionOnSet(f, S) = SumFunctionOnSet(f, ({c} \cup {b}) \cup {a})
  BY <1>5, Zenon
<1>7. f[a] + (f[b] + f[c]) = f[a] + f[b] + f[c]
  OBVIOUS
<1> QED BY ONLY <1>2, <1>3, <1>4, <1>6, <1>7, Zenon

(* A list f of L summands becomes g: N, at most three, of d are appended,  *)
(* and M zeros.                                                            *)
Appended(g, f, d, L, N, M) ==
  /\ L \in Nat /\ N \in 0..3 /\ M \in Nat
  /\ \A n \in 1..(L + N + M) : g[n] \in Int
  /\ \A n \in 1..L : g[n] = f[n]
  /\ \A k \in 1..N : g[L + k] = d[k]
  /\ \A k \in 1..M : g[L + N + k] = 0

(* The positions in S: some old ones, those of K, and some of zeros.       *)
Chosen(S, old, K, zeros, L, N, M) ==
  /\ old \subseteq 1..L /\ K \subseteq 1..N /\ zeros \subseteq (L + N + 1)..(L + N + M)
  /\ S = (old \cup {L + k : k \in K}) \cup zeros

(* They add up to what the old ones do, and those of K.                    *)
LEMMA SumGrows ==
  ASSUME NEW L, NEW N, NEW M, NEW f, NEW g, NEW d, Appended(g, f, d, L, N, M),
         NEW S, NEW old, NEW K, NEW marks, Chosen(S, old, K, marks, L, N, M)
  PROVE  SumFunctionOnSet(g, S) =
           SumFunctionOnSet(f, old) + ((IF 1 \in K THEN d[1] ELSE 0)
                                        + (IF 2 \in K THEN d[2] ELSE 0)
                                        + (IF 3 \in K THEN d[3] ELSE 0))
<1> USE DEF Appended
<1>0. /\ old \subseteq 1..L /\ K \subseteq 1..N /\ marks \subseteq (L + N + 1)..(L + N + M)
      /\ S = (old \cup {L + k : k \in K}) \cup marks
  BY DEF Chosen
<1> DEFINE T(k) == IF k \in K THEN d[k] ELSE 0
           new  == {L + k : k \in K}
           all  == {L + 1, L + 2, L + 3}
           e    == [n \in all |-> T(n - L)]
<1>1. /\ old \subseteq 1..(L + N + M) /\ new \subseteq 1..(L + N + M)
      /\ marks \subseteq 1..(L + N + M)
      /\ old \cap new = {} /\ (old \cup new) \cap marks = {}
  <2>1. \A n \in old : n \in 1..(L + N + M) /\ n <= L
    BY <1>0
  <2>2. \A n \in new : n \in 1..(L + N + M) /\ ~(n <= L) /\ n <= L + N
    <3>1. \A k \in K : L + k \in 1..(L + N + M) /\ ~(L + k <= L) /\ L + k <= L + N
      BY <1>0
    <3> QED BY <3>1
  <2>3. \A n \in marks : n \in 1..(L + N + M) /\ ~(n <= L) /\ ~(n <= L + N)
    BY <1>0
  <2> HIDE DEF new
  <2> QED BY ONLY <2>1, <2>2, <2>3
<1>2. IsFiniteSet(old) /\ IsFiniteSet(new) /\ IsFiniteSet(marks) /\ IsFiniteSet(all)
  <2>1. all \subseteq (L + 1)..(L + 3)
    OBVIOUS
  <2>2. L + N + M \in Int /\ L + 1 \in Int /\ L + 3 \in Int /\ 1 \in Int
    OBVIOUS
  <2>3. IsFiniteSet(1..(L + N + M)) /\ IsFiniteSet((L + 1)..(L + 3))
    BY <2>2, FS_Interval
  <2> QED BY <1>1, <2>1, <2>3, FS_Subset
<1>3. \A k \in K : d[k] \in Int /\ g[L + k] = d[k] /\ k \in 1..3
  <2>1. \A k \in K : k \in 1..N /\ k \in 1..3 /\ L + k \in 1..(L + N + M)
    BY <1>0
  <2> QED BY <2>1
<1>4. \A n \in marks : g[n] = 0
  <2> SUFFICES ASSUME NEW n \in marks PROVE g[n] = 0
    OBVIOUS
  <2>1. n - L - N \in 1..M /\ n = L + N + (n - L - N)
    BY <1>0
  <2> QED BY <2>1
<1>5. T(1) \in Int /\ T(2) \in Int /\ T(3) \in Int
  BY <1>3
<1> HIDE DEF T
<1>6. e[L + 1] = T(1) /\ e[L + 2] = T(2) /\ e[L + 3] = T(3)
  <2>1. (L + 1) - L = 1 /\ (L + 2) - L = 2 /\ (L + 3) - L = 3
    OBVIOUS
  <2> QED BY <2>1
<1>7. new \subseteq all
  BY <1>3
<1>8. \A n \in new : g[n] \in Int /\ e[n] = g[n]
  <2> SUFFICES ASSUME NEW k \in K PROVE g[L + k] \in Int /\ e[L + k] = g[L + k]
    OBVIOUS
  <2>1. k = 1 \/ k = 2 \/ k = 3
    BY <1>3
  <2> QED BY <1>3, <1>6, <2>1 DEF T
<1>9. \A n \in all : e[n] \in Int
  BY <1>5, <1>6
<1>10. \A n \in all \ new : e[n] = 0
  <2> SUFFICES ASSUME NEW n \in all, n \notin new PROVE e[n] = 0
    OBVIOUS
  <2>1. n - L \notin K
    <3>1. L + (n - L) = n
      OBVIOUS
    <3> QED BY <3>1
  <2> QED BY <2>1 DEF T
<1> HIDE DEF new, all, e
<1>11. SumFunctionOnSet(g, new) = T(1) + T(2) + T(3)
  <2>1. SumFunctionOnSet(e, new) = SumFunctionOnSet(g, new)
    BY <1>2, <1>8, SumSame
  <2>2. SumFunctionOnSet(e, all) = SumFunctionOnSet(e, new)
    BY <1>2, <1>7, <1>9, <1>10, SumWithoutZeros
  <2>3. SumFunctionOnSet(e, all) = e[L + 1] + e[L + 2] + e[L + 3]
    <3>1. L + 1 # L + 2 /\ L + 1 # L + 3 /\ L + 2 # L + 3
      OBVIOUS
    <3>2. e[L + 1] \in Int /\ e[L + 2] \in Int /\ e[L + 3] \in Int
      BY <1>5, <1>6
    <3>3. /\ L + 1 \in all /\ L + 2 \in all /\ L + 3 \in all
          /\ \A n \in all : e[n] \in Int /\ (n = L + 1 \/ n = L + 2 \/ n = L + 3)
      BY <3>2 DEF all
    <3> QED BY <3>1, <3>3, SumThree
  <2> QED BY <1>6, <2>1, <2>2, <2>3
<1>12. SumFunctionOnSet(g, marks) = 0
  BY <1>2, <1>4, SumZero
<1>13. SumFunctionOnSet(f, old) = SumFunctionOnSet(g, old)
  <2>1. \A n \in old : g[n] \in Int /\ f[n] = g[n]
    BY <1>0, <1>1
  <2> QED BY <1>2, <2>1, SumSame
<1>14. SumFunctionOnSet(g, old \cup new) = SumFunctionOnSet(g, old) + SumFunctionOnSet(g, new)
  <2>1. \A n \in old \cup new : g[n] \in Int
    BY <1>1
  <2> QED BY <1>1, <1>2, <2>1, SumParts
<1>15. SumFunctionOnSet(g, (old \cup new) \cup marks) =
         SumFunctionOnSet(g, old \cup new) + SumFunctionOnSet(g, marks)
  <2>1. \A n \in (old \cup new) \cup marks : g[n] \in Int
    BY <1>1
  <2>2. IsFiniteSet(old \cup new)
    BY <1>2, FS_Union
  <2> QED BY <1>1, <1>2, <2>1, <2>2, SumParts
<1>16. SumFunctionOnSet(g, old) \in Int
  <2>1. \A n \in old : g[n] \in Int
    BY <1>1
  <2> QED BY <1>2, <2>1, SumInt
<1>17. SumFunctionOnSet(g, (old \cup new) \cup marks) =
         SumFunctionOnSet(f, old) + (T(1) + T(2) + T(3))
  BY <1>5, <1>11, <1>12, <1>13, <1>14, <1>15, <1>16
<1> QED BY <1>0, <1>17 DEF new, T

-------------------------------------------------------------------------------
(* Verdicts.                                                               *)

(* A non-empty set of check numbers has a first one.                       *)
LEMMA FirstExists ==
  ASSUME NEW T, T \subseteq Nat, T # {}
  PROVE  \E k \in T : \A j \in T : k <= j
<1>1. PICK k \in T : \A j \in T : ~(<<j, k>> \in OpToRel(<, Nat))
  BY NatLessThanWellFounded, WFMin
<1>2. ASSUME NEW j \in T PROVE k <= j
  <2>1. ~(j < k)
    BY <1>1, Zenon DEF OpToRel
  <2> QED BY <2>1
<1> QED BY <1>2

(* A policy that accepts has found no check failing.                       *)
LEMMA VerdictAccepted ==
  ASSUME NEW checks, DOMAIN checks \subseteq Nat, Verdict(checks) = Accepted
  PROVE  \A k \in DOMAIN checks : checks[k] = Accepted
<1> DEFINE failed == {k \in DOMAIN checks : checks[k] # Accepted}
<1>1. SUFFICES ASSUME failed # {} PROVE FALSE
  BY Zenon
<1>2. \E k \in failed : \A j \in failed : k <= j
  <2>1. failed \subseteq Nat
    BY Zenon
  <2> HIDE DEF failed
  <2> QED BY <1>1, <2>1, FirstExists
<1> DEFINE first == CHOOSE k \in failed : \A j \in failed : k <= j
<1>3. first \in failed
  BY <1>2, Zenon
<1>4. Verdict(checks) = checks[first]
  BY <1>1, Zenon DEF Verdict
<1> QED BY <1>3, <1>4, Zenon

(* An accepted release is of a part of the invoice, and gives something    *)
(* back.                                                                   *)
LEMMA ReleaseAccepted ==
  ASSUME NEW row, NEW currency, NEW amount, ReleaseVerdict(row, currency, amount) = Accepted
  PROVE  /\ ~(amount <= 0) /\ ~(amount > row.outstandingInvoice)
         /\ ~(ReleaseDelta(row, amount) < 0) /\ ReleaseDelta(row, amount) # 0
         /\ row.status \notin TerminalStatuses
<1> DEFINE checks ==
             <<Check(amount <= 0, "INVALID_AMOUNT"),
               Check(currency # row.currency, "CURRENCY_MISMATCH"),
               Check(row.status \in TerminalStatuses, "RESERVATION_TERMINAL"),
               Check(amount > row.outstandingInvoice, "RELEASE_EXCEEDS_RESERVED"),
               Check(RoundsToZero(amount, row.rate), "AMOUNT_ROUNDS_TO_ZERO"),
               Check(ReleaseDelta(row, amount) < 0, "RELEASE_EXCEEDS_RESERVED"),
               Check(ReleaseDelta(row, amount) = 0, "AMOUNT_ROUNDS_TO_ZERO")>>
<1>1. Verdict(checks) = Accepted
  BY Zenon DEF ReleaseVerdict
<1>2. /\ DOMAIN checks = 1..7
      /\ checks[1] = Check(amount <= 0, "INVALID_AMOUNT")
      /\ checks[3] = Check(row.status \in TerminalStatuses, "RESERVATION_TERMINAL")
      /\ checks[4] = Check(amount > row.outstandingInvoice, "RELEASE_EXCEEDS_RESERVED")
      /\ checks[6] = Check(ReleaseDelta(row, amount) < 0, "RELEASE_EXCEEDS_RESERVED")
      /\ checks[7] = Check(ReleaseDelta(row, amount) = 0, "AMOUNT_ROUNDS_TO_ZERO")
  OBVIOUS
<1> HIDE DEF checks
<1>3. /\ Check(amount <= 0, "INVALID_AMOUNT") = Accepted
      /\ Check(row.status \in TerminalStatuses, "RESERVATION_TERMINAL") = Accepted
      /\ Check(amount > row.outstandingInvoice, "RELEASE_EXCEEDS_RESERVED") = Accepted
      /\ Check(ReleaseDelta(row, amount) < 0, "RELEASE_EXCEEDS_RESERVED") = Accepted
      /\ Check(ReleaseDelta(row, amount) = 0, "AMOUNT_ROUNDS_TO_ZERO") = Accepted
  BY <1>1, <1>2, VerdictAccepted
<1> QED BY <1>3 DEF Check, Accepted

(* And such a release of a live reservation is accepted.                   *)
LEMMA ReleaseAccepts ==
  ASSUME NEW row, NEW amount,
         ~(amount <= 0), ~(amount > row.outstandingInvoice),
         row.status \notin TerminalStatuses, ~RoundsToZero(amount, row.rate),
         ~(ReleaseDelta(row, amount) < 0), ReleaseDelta(row, amount) # 0
  PROVE  ReleaseVerdict(row, row.currency, amount) = Accepted
<1> DEFINE checks ==
             <<Check(amount <= 0, "INVALID_AMOUNT"),
               Check(row.currency # row.currency, "CURRENCY_MISMATCH"),
               Check(row.status \in TerminalStatuses, "RESERVATION_TERMINAL"),
               Check(amount > row.outstandingInvoice, "RELEASE_EXCEEDS_RESERVED"),
               Check(RoundsToZero(amount, row.rate), "AMOUNT_ROUNDS_TO_ZERO"),
               Check(ReleaseDelta(row, amount) < 0, "RELEASE_EXCEEDS_RESERVED"),
               Check(ReleaseDelta(row, amount) = 0, "AMOUNT_ROUNDS_TO_ZERO")>>
<1>1. checks = <<Accepted, Accepted, Accepted, Accepted, Accepted, Accepted, Accepted>>
  BY Zenon DEF Check
<1>2. \A k \in DOMAIN checks : checks[k] = Accepted
  BY <1>1
<1> HIDE DEF checks
<1>3. Verdict(checks) = Accepted
  BY <1>2, Zenon DEF Verdict
<1> QED BY <1>3, Zenon DEF ReleaseVerdict, checks

(* Only a live reservation is cancelled.                                   *)
LEMMA CancelAccepted ==
  ASSUME NEW row, CancelVerdict(row) = Accepted
  PROVE  row.status \notin TerminalStatuses
<1> DEFINE checks == <<Check(row.status \in TerminalStatuses, "RESERVATION_TERMINAL")>>
<1>1. Verdict(checks) = Accepted
  BY Zenon DEF CancelVerdict
<1>2. DOMAIN checks = 1..1 /\ checks[1] = Check(row.status \in TerminalStatuses, "RESERVATION_TERMINAL")
  OBVIOUS
<1> HIDE DEF checks
<1>3. Check(row.status \in TerminalStatuses, "RESERVATION_TERMINAL") = Accepted
  BY <1>1, <1>2, VerdictAccepted
<1> QED BY <1>3 DEF Check, Accepted
==================================================================================

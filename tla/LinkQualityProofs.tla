-------------------------- MODULE LinkQualityProofs --------------------------
(***************************************************************************)
(* The figures that update_peer publishes are those of the windows they    *)
(* are shown with, and no window outgrows link_history_window; over a      *)
(* network that does not reorder, the loss shown is the loss that          *)
(* happened, or less after a reboot, and the loss window is flushed by a   *)
(* reboot of the peer and by nothing else.  All this for any window,       *)
(* delays and bounds.                                                      *)
(*                                                                         *)
(* The sums are the folds of the community modules.  What they amount to   *)
(* is shown by induction, stated over a set of the things that have the    *)
(* property, by the well-foundedness of the numbers and of the subsets of  *)
(* a finite set.                                                           *)
(***************************************************************************)
EXTENDS LinkQuality, SequenceTheorems, FiniteSetTheorems, WellFoundedInduction, TLAPS

(* Sets of subsets of a finite set, and sets of numbers, have least elements. *)
LEMMA SmallestSubset ==
    ASSUME NEW S, IsFiniteSet(S), NEW B \in SUBSET (SUBSET S), B # {}
    PROVE  \E T \in B : \A U \in SUBSET T : U # T => U \notin B
<1>1. FiniteSubsetsOf(S) = SUBSET S
  BY FS_FiniteSubsetsOfFinite
<1>2. IsWellFoundedOn(StrictSubsetOrdering(S), SUBSET S)
  BY <1>1, FS_StrictSubsetOrderingWellFounded
<1>3. PICK T \in B : \A U \in B : ~ (<<U, T>> \in StrictSubsetOrdering(S))
  BY <1>2, WFMin, Zenon
<1>4. ASSUME NEW U \in SUBSET T, U # T, U \in B
      PROVE  FALSE
  BY <1>3, <1>4 DEF StrictSubsetOrdering
<1> QED
  BY <1>3, <1>4

(* Strong induction over the subsets of a finite set, for those in Good. *)
LEMMA SubsetInduction ==
    ASSUME NEW S, IsFiniteSet(S), NEW Good,
           \A s \in SUBSET S : (\A t \in SUBSET s : t # s => t \in Good) => s \in Good
    PROVE  SUBSET S \subseteq Good
<1> DEFINE B == (SUBSET S) \ Good
<1> SUFFICES ASSUME B # {}
             PROVE  FALSE
  OBVIOUS
<1>1. B \in SUBSET (SUBSET S)
  OBVIOUS
<1>2. PICK s \in B : \A t \in SUBSET s : t # s => t \notin B
  <2> HIDE DEF B
  <2> QED
    BY <1>1, SmallestSubset, Zenon
<1> QED
  BY <1>2

LEMMA SmallestNumber ==
    ASSUME NEW B \in SUBSET Nat, B # {}
    PROVE  \E n \in B : \A m \in B : n <= m
<1>1. PICK n \in B : \A m \in B : ~ (<<m, n>> \in OpToRel(<, Nat))
  BY NatLessThanWellFounded, WFMin, Zenon
<1>2. \A m \in B : ~ (m < n)
  BY <1>1 DEF OpToRel
<1> QED
  BY <1>2

(* SumFunctionOnSet takes the elements one by one, in the order of Pick: it   *)
(* is the value of a recursive function, chosen because it satisfies its      *)
(* equation.  There is one, and it does not depend on the set it is chosen    *)
(* for.                                                                       *)
Pick(s) == CHOOSE x \in s : TRUE

Folds(g, f, S) == g = [s \in SUBSET S |-> IF s = {} THEN 0 ELSE f[Pick(s)] + g[s \ {Pick(s)}]]

Fold(f, S) == CHOOSE g : Folds(g, f, S)

LEMMA SumIsFold == ASSUME NEW f, NEW S PROVE SumFunctionOnSet(f, S) = Fold(f, S)[S]
  BY DEF SumFunctionOnSet, FoldFunctionOnSet, MapThenFoldSet, Fold, Folds, Pick

LEMMA FoldsAgree ==
    ASSUME NEW f, NEW S, IsFiniteSet(S), NEW T, S \subseteq T, NEW g, NEW h,
           Folds(g, f, S), Folds(h, f, T)
    PROVE  \A s \in SUBSET S : g[s] = h[s]
<1> DEFINE Good == {s \in SUBSET S : g[s] = h[s]}
<1>1. ASSUME NEW s \in SUBSET S, \A t \in SUBSET s : t # s => t \in Good
      PROVE  s \in Good
  <2>1. /\ g[s] = IF s = {} THEN 0 ELSE f[Pick(s)] + g[s \ {Pick(s)}]
        /\ h[s] = IF s = {} THEN 0 ELSE f[Pick(s)] + h[s \ {Pick(s)}]
    BY DEF Folds
  <2>2. CASE s # {}
    <3>1. Pick(s) \in s
      BY <2>2 DEF Pick
    <3>2. g[s \ {Pick(s)}] = h[s \ {Pick(s)}]
      BY <1>1, <3>1
    <3> QED
      BY <2>1, <2>2, <3>2
  <2> QED
    BY <2>1, <2>2
<1>2. SUBSET S \subseteq Good
  <2> HIDE DEF Good
  <2> QED
    BY <1>1, SubsetInduction, Zenon
<1> QED
  BY <1>2

LEMMA FoldExists ==
    ASSUME NEW f, NEW S, IsFiniteSet(S)
    PROVE  \A s \in SUBSET S : Folds(Fold(f, s), f, s)
<1> DEFINE Good == {s \in SUBSET S : Folds(Fold(f, s), f, s)}
<1>1. SUFFICES ASSUME NEW s \in SUBSET S, \A t \in SUBSET s : t # s => t \in Good
               PROVE  s \in Good
  <2> HIDE DEF Good
  <2>1. SUBSET S \subseteq Good
    BY <1>1, SubsetInduction, Zenon
  <2> QED
    BY <2>1 DEF Good
<1>2. \A t \in SUBSET s : t # s => Folds(Fold(f, t), f, t)
  BY <1>1
<1>3. IsFiniteSet(s)
  BY FS_Subset
<1> DEFINE rest == s \ {Pick(s)}
           g == [t \in SUBSET s |->
                    IF t # s THEN Fold(f, t)[t]
                    ELSE IF s = {} THEN 0 ELSE f[Pick(s)] + Fold(f, rest)[rest]]
<1>4. ASSUME NEW t \in SUBSET s, t # {}
      PROVE  g[t] = f[Pick(t)] + g[t \ {Pick(t)}]
  <2>1. Pick(t) \in t
    BY <1>4 DEF Pick
  <2>2. t \ {Pick(t)} \in SUBSET s /\ t \ {Pick(t)} # s /\ t \ {Pick(t)} # t
    BY <2>1
  <2>3. g[t \ {Pick(t)}] = Fold(f, t \ {Pick(t)})[t \ {Pick(t)}]
    BY <2>2
  <2>4. CASE t = s
    BY <1>4, <2>3, <2>4
  <2>5. CASE t # s
    <3>1. Folds(Fold(f, t), f, t) /\ Folds(Fold(f, t \ {Pick(t)}), f, t \ {Pick(t)})
      BY <1>2, <2>2, <2>5
    <3>2. Fold(f, t)[t] = f[Pick(t)] + Fold(f, t)[t \ {Pick(t)}]
      BY <1>4, <3>1 DEF Folds
    <3>3. IsFiniteSet(t \ {Pick(t)})
      BY <1>3, <2>2, FS_Subset
    <3>4. \A u \in SUBSET (t \ {Pick(t)}) : Fold(f, t \ {Pick(t)})[u] = Fold(f, t)[u]
      BY <3>1, <3>3, FoldsAgree
    <3>5. g[t] = Fold(f, t)[t]
      BY <2>5
    <3> QED
      BY <2>3, <3>2, <3>4, <3>5
  <2> QED
    BY <2>4, <2>5
<1>5. g[{}] = 0
  <2>1. CASE s = {}
    BY <2>1
  <2>2. CASE s # {}
    <3>1. Folds(Fold(f, {}), f, {})
      BY <1>2, <2>2
    <3>2. Fold(f, {})[{}] = 0
      BY <3>1 DEF Folds
    <3> QED
      BY <2>2, <3>2
  <2> QED
    BY <2>1, <2>2
<1>6. g = [t \in SUBSET s |-> g[t]]
  OBVIOUS
<1>7. Folds(g, f, s)
  <2>1. \A t \in SUBSET s : g[t] = IF t = {} THEN 0 ELSE f[Pick(t)] + g[t \ {Pick(t)}]
    BY <1>4, <1>5
  <2> HIDE DEF g
  <2> QED
    BY <1>6, <2>1 DEF Folds
<1>8. Folds(Fold(f, s), f, s)
  BY <1>7 DEF Fold
<1> QED
  BY <1>8

LEMMA FoldOfPart ==
    ASSUME NEW f, NEW S, IsFiniteSet(S), NEW R \in SUBSET S
    PROVE  Fold(f, R)[R] = Fold(f, S)[R]
<1>1. IsFiniteSet(R) /\ R \subseteq S
  BY FS_Subset
<1>2. Folds(Fold(f, R), f, R) /\ Folds(Fold(f, S), f, S)
  BY FoldExists
<1> DEFINE g == Fold(f, R)
           h == Fold(f, S)
<1>3. Folds(g, f, R) /\ Folds(h, f, S)
  BY <1>2
<1> HIDE DEF g, h
<1>4. \A s \in SUBSET R : g[s] = h[s]
  BY <1>1, <1>3, FoldsAgree
<1>5. g[R] = h[R]
  BY <1>4
<1> QED
  BY <1>5 DEF g, h

(* The sum over a set is that of its picked element and the rest. *)
LEMMA SumUnfolds ==
    ASSUME NEW f, NEW S, IsFiniteSet(S)
    PROVE  /\ SumFunctionOnSet(f, {}) = 0
           /\ S # {} => SumFunctionOnSet(f, S) = f[Pick(S)] + SumFunctionOnSet(f, S \ {Pick(S)})
<1>1. Folds(Fold(f, S), f, S) /\ Folds(Fold(f, {}), f, {})
  BY FoldExists
<1>2. SumFunctionOnSet(f, {}) = 0
  BY <1>1, SumIsFold DEF Folds
<1>3. ASSUME S # {}
      PROVE  SumFunctionOnSet(f, S) = f[Pick(S)] + SumFunctionOnSet(f, S \ {Pick(S)})
  <2> DEFINE R == S \ {Pick(S)}
  <2>2. Fold(f, R)[R] = Fold(f, S)[R]
    BY FoldOfPart
  <2>3. Fold(f, S)[S] = f[Pick(S)] + Fold(f, S)[R]
    BY <1>1, <1>3 DEF Folds
  <2> QED
    BY <2>2, <2>3, SumIsFold
<1> QED
  BY <1>2, <1>3

(* ... and any element may be taken first. *)
LEMMA SumTakesAny ==
    ASSUME NEW S, IsFiniteSet(S), NEW f, \A x \in S : f[x] \in Int
    PROVE  \A s \in SUBSET S :
              /\ SumFunctionOnSet(f, s) \in Int
              /\ \A x \in s : SumFunctionOnSet(f, s) = f[x] + SumFunctionOnSet(f, s \ {x})
<1> DEFINE Sum(s) == SumFunctionOnSet(f, s)
           Good == {s \in SUBSET S :
                      Sum(s) \in Int /\ \A x \in s : Sum(s) = f[x] + Sum(s \ {x})}
<1>1. \A s \in SUBSET S : IsFiniteSet(s)
  BY FS_Subset
<1>2. \A s \in SUBSET S : s # {} => Pick(s) \in s /\ Sum(s) = f[Pick(s)] + Sum(s \ {Pick(s)})
  BY <1>1, SumUnfolds DEF Pick
<1>3. Sum({}) = 0
  BY SumUnfolds
<1> HIDE DEF Sum
<1>4. ASSUME NEW s \in SUBSET S, \A t \in SUBSET s : t # s => t \in Good
      PROVE  s \in Good
  <2>1. CASE s = {}
    BY <1>3, <2>1
  <2>2. CASE s # {}
    <3> DEFINE c == Pick(s)
    <3>1. c \in s /\ Sum(s) = f[c] + Sum(s \ {c})
      BY <1>2, <2>2
    <3>2. s \ {c} \in Good /\ f[c] \in Int
      BY <1>4, <3>1
    <3> HIDE DEF c
    <3>3. ASSUME NEW x \in s, x # c
          PROVE  Sum(s) = f[x] + Sum(s \ {x})
      <4>1. s \ {x} \in Good /\ f[x] \in Int
        BY <1>4, <3>3
      <4>2. (s \ {x}) \ {c} \in Good /\ (s \ {c}) \ {x} = (s \ {x}) \ {c}
        BY <1>4, <3>1, <3>3
      <4>3. Sum(s \ {c}) = f[x] + Sum((s \ {x}) \ {c})
        BY <3>2, <3>3, <4>2
      <4>4. Sum(s \ {x}) = f[c] + Sum((s \ {x}) \ {c})
        BY <3>1, <3>3, <4>1
      <4>5. Sum((s \ {x}) \ {c}) \in Int
        BY <4>2
      <4> QED
        BY <3>1, <3>2, <4>1, <4>3, <4>4, <4>5
    <3> QED
      BY <3>1, <3>2, <3>3
  <2> QED
    BY <2>1, <2>2
<1>5. SUBSET S \subseteq Good
  <2> HIDE DEF Good
  <2> QED
    BY <1>4, SubsetInduction, Zenon
<1> QED
  BY <1>5 DEF Sum

(* A property of sums that every element preserves holds of every sum. *)
LEMMA SumInduction ==
    ASSUME NEW S, IsFiniteSet(S), NEW Good, {} \in Good,
           \A s \in SUBSET S : \A x \in s : s \ {x} \in Good => s \in Good
    PROVE  S \in Good
<1>1. ASSUME NEW s \in SUBSET S, \A t \in SUBSET s : t # s => t \in Good
      PROVE  s \in Good
  <2>1. CASE s # {}
    <3>1. PICK x \in s : TRUE
      BY <2>1
    <3>2. s \ {x} \in SUBSET s /\ s \ {x} # s
      BY <3>1
    <3> QED
      BY <1>1, <3>1, <3>2
  <2> QED
    BY <2>1
<1> QED
  BY <1>1, SubsetInduction, Zenon

LEMMA OneLess ==
    ASSUME NEW S, IsFiniteSet(S), NEW s \in SUBSET S, NEW x \in s
    PROVE  \E n \in Nat : Cardinality(s \ {x}) = n /\ Cardinality(s) = n + 1
<1>1. IsFiniteSet(s)
  BY FS_Subset
<1>2. IsFiniteSet(s \ {x}) /\ Cardinality(s \ {x}) = Cardinality(s) - 1
  BY <1>1, FS_RemoveElement
<1> QED
  BY <1>1, <1>2, FS_CardinalityType

LEMMA Distributes == ASSUME NEW a \in Int, NEW n \in Nat PROVE a * (n + 1) = a * n + a /\ a * n \in Int
  OBVIOUS

(* Sums of functions that differ by a constant. *)
LEMMA SumOfShifted ==
    ASSUME NEW S, IsFiniteSet(S), NEW f, NEW g, NEW d \in Int,
           \A x \in S : f[x] \in Int /\ g[x] = f[x] + d
    PROVE  SumFunctionOnSet(g, S) = SumFunctionOnSet(f, S) + d * Cardinality(S)
<1> DEFINE Good == {s \in SUBSET S :
                      SumFunctionOnSet(g, s) = SumFunctionOnSet(f, s) + d * Cardinality(s)}
<1>1. {} \in Good
  <2>1. SumFunctionOnSet(f, {}) = 0 /\ SumFunctionOnSet(g, {}) = 0
    BY SumUnfolds
  <2>2. Cardinality({}) = 0
    BY FS_EmptySet
  <2> QED
    BY <2>1, <2>2
<1>2. ASSUME NEW s \in SUBSET S, NEW x \in s, s \ {x} \in Good
      PROVE  s \in Good
  <2>1. PICK n \in Nat : Cardinality(s \ {x}) = n /\ Cardinality(s) = n + 1
    BY OneLess
  <2>2. f[x] \in Int /\ g[x] = f[x] + d /\ \A y \in S : f[y] \in Int /\ g[y] \in Int
    OBVIOUS
  <2>3. /\ SumFunctionOnSet(f, s) = f[x] + SumFunctionOnSet(f, s \ {x})
        /\ SumFunctionOnSet(f, s \ {x}) \in Int
    BY <2>2, SumTakesAny
  <2>4. SumFunctionOnSet(g, s) = g[x] + SumFunctionOnSet(g, s \ {x})
    BY <2>2, SumTakesAny
  <2>5. SumFunctionOnSet(g, s \ {x}) = SumFunctionOnSet(f, s \ {x}) + d * n
    BY <1>2, <2>1
  <2>6. SumFunctionOnSet(g, s) = SumFunctionOnSet(f, s) + d * (n + 1)
    BY <2>2, <2>3, <2>4, <2>5, Distributes
  <2> QED
    BY <2>1, <2>6
<1>3. S \in Good
  <2> HIDE DEF Good
  <2> QED
    BY <1>1, <1>2, SumInduction, Zenon
<1> QED
  BY <1>3

LEMMA SumOfEqual ==
    ASSUME NEW S, IsFiniteSet(S), NEW f, NEW g, \A x \in S : f[x] \in Int /\ g[x] = f[x]
    PROVE  SumFunctionOnSet(g, S) = SumFunctionOnSet(f, S)
<1>1. SumFunctionOnSet(g, S) = SumFunctionOnSet(f, S) + 0 * Cardinality(S)
  BY SumOfShifted
<1>2. SumFunctionOnSet(f, S) \in Int /\ Cardinality(S) \in Nat
  BY SumTakesAny, FS_CardinalityType
<1> QED
  BY <1>1, <1>2

(* A sum of terms that are bounded. *)
LEMMA SumIsBounded ==
    ASSUME NEW S, IsFiniteSet(S), NEW f, NEW low \in Int, NEW high \in Int,
           \A x \in S : f[x] \in Int /\ low <= f[x] /\ f[x] <= high
    PROVE  /\ low * Cardinality(S) <= SumFunctionOnSet(f, S)
           /\ SumFunctionOnSet(f, S) <= high * Cardinality(S)
<1> DEFINE Good == {s \in SUBSET S : /\ low * Cardinality(s) <= SumFunctionOnSet(f, s)
                                     /\ SumFunctionOnSet(f, s) <= high * Cardinality(s)}
<1>1. {} \in Good
  <2>1. SumFunctionOnSet(f, {}) = 0
    BY SumUnfolds
  <2>2. Cardinality({}) = 0
    BY FS_EmptySet
  <2> QED
    BY <2>1, <2>2
<1>2. ASSUME NEW s \in SUBSET S, NEW x \in s, s \ {x} \in Good
      PROVE  s \in Good
  <2>1. PICK n \in Nat : Cardinality(s \ {x}) = n /\ Cardinality(s) = n + 1
    BY OneLess
  <2>2. f[x] \in Int /\ low <= f[x] /\ f[x] <= high
    OBVIOUS
  <2>3. /\ SumFunctionOnSet(f, s) = f[x] + SumFunctionOnSet(f, s \ {x})
        /\ SumFunctionOnSet(f, s \ {x}) \in Int
    BY SumTakesAny
  <2>4. /\ low * n <= SumFunctionOnSet(f, s \ {x})
        /\ SumFunctionOnSet(f, s \ {x}) <= high * n
    BY <1>2, <2>1
  <2>5. low * (n + 1) = low * n + low /\ low * n \in Int
    BY Distributes
  <2>6. high * (n + 1) = high * n + high /\ high * n \in Int
    BY Distributes
  <2>7. low * (n + 1) <= SumFunctionOnSet(f, s) /\ SumFunctionOnSet(f, s) <= high * (n + 1)
    BY <2>2, <2>3, <2>4, <2>5, <2>6
  <2> QED
    BY <2>1, <2>7
<1>3. S \in Good
  <2> HIDE DEF Good
  <2> QED
    BY <1>1, <1>2, SumInduction, Zenon
<1> QED
  BY <1>3

(* A sum of naturals is no less than any of them, and zero only if all are. *)
LEMMA SumOfNaturals ==
    ASSUME NEW S, IsFiniteSet(S), NEW f, \A x \in S : f[x] \in Nat
    PROVE  /\ SumFunctionOnSet(f, S) \in Nat
           /\ \A x \in S : f[x] <= SumFunctionOnSet(f, S)
           /\ SumFunctionOnSet(f, S) = 0 <=> \A x \in S : f[x] = 0
<1> DEFINE Good == {s \in SUBSET S : SumFunctionOnSet(f, s) \in Nat}
<1>1. \A s \in SUBSET S : \A x \in s :
         /\ SumFunctionOnSet(f, s) = f[x] + SumFunctionOnSet(f, s \ {x})
         /\ f[x] \in Nat
  <2> SUFFICES ASSUME NEW s \in SUBSET S, NEW x \in s
               PROVE  /\ SumFunctionOnSet(f, s) = f[x] + SumFunctionOnSet(f, s \ {x})
                      /\ f[x] \in Nat
    OBVIOUS
  <2>1. \A y \in S : f[y] \in Int
    OBVIOUS
  <2>2. SumFunctionOnSet(f, s) = f[x] + SumFunctionOnSet(f, s \ {x})
    BY <2>1, SumTakesAny
  <2> QED
    BY <2>2
<1>2. SumFunctionOnSet(f, {}) = 0
  BY SumUnfolds
<1>3. \A s \in SUBSET S : SumFunctionOnSet(f, s) \in Nat
  <2>1. ASSUME NEW R \in SUBSET S
        PROVE  R \in Good
    <3>1. IsFiniteSet(R) /\ {} \in Good
      BY <1>2, FS_Subset
    <3>2. ASSUME NEW s \in SUBSET R, NEW x \in s, s \ {x} \in Good
          PROVE  s \in Good
      BY <1>1, <3>2
    <3> HIDE DEF Good
    <3> QED
      BY <3>1, <3>2, SumInduction, Zenon
  <2> QED
    BY <2>1
<1>4. ASSUME NEW x \in S
      PROVE  f[x] <= SumFunctionOnSet(f, S)
  <2>1. SumFunctionOnSet(f, S \ {x}) \in Nat
    BY <1>3
  <2> QED
    BY <1>1, <2>1
<1>5. ASSUME \A x \in S : f[x] = 0
      PROVE  SumFunctionOnSet(f, S) = 0
  <2>1. \A x \in S : f[x] \in Int /\ 0 <= f[x] /\ f[x] <= 0
    BY <1>5
  <2>2. SumFunctionOnSet(f, S) <= 0 * Cardinality(S)
    BY <2>1, SumIsBounded
  <2> QED
    BY <1>3, <2>2, FS_CardinalityType
<1>6. ASSUME SumFunctionOnSet(f, S) = 0, NEW x \in S
      PROVE  f[x] = 0
  BY <1>4, <1>6
<1> QED
  BY <1>3, <1>4, <1>5, <1>6

LEMMA SumOfEmpty == \A f : SumFunctionOnSet(f, {}) = 0
<1> TAKE f
<1>1. IsFiniteSet({})
  BY FS_EmptySet
<1> QED
  BY <1>1, SumUnfolds

(* A sum over an interval, taken apart at its end. *)
LEMMA SumToLast ==
    ASSUME NEW f, NEW a \in Nat, NEW b \in Nat, a <= b, \A i \in a..b : f[i] \in Int
    PROVE  SumFunctionOnSet(f, a..b) = f[b] + SumFunctionOnSet(f, a..(b - 1))
<1>1. PICK S : S = a..b
  OBVIOUS
<1>2. IsFiniteSet(S)
  BY <1>1, FS_Interval
<1>3. b \in S /\ S \ {b} = a..(b - 1) /\ \A i \in S : f[i] \in Int
  BY <1>1
<1>4. SumFunctionOnSet(f, S) = f[b] + SumFunctionOnSet(f, S \ {b})
  BY <1>2, <1>3, SumTakesAny
<1> QED
  BY <1>1, <1>3, <1>4
-----------------------------------------------------------------------------
(* The gaps of the loss window. *)
LEMMA GapNumbers ==
    ASSUME NEW h \in Seq(Gap)
    PROVE  /\ Len(h) \in Nat /\ DOMAIN h = 1..Len(h)
           /\ \A i \in 1..Len(h) : h[i].expected \in Nat \ {0} /\ h[i].lost \in Nat
<1>1. \A g \in Gap : g.expected \in Nat \ {0} /\ g.lost \in Nat
  BY LinkAssumption DEF Gap
<1>2. \A i \in 1..Len(h) : h[i] \in Gap
  BY ElementOfSeq
<1> QED
  BY <1>1, <1>2

LEMMA SinceOfNone ==
    ASSUME NEW h \in Seq(Gap)
    PROVE  Since(h, Len(h) + 1) = 0
<1>1. (Len(h) + 1)..Len(h) = {}
  BY GapNumbers
<1> QED
  BY <1>1, SumOfEmpty DEF Since

LEMMA SinceIsNatural ==
    ASSUME NEW h \in Seq(Gap), NEW k \in 1..(Len(h) + 1)
    PROVE  Since(h, k) \in Nat
<1>1. IsFiniteSet(k..Len(h)) /\ k..Len(h) \subseteq 1..Len(h)
  BY GapNumbers, FS_Interval
<1>2. \A i \in k..Len(h) : Expectations(h)[i] \in Nat
  BY <1>1, GapNumbers DEF Expectations
<1> QED
  BY <1>1, <1>2, SumOfNaturals DEF Since

(* A new gap adds what it expected to every suffix; dropping the oldest one   *)
(* shifts them.                                                               *)
LEMMA SinceOfAppend ==
    ASSUME NEW h \in Seq(Gap), NEW g \in Gap, NEW k \in 1..(Len(h) + 1)
    PROVE  Since(Append(h, g), k) = Since(h, k) + g.expected
<1> DEFINE A == Append(h, g)
           n == Len(h)
<1>1. n \in Nat /\ A \in Seq(Gap) /\ Len(A) = n + 1 /\ A[n + 1] = g /\ \A i \in 1..n : A[i] = h[i]
  OBVIOUS
<1>2. \A i \in 1..(n + 1) : Expectations(A)[i] = A[i].expected /\ A[i].expected \in Nat
  BY <1>1, GapNumbers DEF Expectations
<1>3. \A i \in 1..n : Expectations(h)[i] = h[i].expected /\ h[i].expected \in Nat
  BY GapNumbers DEF Expectations
<1> HIDE DEF A, n
<1>4. \A i \in k..(n + 1) : Expectations(A)[i] \in Int
  BY <1>1, <1>2 DEF n
<1>5. SumFunctionOnSet(Expectations(A), k..(n + 1))
        = Expectations(A)[n + 1] + SumFunctionOnSet(Expectations(A), k..((n + 1) - 1))
  <2>1. k \in Nat /\ n + 1 \in Nat /\ k <= n + 1
    BY <1>1 DEF n
  <2> QED
    BY <1>4, <2>1, SumToLast
<1>6. SumFunctionOnSet(Expectations(A), k..n) = SumFunctionOnSet(Expectations(h), k..n)
  <2>1. IsFiniteSet(k..n)
    BY <1>1, FS_Interval DEF n
  <2>2. \A i \in k..n : Expectations(h)[i] \in Int /\ Expectations(A)[i] = Expectations(h)[i]
    BY <1>1, <1>2, <1>3 DEF n
  <2> QED
    BY <2>1, <2>2, SumOfEqual
<1>7. (n + 1) - 1 = n /\ Expectations(A)[n + 1] = g.expected /\ g.expected \in Nat
  BY <1>1, <1>2
<1>8. SumFunctionOnSet(Expectations(h), k..n) \in Nat
  BY SinceIsNatural DEF Since, n
<1> QED
  BY <1>1, <1>5, <1>6, <1>7, <1>8 DEF Since, A, n

LEMMA SinceOfTail ==
    ASSUME NEW h \in Seq(Gap), h # <<>>, NEW k \in 1..Len(h)
    PROVE  Since(Tail(h), k) = Since(h, k + 1)
<1>1. /\ Len(h) \in Nat /\ Len(h) >= 1 /\ Tail(h) \in Seq(Gap) /\ Len(Tail(h)) = Len(h) - 1
      /\ \A i \in 1..(Len(h) - 1) : Tail(h)[i] = h[i + 1]
  OBVIOUS
<1> DEFINE last == Len(h) - 1
           f == Expectations(h)
           g == Expectations(Tail(h))
           Bad == {n \in 0..last : SumFunctionOnSet(g, k..n) # SumFunctionOnSet(f, (k + 1)..(n + 1))}
<1>2. last \in Nat /\ last + 1 = Len(h) /\ k \in Nat /\ k >= 1
  BY <1>1
<1>3. \A i \in 1..last : g[i] \in Int /\ f[i + 1] = g[i]
  BY <1>1, GapNumbers DEF Expectations
<1>4. Since(Tail(h), k) = SumFunctionOnSet(g, k..last) /\ Since(h, k + 1) = SumFunctionOnSet(f, (k + 1)..(last + 1))
  BY <1>1, <1>2 DEF Since
<1> HIDE DEF last, f, g
<1> SUFFICES ASSUME Bad # {}
             PROVE  FALSE
  BY <1>2, <1>4
<1>5. PICK n \in Bad : \A m \in Bad : n <= m
  <2>1. Bad \in SUBSET Nat
    BY <1>2
  <2> HIDE DEF Bad
  <2> QED
    BY <2>1, SmallestNumber
<1>6. n \in 0..last /\ SumFunctionOnSet(g, k..n) # SumFunctionOnSet(f, (k + 1)..(n + 1))
  BY <1>5
<1>7. k <= n
  <2>1. ASSUME n < k
        PROVE  k..n = {} /\ (k + 1)..(n + 1) = {}
    BY <1>2, <1>6, <2>1
  <2> QED
    BY <1>2, <1>6, <2>1, SumOfEmpty
<1>8. SumFunctionOnSet(g, k..(n - 1)) = SumFunctionOnSet(f, (k + 1)..n)
  <2>1. n - 1 \in 0..last /\ n - 1 \notin Bad /\ (n - 1) + 1 = n
    BY <1>2, <1>5, <1>6, <1>7
  <2> QED
    BY <2>1
<1>9. SumFunctionOnSet(g, k..n) = g[n] + SumFunctionOnSet(g, k..(n - 1))
  <2>1. \A i \in k..n : g[i] \in Int
    BY <1>2, <1>3, <1>6
  <2> QED
    BY <1>2, <1>6, <1>7, <2>1, SumToLast
<1>10. SumFunctionOnSet(f, (k + 1)..(n + 1)) = f[n + 1] + SumFunctionOnSet(f, (k + 1)..n)
  <2>1. \A i \in (k + 1)..(n + 1) : f[i] \in Int
    <3> SUFFICES ASSUME NEW i \in (k + 1)..(n + 1)
                 PROVE  f[i] \in Int
      OBVIOUS
    <3>1. i - 1 \in 1..last /\ (i - 1) + 1 = i
      BY <1>2, <1>6
    <3> QED
      BY <1>3, <3>1
  <2>2. (n + 1) - 1 = n /\ k + 1 \in Nat /\ n + 1 \in Nat /\ k + 1 <= n + 1
    BY <1>2, <1>6, <1>7
  <2> QED
    BY <2>1, <2>2, SumToLast
<1> QED
  BY <1>2, <1>3, <1>6, <1>7, <1>8, <1>9, <1>10

(* What a deque(maxlen=Window) holds after append: what it held, without the  *)
(* first if it was full, and the new element last.                            *)
LEMMA PushIsBounded ==
    ASSUME NEW S, NEW h \in Seq(S), Len(h) <= Window, NEW x \in S
    PROVE  /\ Push(h, x) \in Seq(S) /\ Len(Push(h, x)) \in 1..Window
           /\ \E t \in Seq(S) : /\ Push(h, x) = Append(t, x)
                                /\ t = h \/ (h # <<>> /\ t = Tail(h))
<1>1. Window \in Nat /\ Window >= 1 /\ Len(h) \in Nat
  BY LinkAssumption
<1>2. CASE Len(h) < Window
  <2>1. Push(h, x) = Append(h, x)
    BY <1>2 DEF Push
  <2>2. Append(h, x) \in Seq(S) /\ Len(Append(h, x)) = Len(h) + 1
    OBVIOUS
  <2> QED
    BY <1>1, <1>2, <2>1, <2>2
<1>3. CASE Len(h) = Window
  <2>1. h # <<>>
    BY <1>1, <1>3
  <2>2. Tail(h) \in Seq(S) /\ Len(Tail(h)) = Len(h) - 1
    BY <2>1
  <2>3. Append(Tail(h), x) \in Seq(S) /\ Len(Append(Tail(h), x)) = Len(h)
    BY <2>2
  <2>4. Push(h, x) = Append(Tail(h), x)
    BY <1>1, <1>3 DEF Push
  <2>5. Push(h, x) \in Seq(S) /\ Len(Push(h, x)) \in 1..Window
    BY <1>1, <1>3, <2>3, <2>4
  <2> QED
    BY <2>1, <2>2, <2>4, <2>5
<1> QED
  BY <1>1, <1>2, <1>3

(* Every suffix of the window but the empty one is an old suffix and the new  *)
(* gap.                                                                       *)
LEMMA SinceOfPush ==
    ASSUME NEW h \in Seq(Gap), Len(h) <= Window, NEW g \in Gap,
           NEW k \in 1..Len(Push(h, g))
    PROVE  \E j \in 1..(Len(h) + 1) :
              /\ Since(Push(h, g), k) = Since(h, j) + g.expected
              /\ Len(Push(h, g)) - k = Len(h) + 1 - j
<1>1. PICK t \in Seq(Gap) : Push(h, g) = Append(t, g) /\ (t = h \/ (h # <<>> /\ t = Tail(h)))
  BY PushIsBounded
<1>2. Len(t) \in Nat /\ Len(h) \in Nat /\ Len(Append(t, g)) = Len(t) + 1 /\ k \in 1..(Len(t) + 1)
  BY <1>1
<1>3. Since(Push(h, g), k) = Since(t, k) + g.expected
  BY <1>1, <1>2, SinceOfAppend
<1>4. CASE t = h
  BY <1>1, <1>2, <1>3, <1>4
<1>5. CASE h # <<>> /\ t = Tail(h)
  <2>1. Len(t) = Len(h) - 1
    BY <1>5
  <2>2. k \in 1..Len(h) /\ k + 1 \in 1..(Len(h) + 1)
    BY <1>2, <2>1
  <2>3. Since(t, k) = Since(h, k + 1)
    BY <1>5, <2>2, SinceOfTail
  <2>4. Len(Push(h, g)) - k = Len(h) + 1 - (k + 1)
    BY <1>1, <1>2, <2>1, <2>2
  <2> QED
    BY <1>3, <2>2, <2>3, <2>4
<1> QED
  BY <1>1, <1>4, <1>5

(* The beacons in a set are among the first n. *)
UpTo(R, n) == R \subseteq 1..n

LEMMA UpToNext ==
    ASSUME NEW n \in Nat, NEW R, UpTo(R, n), NEW m \in Nat, m >= 1, n <= m
    PROVE  UpTo(R \cup {m}, m)
  BY DEF UpTo

(* The arrivals among the last beacons, when one more of them is heard that   *)
(* is at least as far from the last as the count grows.                       *)
LEMMA ArrivedAfter ==
    ASSUME NEW n \in Nat, NEW R, UpTo(R, n), NEW E \in Nat, NEW C \in Nat, C > E,
           NEW m \in Nat, m - n >= C - E
    PROVE  /\ Arrived(R, n, E) \in Nat /\ Arrived(R \cup {m}, m, C) \in Nat
           /\ Arrived(R \cup {m}, m, C) <= Arrived(R, n, E) + 1
           /\ m - n = C - E => Arrived(R \cup {m}, m, C) = Arrived(R, n, E) + 1
<1> DEFINE old == ((n - E + 1)..n) \cap R
           new == ((m - C + 1)..m) \cap (R \cup {m})
<1>1. IsFiniteSet(old) /\ m \notin old
  <2>1. IsFiniteSet(1..n) /\ old \subseteq 1..n
    BY FS_Interval DEF UpTo
  <2>2. m \notin old
    OBVIOUS
  <2> QED
    BY <2>1, <2>2, FS_Subset
<1>2. IsFiniteSet(old \cup {m}) /\ Cardinality(old \cup {m}) = Cardinality(old) + 1
  BY <1>1, FS_AddElement
<1>3. new \subseteq old \cup {m}
  BY DEF UpTo
<1>4. m - n = C - E => new = old \cup {m}
  BY DEF UpTo
<1>5. IsFiniteSet(new) /\ Cardinality(new) <= Cardinality(old \cup {m})
  BY <1>2, <1>3, FS_Subset
<1>6. Cardinality(old) \in Nat /\ Cardinality(new) \in Nat
  BY <1>1, <1>5, FS_CardinalityType
<1> QED
  BY <1>2, <1>4, <1>5, <1>6 DEF Arrived

(* ... and when it is beyond all of them. *)
LEMMA ArrivedBeyond ==
    ASSUME NEW n \in Nat, NEW R, UpTo(R, n), NEW E \in Nat, NEW m \in Nat, m - n > E
    PROVE  /\ Arrived(R \cup {m}, m, E) \in Nat /\ Arrived(R \cup {m}, m, E) <= 1
           /\ E = 0 => Arrived(R \cup {m}, m, E) = 0
<1> DEFINE new == ((m - E + 1)..m) \cap (R \cup {m})
<1>1. new \subseteq {m}
  BY DEF UpTo
<1>2. IsFiniteSet({m}) /\ Cardinality({m}) = 1
  BY FS_Singleton
<1>3. IsFiniteSet(new) /\ Cardinality(new) <= 1
  BY <1>1, <1>2, FS_Subset
<1>4. E = 0 => new = {}
  OBVIOUS
<1> QED
  BY <1>3, <1>4, FS_CardinalityType, FS_EmptySet DEF Arrived

LEMMA ArrivedOfNone == ASSUME NEW R, NEW m \in Nat PROVE Arrived(R, m, 0) = 0
<1>1. ((m - 0 + 1)..m) \cap R = {}
  OBVIOUS
<1> QED
  BY <1>1, FS_EmptySet DEF Arrived
-----------------------------------------------------------------------------
LEMMA SamplesAreNaturals ==
    ASSUME NEW delay \in Delays
    PROVE  Sample(delay) \in Nat
  BY LinkAssumption DEF Sample, AtLeast

LEMMA LossOfNone == LossOf(<<>>) = <<0, 1>>
<1>1. DOMAIN Losses(<<>>) = {} /\ DOMAIN Expectations(<<>>) = {}
  BY DEF Losses, Expectations
<1>2. Lost(<<>>) = 0 /\ Expected(<<>>) = 0
  BY <1>1, SumOfEmpty DEF Lost, Expected, SumFunction
<1> QED
  BY <1>2 DEF LossOf, AtLeast

(* What update_peer makes of an entry, field by field. *)
LEMMA UpdatedFields ==
    ASSUME NEW e, DOMAIN e = Fields, NEW new, NEW sample
    PROVE  LET u == Updated(e, new, sample)
           IN  /\ DOMAIN u = Fields
               /\ u.last_seq = new
               /\ u.latency_history = Push(e.latency_history, sample)
               /\ u.seq_history = SeqHistory(e, new)
               /\ u.latency = Mean(u.latency_history)
               /\ u.jitter = Jitter(u.latency_history, e.jitter)
               /\ u.loss = Loss(e, new)
  BY DEF Updated, Fields

(* The loss window grows by a gap, is emptied by a smaller number, and stays  *)
(* as it is for the same one.                                                 *)
LEMMA SeqHistoryCases ==
    ASSUME NEW e, NEW new \in 1..MaxBeacons, e.last_seq \in 1..MaxBeacons
    PROVE  \/ /\ new > e.last_seq
              /\ SeqHistory(e, new) = Push(e.seq_history, GapOf(new, e.last_seq))
              /\ Loss(e, new) = LossOf(SeqHistory(e, new))
              /\ GapOf(new, e.last_seq) \in Gap
              /\ GapOf(new, e.last_seq).expected = new - e.last_seq
              /\ GapOf(new, e.last_seq).lost = (new - e.last_seq) - 1
           \/ new < e.last_seq /\ SeqHistory(e, new) = <<>> /\ Loss(e, new) = <<0, 1>>
           \/ new = e.last_seq /\ SeqHistory(e, new) = e.seq_history /\ Loss(e, new) = e.loss
<1>1. MaxBeacons \in Nat
  BY LinkAssumption
<1>2. CASE new > e.last_seq
  <2>1. new - e.last_seq \in 1..MaxBeacons
    BY <1>1, <1>2
  <2>2. LostOf(new - e.last_seq) = (new - e.last_seq) - 1 /\ LostOf(new - e.last_seq) \in 0..MaxBeacons
    BY <1>1, <2>1 DEF LostOf, AtLeast
  <2>3. /\ GapOf(new, e.last_seq) \in Gap
        /\ GapOf(new, e.last_seq).expected = new - e.last_seq
        /\ GapOf(new, e.last_seq).lost = (new - e.last_seq) - 1
    BY <2>1, <2>2 DEF GapOf, Gap
  <2>4. /\ SeqHistory(e, new) = Push(e.seq_history, GapOf(new, e.last_seq))
        /\ Loss(e, new) = LossOf(SeqHistory(e, new))
    BY <1>1, <1>2 DEF SeqHistory, Loss, IsGap
  <2> QED
    BY <1>2, <2>3, <2>4
<1>3. CASE new < e.last_seq
  BY <1>1, <1>3 DEF SeqHistory, Loss, IsGap, IsReset
<1>4. CASE new = e.last_seq
  BY <1>1, <1>4 DEF SeqHistory, Loss, IsGap, IsReset
<1> QED
  BY <1>1, <1>2, <1>3, <1>4

LEMMA SeqHistoryIsBounded ==
    ASSUME NEW e, NEW new \in 1..MaxBeacons, e.last_seq \in 1..MaxBeacons,
           e.seq_history \in Seq(Gap), Len(e.seq_history) <= Window
    PROVE  /\ SeqHistory(e, new) \in Seq(Gap) /\ Len(SeqHistory(e, new)) <= Window
           /\ (e.seq_history # <<>> /\ SeqHistory(e, new) = <<>>) => new < e.last_seq
<1>1. MaxBeacons \in Nat /\ Window \in Nat /\ Len(<<>>) = 0 /\ <<>> \in Seq(Gap)
  BY LinkAssumption
<1>2. CASE new > e.last_seq
  <2> DEFINE g == GapOf(new, e.last_seq)
  <2>1. SeqHistory(e, new) = Push(e.seq_history, g) /\ g \in Gap
    BY <1>1, <1>2, SeqHistoryCases
  <2> HIDE DEF g
  <2>2. SeqHistory(e, new) \in Seq(Gap) /\ Len(SeqHistory(e, new)) \in 1..Window
    BY <2>1, PushIsBounded
  <2> QED
    BY <1>1, <2>2
<1>3. CASE new < e.last_seq
  <2>1. SeqHistory(e, new) = <<>>
    BY <1>1, <1>3, SeqHistoryCases
  <2> QED
    BY <1>1, <1>3, <2>1
<1>4. CASE new = e.last_seq
  <2>1. SeqHistory(e, new) = e.seq_history
    BY <1>1, <1>4, SeqHistoryCases
  <2> QED
    BY <2>1
<1> QED
  BY <1>1, <1>2, <1>3, <1>4

(* The loss is that of the window, each gap having lost all it expected but   *)
(* the beacon that ended it.                                                  *)
LEMMA LossIsCurrent ==
    ASSUME NEW e, NEW new \in 1..MaxBeacons, e.last_seq \in 1..MaxBeacons,
           e.seq_history \in Seq(Gap), Len(e.seq_history) <= Window,
           e.loss = LossOf(e.seq_history),
           \A i \in DOMAIN e.seq_history :
             e.seq_history[i].lost = e.seq_history[i].expected - 1
    PROVE  /\ Loss(e, new) = LossOf(SeqHistory(e, new))
           /\ \A i \in DOMAIN SeqHistory(e, new) :
                SeqHistory(e, new)[i].lost = SeqHistory(e, new)[i].expected - 1
<1>1. MaxBeacons \in Nat
  BY LinkAssumption
<1>2. CASE new > e.last_seq
  <2> DEFINE g == GapOf(new, e.last_seq)
  <2>1. /\ SeqHistory(e, new) = Push(e.seq_history, g)
        /\ Loss(e, new) = LossOf(SeqHistory(e, new))
        /\ g \in Gap /\ g.lost = g.expected - 1
    BY <1>1, <1>2, SeqHistoryCases
  <2> HIDE DEF g
  <2>2. PICK t \in Seq(Gap) : /\ Push(e.seq_history, g) = Append(t, g)
                              /\ t = e.seq_history \/ (e.seq_history # <<>> /\ t = Tail(e.seq_history))
    BY <2>1, PushIsBounded
  <2>3. \A i \in DOMAIN t : t[i].lost = t[i].expected - 1
    <3>1. CASE e.seq_history # <<>> /\ t = Tail(e.seq_history)
      <4>1. \A i \in DOMAIN t : i + 1 \in DOMAIN e.seq_history /\ t[i] = e.seq_history[i + 1]
        BY <3>1
      <4> QED
        BY <4>1
    <3> QED
      BY <2>2, <3>1
  <2>4. \A i \in DOMAIN Append(t, g) : (i \in DOMAIN t /\ Append(t, g)[i] = t[i]) \/ Append(t, g)[i] = g
    BY <2>1
  <2> QED
    BY <2>1, <2>2, <2>3, <2>4
<1>3. CASE new < e.last_seq
  BY <1>1, <1>3, SeqHistoryCases, LossOfNone
<1>4. CASE new = e.last_seq
  BY <1>1, <1>4, SeqHistoryCases
<1> QED
  BY <1>1, <1>2, <1>3, <1>4

(* The jitter that is kept while there is one sample is that of no samples.   *)
LEMMA JitterIsCurrent ==
    ASSUME NEW h \in Seq(Nat), Len(h) <= Window, NEW x \in Nat
    PROVE  Jitter(Push(h, x), Jitter(h, <<0, 1>>)) = Jitter(Push(h, x), <<0, 1>>)
<1>1. PICK t \in Seq(Nat) : Push(h, x) = Append(t, x) /\ (t = h \/ (h # <<>> /\ t = Tail(h)))
  BY PushIsBounded
<1>2. Len(t) \in Nat /\ Len(h) \in Nat /\ Len(Push(h, x)) = Len(t) + 1 /\ Len(h) <= Len(t) + 1
  BY <1>1
<1>3. CASE Len(Push(h, x)) > 1
  BY <1>3 DEF Jitter
<1>4. CASE ~(Len(Push(h, x)) > 1)
  <2>1. ~(Len(h) > 1)
    BY <1>2, <1>4
  <2> QED
    BY <1>4, <2>1 DEF Jitter
<1> QED
  BY <1>3, <1>4
-----------------------------------------------------------------------------
LEMMA Numbers ==
    ASSUME IInv
    PROVE  /\ heard.boot \in Nat /\ heard.seq \in Nat /\ heard.nr \in Nat
           /\ channel \in Seq(Datagram) /\ DOMAIN channel = 1..Len(channel) /\ Len(channel) \in Nat
           /\ \A i \in 1..Len(channel) :
                channel[i].boot \in Nat /\ channel[i].seq \in Nat /\ channel[i].nr \in Nat
<1>1. channel \in Seq(Datagram) /\ heard \in Datagram \cup {NotHeard}
  BY DEF IInv, TypeOK
<1>2. DOMAIN channel = 1..Len(channel) /\ Len(channel) \in Nat
  BY <1>1
<1>3. \A d \in Datagram : d.boot \in Nat /\ d.seq \in Nat /\ d.nr \in Nat
  BY LinkAssumption DEF Datagram
<1>4. \A i \in 1..Len(channel) : channel[i] \in Datagram
  BY <1>1, ElementOfSeq
<1>5. NotHeard.boot \in Nat /\ NotHeard.seq \in Nat /\ NotHeard.nr \in Nat
  BY DEF NotHeard
<1> QED
  BY <1>1, <1>2, <1>3, <1>4, <1>5

LEMMA InitInv == Init => IInv
<1> SUFFICES ASSUME Init
             PROVE  IInv
  OBVIOUS
<1>1. TypeOK
  BY LinkAssumption DEF Init, TypeOK, Registered
<1>2. InOrder
  BY DEF Init, InOrder, NotAfter, NotHeard
<1>3. FiguresAreCurrent /\ GapsAccountedFor
  BY DEF Init, FiguresAreCurrent, GapsAccountedFor, Registered
<1> QED
  BY <1>1, <1>2, <1>3 DEF IInv

(* A beacon is the newest of its sender, in both its copies. *)
LEMMA BeaconInv ==
    ASSUME IInv, NEW copies \in 0..2, Beacon(copies)
    PROVE  IInv'
<1> DEFINE d == [seq |-> seq + 1, boot |-> boot, nr |-> sent + 1]
           new == [i \in 1..copies |-> d]
<1>1. /\ sent \in 0..MaxBeacons /\ seq \in 0..sent /\ boot \in 1..MaxBoots /\ sent < MaxBeacons
      /\ MaxBeacons \in Nat /\ MaxBoots \in Nat
      /\ seq' = seq + 1 /\ sent' = sent + 1 /\ channel' = channel \o new
      /\ UNCHANGED <<boot, entry, heard, received>>
  BY LinkAssumption DEF IInv, TypeOK, Beacon
<1>2. d \in Datagram
  BY <1>1 DEF Datagram
<1>3. new \in Seq(Datagram) /\ Len(new) = copies /\ \A i \in 1..copies : new[i] = d
  BY <1>2
<1>4. channel \in Seq(Datagram)
  BY DEF IInv, TypeOK
<1>5. /\ channel' \in Seq(Datagram) /\ Len(channel') = Len(channel) + copies
      /\ \A i \in 1..Len(channel') :
           channel'[i] = IF i <= Len(channel) THEN channel[i] ELSE d
  <2>1. /\ channel \o new \in Seq(Datagram) /\ Len(channel \o new) = Len(channel) + Len(new)
        /\ \A i \in 1..Len(channel) + Len(new) :
             (channel \o new)[i] = IF i <= Len(channel) THEN channel[i] ELSE new[i - Len(channel)]
    BY <1>3, <1>4, ConcatProperties
  <2>2. Len(channel) \in Nat /\ copies \in Nat
    BY <1>4
  <2>3. \A i \in 1..Len(channel) + copies : ~(i <= Len(channel)) => i - Len(channel) \in 1..copies
    BY <2>2
  <2> HIDE DEF new, d
  <2> QED
    BY <1>1, <1>3, <2>1, <2>2, <2>3
<1>6. TypeOK'
  <2>1. seq' \in 0..sent' /\ sent' \in 0..MaxBeacons
    BY <1>1
  <2>2. (Registered => EntryOK)'
    BY <1>1 DEF IInv, TypeOK, Registered, EntryOK
  <2> QED
    BY <1>1, <1>5, <2>1, <2>2 DEF IInv, TypeOK
<1>7. ASSUME ~Reorder
      PROVE  InOrder'
  <2> DEFINE sender == [boot |-> boot, seq |-> seq, nr |-> sent]
  <2>1. /\ NotAfter(heard, sender)
        /\ \A i \in 1..Len(channel) :
             /\ NotAfter(heard, channel[i]) /\ NotAfter(channel[i], sender)
             /\ \A j \in i..Len(channel) : NotAfter(channel[i], channel[j])
    BY <1>4, <1>7 DEF IInv, InOrder
  <2>2. /\ boot \in Nat /\ seq \in Nat /\ sent \in Nat
        /\ d.boot = boot /\ d.seq = seq + 1 /\ d.nr = sent + 1
        /\ sender.boot = boot /\ sender.seq = seq /\ sender.nr = sent
    BY <1>1
  <2>3. /\ \A c : /\ c.boot \in Nat /\ c.seq \in Nat /\ c.nr \in Nat
                  /\ NotAfter(c, sender)
                  => NotAfter(c, d)
        /\ NotAfter(d, d)
    <3> HIDE DEF d, sender
    <3> QED
      BY <2>2 DEF NotAfter
  <2>4. NotAfter(heard, d) /\ \A i \in 1..Len(channel) : NotAfter(channel[i], d)
    BY <2>1, <2>3, Numbers
  <2>5. d.boot = sender'.boot /\ d.seq = sender'.seq /\ d.nr = sender'.nr
    BY <1>1
  <2>6. \A b : NotAfter(b, d) => NotAfter(b, sender')
    BY <2>5 DEF NotAfter
  <2>7. ASSUME NEW i \in 1..Len(channel')
        PROVE  /\ NotAfter(heard, channel'[i]) /\ NotAfter(channel'[i], sender')
               /\ \A j \in i..Len(channel') : NotAfter(channel'[i], channel'[j])
    <3>1. i \in Nat /\ i >= 1 /\ Len(channel) \in Nat /\ Len(channel') \in Nat
      BY <1>5, <2>7, Numbers
    <3>2. CASE i <= Len(channel)
      <4>1. channel'[i] = channel[i] /\ i \in 1..Len(channel)
        BY <1>5, <3>1, <3>2
      <4> QED
        BY <1>5, <2>1, <2>4, <2>6, <3>1, <4>1
    <3>3. CASE i > Len(channel)
      <4>1. \A j \in i..Len(channel') : channel'[j] = d
        BY <1>5, <3>1, <3>3
      <4> QED
        BY <1>5, <2>3, <2>4, <2>6, <3>1, <3>3, <4>1
    <3> QED
      BY <3>1, <3>2, <3>3
  <2>8. NotAfter(heard, sender') /\ heard' = heard /\ DOMAIN channel' = 1..Len(channel')
    BY <1>1, <1>5, <2>4, <2>6
  <2> QED
    BY <2>7, <2>8 DEF InOrder
<1>8. FiguresAreCurrent' /\ (~Reorder => GapsAccountedFor')
  BY <1>1 DEF IInv, FiguresAreCurrent, GapsAccountedFor, Registered
<1> QED
  BY <1>6, <1>7, <1>8 DEF IInv

(* The gaps are accounted for after the next beacon of a network that keeps   *)
(* the order, whether it ends a gap, follows a reboot that is noticed or not, *)
(* is repeated, or is the first of a new entry.                               *)
LEMMA ReceiveGaps ==
    ASSUME IInv, ~Reorder, NEW b \in Datagram, NotAfter(heard, b),
           heard' = b, received' = received \cup {b.nr},
           NEW e, e = IF entry = NoEntry THEN NewEntry(b.seq) ELSE entry,
           entry'.seq_history = SeqHistory(e, b.seq), entry'.last_seq = b.seq
    PROVE  GapsAccountedFor'
<1> DEFINE gaps == SeqHistory(e, b.seq)
           R == received
           n == heard.nr
           m == b.nr
<1>1. /\ b.seq \in 1..MaxBeacons /\ b.nr \in Nat /\ b.nr >= 1 /\ b.boot \in Nat /\ b.boot >= 1
      /\ heard.nr \in Nat /\ heard.seq \in Nat /\ heard.boot \in Nat /\ MaxBeacons \in Nat
  <2>1. \A d \in Datagram : /\ d.seq \in 1..MaxBeacons /\ d.nr \in Nat /\ d.nr >= 1
                            /\ d.boot \in Nat /\ d.boot >= 1 /\ d.seq \in Nat
    BY LinkAssumption DEF Datagram
  <2>2. NotHeard.nr \in Nat /\ NotHeard.seq \in Nat /\ NotHeard.boot \in Nat
    BY DEF NotHeard
  <2>3. heard \in Datagram \cup {NotHeard}
    BY DEF IInv, TypeOK
  <2> QED
    BY <2>1, <2>2, <2>3, LinkAssumption
<1>2. GapsAccountedFor
  BY DEF IInv
<1>3. UpTo(R, n) /\ n <= m /\ UpTo(R \cup {m}, m)
  <2>1. R \subseteq 1..n
    BY <1>2 DEF GapsAccountedFor
  <2>2. n <= m
    BY <1>1 DEF NotAfter
  <2>3. UpTo(R, n)
    BY <2>1 DEF UpTo
  <2> QED
    BY <1>1, <2>2, <2>3, UpToNext
<1>4. received' \subseteq 1..heard'.nr /\ heard'.nr \in received'
  <2>1. received' = R \cup {m} /\ heard'.nr = m
    OBVIOUS
  <2> QED
    BY <1>3, <2>1 DEF UpTo
<1>5. SUFFICES ASSUME NEW k \in 1..(Len(gaps) + 1)
               PROVE  LET arrived == Arrived(R \cup {m}, m, Since(gaps, k))
                      IN  /\ Since(gaps, k) < b.seq
                          /\ arrived <= Len(gaps) - k + 1
                          /\ b.boot = 1 => arrived = Len(gaps) - k + 1
  <2>1. entry'.seq_history = gaps
    OBVIOUS
  <2> HIDE DEF gaps
  <2> QED
    BY <1>4, <1>5, <2>1 DEF GapsAccountedFor
<1> HIDE DEF gaps
<1>6. ASSUME gaps \in Seq(Gap), k = Len(gaps) + 1
      PROVE  Since(gaps, k) = 0 /\ Arrived(R \cup {m}, m, 0) = 0 /\ Len(gaps) - k + 1 = 0
  BY <1>1, <1>6, SinceOfNone, ArrivedOfNone
<1>7. CASE gaps = <<>>
  <2>1. gaps \in Seq(Gap) /\ Len(gaps) = 0
    BY <1>7
  <2>2. k = Len(gaps) + 1
    BY <2>1
  <2> QED
    BY <1>1, <1>6, <2>1, <2>2
<1>8. CASE gaps # <<>>
  <2>1. Registered /\ e = entry
    <3>1. ASSUME entry = NoEntry
          PROVE  FALSE
      <4>1. e.last_seq = b.seq /\ e.seq_history = <<>>
        BY <3>1 DEF NewEntry
      <4>2. SeqHistory(e, b.seq) = e.seq_history
        BY <1>1, <4>1 DEF SeqHistory, IsGap, IsReset
      <4> QED
        BY <1>8, <4>1, <4>2 DEF gaps
    <3> QED
      BY <3>1 DEF Registered
  <2> DEFINE old == entry.seq_history
  <2>2. /\ EntryOK /\ heard \in Datagram /\ entry.last_seq = heard.seq /\ heard.seq \in 1..MaxBeacons
        /\ old \in Seq(Gap) /\ Len(old) <= Window
    BY <2>1 DEF IInv, TypeOK, EntryOK, Datagram
  <2>3. /\ n \in R
        /\ \A j \in 1..(Len(old) + 1) :
             LET arrived == Arrived(R, n, Since(old, j))
             IN  /\ Since(old, j) < heard.seq
                 /\ arrived <= Len(old) - j + 1
                 /\ heard.boot = 1 => arrived = Len(old) - j + 1
    BY <1>2, <2>1, <2>2 DEF GapsAccountedFor
  <2>4. Len(old) \in Nat /\ \A j \in 1..(Len(old) + 1) : Since(old, j) \in Nat
    BY <2>2, SinceIsNatural
  <2>5. b.boot = 1 => heard.boot = 1
    BY <1>1, <2>2 DEF NotAfter, Datagram
  <2>6. CASE b.seq > heard.seq
    <3> DEFINE g == GapOf(b.seq, heard.seq)
               x == b.seq - heard.seq
    <3>1. gaps = Push(old, g) /\ g \in Gap /\ g.expected = x
      BY <1>1, <2>1, <2>2, <2>6, SeqHistoryCases DEF gaps
    <3>2. x \in Nat \ {0} /\ m - n >= x /\ (b.boot = 1 => m - n = x)
      BY <1>1, <2>2, <2>5, <2>6 DEF NotAfter
    <3> HIDE DEF g
    <3>3. gaps \in Seq(Gap) /\ Len(gaps) \in Nat
      BY <2>2, <3>1, PushIsBounded
    <3>4. CASE k = Len(gaps) + 1
      BY <1>1, <1>6, <3>3, <3>4
    <3>5. CASE k # Len(gaps) + 1
      <4>1. k \in 1..Len(gaps)
        BY <3>3, <3>5
      <4>2. PICK j \in 1..(Len(old) + 1) :
              Since(gaps, k) = Since(old, j) + x /\ Len(gaps) - k = Len(old) + 1 - j
        BY <2>2, <3>1, <4>1, SinceOfPush
      <4> DEFINE E == Since(old, j)
                 before == Arrived(R, n, E)
                 C == Since(gaps, k)
                 after == Arrived(R \cup {m}, m, C)
      <4>3. /\ E \in Nat /\ E < heard.seq /\ before <= Len(old) - j + 1
            /\ heard.boot = 1 => before = Len(old) - j + 1
        BY <2>3, <2>4
      <4>4. /\ C \in Nat /\ C > E /\ C < b.seq /\ m - n >= C - E
            /\ b.boot = 1 => m - n = C - E
        <5>1. C = E + x /\ b.seq = heard.seq + x
          BY <1>1, <4>2
        <5> HIDE DEF C, E, x
        <5> QED
          BY <1>1, <3>2, <4>3, <5>1
      <4>5. /\ before \in Nat /\ after \in Nat /\ after <= before + 1
            /\ m - n = C - E => after = before + 1
        <5>1. n \in Nat /\ m \in Nat
          BY <1>1
        <5> HIDE DEF C, E, R, n, m
        <5> QED
          BY <1>3, <4>3, <4>4, <5>1, ArrivedAfter
      <4>6. Len(gaps) - k + 1 = (Len(old) - j + 1) + 1 /\ Len(old) - j + 1 \in Int
        <5> HIDE DEF old
        <5> QED
          BY <2>4, <3>3, <4>2
      <4>7. /\ after <= Len(gaps) - k + 1
            /\ b.boot = 1 => after = Len(gaps) - k + 1
        <5> HIDE DEF before, after, old, C, E
        <5> QED
          BY <2>5, <4>3, <4>4, <4>5, <4>6
      <4> QED
        BY <4>4, <4>7
    <3> QED
      BY <3>4, <3>5
  <2>7. CASE b.seq = heard.seq
    <3>1. gaps = old
      BY <1>1, <2>1, <2>2, <2>7, SeqHistoryCases DEF gaps
    <3>2. CASE b.boot = heard.boot
      <4>1. m = n /\ R \cup {m} = R
        BY <1>1, <2>3, <2>7, <3>2 DEF NotAfter
      <4> QED
        BY <2>3, <2>5, <2>7, <3>1, <4>1
    <3>3. CASE b.boot # heard.boot
      <4> DEFINE E == Since(old, k)
                 after == Arrived(R \cup {m}, m, E)
      <4>1. E \in Nat /\ E < b.seq
        BY <2>3, <2>4, <2>7, <3>1
      <4>2. m - n > E
        BY <1>1, <3>3, <4>1 DEF NotAfter
      <4>3. /\ after \in Nat /\ after <= 1
            /\ E = 0 => after = 0
        <5> HIDE DEF E
        <5> QED
          BY <1>1, <1>3, <4>1, <4>2, ArrivedBeyond
      <4>4. b.boot # 1
        BY <2>5, <3>3
      <4>5. after <= Len(old) - k + 1
        <5>1. CASE k = Len(old) + 1
          <6>1. E = 0 /\ Len(old) - k + 1 = 0
            BY <2>2, <2>4, <5>1, SinceOfNone
          <6> QED
            BY <4>3, <6>1
        <5>2. CASE k # Len(old) + 1
          <6>1. Len(old) - k + 1 >= 1
            BY <2>4, <3>1, <5>2
          <6> QED
            BY <2>4, <4>3, <6>1
        <5> QED
          BY <5>1, <5>2
      <4> QED
        BY <3>1, <4>1, <4>4, <4>5
    <3> QED
      BY <3>2, <3>3
  <2>8. CASE b.seq < heard.seq
    BY <1>1, <1>8, <2>1, <2>2, <2>8, SeqHistoryCases DEF gaps
  <2> QED
    BY <1>1, <2>2, <2>6, <2>7, <2>8
<1> QED
  BY <1>7, <1>8

(* The rest of the network moves up; the entry follows what was heard. *)
LEMMA ReceiveInv ==
    ASSUME IInv, NEW i \in DOMAIN channel, NEW delay \in Delays, Receive(i, delay)
    PROVE  /\ IInv'
           /\ ~Reorder => FlushStep
<1> DEFINE b == channel[i]
           e == IF entry = NoEntry THEN NewEntry(b.seq) ELSE entry
<1>1. /\ channel \in Seq(Datagram) /\ i \in 1..Len(channel) /\ b \in Datagram
      /\ MaxBeacons \in Nat /\ Window \in Nat \ {0}
  BY LinkAssumption DEF IInv, TypeOK
<1>2. /\ entry' = Updated(e, b.seq, Sample(delay)) /\ heard' = b
      /\ received' = received \cup {b.nr} /\ UNCHANGED <<seq, boot, sent>>
      /\ channel' = [j \in 1..(Len(channel) - 1) |-> IF j < i THEN channel[j] ELSE channel[j + 1]]
  BY DEF Receive
<1>3. b.seq \in 1..MaxBeacons /\ b.nr \in 1..MaxBeacons /\ b.boot \in 1..MaxBoots
  BY <1>1 DEF Datagram
<1>4. /\ DOMAIN e = Fields
      /\ e.last_seq \in 1..MaxBeacons
      /\ e.seq_history \in Seq(Gap) /\ Len(e.seq_history) <= Window
      /\ e.latency_history \in Seq(Nat) /\ Len(e.latency_history) <= Window
      /\ e.jitter = Jitter(e.latency_history, <<0, 1>>)
      /\ e.loss = LossOf(e.seq_history)
      /\ \A j \in DOMAIN e.seq_history : e.seq_history[j].lost = e.seq_history[j].expected - 1
  <2>1. CASE entry = NoEntry
    <3>1. DOMAIN e = Fields /\ e.last_seq \in 1..MaxBeacons
      BY <1>3, <2>1 DEF NewEntry, Fields
    <3>2. e.seq_history = <<>> /\ e.latency_history = <<>> /\ e.jitter = <<0, 1>> /\ e.loss = <<0, 1>>
      BY <2>1 DEF NewEntry
    <3>3. Jitter(<<>>, <<0, 1>>) = <<0, 1>> /\ LossOf(<<>>) = <<0, 1>>
      BY LossOfNone DEF Jitter
    <3> HIDE DEF e
    <3> QED
      BY <1>1, <3>1, <3>2, <3>3
  <2>2. CASE entry # NoEntry
    <3>1. EntryOK /\ e = entry
      BY <2>2 DEF IInv, TypeOK, Registered
    <3>2. heard.seq \in 1..MaxBeacons
      BY <3>1 DEF EntryOK, Datagram
    <3>3. FiguresAreCurrent
      BY DEF IInv
    <3> HIDE DEF e
    <3> QED
      BY <1>1, <2>2, <3>1, <3>2, <3>3 DEF EntryOK, FiguresAreCurrent, Registered
  <2> QED
    BY <2>1, <2>2
<1>5. /\ DOMAIN entry' = Fields /\ entry'.last_seq = b.seq
      /\ entry'.latency_history = Push(e.latency_history, Sample(delay))
      /\ entry'.seq_history = SeqHistory(e, b.seq)
      /\ entry'.latency = Mean(entry'.latency_history)
      /\ entry'.jitter = Jitter(entry'.latency_history, e.jitter)
      /\ entry'.loss = Loss(e, b.seq)
  BY <1>2, <1>4, UpdatedFields
<1>6. /\ entry'.latency_history \in Seq(Nat) /\ Len(entry'.latency_history) \in 1..Window
  BY <1>4, <1>5, PushIsBounded, SamplesAreNaturals
<1>7. /\ entry'.seq_history \in Seq(Gap) /\ Len(entry'.seq_history) <= Window
      /\ e.seq_history # <<>> /\ entry'.seq_history = <<>> => b.seq < e.last_seq
  BY <1>3, <1>4, <1>5, SeqHistoryIsBounded
<1>8. /\ channel' \in Seq(Datagram) /\ Len(channel') = Len(channel) - 1
      /\ \A j \in 1..Len(channel') : channel'[j] = IF j < i THEN channel[j] ELSE channel[j + 1]
  BY <1>1, <1>2
<1>9. TypeOK'
  <2>1. EntryOK'
    BY <1>1, <1>2, <1>5, <1>6, <1>7 DEF EntryOK
  <2> QED
    BY <1>1, <1>2, <1>3, <1>8, <2>1 DEF IInv, TypeOK
<1>10. ASSUME ~Reorder
       PROVE  InOrder' /\ GapsAccountedFor' /\ FlushStep
  <2>1. i = 1
    BY <1>10 DEF Receive
  <2> DEFINE sender == [boot |-> boot, seq |-> seq, nr |-> sent]
  <2>2. /\ NotAfter(heard, channel[1])
        /\ \A j \in 1..Len(channel) :
             /\ NotAfter(channel[1], channel[j]) /\ NotAfter(channel[j], sender)
             /\ \A k \in j..Len(channel) : NotAfter(channel[j], channel[k])
    BY <1>1, <1>10 DEF IInv, InOrder
  <2>3. \A j \in 1..Len(channel') : channel'[j] = channel[j + 1]
    BY <1>1, <1>8, <2>1
  <2>4. sender' = sender /\ heard' = channel[1]
    BY <1>2, <2>1
  <2>5. InOrder'
    <3>1. ASSUME NEW j \in 1..Len(channel')
          PROVE  /\ NotAfter(heard', channel'[j]) /\ NotAfter(channel'[j], sender')
                 /\ \A k \in j..Len(channel') : NotAfter(channel'[j], channel'[k])
      <4>1. j + 1 \in 1..Len(channel) /\ \A k \in j..Len(channel') : k + 1 \in (j + 1)..Len(channel)
        BY <1>1, <1>8
      <4>2. channel'[j] = channel[j + 1] /\ \A k \in j..Len(channel') : channel'[k] = channel[k + 1]
        BY <1>8, <2>3, <3>1, Numbers
      <4> QED
        BY <2>2, <2>4, <4>1, <4>2
    <3> QED
      BY <1>1, <1>8, <2>2, <2>4, <3>1 DEF InOrder
  <2>6. GapsAccountedFor'
    BY <1>1, <1>2, <1>5, <1>10, <2>1, <2>2, ReceiveGaps
  <2>7. FlushStep
    <3>1. SUFFICES ASSUME entry # NoEntry, entry.seq_history # <<>>, entry'.seq_history = <<>>
                   PROVE  heard'.boot # heard.boot
      BY DEF FlushStep
    <3>2. b.seq < heard.seq /\ heard \in Datagram
      BY <3>1, <1>7 DEF IInv, TypeOK, Registered, EntryOK
    <3> QED
      BY <1>2, <1>3, <2>1, <2>2, <3>2 DEF NotAfter, Datagram
  <2> QED
    BY <2>5, <2>6, <2>7
<1>11. FiguresAreCurrent'
  <2>1. entry'.jitter = Jitter(entry'.latency_history, <<0, 1>>)
    BY <1>4, <1>5, JitterIsCurrent, SamplesAreNaturals
  <2>2. /\ entry'.loss = LossOf(entry'.seq_history)
        /\ \A j \in DOMAIN entry'.seq_history :
             entry'.seq_history[j].lost = entry'.seq_history[j].expected - 1
    <3> HIDE DEF e
    <3>1. /\ Loss(e, b.seq) = LossOf(SeqHistory(e, b.seq))
          /\ \A j \in DOMAIN SeqHistory(e, b.seq) :
               SeqHistory(e, b.seq)[j].lost = SeqHistory(e, b.seq)[j].expected - 1
      BY <1>3, <1>4, LossIsCurrent
    <3> QED
      BY <1>5, <3>1
  <2> QED
    BY <1>5, <2>1, <2>2 DEF FiguresAreCurrent
<1> QED
  BY <1>9, <1>10, <1>11 DEF IInv

LEMMA RebootInv == IInv /\ Reboot => IInv'
<1> SUFFICES ASSUME IInv, Reboot
             PROVE  IInv'
  OBVIOUS
<1>1. /\ boot \in 1..MaxBoots /\ boot < MaxBoots /\ MaxBoots \in Nat /\ sent \in Nat /\ seq \in Nat
      /\ boot' = boot + 1 /\ seq' = 0 /\ UNCHANGED <<sent, channel, entry, heard, received>>
  BY LinkAssumption DEF IInv, TypeOK, Reboot
<1>2. TypeOK'
  BY <1>1 DEF IInv, TypeOK, Registered, EntryOK
<1>3. ASSUME ~Reorder
      PROVE  InOrder'
  <2> DEFINE sender == [boot |-> boot, seq |-> seq, nr |-> sent]
  <2>1. \A c : /\ c.boot \in Nat /\ c.seq \in Nat /\ c.nr \in Nat
               /\ NotAfter(c, sender)
               => NotAfter(c, sender')
    BY <1>1 DEF NotAfter
  <2>2. NotAfter(heard, sender')
    BY <1>3, <2>1, Numbers DEF IInv, InOrder
  <2>3. \A i \in DOMAIN channel : NotAfter(channel[i], sender')
    BY <1>3, <2>1, Numbers DEF IInv, InOrder
  <2> QED
    BY <1>1, <1>3, <2>2, <2>3 DEF IInv, InOrder
<1>4. FiguresAreCurrent' /\ (~Reorder => GapsAccountedFor')
  BY <1>1 DEF IInv, FiguresAreCurrent, GapsAccountedFor, Registered
<1> QED
  BY <1>2, <1>3, <1>4 DEF IInv

LEMMA NextInv == IInv /\ [Next]_vars => IInv'
<1>1. ASSUME IInv, Prune
      PROVE  IInv'
  BY <1>1 DEF IInv, TypeOK, InOrder, FiguresAreCurrent, GapsAccountedFor, Registered, EntryOK, Prune
<1>2. ASSUME IInv, UNCHANGED vars
      PROVE  IInv'
  BY <1>2 DEF IInv, TypeOK, InOrder, FiguresAreCurrent, GapsAccountedFor, Registered, EntryOK, vars
<1> QED
  BY <1>1, <1>2, BeaconInv, ReceiveInv, RebootInv DEF Next

(* The entry of a peer is well formed however its beacons are lost, repeated, *)
(* reordered or numbered anew: update_peer keeps every window within its      *)
(* length, and last_seq is what was heard last.                               *)
THEOREM Invariance == Spec => []IInv
<1>1. Init => IInv
  BY InitInv
<1>2. IInv /\ [Next]_vars => IInv'
  BY NextInv
<1> QED
  BY <1>1, <1>2, PTL DEF Spec

(* docs/architecture.md 2.3 C holds of a network that keeps the order: the    *)
(* loss window is flushed only by the first beacon of another boot.           *)
THEOREM FlushesAreReboots == ASSUME ~Reorder PROVE Spec => FlushMeansReboot
<1>1. ASSUME IInv, Next
      PROVE  FlushStep
  <2>1. ASSUME NEW i \in DOMAIN channel, NEW delay \in Delays, Receive(i, delay)
        PROVE  FlushStep
    BY <1>1, <2>1, ReceiveInv
  <2> QED
    BY <1>1, <2>1 DEF Next, Beacon, Reboot, Prune, FlushStep
<1>2. IInv /\ [Next]_vars => [FlushStep]_vars
  BY <1>1
<1> QED
  BY <1>2, Invariance, PTL DEF Spec, FlushMeansReboot
-----------------------------------------------------------------------------
(* What a window of naturals ranges over. *)
LEMMA SamplesInRange ==
    ASSUME NEW late \in Seq(Nat), Len(late) >= 1
    PROVE  LET low == CHOOSE x \in Range(late) : \A y \in Range(late) : x <= y
               high == CHOOSE x \in Range(late) : \A y \in Range(late) : y <= x
           IN  /\ low \in Nat /\ high \in Nat /\ low <= high
               /\ \A i \in 1..Len(late) : late[i] \in Nat /\ low <= late[i] /\ late[i] <= high
<1> DEFINE R == Range(late)
           Bounds == {n \in Nat : \A y \in R : y <= n}
<1>1. /\ Len(late) \in Nat /\ DOMAIN late = 1..Len(late)
      /\ \A i \in 1..Len(late) : late[i] \in Nat
  BY ElementOfSeq
<1>2. R \in SUBSET Nat /\ R # {} /\ \A i \in 1..Len(late) : late[i] \in R
  BY <1>1 DEF Range
<1>3. \E x \in R : \A y \in R : x <= y
  <2> HIDE DEF R
  <2> QED
    BY <1>2, SmallestNumber
<1>4. Bounds \in SUBSET Nat /\ Bounds # {}
  <2>1. IsFiniteSet(1..Len(late))
    BY <1>1, FS_Interval
  <2>2. PICK s \in Nat : \A i \in 1..Len(late) : late[i] <= s
    BY <1>1, <2>1, SumOfNaturals
  <2>3. \A y \in R : y <= s
    BY <1>1, <2>2 DEF Range
  <2> QED
    BY <2>3
<1>5. \E x \in R : \A y \in R : y <= x
  <2>1. PICK n \in Bounds : \A m \in Bounds : n <= m
    <3> HIDE DEF Bounds
    <3> QED
      BY <1>4, SmallestNumber
  <2>2. n \in Nat /\ \A y \in R : y \in Nat /\ y <= n
    BY <1>2, <2>1
  <2>3. ASSUME n \notin R
        PROVE  FALSE
    <3>1. \A y \in R : y <= n - 1
      BY <2>2, <2>3
    <3>2. n - 1 \in Nat
      BY <1>2, <2>2, <3>1
    <3>3. n - 1 \in Bounds
      BY <3>1, <3>2
    <3> QED
      BY <2>1, <2>2, <3>3
  <2> QED
    BY <2>2, <2>3
<1> DEFINE low == CHOOSE x \in R : \A y \in R : x <= y
           high == CHOOSE x \in R : \A y \in R : y <= x
<1>6. low \in R /\ \A y \in R : low <= y
  <2> HIDE DEF R
  <2> QED
    BY <1>3
<1>7. high \in R /\ \A y \in R : y <= high
  <2> HIDE DEF R
  <2> QED
    BY <1>5
<1> QED
  BY <1>1, <1>2, <1>6, <1>7

(* What the gaps lost is what they expected, but one beacon each. *)
LEMMA LostButOne ==
    ASSUME NEW h \in Seq(Gap), \A i \in DOMAIN h : h[i].lost = h[i].expected - 1
    PROVE  Expected(h) = Since(h, 1) /\ Expected(h) \in Nat /\ Lost(h) = Expected(h) - Len(h)
<1>1. /\ Len(h) \in Nat /\ DOMAIN h = 1..Len(h)
      /\ \A i \in 1..Len(h) : h[i].expected \in Nat /\ h[i].lost = h[i].expected - 1
  BY GapNumbers
<1> DEFINE f == Expectations(h)
           g == Losses(h)
           D == 1..Len(h)
<1>2. \A i \in D : f[i] \in Int /\ g[i] = f[i] + (-1)
  BY <1>1 DEF Expectations, Losses
<1>3. Expected(h) = SumFunctionOnSet(f, D) /\ Lost(h) = SumFunctionOnSet(g, D)
  BY <1>1 DEF Expected, Lost, Expectations, Losses, SumFunction
<1>4. IsFiniteSet(D) /\ Cardinality(D) = Len(h)
  BY <1>1, FS_Interval
<1>5. Expected(h) = Since(h, 1) /\ Since(h, 1) \in Nat
  BY <1>1, <1>3, SinceIsNatural DEF Since
<1>6. SumFunctionOnSet(g, D) = SumFunctionOnSet(f, D) - Len(h)
  <2>1. PICK d \in Int : d = -1
    OBVIOUS
  <2> HIDE DEF f, g, D
  <2>2. \A i \in D : f[i] \in Int /\ g[i] = f[i] + d
    BY <1>2, <2>1
  <2>3. SumFunctionOnSet(g, D) = SumFunctionOnSet(f, D) + d * Cardinality(D)
    BY <1>4, <2>2, SumOfShifted
  <2>4. SumFunctionOnSet(f, D) \in Nat
    BY <1>3, <1>5
  <2> QED
    BY <1>1, <1>4, <2>1, <2>3, <2>4
<1> QED
  BY <1>1, <1>3, <1>4, <1>5, <1>6

(* The mean of a window lies between its least and its greatest sample.       *)
LEMMA MeanBetween ==
    ASSUME NEW h, NEW n \in Nat, n >= 1, Len(h) = n,
           IsFiniteSet(DOMAIN h), Cardinality(DOMAIN h) = n, NEW low \in Nat, NEW high \in Nat,
           \A i \in DOMAIN h : h[i] \in Nat /\ low <= h[i] /\ h[i] <= high
    PROVE  /\ Mean(h)[1] \in Nat /\ Mean(h)[2] = n
           /\ low * n <= Mean(h)[1] /\ Mean(h)[1] <= high * n
           /\ Mean(h)[1] = 0 <=> \A i \in DOMAIN h : h[i] = 0
<1>1. Mean(h)[1] = SumFunctionOnSet(h, DOMAIN h) /\ Mean(h)[2] = n
  BY DEF Mean, AtLeast, SumFunction
<1>2. /\ low * Cardinality(DOMAIN h) <= SumFunctionOnSet(h, DOMAIN h)
      /\ SumFunctionOnSet(h, DOMAIN h) <= high * Cardinality(DOMAIN h)
  <2>1. low \in Int /\ high \in Int
    OBVIOUS
  <2>2. \A i \in DOMAIN h : h[i] \in Int /\ low <= h[i] /\ h[i] <= high
    OBVIOUS
  <2> QED
    BY <2>1, <2>2, SumIsBounded, Zenon
<1>3. /\ SumFunctionOnSet(h, DOMAIN h) \in Nat
      /\ SumFunctionOnSet(h, DOMAIN h) = 0 <=> \A i \in DOMAIN h : h[i] = 0
  <2>1. \A i \in DOMAIN h : h[i] \in Nat
    OBVIOUS
  <2> QED
    BY <2>1, SumOfNaturals
<1> QED
  BY <1>1, <1>2, <1>3

(* Every conjunct of FiguresMatchWindows from the currency of the figures. *)
LEMMA FiguresMatch == IInv => FiguresMatchWindows
<1> SUFFICES ASSUME IInv, Registered
             PROVE  LET late == entry.latency_history
                        steps == {<<late[i], late[i + 1]>> : i \in 1..(Len(late) - 1)}
                        low == CHOOSE x \in Range(late) : \A y \in Range(late) : x <= y
                        high == CHOOSE x \in Range(late) : \A y \in Range(late) : y <= x
                    IN  /\ entry.latency[1] >= low * entry.latency[2]
                        /\ entry.latency[1] <= high * entry.latency[2]
                        /\ (entry.jitter[1] = 0) <=> (\A s \in steps : s[1] = s[2])
                        /\ entry.jitter[1] <= (high - low) * entry.jitter[2]
                        /\ entry.loss[1] = Lost(entry.seq_history)
                        /\ entry.loss[1] < entry.loss[2]
  BY DEF FiguresMatchWindows
<1> DEFINE late == entry.latency_history
           steps == {<<late[i], late[i + 1]>> : i \in 1..(Len(late) - 1)}
           low == CHOOSE x \in Range(late) : \A y \in Range(late) : x <= y
           high == CHOOSE x \in Range(late) : \A y \in Range(late) : y <= x
           n == Len(late)
           gaps == entry.seq_history
<1>1. /\ late \in Seq(Nat) /\ n \in Nat /\ n >= 1 /\ DOMAIN late = 1..n
      /\ gaps \in Seq(Gap)
  BY LinkAssumption DEF IInv, TypeOK, EntryOK
<1>2. /\ entry.latency = Mean(late)
      /\ entry.jitter = Jitter(late, <<0, 1>>)
      /\ entry.loss = LossOf(gaps)
      /\ \A i \in DOMAIN gaps : gaps[i].lost = gaps[i].expected - 1
  BY DEF IInv, FiguresAreCurrent
<1>3. /\ low \in Nat /\ high \in Nat /\ low <= high
      /\ \A i \in 1..n : late[i] \in Nat /\ low <= late[i] /\ late[i] <= high
  BY <1>1, SamplesInRange
<1>4. entry.loss[1] = Lost(gaps) /\ entry.loss[1] < entry.loss[2]
  <2>1. Expected(gaps) \in Nat /\ Lost(gaps) = Expected(gaps) - Len(gaps) /\ Len(gaps) \in Nat
    BY <1>1, <1>2, LostButOne
  <2>2. Len(gaps) = 0 => Lost(gaps) = 0
    <3>1. ASSUME Len(gaps) = 0
          PROVE  gaps = <<>>
      BY <1>1, <3>1
    <3>2. Lost(<<>>) = 0
      BY LossOfNone DEF LossOf
    <3> QED
      BY <3>1, <3>2
  <2> HIDE DEF gaps
  <2> QED
    BY <1>2, <2>1, <2>2 DEF LossOf, AtLeast
<1> HIDE DEF late, low, high, gaps
<1>5. entry.latency[1] >= low * entry.latency[2] /\ entry.latency[1] <= high * entry.latency[2]
  <2>1. /\ Mean(late)[1] \in Nat /\ Mean(late)[2] = n
        /\ low * n <= Mean(late)[1] /\ Mean(late)[1] <= high * n
    <3>1. IsFiniteSet(DOMAIN late) /\ Cardinality(DOMAIN late) = n
      BY <1>1, FS_Interval
    <3>2. \A i \in DOMAIN late : late[i] \in Nat /\ low <= late[i] /\ late[i] <= high
      BY <1>1, <1>3
    <3>3. n \in Nat /\ n >= 1 /\ low \in Nat /\ high \in Nat
      BY <1>1, <1>3
    <3> QED
      BY <3>1, <3>2, <3>3, MeanBetween
  <2> QED
    BY <1>1, <1>2, <1>3, <2>1
<1>6. /\ (entry.jitter[1] = 0) <=> (\A s \in steps : s[1] = s[2])
      /\ entry.jitter[1] <= (high - low) * entry.jitter[2]
  <2>1. CASE n > 1
    <3> DEFINE h == Steps(late)
               wide == high - low
    <3>1. n - 1 \in Nat /\ n - 1 >= 1 /\ DOMAIN h = 1..(n - 1) /\ Len(h) = n - 1 /\ wide \in Nat
      BY <1>1, <1>3, <2>1 DEF Steps
    <3>2. \A i \in 1..(n - 1) : /\ h[i] \in Nat /\ 0 <= h[i] /\ h[i] <= wide
                                /\ h[i] = 0 <=> late[i] = late[i + 1]
      <4> SUFFICES ASSUME NEW i \in 1..(n - 1)
                   PROVE  /\ h[i] \in Nat /\ 0 <= h[i] /\ h[i] <= wide
                          /\ h[i] = 0 <=> late[i] = late[i + 1]
        OBVIOUS
      <4>1. i \in 1..n /\ i + 1 \in 1..n /\ h[i] = AbsDiff(late[i], late[i + 1])
        BY <1>1 DEF Steps
      <4>2. /\ late[i] \in Nat /\ low <= late[i] /\ late[i] <= high
            /\ late[i + 1] \in Nat /\ low <= late[i + 1] /\ late[i + 1] <= high
        BY <1>3, <4>1
      <4> HIDE DEF h
      <4> QED
        BY <1>3, <4>1, <4>2 DEF AbsDiff
    <3>3. entry.jitter = Mean(h)
      BY <1>2, <2>1 DEF Jitter
    <3> HIDE DEF h, wide
    <3>4. /\ Mean(h)[1] \in Nat /\ Mean(h)[2] = n - 1
          /\ Mean(h)[1] <= wide * (n - 1)
          /\ Mean(h)[1] = 0 <=> \A i \in 1..(n - 1) : h[i] = 0
      <4>1. IsFiniteSet(DOMAIN h) /\ Cardinality(DOMAIN h) = n - 1
        BY <3>1, FS_Interval
      <4>2. PICK p \in Nat, z \in Nat : p = n - 1 /\ z = 0
        BY <3>1
      <4>3. \A i \in DOMAIN h : h[i] \in Nat /\ z <= h[i] /\ h[i] <= wide
        BY <3>1, <3>2, <4>2
      <4>4. /\ p >= 1 /\ Len(h) = p /\ wide \in Nat
            /\ IsFiniteSet(DOMAIN h) /\ Cardinality(DOMAIN h) = p
        BY <3>1, <4>1, <4>2
      <4>5. /\ Mean(h)[1] \in Nat /\ Mean(h)[2] = p
            /\ z * p <= Mean(h)[1] /\ Mean(h)[1] <= wide * p
            /\ Mean(h)[1] = 0 <=> \A i \in DOMAIN h : h[i] = 0
        BY <4>3, <4>4, MeanBetween
      <4> QED
        BY <3>1, <4>2, <4>5
    <3>5. (\A s \in steps : s[1] = s[2]) <=> \A i \in 1..(n - 1) : late[i] = late[i + 1]
      <4>1. ASSUME \A s \in steps : s[1] = s[2], NEW i \in 1..(n - 1)
            PROVE  late[i] = late[i + 1]
        <5>1. <<late[i], late[i + 1]>> \in steps
          OBVIOUS
        <5>2. <<late[i], late[i + 1]>>[1] = <<late[i], late[i + 1]>>[2]
          BY <4>1, <5>1
        <5> QED
          BY <5>2
      <4>2. ASSUME \A i \in 1..(n - 1) : late[i] = late[i + 1], NEW s \in steps
            PROVE  s[1] = s[2]
        <5>1. PICK i \in 1..(n - 1) : s = <<late[i], late[i + 1]>>
          OBVIOUS
        <5> QED
          BY <4>2, <5>1
      <4> QED
        BY <4>1, <4>2
    <3>6. (\A i \in 1..(n - 1) : h[i] = 0) <=> \A i \in 1..(n - 1) : late[i] = late[i + 1]
      BY <3>2
    <3> QED
      BY <3>3, <3>4, <3>5, <3>6 DEF wide
  <2>2. CASE ~(n > 1)
    <3>1. steps = {}
      BY <1>1, <2>2
    <3>2. entry.jitter = <<0, 1>>
      BY <1>2, <2>2 DEF Jitter
    <3> QED
      BY <1>3, <3>1, <3>2
  <2> QED
    BY <2>1, <2>2
<1> QED
  BY <1>4, <1>5, <1>6 DEF late, low, high, gaps

(* How many of the observed beacons are missing. *)
LEMMA MissingCount ==
    ASSUME IInv, Registered
    PROVE  LET gaps == entry.seq_history
               arrived == Arrived(received, heard.nr, Since(gaps, 1))
           IN  /\ Lost(gaps) = Since(gaps, 1) - Len(gaps)
               /\ Cardinality(Missing) = Since(gaps, 1) - arrived
               /\ Since(gaps, 1) \in Nat /\ Len(gaps) \in Nat /\ arrived \in Nat
<1> DEFINE gaps == entry.seq_history
           E == Since(gaps, 1)
<1>1. gaps \in Seq(Gap) /\ \A i \in DOMAIN gaps : gaps[i].lost = gaps[i].expected - 1
  BY DEF IInv, TypeOK, EntryOK, FiguresAreCurrent
<1>2. /\ Expected(gaps) = E /\ E \in Nat /\ Len(gaps) \in Nat
      /\ Lost(gaps) = E - Len(gaps)
  BY <1>1, LostButOne
<1>3. heard.nr \in Nat
  BY Numbers
<1>4. Observed = (heard.nr - E + 1)..heard.nr
  BY <1>2 DEF Observed
<1>5. IsFiniteSet(Observed) /\ Cardinality(Observed) = E
  <2> HIDE DEF E
  <2> QED
    BY <1>2, <1>3, <1>4, FS_Interval
<1>6. Cardinality(Missing) = Cardinality(Observed) - Cardinality(Observed \cap received)
  BY <1>5, FS_Difference DEF Missing
<1>7. Cardinality(Observed \cap received) = Arrived(received, heard.nr, E)
  BY <1>4 DEF Arrived
<1>8. Cardinality(Observed \cap received) \in Nat
  BY <1>5, FS_Subset, FS_CardinalityType
<1> QED
  BY <1>2, <1>5, <1>6, <1>7, <1>8

(* Whatever is lost, repeated, reordered, pruned or numbered anew, and        *)
(* whatever the clocks say, the figures that update_peer leaves in an entry   *)
(* are those of its windows: the mean latency and jitter lie within what the  *)
(* samples allow, and the loss is a share of what was expected.               *)
THEOREM FiguresAreOfTheWindows == Spec => []FiguresMatchWindows
BY Invariance, FiguresMatch, PTL

(* Over a network that keeps the order, the loss shown for a peer in its      *)
(* first boot is the number of beacons that never arrived, of those the loss  *)
(* window speaks of.                                                          *)
THEOREM LossesAreExact == ASSUME ~Reorder PROVE Spec => []LossIsExact
<1>1. ASSUME IInv, Registered, heard.boot = 1
      PROVE  Lost(entry.seq_history) = Cardinality(Missing)
  <2>1. GapsAccountedFor
    BY <1>1 DEF IInv
  <2>2. 1 \in 1..(Len(entry.seq_history) + 1)
    BY <1>1, MissingCount
  <2>3. Arrived(received, heard.nr, Since(entry.seq_history, 1)) = Len(entry.seq_history) - 1 + 1
    BY <1>1, <2>1, <2>2 DEF GapsAccountedFor
  <2> QED
    BY <1>1, <2>3, MissingCount
<1>2. IInv => LossIsExact
  BY <1>1 DEF LossIsExact
<1> QED
  BY <1>2, Invariance, PTL

(* ... and whatever boot it is in, and whether the tracker noticed a reboot   *)
(* or took it for a gap, no more is shown than was lost.                      *)
THEOREM LossesAreNeverOverestimated ==
    ASSUME ~Reorder PROVE Spec => []LossNeverOverestimated
<1>1. ASSUME IInv, Registered
      PROVE  Lost(entry.seq_history) <= Cardinality(Missing)
  <2>1. GapsAccountedFor
    BY <1>1 DEF IInv
  <2>2. 1 \in 1..(Len(entry.seq_history) + 1)
    BY <1>1, MissingCount
  <2>3. Arrived(received, heard.nr, Since(entry.seq_history, 1)) <= Len(entry.seq_history) - 1 + 1
    BY <1>1, <2>1, <2>2 DEF GapsAccountedFor
  <2> QED
    BY <1>1, <2>3, MissingCount
<1>2. IInv => LossNeverOverestimated
  BY <1>1 DEF LossNeverOverestimated
<1> QED
  BY <1>2, Invariance, PTL
=============================================================================

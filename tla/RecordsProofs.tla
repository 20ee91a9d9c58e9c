------------------------------ MODULE RecordsProofs ------------------------------
(***************************************************************************)
(* What a flow pays, for any rate cards, names, rates and numbers of       *)
(* tokens, any scopes, budgets, costs and amendments, any callbacks and    *)
(* any number of sessions: the rule an event is billed by, what its tokens *)
(* cost, that a cap is honoured and that spends add up.  And what its      *)
(* checkpoints hold, for any strings, keys and classes and values nested   *)
(* to any depth: what comes back is what was stored.                       *)
(*                                                                         *)
(* Words and sums are folds over sets, the codec's functions recursive     *)
(* over values.  That they exist, and what holds of a set or a value       *)
(* because it does of the smaller ones, is proved from there being a least *)
(* number to which it does not apply.                                      *)
(***************************************************************************)
EXTENDS Records, FiniteSetTheorems, WellFoundedInduction, TLAPS

(* A set of naturals has a least element: what induction there is. *)
LEMMA LeastOf ==
  ASSUME NEW T \in SUBSET Nat, T # {}
  PROVE  \E m \in T : \A k \in T : ~ (k < m)
<1> DEFINE R == OpToRel(<, Nat)
<1>1. IsWellFoundedOn(R, Nat)
  BY NatLessThanWellFounded
<1>2. \A x, y \in Nat : y < x => <<y, x>> \in R
  BY DEF OpToRel
<1> HIDE DEF R
<1>3. \E x \in T : \A y \in T : ~ (<<y, x>> \in R)
  BY <1>1, WFMin
<1>. QED  BY <1>2, <1>3

(* A fold over a set takes one of its elements after the other: which one is
   next, and what it does to the value of the rest. *)
Folds(g, S, base, next, step) ==
  \A A \in SUBSET S : g[A] = IF A = {} THEN base ELSE step[A][g[A \ {next[A]}]]

Small(S, n) == {A \in SUBSET S : Cardinality(A) <= n}
FoldsUpTo(g, S, n, base, next, step) ==
  \A A \in Small(S, n) : g[A] = IF A = {} THEN base ELSE step[A][g[A \ {next[A]}]]

LEMMA FoldExists ==
  ASSUME NEW S, IsFiniteSet(S), NEW V, NEW base \in V,
         NEW next, \A A \in SUBSET S : A # {} => next[A] \in A,
         NEW step, \A A \in SUBSET S : A # {} => step[A] \in [V -> V]
  PROVE  \E g \in [SUBSET S -> V] : Folds(g, S, base, next, step)
<1> DEFINE Has(n) == \E g \in [Small(S, n) -> V] : FoldsUpTo(g, S, n, base, next, step)
           T == {n \in Nat : ~Has(n)}
<1>1. \A A \in SUBSET S : IsFiniteSet(A) /\ Cardinality(A) \in Nat /\ Cardinality(A) <= Cardinality(S)
  BY FS_Subset, FS_CardinalityType
<1>2. \A A \in SUBSET S : A # {} => Cardinality(A \ {next[A]}) = Cardinality(A) - 1
  BY <1>1, FS_RemoveElement
<1>3. \A A \in SUBSET S : Cardinality(A) = 0 <=> A = {}
  BY <1>1, FS_EmptySet
<1>4. Has(0)
  <2> DEFINE g == [A \in Small(S, 0) |-> base]
  <2>1. \A A \in Small(S, 0) : A = {}
    BY <1>1, <1>3 DEF Small
  <2>2. FoldsUpTo(g, S, 0, base, next, step)
    BY <2>1 DEF FoldsUpTo
  <2>. QED  BY <2>2
<1>5. ASSUME NEW n \in Nat, Has(n) PROVE Has(n + 1)
  <2>1. PICK g \in [Small(S, n) -> V] : FoldsUpTo(g, S, n, base, next, step)
    BY <1>5
  <2> DEFINE h == [A \in Small(S, n + 1) |->
                     IF A = {} THEN base ELSE step[A][g[A \ {next[A]}]]]
  <2>2. \A A \in Small(S, n + 1) : A # {} => A \ {next[A]} \in Small(S, n)
    BY <1>1, <1>2 DEF Small
  <2>3. h \in [Small(S, n + 1) -> V]
    <3> SUFFICES ASSUME NEW A \in Small(S, n + 1), A # {} PROVE step[A][g[A \ {next[A]}]] \in V
      OBVIOUS
    <3>1. g[A \ {next[A]}] \in V /\ A \in SUBSET S
      BY <2>2 DEF Small
    <3>. QED  BY <3>1
  <2>4. \A A \in Small(S, n) : h[A] = g[A]
    <3>1. Small(S, n) \subseteq Small(S, n + 1)
      BY <1>1 DEF Small
    <3>. QED  BY <2>1, <3>1 DEF FoldsUpTo
  <2>5. FoldsUpTo(h, S, n + 1, base, next, step)
    BY <2>2, <2>4 DEF FoldsUpTo
  <2>. QED  BY <2>3, <2>5
<1> HIDE DEF Has
<1>6. T = {}
  <2> SUFFICES ASSUME T # {} PROVE FALSE
    OBVIOUS
  <2>1. PICK m \in T : \A k \in T : ~(k < m)
    BY LeastOf
  <2>2. m # 0 /\ m \in Nat
    BY <1>4
  <2>3. m - 1 \in Nat /\ ~(m - 1 \in T)
    BY <2>1, <2>2
  <2>. QED  BY <2>1, <2>3, <1>5
<1>7. Has(Cardinality(S))
  BY <1>1, <1>6
<1>8. Small(S, Cardinality(S)) = SUBSET S
  BY <1>1 DEF Small
<1>. QED  BY <1>7, <1>8 DEF Has, Folds, FoldsUpTo

(* What holds of the empty set, and of a set if it does of those with an element
   less, holds of all. *)
LEMMA AllSubsets ==
  ASSUME NEW S, IsFiniteSet(S), NEW T \in SUBSET (SUBSET S), {} \in T,
         \A A \in SUBSET S : A # {} /\ (\A x \in A : A \ {x} \in T) => A \in T
  PROVE  T = SUBSET S
<1> DEFINE K == {Cardinality(B) : B \in (SUBSET S) \ T}
<1>1. \A B \in SUBSET S : IsFiniteSet(B) /\ Cardinality(B) \in Nat
  BY FS_Subset, FS_CardinalityType
<1>2. K = {}
  <2> SUFFICES ASSUME K # {} PROVE FALSE
    OBVIOUS
  <2>0. K \in SUBSET Nat
    BY <1>1
  <2>1. PICK m \in K : \A k \in K : ~(k < m)
    BY <2>0, LeastOf
  <2>2. PICK B \in (SUBSET S) \ T : Cardinality(B) = m
    OBVIOUS
  <2>3. B # {}
    <3> SUFFICES ASSUME B = {} PROVE FALSE
      OBVIOUS
    <3>. QED  BY <2>2
  <2>4. PICK x \in B : B \ {x} \notin T
    BY <2>3
  <2>5. Cardinality(B \ {x}) = Cardinality(B) - 1
    BY <1>1, <2>4, FS_RemoveElement
  <2>6. Cardinality(B \ {x}) \in K
    BY <2>4
  <2>7. m \in Nat /\ Cardinality(B \ {x}) = m - 1
    BY <2>0, <2>1, <2>2, <2>5
  <2>8. ~(m - 1 < m)
    BY <2>1, <2>6, <2>7
  <2>. QED  BY <2>7, <2>8
<1>. QED  BY <1>2

-----------------------------------------------------------------------------
(* Words of names *)

Chars == UNION {Range(m) : m \in Models \cup Publishers}

LEMMA NamesAreSequences ==
  \A m \in Models \cup Publishers : m \in Seq(Chars) /\ Len(m) \in Nat \ {0}
<1> SUFFICES ASSUME NEW m \in Models \cup Publishers PROVE m \in Seq(Chars) /\ Len(m) \in Nat \ {0}
  OBVIOUS
<1>1. m \in Seq(Range(m)) /\ m # <<>>
  BY PricingConstants
<1>2. Range(m) \subseteq Chars
  BY DEF Chars
<1>3. \A i \in 1..Len(m) : m[i] \in Chars
  BY <1>1, <1>2
<1>. QED  BY <1>1, <1>3

(* What one more character does. *)
More(words, c) ==
  IF c \in Boundaries THEN Append(words, <<c>>)
  ELSE [words EXCEPT ![Len(words)] = Append(@, c)]
Texts == {words \in Seq(Seq(Chars)) : words # <<>>}

LEMMA MoreType ==
  ASSUME NEW words \in Texts, NEW c \in Chars
  PROVE  /\ More(words, c) \in Texts
         /\ c \in Boundaries => /\ Len(More(words, c)) = Len(words) + 1
                                /\ More(words, c)[Len(words) + 1] = <<c>>
                                /\ \A m \in 1..Len(words) : More(words, c)[m] = words[m]
         /\ c \notin Boundaries => /\ Len(More(words, c)) = Len(words)
                                   /\ More(words, c)[Len(words)] = Append(words[Len(words)], c)
                                   /\ \A m \in 1..(Len(words) - 1) : More(words, c)[m] = words[m]
<1>1. words \in Seq(Seq(Chars)) /\ Len(words) \in Nat \ {0} /\ Len(words) \in 1..Len(words)
  BY DEF Texts
<1>2. CASE c \in Boundaries
  <2>1. <<c>> \in Seq(Chars) /\ More(words, c) = Append(words, <<c>>)
    BY <1>2 DEF More
  <2>. QED  BY <1>1, <1>2, <2>1 DEF Texts
<1>3. CASE c \notin Boundaries
  <2> DEFINE last == Append(words[Len(words)], c)
  <2>1. last \in Seq(Chars) /\ More(words, c) = [words EXCEPT ![Len(words)] = last]
    BY <1>1, <1>3 DEF More
  <2> HIDE DEF last
  <2>2. More(words, c) \in Seq(Seq(Chars)) /\ Len(More(words, c)) = Len(words)
        /\ More(words, c)[Len(words)] = last
        /\ \A m \in 1..(Len(words) - 1) : More(words, c)[m] = words[m]
    BY <1>1, <2>1
  <2>. QED  BY <1>1, <1>3, <2>2 DEF Texts, last
<1>. QED  BY <1>2, <1>3

LEMMA MaxIn ==
  ASSUME NEW n \in Nat, NEW A \in SUBSET (1..n), A # {}
  PROVE  Max(A) \in A /\ \A y \in A : Max(A) >= y
<1> DEFINE T == {n - x : x \in A}
<1>1. T \in SUBSET Nat /\ T # {}
  <2>1. \A x \in 1..n : n - x \in Nat
    OBVIOUS
  <2>2. \A x \in A : n - x \in Nat
    BY <2>1
  <2>3. PICK x \in A : TRUE
    OBVIOUS
  <2>4. n - x \in T
    OBVIOUS
  <2>. QED  BY <2>2, <2>4
<1>2. PICK m \in T : \A k \in T : ~(k < m)
  BY <1>1, LeastOf
<1>3. PICK x \in A : m = n - x
  OBVIOUS
<1>4. \A y \in A : x >= y
  <2> SUFFICES ASSUME NEW y \in A PROVE x >= y
    OBVIOUS
  <2>1. n - y \in T
    OBVIOUS
  <2>2. ~(n - y < n - x) /\ x \in Nat /\ y \in Nat
    BY <1>2, <1>3, <2>1
  <2>. QED  BY <2>2
<1>. QED  BY <1>4 DEF Max

(* The words of every beginning of a name. *)
LEMMA WordsGrow ==
  ASSUME NEW name \in Seq(Chars)
  PROVE  \E W \in [0..Len(name) -> Texts] :
           /\ W[0] = << <<>> >>
           /\ \A i \in 1..Len(name) : W[i] = More(W[i - 1], name[i])
           /\ Words(name) = W[Len(name)]
<1> DEFINE D == DOMAIN name
           next == [A \in SUBSET D |-> Max(A)]
           step == [A \in SUBSET D |-> [w \in Texts |-> More(w, name[Max(A)])]]
           Eq(g) == g = [A \in SUBSET D |->
                          IF A = {} THEN << <<>> >>
                          ELSE IF name[Max(A)] \in Boundaries
                               THEN Append(g[A \ {Max(A)}], <<name[Max(A)]>>)
                               ELSE [g[A \ {Max(A)}] EXCEPT ![Len(g[A \ {Max(A)}])] = Append(@, name[Max(A)])]]
           F == CHOOSE g : Eq(g)
<1>1. D = 1..Len(name) /\ Len(name) \in Nat /\ IsFiniteSet(D)
  BY FS_Interval
<1>2. \A A \in SUBSET D : A # {} => Max(A) \in A /\ name[Max(A)] \in Chars
  <2> SUFFICES ASSUME NEW A \in SUBSET D, A # {} PROVE Max(A) \in A /\ name[Max(A)] \in Chars
    OBVIOUS
  <2>1. A \in SUBSET (1..Len(name))
    BY <1>1
  <2>2. Max(A) \in A
    BY <1>1, <2>1, MaxIn
  <2>3. Max(A) \in 1..Len(name)
    BY <2>1, <2>2
  <2>. QED  BY <2>2, <2>3
<1>3. \A A \in SUBSET D : A # {} => next[A] \in A /\ step[A] \in [Texts -> Texts]
  <2> SUFFICES ASSUME NEW A \in SUBSET D, A # {} PROVE next[A] \in A /\ step[A] \in [Texts -> Texts]
    OBVIOUS
  <2>1. \A w \in Texts : More(w, name[Max(A)]) \in Texts
    BY <1>2, MoreType
  <2>. QED  BY <1>2, <2>1
<1>4. << <<>> >> \in Texts
  <2>1. <<>> \in Seq(Chars)
    OBVIOUS
  <2>. QED  BY <2>1 DEF Texts
<1>5. PICK g : g \in [SUBSET D -> Texts] /\ Folds(g, D, << <<>> >>, next, step)
  <2> HIDE DEF next, step, D
  <2>. QED  BY <1>1, <1>3, <1>4, FoldExists
<1>6. \A A \in SUBSET D : A # {} => g[A] = More(g[A \ {Max(A)}], name[Max(A)])
  BY <1>5 DEF Folds
<1>7. g[{}] = << <<>> >>
  BY <1>5 DEF Folds
<1>8. Eq(g)
  BY <1>5, <1>6, <1>7 DEF More
<1>9. Eq(F)
  <2> HIDE DEF Eq
  <2>. QED  BY <1>8
<1>10. Words(name) = F[D]
  BY DEF Words, FoldLeft, MapThenFoldSet
<1> HIDE DEF F
<1>11. F = g
  <2> DEFINE T == {A \in SUBSET D : F[A] = g[A]}
  <2>1. {} \in T
    BY <1>7, <1>9
  <2>2. ASSUME NEW A \in SUBSET D, A # {}, \A x \in A : A \ {x} \in T PROVE A \in T
    <3>1. F[A \ {Max(A)}] = g[A \ {Max(A)}]
      BY <1>2, <2>2
    <3>2. F[A] = More(F[A \ {Max(A)}], name[Max(A)])
      BY <1>9, <2>2 DEF More
    <3>. QED  BY <1>6, <2>2, <3>1, <3>2
  <2>3. T = SUBSET D
    <3> HIDE DEF T, D
    <3>1. T \in SUBSET (SUBSET D)
      BY DEF T
    <3>. QED  BY <1>1, <2>1, <2>2, <3>1, AllSubsets
  <2>. QED  BY <1>8, <1>9, <2>3
<1> DEFINE W == [i \in 0..Len(name) |-> g[1..i]]
<1>12. W \in [0..Len(name) -> Texts]
  BY <1>1, <1>5
<1>13. W[0] = << <<>> >>
  BY <1>1, <1>7
<1>14. ASSUME NEW i \in 1..Len(name) PROVE W[i] = More(W[i - 1], name[i])
  <2>1. (1..i) \in SUBSET D /\ (1..i) # {} /\ i \in 0..Len(name) /\ i - 1 \in 0..Len(name)
    <3>1. i \in 1..i
      OBVIOUS
    <3>2. 1..i \subseteq 1..Len(name)
      BY <1>1
    <3>3. i \in 0..Len(name) /\ i - 1 \in 0..Len(name)
      BY <1>1
    <3>. QED  BY <1>1, <3>1, <3>2, <3>3
  <2>2. Max(1..i) = i
    <3>1. (1..i) \in SUBSET (1..i) /\ i \in Nat /\ i \in 1..i
      OBVIOUS
    <3>2. Max(1..i) \in 1..i /\ Max(1..i) >= i
      BY <2>1, <3>1, MaxIn
    <3>. QED  BY <3>2
  <2>3. (1..i) \ {i} = 1..(i - 1)
    OBVIOUS
  <2>4. g[1..i] = More(g[1..(i - 1)], name[i])
    BY <1>6, <2>1, <2>2, <2>3
  <2>. QED  BY <2>1, <2>4
<1>15. Words(name) = W[Len(name)]
  BY <1>1, <1>10, <1>11
<1>. QED  BY <1>12, <1>13, <1>14, <1>15

Grows(W, name) ==
  /\ W \in [0..Len(name) -> Texts] /\ W[0] = << <<>> >>
  /\ \A i \in 1..Len(name) : W[i] = More(W[i - 1], name[i])

(* A word that is followed by another stays, and the last one can only grow. *)
Extends(later, words) ==
  /\ Len(words) <= Len(later)
  /\ \A m \in 1..(Len(words) - 1) : later[m] = words[m]
  /\ Len(words[Len(words)]) <= Len(later[Len(words)])
  /\ \A x \in 1..Len(words[Len(words)]) : later[Len(words)][x] = words[Len(words)][x]

LEMMA TextFacts ==
  ASSUME NEW w \in Texts
  PROVE  /\ Len(w) \in Nat \ {0} /\ Len(w) \in 1..Len(w)
         /\ \A m \in 1..Len(w) : w[m] \in Seq(Chars) /\ Len(w[m]) \in Nat
BY DEF Texts

LEMMA MoreExtends ==
  ASSUME NEW w \in Texts, NEW later \in Texts, Extends(later, w), NEW c \in Chars
  PROVE  Extends(More(later, c), w)
<1> DEFINE a == Len(w)
           n == Len(later)
           next == More(later, c)
<1>1. a \in Nat \ {0} /\ n \in Nat \ {0} /\ a <= n /\ w[a] \in Seq(Chars) /\ later[a] \in Seq(Chars)
      /\ later[n] \in Seq(Chars) /\ n \in 1..n
  BY TextFacts DEF Extends
<1>2. /\ \A m \in 1..(n - 1) : next[m] = later[m]
      /\ n <= Len(next)
      /\ next[n] = later[n] \/ next[n] = Append(later[n], c)
  BY <1>1, MoreType
<1>3. /\ \A m \in 1..(a - 1) : later[m] = w[m]
      /\ Len(w[a]) <= Len(later[a])
      /\ \A x \in 1..Len(w[a]) : later[a][x] = w[a][x]
  BY DEF Extends
<1> HIDE DEF a, n, next
<1>4. a <= Len(next) /\ \A m \in 1..(a - 1) : next[m] = w[m]
  <2>1. n \in Nat /\ a \in Nat /\ Len(next) \in Nat
    BY <1>1, MoreType, TextFacts DEF next
  <2>. QED  BY <1>1, <1>2, <1>3, <2>1
<1>5. CASE a < n
  <2>1. next[a] = later[a]
    BY <1>1, <1>2, <1>5
  <2>. QED  BY <1>3, <1>4, <2>1 DEF Extends, a, next
<1>6. CASE a = n
  <2>1. Len(later[a]) <= Len(next[a]) /\ \A x \in 1..Len(later[a]) : next[a][x] = later[a][x]
    <3>1. c \in Chars /\ later[a] \in Seq(Chars)
      BY <1>1
    <3>. QED  BY <1>2, <1>6, <3>1
  <2>2. Len(w[a]) \in Nat /\ Len(later[a]) \in Nat /\ Len(next[a]) \in Nat
    <3>1. next[a] \in Seq(Chars)
      <4>1. Append(later[n], c) \in Seq(Chars)
        BY <1>1
      <4>. QED  BY <1>1, <1>2, <1>6, <4>1
    <3>. QED  BY <1>1, <3>1
  <2>3. Len(w[a]) <= Len(next[a]) /\ \A x \in 1..Len(w[a]) : next[a][x] = w[a][x]
    BY <1>3, <2>1, <2>2
  <2>. QED  BY <1>4, <2>3 DEF Extends, a, next
<1>. QED  BY <1>1, <1>5, <1>6

LEMMA Grown ==
  ASSUME NEW name \in Seq(Chars), NEW W, Grows(W, name),
         NEW i \in 0..Len(name), NEW j \in i..Len(name)
  PROVE  Extends(W[j], W[i])
<1> DEFINE T == {k \in Nat : k <= Len(name) /\ i <= k /\ ~Extends(W[k], W[i])}
<1>0. Len(name) \in Nat /\ W \in [0..Len(name) -> Texts]
  BY DEF Grows
<1>1. T = {}
  <2> SUFFICES ASSUME T # {} PROVE FALSE
    OBVIOUS
  <2>1. PICK k \in T : \A l \in T : ~(l < k)
    <3>1. T \in SUBSET Nat
      OBVIOUS
    <3>. QED  BY <3>1, LeastOf
  <2>2. k \in Nat /\ k <= Len(name) /\ i <= k /\ ~Extends(W[k], W[i])
    OBVIOUS
  <2>3. W[i] \in Texts /\ Extends(W[i], W[i])
    <3>1. W[i] \in Texts
      BY <1>0
    <3>. QED  BY <3>1, TextFacts DEF Extends
  <2>4. k # i
    BY <2>2, <2>3
  <2>5. k - 1 \in Nat /\ k - 1 <= Len(name) /\ i <= k - 1 /\ k - 1 < k /\ k \in 1..Len(name) /\ k - 1 \in 0..Len(name)
    BY <1>0, <2>2, <2>4
  <2>6. Extends(W[k - 1], W[i])
    BY <2>1, <2>5
  <2>7. W[k] = More(W[k - 1], name[k]) /\ W[k - 1] \in Texts /\ name[k] \in Chars
    BY <1>0, <2>5 DEF Grows
  <2>. QED  BY <2>2, <2>3, <2>6, <2>7, MoreExtends
<1>2. j \in Nat /\ j <= Len(name) /\ i <= j
  BY <1>0
<1>. QED  BY <1>1, <1>2

(* What follows a mark begins a word, and what follows another character is
   part of its word. *)
LEMMA NextCharacter ==
  ASSUME NEW name \in Seq(Chars), NEW W, Grows(W, name), NEW i \in 0..(Len(name) - 1)
  PROVE  LET w == W[i]
             a == Len(w)
             b == Len(w[a])
             all == W[Len(name)]
         IN /\ name[i + 1] \in Boundaries =>
                 a + 1 <= Len(all) /\ all[a] = w[a] /\ all[a + 1][1] = name[i + 1]
            /\ name[i + 1] \notin Boundaries =>
                 a <= Len(all) /\ b + 1 <= Len(all[a]) /\ all[a][b + 1] = name[i + 1]
<1> DEFINE w == W[i]
           a == Len(w)
           b == Len(w[a])
           all == W[Len(name)]
           more == W[i + 1]
           c == name[i + 1]
<1>1. Len(name) \in Nat /\ i \in Nat /\ i + 1 \in 1..Len(name) /\ i + 1 \in 0..Len(name) /\ i \in 0..Len(name)
      /\ Len(name) \in (i + 1)..Len(name)
  OBVIOUS
<1>2. w \in Texts /\ more = More(w, c) /\ c \in Chars /\ more \in Texts /\ all \in Texts
  <2>1. W \in [0..Len(name) -> Texts] /\ W[i + 1] = More(W[i + 1 - 1], name[i + 1])
    BY <1>1 DEF Grows
  <2>2. i + 1 - 1 = i /\ Len(name) \in 0..Len(name)
    BY <1>1
  <2>. QED  BY <1>1, <2>1, <2>2
<1>3. Extends(all, more)
  BY <1>1, Grown
<1>4. a \in Nat \ {0} /\ w[a] \in Seq(Chars) /\ b \in Nat
  BY <1>2, TextFacts
<1> HIDE DEF w, a, more, all, c
<1>5. CASE c \in Boundaries
  <2>1. Len(more) = a + 1 /\ more[a + 1] = <<c>> /\ \A m \in 1..a : more[m] = w[m]
    BY <1>2, <1>5, MoreType DEF a
  <2>2. /\ a + 1 <= Len(all)
        /\ \A m \in 1..a : all[m] = more[m]
        /\ \A x \in 1..Len(more[a + 1]) : all[a + 1][x] = more[a + 1][x]
    BY <1>3, <1>4, <2>1 DEF Extends
  <2>3. a \in 1..a /\ 1 \in 1..Len(more[a + 1]) /\ more[a + 1][1] = c
    BY <1>4, <2>1
  <2>4. a + 1 <= Len(all) /\ all[a] = w[a] /\ all[a + 1][1] = c
    BY <2>1, <2>2, <2>3
  <2>. QED  BY <1>5, <2>4 DEF w, a, all, c
<1>6. CASE c \notin Boundaries
  <2>1. Len(more) = a /\ more[a] = Append(w[a], c)
    BY <1>2, <1>6, MoreType DEF a
  <2>2. /\ a <= Len(all) /\ Len(more[a]) <= Len(all[a])
        /\ \A x \in 1..Len(more[a]) : all[a][x] = more[a][x]
    BY <1>3, <2>1 DEF Extends
  <2>3. Len(more[a]) = b + 1 /\ b + 1 \in 1..Len(more[a]) /\ more[a][b + 1] = c
    BY <1>2, <1>4, <2>1
  <2>4. a <= Len(all) /\ b + 1 <= Len(all[a]) /\ all[a][b + 1] = c
    BY <2>2, <2>3
  <2>. QED  BY <1>6, <2>4 DEF w, a, all, c
<1>. QED  BY <1>5, <1>6 DEF w, a, all, c

(* The words of a beginning of a name are those the name has got to there. *)
LEMMA SameBeginning ==
  ASSUME NEW k \in Seq(Chars), NEW n \in Seq(Chars), NEW W, NEW V, Grows(W, k), Grows(V, n),
         NEW i \in Nat, i <= Len(k), i <= Len(n), \A x \in 1..i : k[x] = n[x]
  PROVE  W[i] = V[i]
<1> DEFINE T == {j \in Nat : j <= i /\ W[j] # V[j]}
<1>1. T = {}
  <2> SUFFICES ASSUME T # {} PROVE FALSE
    OBVIOUS
  <2>1. PICK j \in T : \A l \in T : ~(l < j)
    <3>1. T \in SUBSET Nat
      OBVIOUS
    <3>. QED  BY <3>1, LeastOf
  <2>2. j \in Nat /\ j <= i /\ W[j] # V[j]
    OBVIOUS
  <2>3. j # 0
    BY <2>2 DEF Grows
  <2>4. j - 1 \in Nat /\ j - 1 <= i /\ j - 1 < j /\ j \in 1..Len(k) /\ j \in 1..Len(n) /\ j \in 1..i
    BY <2>2, <2>3
  <2>5. W[j - 1] = V[j - 1]
    BY <2>1, <2>4
  <2>6. W[j] = More(W[j - 1], k[j]) /\ V[j] = More(V[j - 1], n[j])
    BY <2>4 DEF Grows
  <2>. QED  BY <2>2, <2>4, <2>5, <2>6
<1>. QED  BY <1>1

(* A key fits a name if the name begins with its words. *)
LEMMA FitsByWords ==
  ASSUME NEW k \in Seq(Chars), NEW n \in Seq(Chars), NEW W, NEW V, Grows(W, k), Grows(V, n)
  PROVE  /\ EndsWord(k, n) <=> IsPrefix(W[Len(k)], V[Len(n)])
         /\ EndsWord(k, n) => Len(k) <= Len(n) /\ W[Len(k)] = V[Len(k)]
<1> DEFINE p == Len(k)
           q == Len(n)
           mine == W[p]
           theirs == V[q]
<1>1. p \in Nat /\ q \in Nat /\ mine \in Texts /\ theirs \in Texts
  BY DEF Grows
<1>2. IsPrefix(k, n) <=> p <= q /\ \A x \in 1..p : k[x] = n[x]
  <2>1. p <= q => Len(SubSeq(k, 1, p)) = p /\ Len(SubSeq(n, 1, p)) = p
                  /\ (\A x \in 1..p : SubSeq(k, 1, p)[x] = k[x] /\ SubSeq(n, 1, p)[x] = n[x])
    BY <1>1
  <2>2. p <= q => SubSeq(k, 1, p) \in Seq(Chars) /\ SubSeq(n, 1, p) \in Seq(Chars)
    BY <1>1
  <2>. QED  BY <1>1, <2>1, <2>2 DEF IsPrefix
<1>3. IsPrefix(mine, theirs) <=> Len(mine) <= Len(theirs) /\ \A m \in 1..Len(mine) : mine[m] = theirs[m]
  <2> HIDE DEF mine, theirs
  <2>0. mine \in Seq(Seq(Chars)) /\ theirs \in Seq(Seq(Chars)) /\ Len(mine) \in Nat /\ Len(theirs) \in Nat
    BY <1>1 DEF Texts
  <2>1. Len(mine) <= Len(theirs) =>
          /\ Len(SubSeq(mine, 1, Len(mine))) = Len(mine) /\ Len(SubSeq(theirs, 1, Len(mine))) = Len(mine)
          /\ (\A x \in 1..Len(mine) : SubSeq(mine, 1, Len(mine))[x] = mine[x]
                                      /\ SubSeq(theirs, 1, Len(mine))[x] = theirs[x])
    BY <2>0
  <2>2. Len(mine) <= Len(theirs) =>
          SubSeq(mine, 1, Len(mine)) \in Seq(Seq(Chars)) /\ SubSeq(theirs, 1, Len(mine)) \in Seq(Seq(Chars))
    BY <2>0
  <2>. QED  BY <2>0, <2>1, <2>2 DEF IsPrefix
<1> HIDE DEF p, q, mine, theirs
<1>4. ASSUME EndsWord(k, n)
      PROVE  p <= q /\ W[p] = V[p] /\ IsPrefix(mine, theirs)
  <2>1. p <= q /\ (\A x \in 1..p : k[x] = n[x]) /\ (p < q => n[p + 1] \in Boundaries)
    BY <1>2, <1>4 DEF EndsWord, p, q
  <2>2. W[p] = V[p]
    BY <1>1, <2>1, SameBeginning DEF p, q
  <2>3. CASE p = q
    BY <1>3, <2>2, <2>3, <1>1, TextFacts DEF mine, theirs
  <2>4. CASE p < q
    <3> DEFINE a == Len(mine)
    <3>1. p \in 0..(q - 1) /\ p \in 0..q /\ q \in p..q /\ n[p + 1] \in Boundaries
      BY <1>1, <2>1, <2>4
    <3>2. a + 1 <= Len(theirs) /\ theirs[a] = mine[a]
      BY <2>2, <3>1, NextCharacter DEF p, q, mine, theirs
    <3>3. Extends(theirs, mine)
      BY <2>2, <3>1, Grown DEF p, q, mine, theirs
    <3>4. a \in Nat \ {0} /\ Len(theirs) \in Nat
      BY <1>1, TextFacts
    <3>5. \A m \in 1..(a - 1) : theirs[m] = mine[m]
      BY <3>3 DEF Extends
    <3>. QED  BY <1>3, <2>1, <2>2, <3>2, <3>4, <3>5
  <2>. QED  BY <1>1, <2>1, <2>2, <2>3, <2>4
<1>5. ASSUME IsPrefix(mine, theirs) PROVE EndsWord(k, n)
  <2>1. Len(mine) <= Len(theirs) /\ \A m \in 1..Len(mine) : mine[m] = theirs[m]
    BY <1>3, <1>5
  <2> DEFINE T == {x \in Nat : 1 <= x /\ x <= p /\ (x > q \/ k[x] # n[x])}
  <2>2. T = {}
    <3> SUFFICES ASSUME T # {} PROVE FALSE
      OBVIOUS
    <3>1. PICK x \in T : \A l \in T : ~(l < x)
      <4>1. T \in SUBSET Nat
        OBVIOUS
      <4>. QED  BY <4>1, LeastOf
    <3>2. x \in Nat /\ 1 <= x /\ x <= p /\ (x > q \/ k[x] # n[x])
      OBVIOUS
    <3> DEFINE i == x - 1
    <3>3. i \in Nat /\ i <= p /\ i + 1 = x /\ i \in 0..(p - 1) /\ i \in 0..p /\ p \in i..p
      BY <1>1, <3>2
    <3>4. i <= q /\ \A y \in 1..i : k[y] = n[y]
      <4>1. \A y \in 1..i : y \in Nat /\ 1 <= y /\ y <= p /\ y < x
        BY <1>1, <3>3
      <4>2. \A y \in 1..i : y <= q /\ k[y] = n[y]
        BY <1>1, <3>1, <4>1
      <4>3. CASE i = 0
        BY <1>1, <4>3
      <4>4. CASE i # 0
        BY <3>3, <4>2, <4>4
      <4>. QED  BY <4>2, <4>3, <4>4
    <3>5. W[i] = V[i]
      BY <3>3, <3>4, SameBeginning DEF p, q
    <3> DEFINE w == W[i]
               a == Len(w)
               b == Len(w[a])
    <3>6. /\ k[i + 1] \in Boundaries => a + 1 <= Len(mine) /\ mine[a] = w[a] /\ mine[a + 1][1] = k[i + 1]
          /\ k[i + 1] \notin Boundaries => a <= Len(mine) /\ b + 1 <= Len(mine[a]) /\ mine[a][b + 1] = k[i + 1]
      BY <3>3, NextCharacter DEF p, mine
    <3>7. w \in Texts /\ a \in Nat \ {0} /\ b \in Nat /\ Len(mine) \in Nat /\ Len(theirs) \in Nat
      <4>1. w \in Texts
        BY <3>3 DEF Grows, p
      <4>. QED  BY <1>1, <4>1, TextFacts
    <3>8. CASE i = q
      <4>1. theirs = w
        BY <3>5, <3>8 DEF theirs
      <4>2. a <= Len(mine) /\ mine[a] = w[a] /\ Len(mine) <= a
        <5>1. Len(mine) <= a
          BY <2>1, <4>1
        <5>2. a <= Len(mine)
          BY <3>6, <3>7
        <5>3. a \in 1..Len(mine)
          BY <3>7, <5>2
        <5>. QED  BY <2>1, <4>1, <5>1, <5>2, <5>3
      <4> HIDE DEF w, a, b
      <4>3. Len(mine[a]) = b
        BY <4>2 DEF b
      <4>. QED  BY <3>6, <3>7, <4>2, <4>3
    <3>9. CASE i < q
      <4>1. i \in 0..(q - 1)
        BY <1>1, <3>3, <3>9
      <4>2. /\ n[i + 1] \in Boundaries => a + 1 <= Len(theirs) /\ theirs[a] = w[a] /\ theirs[a + 1][1] = n[i + 1]
            /\ n[i + 1] \notin Boundaries =>
                 a <= Len(theirs) /\ b + 1 <= Len(theirs[a]) /\ theirs[a][b + 1] = n[i + 1]
        BY <3>5, <4>1, NextCharacter DEF q, theirs
      <4>3. Len(w[a]) = b
        OBVIOUS
      <4> HIDE DEF w, a, b
      <4>4. a \in 1..Len(mine) /\ mine[a] = theirs[a]
        <5>1. a <= Len(mine)
          BY <3>6, <3>7
        <5>. QED  BY <2>1, <3>7, <5>1
      <4>5. Len(mine[a]) \in Nat
        BY <1>1, <4>4, TextFacts
      <4>6. k[i + 1] \in Boundaries <=> n[i + 1] \in Boundaries
        BY <3>6, <3>7, <4>2, <4>3, <4>4, <4>5
      <4>7. CASE k[i + 1] \in Boundaries
        <5>1. a + 1 \in 1..Len(mine)
          BY <3>6, <3>7, <4>7
        <5>2. k[i + 1] = n[i + 1]
          BY <2>1, <3>6, <4>2, <4>6, <4>7, <5>1
        <5>. QED  BY <3>2, <3>3, <3>9, <5>2, <1>1
      <4>8. CASE k[i + 1] \notin Boundaries
        <5>1. k[i + 1] = n[i + 1]
          BY <3>6, <4>2, <4>4, <4>6, <4>8
        <5>. QED  BY <3>2, <3>3, <3>9, <5>1, <1>1
      <4>. QED  BY <4>7, <4>8
    <3>. QED  BY <1>1, <3>3, <3>4, <3>8, <3>9
  <2>3. \A x \in 1..p : x <= q /\ k[x] = n[x]
    BY <1>1, <2>2
  <2>4. p <= q
    <3>1. CASE p = 0
      BY <1>1, <3>1
    <3>2. CASE p # 0
      BY <1>1, <2>3, <3>2
    <3>. QED  BY <3>1, <3>2
  <2>5. ASSUME p < q PROVE n[p + 1] \in Boundaries
    <3>1. W[p] = V[p]
      BY <1>1, <2>3, <2>4, SameBeginning DEF p, q
    <3> DEFINE a == Len(mine)
    <3>2. p \in 0..(q - 1)
      BY <1>1, <2>5
    <3>3. n[p + 1] \notin Boundaries => a <= Len(theirs) /\ Len(mine[a]) + 1 <= Len(theirs[a])
      BY <3>1, <3>2, NextCharacter DEF p, q, mine, theirs
    <3>4. a \in 1..a /\ Len(mine[a]) \in Nat
      BY <1>1, TextFacts
    <3>5. theirs[a] = mine[a]
      BY <2>1, <3>4
    <3>. QED  BY <3>3, <3>4, <3>5
  <2>. QED  BY <1>2, <2>3, <2>4, <2>5 DEF EndsWord, p, q
<1>. QED  BY <1>4, <1>5 DEF p, q, mine, theirs

(* The publisher of a name is left out of it. *)
LEMMA BareName ==
  ASSUME NEW name \in Models, NEW publisher \in Publishers \cup {<<>>}
  PROVE  Bare(publisher \o name) = name
<1>1. name \in Seq(Chars) /\ Len(name) \in Nat \ {0} /\ ~Contains(name, "/")
  BY NamesAreSequences, PricingConstants
<1>2. CASE publisher = <<>>
  <2>1. publisher \o name = name
    BY <1>1, <1>2
  <2>. QED  BY <1>1, <2>1 DEF Bare
<1>3. CASE publisher \in Publishers
  <2> DEFINE full == publisher \o name
             n == Len(publisher)
             I == {i \in 1..n : publisher[i] = "/"}
             J == {i \in 1..Len(full) : full[i] = "/"}
  <2>1. publisher \in Seq(Chars) /\ n \in Nat \ {0}
    BY <1>3, NamesAreSequences
  <2>2. full \in Seq(Chars) /\ Len(full) = n + Len(name)
        /\ (\A i \in 1..n : full[i] = publisher[i])
        /\ (\A i \in 1..Len(name) : full[n + i] = name[i])
    BY <1>1, <2>1
  <2>3. (IF I # {} THEN Min(I) ELSE 0) = n
    <3>1. SelectInSeq(publisher, LAMBDA c : c = "/") = n
      BY <1>3, PricingConstants
    <3>. QED  BY <3>1 DEF SelectInSeq
  <2>4. I # {} /\ Min(I) = n
    BY <2>1, <2>3
  <2>5. n \in I /\ \A i \in I : n <= i
    <3>1. PICK m \in I : \A i \in I : ~(i < m)
      <4>1. I \in SUBSET Nat
        OBVIOUS
      <4>. QED  BY <2>4, <4>1, LeastOf
    <3>2. \A i \in I : m <= i
      BY <2>1, <3>1
    <3>. QED  BY <2>4, <3>2 DEF Min
  <2>6. n \in J /\ \A i \in J : n <= i
    <3>1. n \in 1..Len(full) /\ full[n] = "/"
      BY <1>1, <2>1, <2>2, <2>5
    <3>2. ASSUME NEW i \in J, ~(n <= i) PROVE FALSE
      <4>1. i \in 1..n /\ full[i] = "/"
        BY <2>1, <2>2, <3>2
      <4>2. i \in I
        BY <2>2, <4>1
      <4>. QED  BY <2>5, <3>2, <4>2
    <3>. QED  BY <3>1, <3>2
  <2>7. Min(J) = n
    <3>1. \A x \in J : (\A y \in J : x =< y) => x = n
      BY <1>1, <2>1, <2>2, <2>6
    <3> HIDE DEF J
    <3>. QED  BY <2>6, <3>1 DEF Min
  <2>8. SelectInSeq(full, LAMBDA c : c = "/") = n
    BY <2>6, <2>7 DEF SelectInSeq
  <2>9. Contains(full, "/")
    BY <2>6 DEF Contains
  <2>10. SubSeq(full, n + 1, Len(full)) = name
    <3> HIDE DEF full, n
    <3>1. SubSeq(full, n + 1, Len(full)) \in Seq(Chars) /\ Len(SubSeq(full, n + 1, Len(full))) = Len(name)
      BY <1>1, <2>1, <2>2
    <3>2. \A i \in 1..Len(name) : SubSeq(full, n + 1, Len(full))[i] = name[i]
      BY <1>1, <2>1, <2>2
    <3> DEFINE rest == SubSeq(full, n + 1, Len(full))
    <3>3. rest \in Seq(Chars) /\ name \in Seq(Chars) /\ Len(rest) = Len(name) /\ \A i \in 1..Len(name) : rest[i] = name[i]
      BY <1>1, <3>1, <3>2
    <3> HIDE DEF rest
    <3>4. rest = name
      BY <3>3
    <3>. QED  BY <3>4 DEF rest
  <2>. QED  BY <2>8, <2>9, <2>10 DEF Bare
<1>. QED  BY <1>2, <1>3

LEMMA LongestFits ==
  ASSUME NEW n \in Nat, NEW keys, keys # {}, \A k \in keys : Len(k) \in Nat /\ Len(k) <= n
  PROVE  Longest(keys) \in keys /\ \A k \in keys : Len(k) <= Len(Longest(keys))
<1> DEFINE T == {n - Len(k) : k \in keys}
<1>1. T \in SUBSET Nat /\ T # {}
  <2>1. \A k \in keys : n - Len(k) \in Nat
    OBVIOUS
  <2>. QED  BY <2>1
<1>2. PICK m \in T : \A t \in T : ~(t < m)
  BY <1>1, LeastOf
<1>3. PICK k \in keys : m = n - Len(k)
  OBVIOUS
<1>4. \A j \in keys : Len(j) <= Len(k)
  <2> SUFFICES ASSUME NEW j \in keys PROVE Len(j) <= Len(k)
    OBVIOUS
  <2>1. n - Len(j) \in T
    OBVIOUS
  <2>2. ~(n - Len(j) < n - Len(k)) /\ Len(j) \in Nat /\ Len(k) \in Nat
    BY <1>2, <1>3, <2>1
  <2>. QED  BY <2>2
<1>. QED  BY <1>4 DEF Longest

LEMMA FindsOwn ==
  ASSUME NEW card \in Cards, NEW name \in Models, NEW publisher \in Publishers \cup {<<>>}
  PROVE  LET theirs == {k \in card \ {Default} : IsPrefix(Words(k), Words(name))}
             key == FindRule(card, publisher \o name)
         IN IF theirs = {} THEN key = (IF Default \in card THEN Default ELSE NoRule)
            ELSE key \in theirs /\ \A k \in theirs : Len(Words(k)) <= Len(Words(key))
<1> DEFINE theirs == {k \in card \ {Default} : IsPrefix(Words(k), Words(name))}
           fitting == {k \in card \ {Default} : EndsWord(k, name)}
           key == FindRule(card, publisher \o name)
<1>1. key = Lookup(card, name, fitting)
  BY BareName DEF FindRule
<1>2. name \in Seq(Chars) /\ Len(name) \in Nat \ {0} /\ name # Default
  BY NamesAreSequences, PricingConstants
<1>3. PICK V : Grows(V, name) /\ Words(name) = V[Len(name)]
  BY <1>2, WordsGrow DEF Grows
<1>4. \A k \in card \ {Default} : k \in Seq(Chars) /\ Len(k) \in Nat
  <2>1. card \ {Default} \subseteq Models
    BY PricingConstants
  <2>. QED  BY <2>1, NamesAreSequences
<1>5. ASSUME NEW k \in card \ {Default}
      PROVE  /\ k \in theirs <=> k \in fitting
             /\ k \in fitting => Len(k) <= Len(name) /\ Words(k) = V[Len(k)]
  <2>1. PICK W : Grows(W, k) /\ Words(k) = W[Len(k)]
    BY <1>4, WordsGrow DEF Grows
  <2>. QED  BY <1>2, <1>3, <1>4, <2>1, FitsByWords
<1>6. theirs = fitting
  BY <1>5
<1>7. ASSUME NEW k \in fitting, NEW j \in fitting, Len(k) <= Len(j)
      PROVE  Len(Words(k)) <= Len(Words(j))
  <2>1. Words(k) = V[Len(k)] /\ Words(j) = V[Len(j)] /\ Len(j) <= Len(name)
        /\ Len(k) \in Nat /\ Len(j) \in Nat
    BY <1>4, <1>5
  <2>2. Len(j) \in 0..Len(j) /\ Len(k) \in 0..Len(name) /\ Len(j) \in Len(k)..Len(name)
    BY <1>2, <1>7, <2>1
  <2>3. Extends(V[Len(j)], V[Len(k)])
    BY <1>2, <1>3, <2>2, Grown
  <2>. QED  BY <2>1, <2>3 DEF Extends
<1>8. \A k \in fitting : Len(k) \in Nat /\ Len(k) <= Len(name)
  BY <1>4, <1>5
<1> HIDE DEF theirs, key
<1>9. CASE name \in card
  <2>1. key = name /\ name \in fitting
    <3>1. EndsWord(name, name)
      BY <1>2 DEF EndsWord, IsPrefix
    <3>. QED  BY <1>1, <1>2, <1>9, <3>1 DEF Lookup
  <2>2. \A k \in fitting : Len(Words(k)) <= Len(Words(name))
    BY <1>7, <1>8, <2>1
  <2>. QED  BY <1>6, <2>1, <2>2 DEF theirs, key
<1>10. CASE name \notin card /\ fitting # {}
  <2>1. key = Longest(fitting)
    BY <1>1, <1>10 DEF Lookup
  <2>2. key \in fitting /\ \A k \in fitting : Len(k) <= Len(key)
    <3> HIDE DEF fitting
    <3>. QED  BY <1>2, <1>8, <1>10, <2>1, LongestFits
  <2>3. \A k \in fitting : Len(Words(k)) <= Len(Words(key))
    BY <1>7, <2>2
  <2>. QED  BY <1>6, <2>2, <2>3 DEF theirs, key
<1>11. CASE name \notin card /\ fitting = {}
  BY <1>1, <1>6, <1>11 DEF Lookup, theirs, key
<1>. QED  BY <1>9, <1>10, <1>11

Asked ==
  event.at = "asked" =>
    event.card \in Cards /\ event.name \in Models /\ event.publisher \in Publishers \cup {<<>>}

(* A model is billed by the rule of the most words of its name, whoever
   published it, by the default only if no rule is its own, and a part of a
   word is nobody's rule: for every rate card and all names. *)
THEOREM RulesAreOwn == PricingSpec => []RuleIsOwn
<1>1. PricingInit => Asked /\ RuleIsOwn
  BY DEF PricingInit, NoEvent, Asked, RuleIsOwn
<1>2. Asked /\ RuleIsOwn /\ [PricingNext]_event => Asked' /\ RuleIsOwn'
  <2> SUFFICES ASSUME Asked, RuleIsOwn, [PricingNext]_event PROVE Asked' /\ RuleIsOwn'
    OBVIOUS
  <2>1. ASSUME NEW card \in Cards, NEW name \in Models, NEW p \in Publishers \cup {<<>>}, Track(card, p, name)
        PROVE  Asked' /\ RuleIsOwn'
    BY <2>1 DEF Track, Asked, RuleIsOwn
  <2>2. CASE ProviderFinds
    <3> DEFINE card == event.card
               name == event.name
               publisher == event.publisher
    <3>1. card \in Cards /\ name \in Models /\ publisher \in Publishers \cup {<<>>}
      BY <2>2 DEF ProviderFinds, Asked
    <3>2. /\ event'.at = "found" /\ event'.card = card /\ event'.name = name
          /\ event'.key = FindRule(card, publisher \o name)
      BY <2>2 DEF ProviderFinds
    <3> HIDE DEF card, name, publisher
    <3>3. LET theirs == {k \in card \ {Default} : IsPrefix(Words(k), Words(name))}
              key == FindRule(card, publisher \o name)
          IN IF theirs = {} THEN key = (IF Default \in card THEN Default ELSE NoRule)
             ELSE key \in theirs /\ \A k \in theirs : Len(Words(k)) <= Len(Words(key))
      BY <3>1, FindsOwn
    <3>4. RuleIsOwn'
      <4>1. RuleIsOwn' <=>
              (event'.at = "found" /\ event'.by = "provider" =>
                 LET theirs == {k \in event'.card \ {Default} : IsPrefix(Words(k), Words(event'.name))} IN
                 IF theirs = {} THEN event'.key = (IF Default \in event'.card THEN Default ELSE NoRule)
                 ELSE event'.key \in theirs /\ \A k \in theirs : Len(Words(k)) <= Len(Words(event'.key)))
        BY DEF RuleIsOwn
      <4>. QED  BY <3>2, <3>3, <4>1
    <3>. QED  BY <3>2, <3>4 DEF Asked
  <2>3. CASE Given \/ ConfigFinds \/ Missing \/ Recorded
    <3>1. event'.at # "asked" /\ ~(event'.at = "found" /\ event'.by = "provider")
      <4>1. CASE Given
        BY <4>1 DEF Given
      <4>2. CASE ConfigFinds
        BY <4>2 DEF ConfigFinds
      <4>3. CASE Missing
        BY <4>3 DEF Missing
      <4>4. CASE Recorded
        BY <4>4 DEF Recorded, NoEvent
      <4>. QED  BY <2>3, <4>1, <4>2, <4>3, <4>4
    <3>. QED  BY <3>1 DEF Asked, RuleIsOwn
  <2>4. ASSUME NEW rule \in Rules, NEW uses \in 0..MaxTokens, CountUses(rule, uses)
        PROVE  Asked' /\ RuleIsOwn'
    BY <2>4 DEF CountUses, Asked, RuleIsOwn
  <2>5. ASSUME NEW rule \in Rules, NEW served \in Served,
               PriceCounts(rule, served)
                 \/ \E provider \in Providers, tagged, inUsage \in BOOLEAN :
                      PriceResponse(rule, provider, tagged, inUsage, served)
        PROVE  Asked' /\ RuleIsOwn'
    <3>1. event'.at = "priced"
      BY <2>5 DEF PriceCounts, PriceResponse
    <3>. QED  BY <3>1 DEF Asked, RuleIsOwn
  <2>6. CASE UNCHANGED event
    BY <2>6 DEF Asked, RuleIsOwn
  <2>. QED  BY <2>1, <2>2, <2>3, <2>4, <2>5, <2>6 DEF PricingNext
<1>. QED  BY <1>1, <1>2, PTL DEF PricingSpec

-----------------------------------------------------------------------------
(* What the tokens cost *)

TokenRules == [kind : {"llm"}, input : Nat, output : Nat, cached : Nat \cup {NoRule}]

(* The rule an event is priced by is one of tokens. *)
LEMMA RulesOfTokens ==
  \A rule \in Rules : rule.kind = "llm" => rule \in TokenRules
<1> SUFFICES ASSUME NEW rule \in Rules, rule.kind = "llm"
             PROVE  rule \in TokenRules
  OBVIOUS
<1>1. rule \in TokenRules \cup [kind : {"fixed"}, unit : Nat]
  BY PricingConstants DEF PricingConstants, TokenRules
<1>2. CASE rule \in [kind : {"fixed"}, unit : Nat]
  BY <1>2
<1>. QED  BY <1>1, <1>2

(* What the tokens that were served cost, each at the rate of its kind. *)
Bill(rule, provider, served) ==
  served.fresh * Hundredths(rule.input)
    + served.read * RateOfReads(rule, provider)
    + served.write * (rule.input * WriteMult)
    + served.out * Hundredths(rule.output)

(* The providers that count cached tokens as input and nothing they write. *)
LEMMA OpCostBills ==
  ASSUME NEW rule \in TokenRules, NEW served \in Served, served.write = 0
  PROVE  OpCost(rule, served.fresh + served.read, served.out, served.read)
           = Bill(rule, "openai", served)
<1> DEFINE f == served.fresh  r == served.read  o == served.out
           in == rule.input  out == rule.output
<1>1. f \in Nat /\ r \in Nat /\ o \in Nat /\ served.write \in Nat
  BY PricingConstants DEF Served, PricingConstants
<1>2. in \in Nat /\ out \in Nat /\ rule.cached \in Nat \cup {NoRule} /\ WriteMult \in Nat
  BY PricingConstants DEF TokenRules, PricingConstants
<1>3. served.write * (in * WriteMult) = 0
  BY <1>1, <1>2
<1>4. Lower(r, f + r) = r /\ (f + r) - r = f
  BY <1>1 DEF Lower
<1> HIDE DEF f, r, o, in, out
<1>5. CASE rule.cached = NoRule
  <2>1. OpCost(rule, f + r, o, r) = 100 * ((f + r - 0) * in + 0 + o * out)
    BY <1>5, <1>1, <1>2 DEF OpCost, Hundredths, f, r, o, in, out
  <2>2. Bill(rule, "openai", served)
          = f * (100 * in) + r * (100 * in) + 0 + o * (100 * out)
    BY <1>5, <1>3 DEF Bill, RateOfReads, Hundredths, f, r, o, in, out
  <2>. QED  BY <2>1, <2>2, <1>1, <1>2 DEF f, r, o
<1>6. CASE rule.cached # NoRule
  <2> DEFINE c == rule.cached
  <2>0. c \in Nat
    BY <1>2, <1>6
  <2>1. OpCost(rule, f + r, o, r) = 100 * (((f + r) - r) * in + r * c + o * out)
    BY <1>6, <1>4 DEF OpCost, Hundredths, in, out, r, f
  <2>2. Bill(rule, "openai", served)
          = f * (100 * in) + r * (100 * c) + 0 + o * (100 * out)
    BY <1>6, <1>3 DEF Bill, RateOfReads, Hundredths, f, r, o, in, out
  <2> HIDE DEF c
  <2>. QED  BY <2>0, <2>1, <2>2, <1>1, <1>2, <1>4 DEF f, r, o
<1>. QED  BY <1>5, <1>6 DEF f, r, o

(* Anthropic's counts, each of its own. *)
LEMMA AnthropicBills ==
  ASSUME NEW rule \in TokenRules, NEW served \in Served
  PROVE  AnthropicCost(rule, served.fresh, served.out, served.read, served.write)
           = Bill(rule, "anthropic", served)
<1> DEFINE f == served.fresh  r == served.read  w == served.write  o == served.out
           in == rule.input  out == rule.output  rate == ReadRate(rule)
<1>1. f \in Nat /\ r \in Nat /\ w \in Nat /\ o \in Nat
  BY PricingConstants DEF Served, PricingConstants
<1>2. in \in Nat /\ out \in Nat /\ WriteMult \in Nat /\ ReadMult \in Nat
  BY PricingConstants DEF TokenRules, PricingConstants
<1>3. rate = RateOfReads(rule, "anthropic")
  BY DEF ReadRate, RateOfReads
<1>4. rate \in Nat
  <2>1. CASE rule.cached # NoRule
    BY <2>1 DEF ReadRate, Hundredths, TokenRules
  <2>2. CASE rule.cached = NoRule
    BY <2>2, <1>2 DEF ReadRate
  <2>. QED  BY <2>1, <2>2
<1>5. AnthropicCost(rule, f, o, r, w)
        = 100 * (f * in) + r * rate + w * in * WriteMult + 100 * (o * out)
  BY DEF AnthropicCost, Hundredths
<1>6. Bill(rule, "anthropic", served)
        = f * (100 * in) + r * rate + w * (in * WriteMult) + o * (100 * out)
  BY <1>3 DEF Bill, Hundredths
<1> HIDE DEF f, r, w, o, in, out, rate
<1>7. w * in * WriteMult = w * (in * WriteMult)
  BY <1>1, <1>2
<1>8. 100 * (f * in) = f * (100 * in) /\ 100 * (o * out) = o * (100 * out)
  BY <1>1, <1>2
<1>. QED  BY <1>5, <1>6, <1>7, <1>8 DEF f, r, w, o

(* Google's, whose cached tokens are input like any. *)
LEMMA GeminiBills ==
  ASSUME NEW rule \in TokenRules, NEW served \in Served, served.write = 0
  PROVE  GeminiCost(rule, served.fresh + served.read, served.out)
           = Bill(rule, "google", served)
<1> DEFINE f == served.fresh  r == served.read  o == served.out
           in == rule.input  out == rule.output
<1>1. f \in Nat /\ r \in Nat /\ o \in Nat
  BY PricingConstants DEF Served, PricingConstants
<1>2. in \in Nat /\ out \in Nat /\ WriteMult \in Nat
  BY PricingConstants DEF TokenRules, PricingConstants
<1>3. served.write * (in * WriteMult) = 0
  BY <1>2
<1>4. Bill(rule, "google", served)
        = f * (100 * in) + r * (100 * in) + 0 + o * (100 * out)
  BY <1>3 DEF Bill, RateOfReads, Hundredths
<1>5. GeminiCost(rule, f + r, o) = 100 * ((f + r) * in + o * out)
  BY DEF GeminiCost, Hundredths
<1> HIDE DEF f, r, o, in, out
<1>. QED  BY <1>1, <1>2, <1>4, <1>5 DEF f, r, o

(* With no cached tokens of their own they are billed as Google's. *)
LEMMA OpCostOfInput ==
  ASSUME NEW rule \in TokenRules, NEW input \in Nat, NEW output \in Nat
  PROVE  OpCost(rule, input, output, 0) = GeminiCost(rule, input, output)
<1>1. rule.input \in Nat /\ rule.output \in Nat
  BY DEF TokenRules
<1>2. Lower(0, input) = 0
  BY DEF Lower
<1>3. CASE rule.cached = NoRule
  BY <1>1, <1>3 DEF OpCost, GeminiCost, Hundredths
<1>4. CASE rule.cached # NoRule
  <2>1. rule.cached \in Nat
    BY <1>4 DEF TokenRules
  <2>. QED  BY <1>1, <1>2, <1>4, <2>1 DEF OpCost, GeminiCost, Hundredths
<1>. QED  BY <1>3, <1>4

(* Whose counts a response has, tagged or not. *)
LEMMA LLMCostBills ==
  ASSUME NEW rule \in TokenRules, NEW provider \in Providers, NEW served \in Served,
         NEW tagged \in BOOLEAN, NEW inUsage \in BOOLEAN,
         provider # "anthropic" => served.write = 0,
         tagged \/ inUsage
  PROVE  LLMCost(rule, provider, tagged, inUsage, served) = Bill(rule, provider, served)
<1> DEFINE as == Detected(provider, tagged, inUsage)
           input == InputTokens(provider, served)
           read == ReadTokens(provider, served, inUsage)
<1>0. served.fresh + served.read \in Nat /\ served.out \in Nat
  BY PricingConstants DEF Served, PricingConstants
<1>1. CASE provider = "anthropic"
  <2>1. as = "anthropic" /\ input = served.fresh /\ read = served.read
    BY <1>1 DEF Detected, InputTokens, ReadTokens
  <2>. QED  BY <1>1, <2>1, AnthropicBills DEF LLMCost
<1>2. CASE provider = "openai"
  <2>1. as = "openai" /\ input = served.fresh + served.read /\ read = served.read
    BY <1>2 DEF Detected, InputTokens, ReadTokens
  <2>. QED  BY <1>2, <2>1, OpCostBills DEF LLMCost
<1>3. CASE provider = "google" /\ tagged
  <2>1. as = "google" /\ input = served.fresh + served.read
    BY <1>3 DEF Detected, InputTokens
  <2>. QED  BY <1>3, <2>1, GeminiBills DEF LLMCost
<1>4. CASE provider = "google" /\ ~tagged
  <2>1. as = "openai" /\ input = served.fresh + served.read /\ read = 0
    BY <1>4 DEF Detected, InputTokens, ReadTokens
  <2>2. LLMCost(rule, provider, tagged, inUsage, served)
          = OpCost(rule, served.fresh + served.read, served.out, 0)
    BY <2>1 DEF LLMCost
  <2>. QED  BY <1>0, <1>4, <2>2, OpCostOfInput, GeminiBills
<1>. QED  BY <1>1, <1>2, <1>3, <1>4 DEF Providers

(* Every token that was served is billed once, at the rate of its kind, for
   every rate card, every number of tokens and every provider. *)
THEOREM TokensBilledOnce == PricingSpec => []BilledOnce
<1>1. PricingInit => BilledOnce
  BY DEF PricingInit, NoEvent, BilledOnce
<1>2. BilledOnce /\ [PricingNext]_event => BilledOnce'
  <2> SUFFICES ASSUME BilledOnce, [PricingNext]_event
               PROVE  (event.at = "priced" =>
                         event.cost = Bill(event.rule, event.provider, event.served))'
    BY DEF BilledOnce, Bill
  <2>1. CASE \E card \in Cards, name \in Models, p \in Publishers \cup {<<>>} :
               Track(card, p, name)
    BY <2>1 DEF Track
  <2>2. CASE Given \/ ConfigFinds \/ ProviderFinds \/ Missing \/ Recorded
    <3>1. CASE Given
      BY <3>1 DEF Given
    <3>2. CASE ConfigFinds
      BY <3>2 DEF ConfigFinds
    <3>3. CASE ProviderFinds
      BY <3>3 DEF ProviderFinds
    <3>4. CASE Missing
      BY <3>4 DEF Missing
    <3>5. CASE Recorded
      BY <3>5 DEF Recorded, NoEvent
    <3>. QED  BY <2>2, <3>1, <3>2, <3>3, <3>4, <3>5
  <2>3. CASE \E rule \in Rules, uses \in 0..MaxTokens : CountUses(rule, uses)
    BY <2>3 DEF CountUses
  <2>4. ASSUME NEW rule \in Rules, NEW served \in Served, PriceCounts(rule, served)
        PROVE  (event.at = "priced" =>
                  event.cost = Bill(event.rule, event.provider, event.served))'
    <3>1. rule \in TokenRules /\ served.write = 0
      BY <2>4, RulesOfTokens DEF PriceCounts
    <3>. QED  BY <2>4, <3>1, OpCostBills DEF PriceCounts
  <2>5. ASSUME NEW rule \in Rules, NEW served \in Served, NEW provider \in Providers,
               NEW tagged \in BOOLEAN, NEW inUsage \in BOOLEAN,
               PriceResponse(rule, provider, tagged, inUsage, served)
        PROVE  (event.at = "priced" =>
                  event.cost = Bill(event.rule, event.provider, event.served))'
    <3>1. rule \in TokenRules
      BY <2>5, RulesOfTokens DEF PriceResponse
    <3>. QED  BY <2>5, <3>1, LLMCostBills DEF PriceResponse
  <2>6. CASE UNCHANGED event
    BY <2>6 DEF BilledOnce, Bill
  <2>. QED  BY <2>1, <2>2, <2>3, <2>4, <2>5, <2>6 DEF PricingNext
<1>. QED  BY <1>1, <1>2, PTL DEF PricingSpec

-----------------------------------------------------------------------------
(* Sums *)

(* What SumOf adds up, and in which order. *)
Pick(S) == [A \in SUBSET S |-> CHOOSE x \in A : TRUE]
Adds(f, S) == [A \in SUBSET S |-> [v \in Int |-> v + f[Pick(S)[A]]]]

LEMMA SumFolds ==
  ASSUME NEW S, IsFiniteSet(S), NEW f, \A x \in S : f[x] \in Int
  PROVE  \E g \in [SUBSET S -> Int] : Folds(g, S, 0, Pick(S), Adds(f, S)) /\ SumOf(f, S) = g[S]
<1> DEFINE Eq(g) == g = [A \in SUBSET S |->
                          IF A = {} THEN 0
                          ELSE g[A \ {CHOOSE x \in A : TRUE}] + f[CHOOSE x \in A : TRUE]]
           F == CHOOSE g : Eq(g)
<1>1. \A A \in SUBSET S : A # {} => Pick(S)[A] \in A /\ Adds(f, S)[A] \in [Int -> Int]
  BY DEF Pick, Adds
<1>2. PICK g : g \in [SUBSET S -> Int] /\ Folds(g, S, 0, Pick(S), Adds(f, S))
  <2> HIDE DEF F
  <2>. QED  BY <1>1, FoldExists, 0 \in Int
<1>3. \A A \in SUBSET S : A # {} =>
        Adds(f, S)[A][g[A \ {Pick(S)[A]}]] = g[A \ {CHOOSE x \in A : TRUE}] + f[CHOOSE x \in A : TRUE]
  BY <1>1, <1>2 DEF Adds, Pick
<1>4. Eq(g)
  BY <1>2, <1>3 DEF Folds
<1>5. Eq(F)
  <2> HIDE DEF Eq
  <2>. QED  BY <1>4
<1>6. SumOf(f, S) = F[S]
  BY DEF SumOf, FoldSet, MapThenFoldSet
<1> HIDE DEF F
<1>7. F = g
  <2>1. \A A \in SUBSET S : A # {} => \E x \in A : F[A \ {x}] = g[A \ {x}] => F[A] = g[A]
    BY <1>4, <1>5
  <2>2. F[{}] = g[{}]
    BY <1>4, <1>5
  <2> DEFINE T == {A \in SUBSET S : F[A] = g[A]}
  <2>3. {} \in T
    BY <2>2
  <2>4. \A A \in SUBSET S : A # {} /\ (\A x \in A : A \ {x} \in T) => A \in T
    BY <2>1
  <2>5. T = SUBSET S
    <3> HIDE DEF T
    <3>1. T \in SUBSET (SUBSET S)
      BY DEF T
    <3>. QED  BY <2>3, <2>4, <3>1, AllSubsets
  <2>6. \A A \in SUBSET S : F[A] = g[A]
    BY <2>5
  <2>. QED  BY <1>4, <1>5, <2>6
<1>. QED  BY <1>2, <1>6, <1>7

LEMMA SumType ==
  ASSUME NEW S, IsFiniteSet(S), NEW f, \A x \in S : f[x] \in Int
  PROVE  SumOf(f, S) \in Int
<1>1. PICK g : g \in [SUBSET S -> Int] /\ SumOf(f, S) = g[S]
  BY SumFolds
<1>. QED  BY <1>1

LEMMA SumEmpty == ASSUME NEW f PROVE SumOf(f, {}) = 0
BY SumFolds, FS_EmptySet DEF Folds

(* The sums over the subsets of S are those of one fold. *)
LEMMA SumPart ==
  ASSUME NEW S, IsFiniteSet(S), NEW f, \A x \in S : f[x] \in Int,
         NEW g \in [SUBSET S -> Int], Folds(g, S, 0, Pick(S), Adds(f, S)),
         NEW A \in SUBSET S
  PROVE  SumOf(f, A) = g[A]
<1>1. IsFiniteSet(A) /\ \A x \in A : f[x] \in Int
  BY FS_Subset
<1>2. PICK h : h \in [SUBSET A -> Int] /\ Folds(h, A, 0, Pick(A), Adds(f, A)) /\ SumOf(f, A) = h[A]
  BY <1>1, SumFolds
<1> DEFINE T == {B \in SUBSET A : g[B] = h[B]}
<1>3. {} \in T
  BY <1>2 DEF Folds
<1>4. ASSUME NEW B \in SUBSET A, B # {}, \A x \in B : B \ {x} \in T PROVE B \in T
  <2> DEFINE x == CHOOSE x \in B : TRUE
  <2>1. x \in B /\ B \in SUBSET S
    BY <1>4
  <2>2. Pick(S)[B] = x /\ Pick(A)[B] = x
    BY <2>1 DEF Pick
  <2> HIDE DEF x
  <2>3. g[B] = Adds(f, S)[B][g[B \ {x}]] /\ g[B \ {x}] \in Int
    BY <1>4, <2>1, <2>2 DEF Folds
  <2>4. h[B] = Adds(f, A)[B][h[B \ {x}]] /\ h[B \ {x}] \in Int
    BY <1>2, <1>4, <2>1, <2>2 DEF Folds
  <2>5. g[B] = g[B \ {x}] + f[x]
    BY <2>1, <2>2, <2>3 DEF Adds
  <2>6. h[B] = h[B \ {x}] + f[x]
    BY <2>1, <2>2, <2>4 DEF Adds
  <2>. QED  BY <1>4, <2>1, <2>5, <2>6
<1>5. T = SUBSET A
  <2> HIDE DEF T
  <2>1. T \in SUBSET (SUBSET A)
    BY DEF T
  <2>. QED  BY <1>1, <1>3, <1>4, <2>1, AllSubsets
<1>. QED  BY <1>2, <1>5

(* The element that is added last makes no difference. *)
LEMMA SumStep ==
  ASSUME NEW S, IsFiniteSet(S), NEW f, \A x \in S : f[x] \in Int, NEW y \in S
  PROVE  SumOf(f, S) = SumOf(f, S \ {y}) + f[y]
<1>1. PICK g : g \in [SUBSET S -> Int] /\ Folds(g, S, 0, Pick(S), Adds(f, S)) /\ SumOf(f, S) = g[S]
  BY SumFolds
<1>2. ASSUME NEW A \in SUBSET S, A # {}
      PROVE  LET x == Pick(S)[A] IN x \in A /\ g[A] = g[A \ {x}] + f[x]
  <2>1. Pick(S)[A] \in A
    BY <1>2 DEF Pick
  <2>2. g[A] = Adds(f, S)[A][g[A \ {Pick(S)[A]}]] /\ g[A \ {Pick(S)[A]}] \in Int
    BY <1>1, <1>2 DEF Folds
  <2>. QED  BY <2>1, <2>2 DEF Adds
<1> DEFINE T == {A \in SUBSET S : \A z \in A : g[A] = g[A \ {z}] + f[z]}
<1>3. {} \in T
  OBVIOUS
<1>4. ASSUME NEW A \in SUBSET S, A # {}, \A x \in A : A \ {x} \in T PROVE A \in T
  <2> DEFINE x == Pick(S)[A]
  <2>1. x \in A /\ g[A] = g[A \ {x}] + f[x]
    BY <1>2, <1>4
  <2> HIDE DEF x
  <2>2. ASSUME NEW z \in A PROVE g[A] = g[A \ {z}] + f[z]
    <3>1. CASE z = x
      BY <2>1, <3>1
    <3>2. CASE z # x
      <4> DEFINE B == A \ {x}
                 C == A \ {z}
      <4>1. B \in T /\ C \in T /\ z \in B /\ x \in C /\ B \ {z} = C \ {x}
        BY <1>4, <2>1, <3>2
      <4>2. g[B] = g[B \ {z}] + f[z] /\ g[C] = g[C \ {x}] + f[x]
        BY <4>1
      <4>3. g[C \ {x}] \in Int /\ f[x] \in Int /\ f[z] \in Int /\ g[A] = g[B] + f[x]
        BY <1>1, <2>1
      <4> HIDE DEF B, C
      <4>4. g[A] = g[C] + f[z]
        BY <4>1, <4>2, <4>3
      <4>. QED  BY <4>4 DEF C
    <3>. QED  BY <3>1, <3>2
  <2>. QED  BY <2>2
<1>5. T = SUBSET S
  <2> HIDE DEF T
  <2>1. T \in SUBSET (SUBSET S)
    BY DEF T
  <2>. QED  BY <1>3, <1>4, <2>1, AllSubsets
<1>6. SumOf(f, S \ {y}) = g[S \ {y}]
  <2>1. S \ {y} \in SUBSET S
    OBVIOUS
  <2>2. ASSUME NEW A \in SUBSET S PROVE SumOf(f, A) = g[A]
    BY <1>1, SumPart
  <2>. QED  BY <2>1, <2>2
<1>7. g[S] = g[S \ {y}] + f[y]
  BY <1>5
<1>. QED  BY <1>1, <1>6, <1>7

LEMMA SumSame ==
  ASSUME NEW S, IsFiniteSet(S), NEW f, NEW g,
         \A x \in S : f[x] \in Int /\ g[x] = f[x]
  PROVE  SumOf(g, S) = SumOf(f, S)
<1> DEFINE T == {A \in SUBSET S : SumOf(g, A) = SumOf(f, A)}
<1>1. {} \in T
  BY SumEmpty
<1>2. ASSUME NEW A \in SUBSET S, A # {}, \A x \in A : A \ {x} \in T PROVE A \in T
  <2>1. PICK x \in A : TRUE
    BY <1>2
  <2>2. IsFiniteSet(A) /\ (\A z \in A : f[z] \in Int) /\ (\A z \in A : g[z] \in Int)
    BY FS_Subset
  <2>3. SumOf(f, A) = SumOf(f, A \ {x}) + f[x]
    BY <2>1, <2>2, SumStep
  <2>4. SumOf(g, A) = SumOf(g, A \ {x}) + g[x]
    BY <2>1, <2>2, SumStep
  <2>. QED  BY <1>2, <2>1, <2>3, <2>4
<1>3. T = SUBSET S
  <2> HIDE DEF T
  <2>1. T \in SUBSET (SUBSET S)
    BY DEF T
  <2>. QED  BY <1>1, <1>2, <2>1, AllSubsets
<1>. QED  BY <1>3

LEMMA SumZero ==
  ASSUME NEW S, IsFiniteSet(S), NEW f, \A x \in S : f[x] = 0
  PROVE  SumOf(f, S) = 0
<1> DEFINE T == {A \in SUBSET S : SumOf(f, A) = 0}
<1>1. {} \in T
  BY SumEmpty
<1>2. ASSUME NEW A \in SUBSET S, A # {}, \A x \in A : A \ {x} \in T PROVE A \in T
  <2>1. PICK x \in A : TRUE
    BY <1>2
  <2>2. IsFiniteSet(A) /\ (\A z \in A : f[z] \in Int)
    BY FS_Subset
  <2>3. SumOf(f, A) = SumOf(f, A \ {x}) + f[x]
    BY <2>1, <2>2, SumStep
  <2>. QED  BY <1>2, <2>1, <2>3
<1>3. T = SUBSET S
  <2> HIDE DEF T
  <2>1. T \in SUBSET (SUBSET S)
    BY DEF T
  <2>. QED  BY <1>1, <1>2, <2>1, AllSubsets
<1>. QED  BY <1>3

LEMMA SumAnd ==
  ASSUME NEW S, IsFiniteSet(S), NEW B, IsFiniteSet(B), S \cap B = {},
         NEW f, \A x \in S \cup B : f[x] \in Int
  PROVE  SumOf(f, S \cup B) = SumOf(f, S) + SumOf(f, B)
<1>0. SumOf(f, B) \in Int
  BY SumType
<1> DEFINE T == {A \in SUBSET S : SumOf(f, A \cup B) = SumOf(f, A) + SumOf(f, B)}
<1>1. {} \in T
  <2>1. SumOf(f, {}) = 0 /\ {} \cup B = B
    BY SumEmpty
  <2>. QED  BY <1>0, <2>1
<1>2. ASSUME NEW A \in SUBSET S, A # {}, \A x \in A : A \ {x} \in T PROVE A \in T
  <2>1. PICK x \in A : TRUE
    BY <1>2
  <2>2. IsFiniteSet(A) /\ IsFiniteSet(A \ {x})
    BY FS_Subset
  <2>3. IsFiniteSet(A \cup B)
    BY <2>2, FS_Union
  <2>4. SumOf(f, A) = SumOf(f, A \ {x}) + f[x]
    BY <2>1, <2>2, SumStep
  <2>5. SumOf(f, A \cup B) = SumOf(f, (A \cup B) \ {x}) + f[x]
    BY <2>1, <2>3, SumStep
  <2>6. (A \cup B) \ {x} = (A \ {x}) \cup B
    BY <2>1
  <2>7. SumOf(f, (A \ {x}) \cup B) = SumOf(f, A \ {x}) + SumOf(f, B)
    BY <1>2, <2>1
  <2>8. SumOf(f, A \ {x}) \in Int
    BY <2>2, SumType
  <2>9. f[x] \in Int
    BY <2>1
  <2>10. SumOf(f, A \cup B) = SumOf(f, A \ {x}) + SumOf(f, B) + f[x]
    BY <2>5, <2>6, <2>7
  <2>11. SumOf(f, A \cup B) = SumOf(f, A) + SumOf(f, B)
    BY <1>0, <2>4, <2>8, <2>9, <2>10
  <2>. QED  BY <2>11
<1>3. T = SUBSET S
  <2> HIDE DEF T
  <2>1. T \in SUBSET (SUBSET S)
    BY DEF T
  <2>. QED  BY <1>1, <1>2, <2>1, AllSubsets
<1>. QED  BY <1>3

LEMMA SumPlus ==
  ASSUME NEW S, IsFiniteSet(S), NEW f, \A x \in S : f[x] \in Int, NEW n \in Int, NEW y \in S,
         NEW g, \A x \in S : g[x] = IF x = y THEN f[x] + n ELSE f[x]
  PROVE  SumOf(g, S) = SumOf(f, S) + n
<1>1. IsFiniteSet(S \ {y}) /\ f[y] \in Int /\ g[y] = f[y] + n
  BY FS_Subset
<1>2. SumOf(g, S \ {y}) = SumOf(f, S \ {y})
  BY <1>1, SumSame
<1>3. SumOf(g, S) = SumOf(g, S \ {y}) + g[y]
  <2>1. \A x \in S : g[x] \in Int
    OBVIOUS
  <2>. QED  BY <2>1, SumStep
<1>4. SumOf(f, S) = SumOf(f, S \ {y}) + f[y]
  BY SumStep
<1>5. SumOf(f, S \ {y}) \in Int
  BY <1>1, SumType
<1>. QED  BY <1>1, <1>2, <1>3, <1>4, <1>5

-----------------------------------------------------------------------------
(* Caps.  LatchAgrees is inductive once the spends are known to be numbers: of
   a call on the stack the cost, of a snapshot the entries, which a later
   session restores. *)

Frames == [path : Seq(Scopes), at : Nat, up : BOOLEAN, cost : Int]

CommitsTyped ==
  /\ commits \in Seq({commits[i] : i \in DOMAIN commits})
  /\ \A i \in DOMAIN commits : Entry(commits[i].entries)

CostsTyped ==
  /\ open \subseteq Scopes
  /\ cap \in [Scopes -> Nat] /\ spent \in [Scopes -> Int]
  /\ halt \in BOOLEAN
  /\ call \in Seq(Frames)
  /\ Entry(saved)
  /\ CommitsTyped

(* Init, and a run without a checkpoint to start from, hold no spend. *)
LEMMA NoEntries == Entry(<<>>)
  BY DEF Entry

LEMMA InitTyped == Init => CostsTyped /\ LatchAgrees
  <1> SUFFICES ASSUME Init PROVE CostsTyped /\ LatchAgrees
      OBVIOUS
  <1>1. CommitsTyped
    BY DEF Init, CommitsTyped
  <1>2. cap \in [Scopes -> Nat] /\ spent \in [Scopes -> Int]
    BY CostsAssumption DEF Init
  <1>3. call \in Seq(Frames)
    BY DEF Init
  <1>4. CostsTyped
    BY <1>1, <1>2, <1>3, NoEntries DEF Init, CostsTyped
  <1> QED BY <1>4 DEF Init, LatchAgrees

(* A commit keeps the newest two: each is an older one, or holds what was
   captured. *)
LEMMA CommitTypes ==
  ASSUME CommitsTyped, NEW entries, Entry(entries), Commit(entries)
  PROVE  CommitsTyped'
  <1> DEFINE new == [entries |-> entries, own |-> own]
             all == Append(commits, new)
             R == {commits[i] : i \in DOMAIN commits} \cup {new}
  <1>1. commits \in Seq(R) /\ new \in R
    BY DEF CommitsTyped
  <1>2. all \in Seq(R) /\ Len(all) = Len(commits) + 1
    BY <1>1
  <1>3. commits' = SubSeq(all, IF Len(all) > 2 THEN 2 ELSE 1, Len(all))
    BY DEF Commit
  <1>4. commits' \in Seq(R)
    <2> HIDE DEF all, R
    <2> QED BY <1>2, <1>3
  <1>5. \A c \in R : Entry(c.entries)
    BY DEF CommitsTyped
  <1>6. \A i \in DOMAIN commits' : commits'[i] \in R
    <2> HIDE DEF R
    <2> QED BY <1>4
  <1> HIDE DEF R
  <1>7. commits' \in Seq({commits'[i] : i \in DOMAIN commits'})
    BY <1>4
  <1> QED BY <1>5, <1>6, <1>7 DEF CommitsTyped

LEMMA SameCommits ==
  ASSUME CommitsTyped, UNCHANGED commits PROVE CommitsTyped'
  BY DEF CommitsTyped

(* What is saved are spends. *)
LEMMA CaptureTypes ==
  ASSUME CostsTyped PROVE Entry(Capture) /\ Entry(FinalCapture)
  <1>1. Entry(Capture)
    BY DEF CostsTyped, Entry, Capture
  <1> QED BY <1>1 DEF Entry, FinalCapture, Only

(* A cost put on the stack, and what the top of the stack does, leave calls. *)
LEMMA TracksTypes ==
  ASSUME CostsTyped, NEW s \in Scopes, NEW n \in Costs, Tracks(s, n)
  PROVE  call' \in Seq(Frames)
  <1>1. Frame(s, n) \in Frames
    BY CostsAssumption DEF Frame, Frames
  <1> QED BY <1>1 DEF Tracks, CostsTyped

LEMMA NowTypes ==
  ASSUME CostsTyped, call # <<>>
  PROVE  Now \in Frames /\ Len(call) \in Nat \ {0}
  BY DEF CostsTyped, Now, Last

LEMMA MovesTypes ==
  ASSUME CostsTyped, call # <<>>, NEW f \in Frames
  PROVE  Moves(f) \in Seq(Frames)
  BY NowTypes DEF CostsTyped, Moves

LEMMA NextLevelTypes ==
  ASSUME NEW f \in Frames PROVE NextLevel(f) \in Frames
  <1>1. CASE f.at > 1
    <2>1. NextLevel(f) = [f EXCEPT !.at = f.at - 1]
      BY <1>1 DEF NextLevel
    <2>2. f.at - 1 \in Nat
      BY <1>1 DEF Frames
    <2> QED BY <2>1, <2>2 DEF Frames
  <1>2. CASE ~(f.at > 1)
    <2>1. NextLevel(f) = [f EXCEPT !.up = FALSE]
      BY <1>2 DEF NextLevel
    <2> QED BY <2>1 DEF Frames
  <1> QED BY <1>1, <1>2

(* The runs that are dropped, and the spends that stay. *)
LEMMA DropKeeps ==
  ASSUME CostsTyped, LatchAgrees, NEW S, NEW into, Drop(S, into), UNCHANGED <<saved, commits>>
  PROVE  CostsTyped' /\ LatchAgrees'
  <1>1. spent' \in [Scopes -> Int]
    BY DEF Drop, CostsTyped
  <1>2. CostsTyped'
    BY <1>1 DEF Drop, CostsTyped, CommitsTyped, history
  <1>3. LatchAgrees'
    BY DEF Drop, CostsTyped, LatchAgrees, Exceeded
  <1> QED BY <1>2, <1>3

(* Outside a session no tracker is in use. *)
LEMMA EndsKeeps ==
  ASSUME CostsTyped, LatchAgrees, NEW how \in Phases \ {"running"}, Ends(how), CommitsTyped'
  PROVE  CostsTyped' /\ LatchAgrees'
  <1>1. call' \in Seq(Frames)
    BY DEF Ends
  <1>2. CostsTyped'
    BY <1>1, NoEntries DEF Ends, CostsTyped, tracker, Entry
  <1> QED BY <1>2 DEF Ends, LatchAgrees, Phases

(* The root's tracker is restored over its cap, and then latched and halted, or
   it is the application's own, and then it was given a cap below its spend. *)
LEMMA StartsKeeps ==
  ASSUME CostsTyped, LatchAgrees, NEW commit, Entry(commit.entries),
         NEW restart \in BOOLEAN, NEW budget \in RootBudgets, NEW same \in BOOLEAN,
         Starts(commit, restart, budget, same)
  PROVE  CostsTyped' /\ LatchAgrees'
  <1> DEFINE restored == Root \in DOMAIN commit.entries
             amount == IF restored THEN commit.entries[Root]
                       ELSE IF same THEN spent[Root] ELSE 0
             out == restored /\ Over(budget, amount)
  <1>1. amount \in Int /\ budget \in Nat
    <2>1. restored => commit.entries[Root] \in Int
      BY DEF Entry
    <2>2. spent[Root] \in Int
      BY CostsAssumption DEF CostsTyped
    <2>3. amount \in Int
      BY <2>1, <2>2
    <2>4. budget \in Nat
      BY CostsAssumption
    <2> QED BY <2>3, <2>4
  <1>2. /\ spent' = [s \in Scopes |-> IF s = Root THEN amount ELSE 0]
        /\ cap' = [cap EXCEPT ![Root] = budget]
        /\ latched' = IF out \/ (same /\ Root \in latched) THEN {Root} ELSE {}
        /\ lowered' = IF ~restored /\ same /\ Over(budget, amount) THEN {Root} ELSE {}
        /\ halt' = out
        /\ open' = {Root}
    BY DEF Starts
  <1>3. (~restored /\ ~same) => ~Over(budget, amount)
    BY <1>1 DEF Over
  <1>4. saved' = <<>> \/ saved' = Only(commit.entries, Scopes \ {Root})
    BY DEF Starts
  <1>5. Entry(saved')
    BY <1>4, NoEntries DEF Entry, Only
  <1>6. call' = call /\ commits' = commits
    BY DEF Starts
  <1> HIDE DEF restored, amount
  <1>7. spent' \in [Scopes -> Int] /\ cap' \in [Scopes -> Nat] /\ halt' \in BOOLEAN
    BY CostsAssumption, <1>1, <1>2 DEF CostsTyped, Over
  <1>8. CostsTyped'
    BY <1>2, <1>5, <1>6, <1>7 DEF CostsTyped, CommitsTyped
  <1>9. Exceeded(Root)' <=> Over(budget, amount)
    BY CostsAssumption, <1>2 DEF Exceeded, Over, CostsTyped
  <1>10. LatchAgrees'
    <2>1. Exceeded(Root)' /\ Root \notin lowered' => Root \in latched' /\ halt'
      BY <1>2, <1>3, <1>9
    <2> QED BY <2>1, <1>2 DEF LatchAgrees
  <1> QED BY <1>8, <1>10

LEMMA Step == CostsTyped /\ LatchAgrees /\ [Next]_vars => CostsTyped' /\ LatchAgrees'
  <1> SUFFICES ASSUME CostsTyped, LatchAgrees, [Next]_vars
               PROVE  CostsTyped' /\ LatchAgrees'
      OBVIOUS
  <1> USE DEF flow, tracker, history, count
  <1>1. CASE Record
    <2>0. PICK s : s = Level
      OBVIOUS
    <2> DEFINE over == Over(cap[s], spent[s] + Now.cost)
    <2>1. /\ spent' = [spent EXCEPT ![s] = spent[s] + Now.cost]
          /\ IF ~Exceeded(s) /\ over THEN Latch(s) ELSE Stays
          /\ lowered' = IF over THEN lowered ELSE lowered \ {s}
          /\ call' = Moves(NextLevel(Now)) /\ call # <<>>
          /\ UNCHANGED <<phase, open, cap, saved, commits>>
      BY <1>1, <2>0 DEF Record, Fires
    <2>2. Now \in Frames
      BY <2>1, NowTypes
    <2>3. call' \in Seq(Frames)
      BY <2>1, <2>2, NextLevelTypes, MovesTypes
    <2>4. s \in Scopes => spent[s] + Now.cost \in Int
      BY <2>2 DEF CostsTyped, Frames
    <2> HIDE DEF over
    <2>5. spent' \in [Scopes -> Int]
      BY <2>1, <2>4 DEF CostsTyped
    <2>6. halt' \in BOOLEAN /\ (halt => halt') /\ latched \subseteq latched'
      BY <2>1 DEF Latch, Stays, CostsTyped
    <2>7. CostsTyped'
      BY <2>1, <2>3, <2>5, <2>6, SameCommits DEF CostsTyped
    <2>8. \A t \in Scopes : t # s => (Exceeded(t)' <=> Exceeded(t))
      BY <2>1 DEF Exceeded, Over, CostsTyped
    <2>9. s \in Scopes => (Exceeded(s)' <=> over)
      BY <2>1 DEF Exceeded, over, CostsTyped
    <2>10. ~Exceeded(s) /\ over => s \in latched' /\ (s = Root => halt')
      BY <2>1 DEF Latch
    <2>11. LatchAgrees'
      <3> SUFFICES ASSUME phase' = "running", NEW t \in open', Exceeded(t)', t \notin lowered'
                   PROVE  t \in latched' /\ (t = Root => halt')
          BY DEF LatchAgrees
      <3>1. t \in Scopes /\ t \in open /\ phase = "running"
        BY <2>1 DEF CostsTyped
      <3>2. CASE t # s
        BY <2>1, <2>6, <2>8, <3>1, <3>2 DEF LatchAgrees
      <3>3. CASE t = s
        BY <2>1, <2>6, <2>9, <2>10, <3>1, <3>3 DEF LatchAgrees
      <3> QED BY <3>2, <3>3
    <2> QED BY <2>7, <2>11
  <1>2. ASSUME CalledBack \/ CallbackRaises
        PROVE  CostsTyped' /\ LatchAgrees'
    <2>1. call' \in Seq(Frames)
      <3>1. CASE CalledBack
        <4>1. CASE Now.at < Len(Now.path)
          <5>1. call' = Moves([Now EXCEPT !.at = @ + 1]) /\ call # <<>>
            BY <3>1, <4>1 DEF CalledBack
          <5>2. Now \in Frames /\ Now.at + 1 \in Nat
            BY <5>1, NowTypes DEF Frames
          <5>3. [Now EXCEPT !.at = Now.at + 1] \in Frames
            <6> DEFINE f == Now
            <6> HIDE DEF f
            <6>1. f \in Frames /\ f.at + 1 \in Nat
              BY <5>2 DEF f
            <6>2. [f EXCEPT !.at = f.at + 1] \in Frames
              BY <6>1 DEF Frames
            <6> QED BY <6>2 DEF f
          <5> QED BY <5>1, <5>3, MovesTypes
        <4>2. CASE ~(Now.at < Len(Now.path))
          BY <3>1, <4>2, NowTypes DEF CalledBack, Front, CostsTyped
        <4> QED BY <4>1, <4>2
      <3>2. CASE CallbackRaises
        BY <3>2, NowTypes DEF CallbackRaises, CostsTyped
      <3> QED BY <1>2, <3>1, <3>2
    <2>2. UNCHANGED <<phase, open, tracker, history>>
      BY <1>2 DEF CalledBack, CallbackRaises
    <2> QED BY <2>1, <2>2, SameCommits DEF CostsTyped, LatchAgrees, Exceeded
  <1>3. ASSUME NEW s \in Scopes, NEW n \in Costs, Charge(s, n) \/ CallbackCharges(s, n)
        PROVE  CostsTyped' /\ LatchAgrees'
    <2>1. Tracks(s, n)
      BY <1>3 DEF Charge, CallbackCharges
    <2>2. call' \in Seq(Frames)
      BY <2>1, TracksTypes
    <2> QED BY <2>1, <2>2, SameCommits DEF Tracks, CostsTyped, LatchAgrees, Exceeded
  <1>4. ASSUME NEW s \in Scopes, NEW b \in Amendments, UpdateBudget(s, b)
        PROVE  CostsTyped' /\ LatchAgrees'
    <2>1. cap' \in [Scopes -> Nat]
      BY CostsAssumption, <1>4 DEF UpdateBudget, CostsTyped
    <2>2. CostsTyped'
      BY <1>4, <2>1, SameCommits DEF UpdateBudget, CostsTyped
    <2>3. \A t \in Scopes : t # s => (Exceeded(t)' <=> Exceeded(t))
      BY <1>4 DEF UpdateBudget, Exceeded, Over, CostsTyped
    <2>4. Exceeded(s)' <=> Over(b, spent[s])
      BY <1>4 DEF UpdateBudget, Exceeded, Over, CostsTyped
    <2>5. LatchAgrees'
      BY <1>4, <2>3, <2>4 DEF UpdateBudget, LatchAgrees, CostsTyped
    <2> QED BY <2>2, <2>5
  <1>5. ASSUME NEW s \in Scopes, Open(s) PROVE CostsTyped' /\ LatchAgrees'
    <2> DEFINE amount == IF Restored(s) THEN saved[s] ELSE 0
    <2>1. amount \in Int /\ Budget[s] \in Nat \ {0} /\ s # Root
      BY CostsAssumption, <1>5 DEF Open, Restored, CostsTyped, Entry
    <2>2. /\ spent' = [spent EXCEPT ![s] = amount]
          /\ cap' = [cap EXCEPT ![s] = Budget[s]]
          /\ latched' = IF Restored(s) /\ Over(Budget[s], amount)
                        THEN latched \cup {s} ELSE latched
          /\ open' = open \cup {s} /\ saved' = Taken(s)
          /\ UNCHANGED <<phase, lowered, halt, call, commits>>
      BY <1>5 DEF Open
    <2>3. ~Restored(s) => ~Over(Budget[s], amount)
      BY <2>1 DEF Over
    <2> HIDE DEF amount
    <2>4. Entry(saved')
      BY <2>2 DEF CostsTyped, Entry, Taken, Only
    <2>5. CostsTyped'
      BY <2>1, <2>2, <2>4, SameCommits DEF CostsTyped
    <2>6. Exceeded(s)' <=> Over(Budget[s], amount)
      BY <2>1, <2>2 DEF Exceeded, CostsTyped
    <2>7. \A t \in Scopes : t # s => (Exceeded(t)' <=> Exceeded(t))
      BY <2>2 DEF Exceeded, CostsTyped
    <2>8. LatchAgrees'
      BY <2>1, <2>2, <2>3, <2>6, <2>7 DEF LatchAgrees, CostsTyped
    <2> QED BY <2>5, <2>8
  <1>6. ASSUME NEW s \in Scopes, StartVerb(s) \/ EndVerb(s) PROVE CostsTyped' /\ LatchAgrees'
    BY <1>6, SameCommits DEF StartVerb, EndVerb, CostsTyped, LatchAgrees, Exceeded
  <1>7. ASSUME NEW s \in Scopes, Close(s) \/ Abandon(s) PROVE CostsTyped' /\ LatchAgrees'
    <2>1. \E S : Drop(S, Parent(s))
      BY <1>7 DEF Close, Abandon
    <2>2. UNCHANGED <<saved, commits>>
      BY <2>1 DEF Drop
    <2> QED BY <2>1, <2>2, DropKeeps
  <1>8. CASE Checkpoint
    <2>1. CommitsTyped'
      BY <1>8, CaptureTypes, CommitTypes DEF Checkpoint, CostsTyped
    <2>2. CostsTyped'
      BY <1>8, <2>1 DEF Checkpoint, CostsTyped
    <2> QED BY <1>8, <2>2 DEF Checkpoint, LatchAgrees, Exceeded
  <1>9. CASE SetHalt
    BY <1>9, SameCommits DEF SetHalt, CostsTyped, LatchAgrees, Exceeded
  <1>10. CASE HaltCommit
    <2>1. CommitsTyped'
      BY <1>10, CaptureTypes, CommitTypes DEF HaltCommit, CostsTyped
    <2> QED BY <1>10, <2>1, EndsKeeps DEF HaltCommit, Phases
  <1>11. CASE Complete
    <2>1. CommitsTyped'
      BY <1>11, CaptureTypes, CommitTypes DEF Complete, CostsTyped
    <2> QED BY <1>11, <2>1, EndsKeeps DEF Complete, Phases
  <1>12. CASE Fail
    <2>1. CommitsTyped'
      BY <1>12, SameCommits DEF Fail, CostsTyped
    <2> QED BY <1>12, <2>1, EndsKeeps DEF Fail, Phases
  <1>13. ASSUME NEW b \in RootBudgets, NEW same \in BOOLEAN, Run(b, same)
         PROVE  CostsTyped' /\ LatchAgrees'
    <2>1. CASE commits = <<>>
      <3>1. Starts(NoHistory, FALSE, b, same)
        BY <1>13, <2>1 DEF Run
      <3>2. Entry(NoHistory.entries)
        BY NoEntries DEF NoHistory
      <3> QED BY <3>1, <3>2, StartsKeeps
    <2>2. CASE commits # <<>>
      <3>1. PICK i \in DOMAIN commits, restart \in BOOLEAN :
              Starts(commits[i], restart, b, same)
        BY <1>13, <2>2 DEF Run
      <3>2. Entry(commits[i].entries)
        BY DEF CostsTyped, CommitsTyped
      <3> QED BY <3>1, <3>2, StartsKeeps
    <2> QED BY <2>1, <2>2
  <1>14. CASE UNCHANGED vars
    BY <1>14, SameCommits DEF vars, CostsTyped, LatchAgrees, Exceeded
  <1> QED BY <1>1, <1>2, <1>3, <1>4, <1>5, <1>6, <1>7, <1>8, <1>9, <1>10, <1>11, <1>12,
             <1>13, <1>14 DEF Next

(* A tracker over its cap has latched, and the root's has set the run's halt,
   whatever is restored, amended, rescued or raised by a callback. *)
THEOREM CapsLatch == Spec => []LatchAgrees
  BY InitTyped, Step, PTL DEF Spec

-----------------------------------------------------------------------------
(* Spends.  A tracker has what was recorded at it and below it but for what the
   last call is still carrying up.  It stays so when a run is opened, dropped or
   restored because what is in use and what is saved together are closed under
   going up, and nothing was recorded outside of them. *)

(* The runs in progress are those on the way to each of them, and what was
   saved is under one of them or under what was saved. *)
Tree ==
  /\ phase = "running" => Root \in open
  /\ phase # "running" => open = {} /\ DOMAIN saved = {} /\ call = <<>>
  /\ verb \subseteq open
  /\ \A s \in open : Range(Path[s]) \subseteq open
  /\ DOMAIN saved \cap open = {}
  /\ \A s \in DOMAIN saved : Range(Path[s]) \subseteq open \cup DOMAIN saved

(* Of the calls on the stack only the last one still goes up. *)
Stacked ==
  /\ \A i \in DOMAIN call : call[i].path \in {Path[s] : s \in Scopes} /\ call[i].at \in 1..Len(call[i].path)
  /\ \A i \in DOMAIN call : i < Len(call) => ~call[i].up

(* What is still on its way to the tracker of s. *)
Pending(s) ==
  IF call # <<>> /\ Now.up /\ s \in {Now.path[i] : i \in 1..Now.at} THEN Now.cost ELSE 0

Booked ==
  phase = "running" =>
    /\ \A s \in open : spent[s] + Pending(s) = SumOf(own, Under(s))
    /\ \A s \in DOMAIN saved : saved[s] = SumOf(own, Under(s))
    /\ \A s \in Scopes : s \notin open \cup DOMAIN saved => own[s] = 0

(* So it was when a checkpoint was written. *)
Kept(c) ==
  /\ c.own \in [Scopes -> Int]
  /\ Root \in DOMAIN c.entries /\ DOMAIN c.entries \subseteq Scopes
  /\ \A s \in DOMAIN c.entries :
       Range(Path[s]) \subseteq DOMAIN c.entries /\ c.entries[s] = SumOf(c.own, Under(s))
  /\ \A s \in Scopes : s \notin DOMAIN c.entries => c.own[s] = 0

(* The last checkpoint of a run that ended has what its root had spent. *)
Closed ==
  phase \in {"halted", "complete"} =>
    /\ commits # <<>> /\ Root \in DOMAIN commits[Len(commits)].entries
    /\ commits[Len(commits)].entries[Root] = spent[Root]

Books ==
  /\ own \in [Scopes -> Int] /\ Tree /\ Stacked /\ Booked /\ Closed
  /\ \A i \in DOMAIN commits : Kept(commits[i])

(* The places: Under(s) is s and what is under its children. *)
LEMMA Places ==
  ASSUME NEW s \in Scopes
  PROVE  /\ Path[s] \in Seq(Scopes) /\ Len(Path[s]) \in Nat \ {0}
         /\ Path[s][Len(Path[s])] = s /\ Path[s][1] = Root
         /\ s \in Range(Path[s]) /\ Root \in Range(Path[s]) /\ Range(Path[s]) \subseteq Scopes
         /\ s \in Under(s) /\ Under(s) \subseteq Scopes /\ IsFiniteSet(Under(s))
<1>1. Path[s] \in Seq(Scopes) /\ Len(Path[s]) \in Nat \ {0} /\ Path[s] # <<>>
      /\ Path[s][Len(Path[s])] = s /\ Path[s][1] = Root
  BY CostsAssumption
<1>2. Len(Path[s]) \in DOMAIN Path[s] /\ 1 \in DOMAIN Path[s]
  BY <1>1
<1>3. s \in Range(Path[s]) /\ Root \in Range(Path[s]) /\ Range(Path[s]) \subseteq Scopes
  BY <1>1, <1>2 DEF Range
<1>4. IsFiniteSet(Under(s))
  BY FS_Subset, CostsAssumption DEF Under
<1>. QED  BY <1>1, <1>3, <1>4 DEF Under

(* The way to a place on the way to s is the beginning of the way to s. *)
LEMMA Ways ==
  ASSUME NEW s \in Scopes, NEW t \in Range(Path[s])
  PROVE  /\ t \in Scopes /\ Range(Path[t]) \subseteq Range(Path[s])
         /\ \E i \in DOMAIN Path[s] : Path[s][i] = t /\ Len(Path[t]) = i /\ Path[t] = SubSeq(Path[s], 1, i)
<1>1. PICK i \in DOMAIN Path[s] : Path[s][i] = t
  BY DEF Range
<1>2. Path[t] = SubSeq(Path[s], 1, i)
  BY <1>1, CostsAssumption
<1>3. Path[s] \in Seq(Scopes) /\ i \in 1..Len(Path[s])
  BY Places
<1>4. Len(Path[t]) = i /\ \A j \in 1..i : Path[t][j] = Path[s][j]
  BY <1>2, <1>3
<1>5. Range(Path[t]) \subseteq Range(Path[s])
  BY <1>2, <1>3, <1>4 DEF Range
<1>. QED  BY <1>1, <1>2, <1>4, <1>5, Places

LEMMA Once ==
  ASSUME NEW s \in Scopes, NEW i \in DOMAIN Path[s], NEW j \in DOMAIN Path[s], Path[s][i] = Path[s][j]
  PROVE  i = j
<1>1. Path[s] \in Seq(Scopes) /\ i \in 1..Len(Path[s]) /\ j \in 1..Len(Path[s])
  BY Places
<1>2. Path[Path[s][i]] = SubSeq(Path[s], 1, i) /\ Path[Path[s][j]] = SubSeq(Path[s], 1, j)
  BY CostsAssumption
<1>3. Len(SubSeq(Path[s], 1, i)) = i /\ Len(SubSeq(Path[s], 1, j)) = j
  BY <1>1
<1>. QED  BY <1>2, <1>3

LEMMA Under_Root == Under(Root) = Scopes
BY Places, CostsAssumption DEF Under

(* What is under a place that is under t. *)
LEMMA Unders ==
  ASSUME NEW t \in Scopes, NEW s \in Under(t)
  PROVE  Under(s) \subseteq Under(t) /\ t \in Range(Path[s])
BY Ways DEF Under

(* Two places are one under the other or have nothing in common. *)
LEMMA Apart ==
  ASSUME NEW s \in Scopes, NEW t \in Scopes, t \notin Range(Path[s]), s \notin Range(Path[t])
  PROVE  Under(s) \cap Under(t) = {}
<1> SUFFICES ASSUME NEW u \in Under(s), u \in Under(t) PROVE FALSE
  OBVIOUS
<1>1. u \in Scopes /\ s \in Range(Path[u]) /\ t \in Range(Path[u])
  BY DEF Under
<1>2. PICK i \in DOMAIN Path[u] : Path[u][i] = s /\ Len(Path[s]) = i /\ Path[s] = SubSeq(Path[u], 1, i)
  BY <1>1, Ways
<1>3. PICK j \in DOMAIN Path[u] : Path[u][j] = t /\ Len(Path[t]) = j /\ Path[t] = SubSeq(Path[u], 1, j)
  BY <1>1, Ways
<1>4. Path[u] \in Seq(Scopes) /\ i \in 1..Len(Path[u]) /\ j \in 1..Len(Path[u])
  BY <1>1, Places
<1>5. CASE i <= j
  <2>1. Path[t][i] = s /\ i \in DOMAIN Path[t]
    BY <1>2, <1>3, <1>4, <1>5
  <2>. QED  BY <2>1 DEF Range
<1>6. CASE j <= i
  <2>1. Path[s][j] = t /\ j \in DOMAIN Path[s]
    BY <1>2, <1>3, <1>4, <1>6
  <2>. QED  BY <2>1 DEF Range
<1>. QED  BY <1>4, <1>5, <1>6

(* The parent of a nested place is on the way to it. *)
LEMMA Parents ==
  ASSUME NEW s \in Scopes, s # Root
  PROVE  /\ Parent(s) \in Scopes /\ Parent(s) \in Range(Path[s]) /\ Parent(s) # s
         /\ Range(Path[s]) = Range(Path[Parent(s)]) \cup {s}
         /\ s \notin Range(Path[Parent(s)])
<1> DEFINE n == Len(Path[s])
           p == Path[s]
<1>1. p \in Seq(Scopes) /\ n \in Nat \ {0} /\ p[n] = s /\ p[1] = Root /\ n = Len(p)
  BY Places
<1>2. n > 1 /\ n - 1 \in 1..n /\ n \in DOMAIN p /\ n - 1 \in DOMAIN p
  BY <1>1
<1>3. Parent(s) = p[n - 1]
  BY DEF Parent
<1>4. Path[Parent(s)] = SubSeq(p, 1, n - 1)
  BY <1>2, <1>3, CostsAssumption
<1> HIDE DEF n, p
<1>5. DOMAIN SubSeq(p, 1, n - 1) = 1..(n - 1) /\ \A i \in 1..(n - 1) : SubSeq(p, 1, n - 1)[i] = p[i]
  BY <1>1, <1>2
<1>6. DOMAIN p = 1..n /\ 1..n = 1..(n - 1) \cup {n}
  BY <1>1, <1>2
<1>7. Range(p) = Range(SubSeq(p, 1, n - 1)) \cup {s}
  BY <1>1, <1>5, <1>6 DEF Range
<1>8. \A i \in 1..(n - 1) : p[i] # s
  BY <1>1, <1>2, <1>6, Once DEF p
<1>9. s \notin Range(SubSeq(p, 1, n - 1))
  BY <1>5, <1>8 DEF Range
<1>10. Parent(s) \in Range(p) /\ Parent(s) # s
  BY <1>2, <1>3, <1>6, <1>8 DEF Range
<1>. QED  BY <1>4, <1>7, <1>9, <1>10, Places DEF p

LEMMA RootAlone == Range(Path[Root]) = {Root}
<1>1. Path[Root] \in Seq(Scopes) /\ Len(Path[Root]) \in Nat \ {0}
      /\ Path[Root][Len(Path[Root])] = Root /\ Path[Root][1] = Root
      /\ DOMAIN Path[Root] = 1..Len(Path[Root])
  BY Places, CostsAssumption
<1>2. Len(Path[Root]) = 1
  <2>1. Root \in Scopes
    BY CostsAssumption
  <2>2. 1 \in DOMAIN Path[Root] /\ Len(Path[Root]) \in DOMAIN Path[Root]
    BY <1>1
  <2>. QED  BY <1>1, <2>1, <2>2, Once
<1>. QED  BY <1>1, <1>2 DEF Range

(* The way to what is under s leads over a child of s. *)
LEMMA ChildOnTheWay ==
  ASSUME NEW s \in Scopes, NEW t \in Under(s), t # s
  PROVE  \E c \in Children(s) : c \in Range(Path[t])
<1>1. t \in Scopes /\ s \in Range(Path[t])
  BY DEF Under
<1>2. PICK i \in DOMAIN Path[t] : Path[t][i] = s /\ Len(Path[s]) = i /\ Path[s] = SubSeq(Path[t], 1, i)
  BY <1>1, Ways
<1>3. Path[t] \in Seq(Scopes) /\ DOMAIN Path[t] = 1..Len(Path[t]) /\ Len(Path[t]) \in Nat /\ Path[t][Len(Path[t])] = t
      /\ Path[t][1] = Root
  BY <1>1, Places
<1>4. i \in Nat /\ i + 1 \in 1..Len(Path[t])
  BY <1>2, <1>3
<1> DEFINE c == Path[t][i + 1]
<1>5. c \in Scopes /\ c \in Range(Path[t])
  BY <1>3, <1>4 DEF Range
<1>6. Path[c] = SubSeq(Path[t], 1, i + 1)
  BY <1>1, <1>3, <1>4, CostsAssumption
<1>7. Len(Path[c]) = i + 1 /\ Path[c][i] = s
  BY <1>2, <1>3, <1>4, <1>6
<1>8. c # Root
  <2>1. 1 \in DOMAIN Path[t] /\ i + 1 \in DOMAIN Path[t] /\ i + 1 # 1
    BY <1>2, <1>3, <1>4
  <2>. QED  BY <1>1, <1>3, <2>1, Once
<1> HIDE DEF c
<1>9. Parent(c) = s
  BY <1>4, <1>7 DEF Parent
<1>. QED  BY <1>5, <1>8, <1>9 DEF Children

LEMMA InitBooks == Init => Books
<1> SUFFICES ASSUME Init PROVE Books
  OBVIOUS
<1>1. own \in [Scopes -> Int] /\ call = <<>> /\ verb = {} /\ commits = <<>> /\ saved = <<>> /\ open = {} /\ phase = "none"
  BY DEF Init
<1>2. Tree
  BY <1>1 DEF Tree
<1>3. Stacked /\ Booked /\ Closed
  BY <1>1 DEF Stacked, Booked, Closed
<1>. QED  BY <1>1, <1>2, <1>3 DEF Books

LEMMA AllUnder == ASSUME NEW s \in Scopes PROVE \A u \in Under(s) : u \in Scopes
BY DEF Under

LEMMA TreeFacts ==
  ASSUME CostsTyped, Books, NEW s \in open
  PROVE  s \in Scopes /\ phase = "running" /\ s \notin DOMAIN saved
         /\ Range(Path[s]) \subseteq open /\ Range(Path[s]) \subseteq Scopes
BY Places DEF CostsTyped, Books, Tree

(* What the last call has still to add. *)
LEMMA NoCall == call = <<>> => \A s : Pending(s) = 0
BY DEF Pending

LEMMA LastCall ==
  ASSUME CostsTyped, Books, call # <<>>
  PROVE  /\ Now = call[Len(call)] /\ Len(call) \in DOMAIN call /\ Now \in Frames
         /\ \E s \in Scopes : Now.path = Path[s]
         /\ Now.at \in 1..Len(Now.path)
<1>1. Len(call) \in DOMAIN call /\ Now = call[Len(call)] /\ Now \in Frames
  BY NowTypes DEF CostsTyped, Now, Last
<1>. QED  BY <1>1 DEF Books, Stacked

(* A cost that is recorded at s has to go up to everyone on the way to s. *)
LEMMA TracksBooks ==
  ASSUME CostsTyped, Books, NEW s \in open, NEW n \in Costs, Tracks(s, n), call # <<>> => ~Now.up
  PROVE  Books'
<1>1. s \in Scopes /\ phase = "running" /\ Range(Path[s]) \subseteq open /\ n \in Int
  BY TreeFacts, CostsAssumption
<1>2. /\ own' = [own EXCEPT ![s] = own[s] + n]
      /\ call' = Append(call, Frame(s, n))
      /\ UNCHANGED <<phase, open, verb, saved, commits, spent>>
  BY DEF Tracks, flow, tracker, history
<1>3. own \in [Scopes -> Int] /\ call \in Seq(Frames) /\ own[s] \in Int
  BY <1>1 DEF Books, CostsTyped
<1>4. own' \in [Scopes -> Int]
  BY <1>1, <1>2, <1>3
<1>5. Frame(s, n) \in Frames /\ Frame(s, n).up /\ Frame(s, n).path = Path[s] /\ Frame(s, n).cost = n
      /\ Frame(s, n).at = Len(Path[s])
  BY <1>1, Places DEF Frame, Frames
<1>6. /\ Len(call') = Len(call) + 1 /\ DOMAIN call' = 1..(Len(call) + 1)
      /\ call'[Len(call) + 1] = Frame(s, n)
      /\ \A i \in 1..Len(call) : call'[i] = call[i]
  BY <1>2, <1>3, <1>5
<1>7. \A i \in DOMAIN call : ~call[i].up
  <2>1. \A i \in DOMAIN call : i < Len(call) => ~call[i].up
    BY DEF Books, Stacked
  <2>2. call # <<>> => Now = call[Len(call)]
    BY LastCall
  <2>. QED  BY <1>3, <2>1, <2>2
<1>8. Stacked'
  <2>1. DOMAIN call = 1..Len(call) /\ Len(call) \in Nat
    BY <1>3
  <2>2. Len(Path[s]) \in 1..Len(Path[s])
    BY <1>1, Places
  <2>3. \A i \in DOMAIN call' : /\ call'[i].path \in {Path[t] : t \in Scopes}
                               /\ call'[i].at \in 1..Len(call'[i].path)
    <3> SUFFICES ASSUME NEW i \in 1..(Len(call) + 1)
                 PROVE  call'[i].path \in {Path[t] : t \in Scopes} /\ call'[i].at \in 1..Len(call'[i].path)
      BY <1>6
    <3>1. CASE i = Len(call) + 1
      BY <1>1, <1>5, <1>6, <2>2, <3>1
    <3>2. CASE i # Len(call) + 1
      <4>1. i \in 1..Len(call)
        BY <2>1, <3>2
      <4>. QED  BY <1>6, <2>1, <4>1 DEF Books, Stacked
    <3>. QED  BY <3>1, <3>2
  <2>4. \A i \in DOMAIN call' : i < Len(call') => ~call'[i].up
    <3> SUFFICES ASSUME NEW i \in 1..(Len(call) + 1), i < Len(call) + 1 PROVE ~call'[i].up
      BY <1>6
    <3>1. i \in 1..Len(call)
      BY <2>1
    <3>. QED  BY <1>6, <1>7, <2>1, <3>1
  <2>. QED  BY <2>3, <2>4 DEF Stacked
<1>9. Tree'
  BY <1>1, <1>2 DEF Books, Tree
<1>10. \A t : Pending(t) = 0
  BY <1>7, LastCall DEF Pending
<1>11. \A t : Pending(t)' = IF t \in Range(Path[s]) THEN n ELSE 0
  <2>1. Now' = Frame(s, n) /\ call' # <<>>
    BY <1>3, <1>6 DEF Now, Last
  <2>2. {Path[s][i] : i \in 1..Len(Path[s])} = Range(Path[s])
    BY <1>1, Places DEF Range
  <2>. QED  BY <1>5, <2>1, <2>2 DEF Pending
<1>12. ASSUME NEW t \in Scopes
       PROVE  SumOf(own', Under(t)) = SumOf(own, Under(t)) + (IF t \in Range(Path[s]) THEN n ELSE 0)
  <2>1. IsFiniteSet(Under(t)) /\ \A u \in Under(t) : u \in Scopes /\ own[u] \in Int
    BY <1>3, Places, AllUnder
  <2>2. \A u \in Under(t) : own'[u] = IF u = s THEN own[u] + n ELSE own[u]
    BY <1>2, <1>3, <2>1
  <2>3. CASE t \in Range(Path[s])
    <3>1. s \in Under(t)
      BY <1>1, <2>3 DEF Under
    <3>. QED  BY <1>1, <2>1, <2>2, <2>3, <3>1, SumPlus
  <2>4. CASE t \notin Range(Path[s])
    <3>1. s \notin Under(t)
      BY <2>4 DEF Under
    <3>2. SumOf(own', Under(t)) = SumOf(own, Under(t))
      BY <2>1, <2>2, <3>1, SumSame
    <3>3. SumOf(own, Under(t)) \in Int
      BY <2>1, SumType
    <3>. QED  BY <2>4, <3>2, <3>3
  <2>. QED  BY <2>3, <2>4
<1>13. Booked'
  <2>1. ASSUME NEW t \in open PROVE spent[t] + Pending(t)' = SumOf(own', Under(t))
    <3>1. t \in Scopes /\ spent[t] \in Int
      BY TreeFacts DEF CostsTyped
    <3>2. spent[t] + 0 = SumOf(own, Under(t))
      BY <1>1, <1>10 DEF Books, Booked
    <3>. QED  BY <1>1, <1>11, <1>12, <3>1, <3>2
  <2>2. ASSUME NEW t \in DOMAIN saved PROVE saved[t] = SumOf(own', Under(t))
    <3>1. t \in Scopes /\ saved[t] \in Int /\ t \notin open
      BY DEF CostsTyped, Entry, Books, Tree
    <3>2. saved[t] = SumOf(own, Under(t))
      BY <1>1 DEF Books, Booked
    <3>. QED  BY <1>1, <1>12, <3>1, <3>2
  <2>3. ASSUME NEW t \in Scopes, t \notin open \cup DOMAIN saved PROVE own'[t] = 0
    <3>1. own[t] = 0
      BY <1>1, <2>3 DEF Books, Booked
    <3>. QED  BY <1>2, <1>3, <2>3, <3>1
  <2>. QED  BY <1>2, <2>1, <2>2, <2>3 DEF Booked
<1>14. Closed'
  BY <1>1, <1>2 DEF Closed
<1>. QED  BY <1>2, <1>4, <1>8, <1>9, <1>13, <1>14 DEF Books

(* A level that records takes its part of what is on its way. *)
LEMMA RecordBooks ==
  ASSUME CostsTyped, Books, Record PROVE Books'
<1> DEFINE n == Len(call)
           f == Now
<1>1. PICK s : s = Level
  OBVIOUS
<1>2. /\ spent' = [spent EXCEPT ![s] = spent[s] + f.cost]
      /\ call' = [call EXCEPT ![n] = NextLevel(f)]
      /\ call # <<>> /\ f.up
      /\ UNCHANGED <<phase, open, verb, saved, commits, own>>
  BY <1>1 DEF Record, Moves, flow, history
<1>3. /\ f = call[n] /\ n \in DOMAIN call /\ f \in Frames /\ f.at \in 1..Len(f.path)
      /\ call \in Seq(Frames) /\ n \in Nat /\ DOMAIN call = 1..n
  BY <1>2, LastCall DEF CostsTyped
<1>4. PICK p \in Scopes : f.path = Path[p]
  BY <1>2, LastCall
<1>5. phase = "running"
  BY <1>2 DEF Books, Tree
<1>6. s = Path[p][f.at] /\ f.at \in 1..Len(Path[p]) /\ f.at \in Nat /\ f.cost \in Int
  BY <1>1, <1>3, <1>4 DEF Level, Frames
<1>7. NextLevel(f).path = f.path /\ NextLevel(f).cost = f.cost /\ NextLevel(f).at \in 1..Len(f.path)
      /\ (f.at > 1 => NextLevel(f).up /\ NextLevel(f).at = f.at - 1)
      /\ (f.at = 1 => ~NextLevel(f).up)
  <2> HIDE DEF f
  <2>. QED  BY <1>2, <1>3 DEF NextLevel, Frames
<1>8. n = Len(call') /\ DOMAIN call' = DOMAIN call /\ Now' = NextLevel(f) /\ call'[n] = NextLevel(f)
      /\ \A i \in DOMAIN call : i # n => call'[i] = call[i]
  <2>1. n = Len(call') /\ DOMAIN call' = DOMAIN call /\ call'[n] = NextLevel(f)
        /\ \A i \in DOMAIN call : i # n => call'[i] = call[i]
    BY <1>2, <1>3
  <2>. QED  BY <2>1 DEF Now, Last
<1>9. call' # <<>>
  BY <1>3, <1>8
<1> HIDE DEF f, n
<1>10. Stacked'
  <2>1. \A i \in DOMAIN call : /\ call[i].path \in {Path[t] : t \in Scopes}
                               /\ call[i].at \in 1..Len(call[i].path)
                               /\ i < n => ~call[i].up
    BY DEF Books, Stacked, n
  <2>. QED  BY <1>3, <1>4, <1>7, <1>8, <2>1 DEF Stacked, n
<1>11. Tree'
  BY <1>2, <1>5 DEF Books, Tree
<1>12. \A t : Pending(t) = IF t \in {Path[p][i] : i \in 1..f.at} THEN f.cost ELSE 0
  BY <1>2, <1>4 DEF Pending, f
<1>13. \A t : Pending(t)' = IF t \in {Path[p][i] : i \in 1..(f.at - 1)} THEN f.cost ELSE 0
  <2>1. CASE f.at > 1
    <3>1. \A t : Pending(t)' = IF t \in {Now'.path[i] : i \in 1..Now'.at} THEN Now'.cost ELSE 0
      BY <1>7, <1>8, <1>9, <2>1 DEF Pending
    <3>. QED  BY <1>4, <1>7, <1>8, <2>1, <3>1
  <2>2. CASE f.at = 1
    <3>1. \A t : Pending(t)' = 0
      BY <1>7, <1>8, <2>2 DEF Pending
    <3>. QED  BY <2>2, <3>1
  <2>. QED  BY <1>6, <2>1, <2>2
<1>14. \A i \in 1..(f.at - 1) : Path[p][i] # s
  BY <1>6, Once, Places
<1>15. ASSUME NEW t \in open PROVE spent'[t] + Pending(t)' = SumOf(own, Under(t))
  <2>1. t \in Scopes /\ spent[t] \in Int /\ spent \in [Scopes -> Int]
    BY TreeFacts DEF CostsTyped
  <2>2. spent[t] + Pending(t) = SumOf(own, Under(t))
    BY <1>5 DEF Books, Booked
  <2>3. CASE t = s
    <3>1. Pending(t) = f.cost
      BY <1>6, <1>12, <2>3
    <3>2. Pending(t)' = 0
      BY <1>13, <1>14, <2>3
    <3>. QED  BY <1>2, <1>6, <2>1, <2>2, <2>3, <3>1, <3>2
  <2>4. CASE t # s
    <3>1. t \in {Path[p][i] : i \in 1..f.at} <=> t \in {Path[p][i] : i \in 1..(f.at - 1)}
      BY <1>6, <2>4
    <3>2. Pending(t)' = Pending(t) /\ spent'[t] = spent[t]
      BY <1>2, <1>12, <1>13, <2>1, <2>4, <3>1
    <3>. QED  BY <2>2, <3>2
  <2>. QED  BY <2>3, <2>4
<1>16. Booked'
  <2>1. /\ \A t \in DOMAIN saved : saved[t] = SumOf(own, Under(t))
        /\ \A t \in Scopes : t \notin open \cup DOMAIN saved => own[t] = 0
    BY <1>5 DEF Books, Booked
  <2>. QED  BY <1>2, <1>15, <2>1 DEF Booked
<1>17. Closed'
  BY <1>2, <1>5 DEF Closed
<1>. QED  BY <1>2, <1>10, <1>11, <1>16, <1>17 DEF Books

(* Steps that record nothing and open, close or save nothing. *)
LEMMA SameBooks ==
  ASSUME CostsTyped, Books, UNCHANGED <<phase, open, spent, call, saved, commits, own>>, verb' \subseteq open
  PROVE  Books'
<1>1. Tree' /\ Stacked' /\ Closed'
  BY DEF Books, Tree, Stacked, Closed
<1>2. \A s : Pending(s)' = Pending(s)
  BY DEF Pending, Now, Last
<1>3. Booked'
  BY <1>2 DEF Books, Booked
<1>. QED  BY <1>1, <1>3 DEF Books

(* Callbacks are heard when nothing is on its way. *)
LEMMA CallbackBooks ==
  ASSUME CostsTyped, Books, CalledBack \/ CallbackRaises PROVE Books'
<1>1. call # <<>> /\ ~Now.up /\ UNCHANGED <<phase, open, verb, spent, saved, commits, own>>
  BY DEF CalledBack, CallbackRaises, flow, tracker, history
<1>2. /\ Now = call[Len(call)] /\ Now \in Frames /\ Now.at \in 1..Len(Now.path)
      /\ call \in Seq(Frames) /\ Len(call) \in Nat \ {0} /\ DOMAIN call = 1..Len(call)
      /\ (\E t \in Scopes : Now.path = Path[t])
  BY <1>1, LastCall, NowTypes DEF CostsTyped
<1>3. /\ \A i \in DOMAIN call : call[i].path \in {Path[s] : s \in Scopes} /\ call[i].at \in 1..Len(call[i].path)
      /\ \A i \in DOMAIN call : ~call[i].up
  <2>1. \A i \in DOMAIN call : i < Len(call) => ~call[i].up
    BY DEF Books, Stacked
  <2>2. Stacked
    BY DEF Books
  <2>. QED  BY <1>1, <1>2, <2>1, <2>2 DEF Stacked
<1>4. phase = "running"
  BY <1>1 DEF Books, Tree
<1>5. /\ \A i \in DOMAIN call' : call'[i].path \in {Path[s] : s \in Scopes} /\ call'[i].at \in 1..Len(call'[i].path)
      /\ \A i \in DOMAIN call' : ~call'[i].up
      /\ call' # <<>> => Now' = call'[Len(call')] /\ Len(call') \in DOMAIN call'
  <2>1. ASSUME NEW k \in 0..(Len(call) - 1), call' = SubSeq(call, 1, k)
        PROVE  <1>5!1 /\ <1>5!2 /\ <1>5!3
    <3>1. Len(call') = k /\ DOMAIN call' = 1..k /\ \A i \in 1..k : call'[i] = call[i] /\ i \in DOMAIN call
      BY <1>2, <2>1
    <3>2. call' # <<>> => k # 0
      BY <1>2, <2>1
    <3>. QED  BY <1>3, <3>1, <3>2 DEF Now, Last
  <2>2. ASSUME CalledBack, Now.at < Len(Now.path) PROVE <1>5!1 /\ <1>5!2 /\ <1>5!3
    <3> DEFINE f == Now
               n == Len(call)
    <3>1. call' = [call EXCEPT ![n] = [f EXCEPT !.at = f.at + 1]]
      BY <2>2 DEF CalledBack, Moves
    <3>2. f \in Frames /\ f.at + 1 \in 1..Len(f.path) /\ ~f.up /\ n \in DOMAIN call /\ f = call[n]
          /\ f.path \in {Path[s] : s \in Scopes}
      BY <1>1, <1>2, <2>2
    <3> HIDE DEF f
    <3>3. [f EXCEPT !.at = f.at + 1].path = f.path /\ [f EXCEPT !.at = f.at + 1].at = f.at + 1
          /\ ~[f EXCEPT !.at = f.at + 1].up
      BY <3>2 DEF Frames
    <3>4. /\ DOMAIN call' = DOMAIN call /\ Len(call') = n /\ call'[n] = [f EXCEPT !.at = f.at + 1]
          /\ \A i \in DOMAIN call : i # n => call'[i] = call[i]
      BY <1>2, <3>1, <3>2
    <3> HIDE DEF n
    <3>5. \A i \in DOMAIN call' : /\ call'[i].path \in {Path[s] : s \in Scopes}
                                  /\ call'[i].at \in 1..Len(call'[i].path)
                                  /\ ~call'[i].up
      BY <1>3, <3>2, <3>3, <3>4
    <3>. QED  BY <3>2, <3>4, <3>5 DEF Now, Last
  <2>3. ASSUME CalledBack, ~(Now.at < Len(Now.path))
        PROVE  \E k \in 0..(Len(call) - 1) : call' = SubSeq(call, 1, k)
    <3>1. call' = SubSeq(call, 1, Len(call) - 1)
      BY <2>3 DEF CalledBack, Front
    <3>2. Len(call) - 1 \in 0..(Len(call) - 1)
      BY <1>2
    <3>. QED  BY <3>1, <3>2
  <2>4. CallbackRaises => \E k \in 0..(Len(call) - 1) : call' = SubSeq(call, 1, k)
    BY DEF CallbackRaises
  <2>. QED  BY <2>1, <2>2, <2>3, <2>4
<1>6. Stacked'
  BY <1>5 DEF Stacked
<1>7. \A s : Pending(s) = 0 /\ Pending(s)' = 0
  BY <1>2, <1>3, <1>5 DEF Pending
<1>8. Tree' /\ Closed' /\ Booked'
  BY <1>1, <1>4, <1>7 DEF Books, Tree, Closed, Booked
<1>. QED  BY <1>1, <1>6, <1>8 DEF Books

(* A run that opens takes up what was saved for it, and else begins with
   nothing: nothing was recorded under it. *)
LEMMA OpenBooks ==
  ASSUME CostsTyped, Books, NEW s \in Scopes, Open(s) PROVE Books'
<1> DEFINE amount == IF Restored(s) THEN saved[s] ELSE 0
<1>1. /\ phase = "running" /\ call = <<>> /\ s # Root /\ s \notin open /\ Parent(s) \in open
      /\ spent' = [spent EXCEPT ![s] = amount]
      /\ open' = open \cup {s}
      /\ saved' = Only(saved, Scopes \ {s})
      /\ UNCHANGED <<phase, verb, call, commits, own>>
  BY DEF Open, AtRest, Taken
<1>2. DOMAIN saved' = DOMAIN saved \ {s} /\ \A t \in DOMAIN saved' : saved'[t] = saved[t]
  BY <1>1 DEF Only, CostsTyped, Entry
<1>3. Range(Path[s]) \subseteq open \cup {s}
  BY <1>1, Parents, TreeFacts
<1>4. Tree'
  <2>1. Tree
    BY DEF Books
  <2>. QED  BY <1>1, <1>2, <1>3, <2>1 DEF Tree
<1>5. Stacked' /\ Closed'
  BY <1>1 DEF Books, Stacked, Closed
<1>6. \A t : Pending(t) = 0 /\ Pending(t)' = 0
  BY <1>1 DEF Pending
<1>7. amount = SumOf(own, Under(s))
  <2>1. CASE s \in DOMAIN saved
    BY <1>1, <2>1 DEF Restored, Books, Booked
  <2>2. CASE s \notin DOMAIN saved
    <3>1. ASSUME NEW u \in Under(s) PROVE own[u] = 0
      <4>1. u \in Scopes /\ s \in Range(Path[u])
        BY DEF Under
      <4>2. u \notin open /\ u \notin DOMAIN saved
        BY <1>1, <2>2, <4>1 DEF Books, Tree
      <4>. QED  BY <1>1, <4>1, <4>2 DEF Books, Booked
    <3>2. SumOf(own, Under(s)) = 0
      BY <3>1, Places, SumZero
    <3>. QED  BY <2>2, <3>2 DEF Restored
  <2>. QED  BY <2>1, <2>2
<1>8. amount \in Int
  <2>1. own \in [Scopes -> Int]
    BY DEF Books
  <2>2. SumOf(own, Under(s)) \in Int
    BY <2>1, Places, AllUnder, SumType
  <2>. QED  BY <1>7, <2>2
<1>9. \A t \in open' : spent'[t] + Pending(t)' = SumOf(own, Under(t))
  <2> SUFFICES ASSUME NEW t \in open' PROVE spent'[t] + 0 = SumOf(own, Under(t))
    BY <1>6
  <2> HIDE DEF amount
  <2>1. spent \in [Scopes -> Int]
    BY DEF CostsTyped
  <2>2. CASE t = s
    BY <1>1, <1>7, <1>8, <2>1, <2>2
  <2>3. CASE t # s
    <3>1. t \in open /\ t \in Scopes
      BY <1>1, <2>3, TreeFacts
    <3>2. spent'[t] = spent[t]
      BY <1>1, <2>1, <2>3, <3>1
    <3>3. spent[t] + Pending(t) = SumOf(own, Under(t))
      BY <1>1, <3>1 DEF Books, Booked
    <3>. QED  BY <1>6, <3>2, <3>3
  <2>. QED  BY <2>2, <2>3
<1>10. Booked'
  <2>1. \A t \in DOMAIN saved' : saved'[t] = SumOf(own, Under(t))
    BY <1>1, <1>2 DEF Books, Booked
  <2>2. \A t \in Scopes : t \notin open' \cup DOMAIN saved' => own[t] = 0
    BY <1>1, <1>2 DEF Books, Booked
  <2>. QED  BY <1>1, <1>9, <2>1, <2>2 DEF Booked
<1>. QED  BY <1>1, <1>4, <1>5, <1>10 DEF Books

(* A run that is closed leaves what was recorded under it to the run it is
   nested in. *)
LEMMA DropBooks ==
  ASSUME CostsTyped, Books, NEW s \in open, s # Root, NEW S,
         phase = "running", call = <<>>,
         S = {s} \/ S = Under(s), s \in S,
         \A t \in Under(s) : t \in DOMAIN saved => FALSE,
         \A t \in Under(s) : t \in open => t \in S,
         Drop(S, Parent(s)), UNCHANGED <<saved, commits>>
  PROVE  Books'
<1> DEFINE p == Parent(s)
           total == SumOf(own, S)
<1>1. s \in Scopes /\ p \in Scopes /\ p # s /\ p \in open /\ S \subseteq Under(s) /\ s \in Under(s)
      /\ Range(Path[s]) = Range(Path[p]) \cup {s} /\ s \notin Range(Path[p])
  <2>1. s \in Scopes /\ Range(Path[s]) \subseteq open
    BY TreeFacts
  <2>2. s \in Under(s)
    BY <2>1, Places
  <2>. QED  BY <2>1, <2>2, Parents
<1>2. /\ open' = open \ S /\ verb' = verb \ S
      /\ spent' = [t \in Scopes |-> IF t \in S THEN 0 ELSE spent[t]]
      /\ own' = Folded(S, p)
      /\ UNCHANGED <<phase, call>>
  BY DEF Drop
<1>3. own \in [Scopes -> Int] /\ IsFiniteSet(S) /\ S \subseteq Scopes
  BY <1>1, Places, FS_Subset DEF Books
<1>4. total \in Int
  BY <1>3, SumType
<1>5. p \notin S
  <2>1. p \notin Under(s)
    BY <1>1 DEF Under
  <2>. QED  BY <1>1, <2>1
<1>6. /\ own' \in [Scopes -> Int]
      /\ \A t \in Scopes : own'[t] = IF t \in S THEN 0 ELSE IF t = p THEN own[t] + total ELSE own[t]
  BY <1>2, <1>3, <1>4 DEF Folded
<1> HIDE DEF total
<1>7. \A t \in Under(s) : t \notin S => own[t] = 0
  BY AllUnder, <1>1 DEF Books, Booked
<1>8. ASSUME NEW t \in Scopes, t \notin Under(s) PROVE SumOf(own', Under(t)) = SumOf(own, Under(t))
  <2>1. IsFiniteSet(Under(t)) /\ \A u \in Under(t) : u \in Scopes /\ own[u] \in Int /\ own'[u] \in Int
    BY <1>3, <1>6, Places, AllUnder
  <2>2. CASE t \in Range(Path[s])
    <3> DEFINE B == Under(t) \ S
    <3>1. S \subseteq Under(t)
      <4>1. s \in Under(t)
        BY <1>1, <2>2 DEF Under
      <4>. QED  BY <1>1, <4>1, Unders
    <3>2. p \in B
      <4>1. t # s
        BY <1>1, <1>8
      <4>2. t \in Range(Path[p])
        BY <1>1, <2>2, <4>1
      <4>. QED  BY <1>1, <1>5, <4>2 DEF Under
    <3>3. Under(t) = S \cup B /\ S \cap B = {} /\ IsFiniteSet(B) /\ B \subseteq Under(t)
      BY <2>1, <3>1, FS_Subset
    <3> HIDE DEF B
    <3>4. SumOf(own', Under(t)) = SumOf(own', S) + SumOf(own', B)
      BY <1>3, <2>1, <3>3, SumAnd
    <3>5. SumOf(own, Under(t)) = total + SumOf(own, B)
      BY <1>3, <2>1, <3>3, SumAnd DEF total
    <3>6. SumOf(own', S) = 0
      BY <1>3, <1>6, SumZero
    <3>7. SumOf(own', B) = SumOf(own, B) + total
      <4>1. \A u \in B : own[u] \in Int /\ own'[u] = IF u = p THEN own[u] + total ELSE own[u]
        BY <1>6, <2>1, <3>3
      <4>. QED  BY <1>4, <3>2, <3>3, <4>1, SumPlus
    <3>8. SumOf(own, B) \in Int
      BY <2>1, <3>3, SumType
    <3>. QED  BY <1>4, <3>4, <3>5, <3>6, <3>7, <3>8
  <2>3. CASE t \notin Range(Path[s])
    <3>1. s \notin Range(Path[t])
      BY <1>8 DEF Under
    <3>2. Under(s) \cap Under(t) = {}
      BY <1>1, <2>3, <3>1, Apart
    <3>3. p \notin Under(t)
      BY <1>1, <2>3 DEF Under
    <3>4. \A u \in Under(t) : own'[u] = own[u]
      BY <1>1, <1>6, <2>1, <3>2, <3>3
    <3>. QED  BY <2>1, <3>4, SumSame
  <2>. QED  BY <2>2, <2>3
<1>9. \A t \in open' : t \notin Under(s) /\ t \in Scopes /\ t \in open
  BY <1>2, TreeFacts
<1>10. \A t \in DOMAIN saved : t \notin Under(s) /\ t \in Scopes
  BY DEF CostsTyped, Entry
<1>11. Tree'
  <2>1. Root \notin S
    <3>1. Range(Path[Root]) = {Root}
      BY CostsAssumption, RootAlone
    <3>. QED  BY <1>1, <3>1 DEF Under
  <2>2. \A t \in open' : Range(Path[t]) \subseteq open'
    <3> SUFFICES ASSUME NEW t \in open', NEW u \in Range(Path[t]) PROVE u \in open'
      OBVIOUS
    <3>1. u \in open /\ u \in Scopes
      BY <1>9, TreeFacts
    <3>2. u \notin Under(s)
      <4> SUFFICES ASSUME u \in Under(s) PROVE FALSE
        OBVIOUS
      <4>1. t \in Under(u)
        BY <1>9 DEF Under
      <4>. QED  BY <1>1, <1>9, <4>1, Unders
    <3>. QED  BY <1>1, <1>2, <3>1, <3>2
  <2>3. \A t \in DOMAIN saved : Range(Path[t]) \subseteq open' \cup DOMAIN saved
    <3> SUFFICES ASSUME NEW t \in DOMAIN saved, NEW u \in Range(Path[t]) PROVE u \in open' \cup DOMAIN saved
      OBVIOUS
    <3>1. u \in open \cup DOMAIN saved
      BY DEF Books, Tree
    <3>2. u \notin Under(s)
      <4> SUFFICES ASSUME u \in Under(s) PROVE FALSE
        OBVIOUS
      <4>1. t \in Under(u) /\ u \in Scopes
        BY <1>10, AllUnder, <1>1 DEF Under
      <4>. QED  BY <1>1, <1>10, <4>1, Unders
    <3>. QED  BY <1>1, <1>2, <3>1, <3>2
  <2>4. Root \in open' /\ verb' \subseteq open' /\ DOMAIN saved \cap open' = {}
    <3>1. Root \in open /\ verb \subseteq open /\ DOMAIN saved \cap open = {}
      BY DEF Books, Tree
    <3>. QED  BY <1>2, <2>1, <3>1
  <2>. QED  BY <1>2, <2>2, <2>3, <2>4 DEF Tree
<1>12. Stacked' /\ Closed'
  BY <1>2 DEF Books, Stacked, Closed
<1>13. \A t : Pending(t) = 0 /\ Pending(t)' = 0
  BY <1>2 DEF Pending
<1>14. Booked'
  <2>1. \A t \in open' : spent'[t] + 0 = SumOf(own', Under(t))
    <3> SUFFICES ASSUME NEW t \in open' PROVE spent'[t] + 0 = SumOf(own', Under(t))
      OBVIOUS
    <3>1. spent[t] + 0 = SumOf(own, Under(t))
      BY <1>9, <1>13 DEF Books, Booked
    <3>2. spent'[t] = spent[t]
      BY <1>1, <1>2, <1>9
    <3>. QED  BY <1>8, <1>9, <3>1, <3>2
  <2>2. \A t \in DOMAIN saved : saved[t] = SumOf(own', Under(t))
    BY <1>8, <1>10 DEF Books, Booked
  <2>3. \A t \in Scopes : t \notin open' \cup DOMAIN saved => own'[t] = 0
    <3> SUFFICES ASSUME NEW t \in Scopes, t \notin open', t \notin DOMAIN saved PROVE own'[t] = 0
      OBVIOUS
    <3>1. CASE t \in S
      BY <1>6, <3>1
    <3>2. CASE t \notin S
      <4>1. t \notin open /\ t # p
        BY <1>1, <1>2, <3>2
      <4>. QED  BY <1>6, <3>2, <4>1 DEF Books, Booked
    <3>. QED  BY <3>1, <3>2
  <2>. QED  BY <1>2, <1>13, <2>1, <2>2, <2>3 DEF Booked
<1>. QED  BY <1>6, <1>11, <1>12, <1>14 DEF Books

(* What a checkpoint keeps is what has been spent. *)
LEMMA CaptureKept ==
  ASSUME CostsTyped, Books, AtRest
  PROVE  /\ Kept([entries |-> Capture, own |-> own])
         /\ Capture[Root] = spent[Root]
         /\ open = {Root} /\ DOMAIN saved = {} => FinalCapture = Capture
<1>1. phase = "running" /\ Root \in open /\ own \in [Scopes -> Int] /\ open \subseteq Scopes
      /\ DOMAIN saved \subseteq Scopes /\ spent \in [Scopes -> Int]
  BY DEF AtRest, Books, Tree, CostsTyped, Entry
<1>2. DOMAIN Capture = open \cup DOMAIN saved
  BY DEF Capture
<1>3. ASSUME NEW s \in DOMAIN Capture
      PROVE  Range(Path[s]) \subseteq DOMAIN Capture /\ Capture[s] = SumOf(own, Under(s))
  <2>1. CASE s \in open
    <3>1. spent[s] + Pending(s) = SumOf(own, Under(s)) /\ Pending(s) = 0 /\ spent[s] \in Int
      BY <1>1, <2>1, NoCall DEF Books, Booked, AtRest
    <3>. QED  BY <1>1, <1>2, <2>1, <3>1 DEF Books, Tree, Capture
  <2>2. CASE s \notin open
    BY <1>1, <1>2, <1>3, <2>2 DEF Books, Tree, Booked, Capture
  <2>. QED  BY <2>1, <2>2
<1>4. \A s \in Scopes : s \notin DOMAIN Capture => own[s] = 0
  BY <1>1, <1>2 DEF Books, Booked
<1>5. Kept([entries |-> Capture, own |-> own])
  BY <1>1, <1>2, <1>3, <1>4 DEF Kept
<1>6. open = {Root} /\ DOMAIN saved = {} => FinalCapture = Capture
  BY <1>2 DEF FinalCapture, Only, Capture
<1>. QED  BY <1>1, <1>5, <1>6 DEF Capture

LEMMA CommitKeeps ==
  ASSUME CostsTyped, Books, NEW entries, Commit(entries), Kept([entries |-> entries, own |-> own])
  PROVE  /\ \A i \in DOMAIN commits' : Kept(commits'[i])
         /\ commits' # <<>> /\ commits'[Len(commits')].entries = entries
<1> DEFINE new == [entries |-> entries, own |-> own]
           all == Append(commits, new)
           from == IF Len(all) > 2 THEN 2 ELSE 1
           R == {commits[i] : i \in DOMAIN commits} \cup {new}
<1>1. commits \in Seq(R) /\ new \in R
  BY DEF CostsTyped, CommitsTyped
<1>2. all \in Seq(R) /\ Len(all) = Len(commits) + 1 /\ Len(commits) \in Nat /\ all[Len(all)] = new
  BY <1>1
<1>3. commits' = SubSeq(all, from, Len(all)) /\ from \in 1..Len(all)
  <2>1. commits' = SubSeq(all, from, Len(all))
    BY DEF Commit
  <2> HIDE DEF all
  <2>. QED  BY <1>2, <2>1
<1>4. \A c \in R : Kept(c)
  <2>1. \A i \in DOMAIN commits : Kept(commits[i])
    BY DEF Books
  <2>. QED  BY <2>1
<1>5. new.entries = entries
  OBVIOUS
<1> HIDE DEF all, R, from, new
<1>6. commits' \in Seq(R) /\ Len(commits') \in Nat \ {0} /\ commits'[Len(commits')] = new
  BY <1>2, <1>3
<1>7. \A i \in DOMAIN commits' : commits'[i] \in R
  BY <1>6
<1>. QED  BY <1>4, <1>5, <1>6, <1>7

(* Outside a session no run is in progress. *)
LEMMA EndsBooks ==
  ASSUME CostsTyped, Books, NEW how \in {"halted", "complete", "failed"}, Ends(how), UNCHANGED own,
         \A i \in DOMAIN commits' : Kept(commits'[i]),
         how # "failed" => /\ commits' # <<>> /\ Root \in DOMAIN commits'[Len(commits')].entries
                           /\ commits'[Len(commits')].entries[Root] = spent[Root]
  PROVE  Books'
<1>1. phase' = how /\ how # "running" /\ open' = {} /\ verb' = {} /\ call' = <<>> /\ saved' = <<>> /\ spent' = spent
  BY DEF Ends, tracker
<1>2. Tree' /\ Stacked' /\ Booked' /\ Closed'
  BY <1>1 DEF Tree, Stacked, Booked, Closed
<1>. QED  BY <1>2 DEF Books

(* A session starts from what a checkpoint has: the whole tree of it, or with
   restart only the total, as the root's own. *)
LEMMA StartsBooks ==
  ASSUME CostsTyped, Books, NEW commit, Kept(commit) \/ commit = NoHistory,
         NEW restart \in BOOLEAN, NEW budget \in RootBudgets, NEW same \in BOOLEAN,
         Starts(commit, restart, budget, same)
  PROVE  Books'
<1> DEFINE restored == Root \in DOMAIN commit.entries
           amount == IF restored THEN commit.entries[Root] ELSE IF same THEN spent[Root] ELSE 0
<1>1. /\ phase # "running" /\ phase' = "running" /\ open' = {Root}
      /\ spent' = [s \in Scopes |-> IF s = Root THEN amount ELSE 0]
      /\ own' = IF ~restored THEN [s \in Scopes |-> IF s = Root THEN amount ELSE 0]
                ELSE IF restart THEN AllAtRoot(commit.own) ELSE commit.own
      /\ saved' = IF restart THEN <<>> ELSE Only(commit.entries, Scopes \ {Root})
      /\ UNCHANGED <<verb, call, commits>>
  BY DEF Starts
<1>2. call = <<>> /\ Root \in Scopes /\ verb' = {}
  BY <1>1, CostsAssumption DEF Books, Tree
<1>3. ~restored => commit = NoHistory /\ commit.entries = <<>>
  BY DEF Kept, NoHistory
<1>4. amount \in Int
  <2>1. spent[Root] \in Int
    BY <1>2 DEF CostsTyped
  <2>2. CASE restored
    <3>1. Kept(commit)
      BY <2>2 DEF NoHistory
    <3>2. commit.entries[Root] = SumOf(commit.own, Under(Root))
      BY <3>1 DEF Kept
    <3>3. \A u \in Under(Root) : commit.own[u] \in Int
      BY <3>1, AllUnder, <1>2 DEF Kept
    <3>. QED  BY <1>2, <2>2, <3>2, <3>3, Places, SumType
  <2>. QED  BY <2>1, <2>2
<1>5. Stacked' /\ Closed'
  BY <1>1, <1>2 DEF Stacked, Closed
<1>6. \A t : Pending(t)' = 0
  BY <1>1, <1>2 DEF Pending
<1>7. spent'[Root] = amount
  BY <1>1, <1>2
<1>8. CASE ~restored \/ restart
  <2>1. DOMAIN saved' = {}
    BY <1>1, <1>3, <1>8 DEF Only
  <2>2. Tree'
    BY <1>1, <1>2, <2>1, RootAlone DEF Tree
  <2>3. /\ own' = [s \in Scopes |-> IF s = Root THEN amount ELSE 0]
    <3>1. CASE ~restored
      BY <1>1, <3>1
    <3>2. CASE restored
      <4>1. Kept(commit)
        BY <3>2 DEF NoHistory
      <4>2. amount = SumOf(commit.own, Scopes)
        BY <1>2, <3>2, <4>1, Under_Root DEF Kept
      <4> HIDE DEF amount
      <4>. QED  BY <1>1, <1>8, <3>2, <4>2 DEF AllAtRoot
    <3>. QED  BY <3>1, <3>2
  <2> HIDE DEF amount
  <2>4. own' \in [Scopes -> Int]
    BY <1>4, <2>3
  <2>5. SumOf(own', Scopes) = amount
    <3> DEFINE zero == [s \in Scopes |-> 0]
    <3>1. IsFiniteSet(Scopes)
      BY CostsAssumption
    <3>2. SumOf(zero, Scopes) = 0
      BY <3>1, SumZero
    <3>3. \A x \in Scopes : zero[x] \in Int /\ own'[x] = IF x = Root THEN zero[x] + amount ELSE zero[x]
      BY <1>4, <2>3
    <3> HIDE DEF zero
    <3>4. SumOf(own', Scopes) = SumOf(zero, Scopes) + amount
      BY <1>2, <1>4, <3>1, <3>3, SumPlus
    <3>. QED  BY <1>4, <3>2, <3>4
  <2>6. Booked'
    <3>1. spent'[Root] + 0 = SumOf(own', Under(Root))
      BY <1>4, <1>7, <2>5, Under_Root
    <3>2. \A t \in Scopes : t \notin open' \cup DOMAIN saved' => own'[t] = 0
      BY <1>1, <2>3
    <3>. QED  BY <1>1, <1>6, <2>1, <3>1, <3>2 DEF Booked
  <2>. QED  BY <1>1, <1>5, <2>2, <2>4, <2>6 DEF Books
<1>9. CASE restored /\ ~restart
  <2>1. Kept(commit)
    BY <1>9 DEF NoHistory
  <2>2. own' = commit.own /\ saved' = Only(commit.entries, Scopes \ {Root})
    BY <1>1, <1>9
  <2>3. DOMAIN saved' = DOMAIN commit.entries \ {Root} /\ \A t \in DOMAIN saved' : saved'[t] = commit.entries[t]
    BY <2>1, <2>2 DEF Only, Kept
  <2>4. Tree'
    BY <1>1, <1>2, <2>1, <2>3, RootAlone, <1>9 DEF Tree, Kept
  <2>5. amount = SumOf(own', Under(Root))
    BY <1>9, <2>1, <2>2 DEF Kept
  <2> HIDE DEF amount
  <2>6. Booked'
    <3>1. spent'[Root] + 0 = SumOf(own', Under(Root))
      BY <1>4, <1>7, <2>5
    <3>2. \A t \in DOMAIN saved' : saved'[t] = SumOf(own', Under(t))
      BY <2>1, <2>2, <2>3 DEF Kept
    <3>3. \A t \in Scopes : t \notin open' \cup DOMAIN saved' => own'[t] = 0
      BY <1>1, <2>1, <2>2, <2>3 DEF Kept
    <3>. QED  BY <1>1, <1>6, <3>1, <3>2, <3>3 DEF Booked
  <2>. QED  BY <1>1, <1>5, <2>1, <2>2, <2>4, <2>6 DEF Books, Kept
<1>. QED  BY <1>8, <1>9

LEMMA RunBooks ==
  ASSUME CostsTyped, Books, NEW b \in RootBudgets, NEW same \in BOOLEAN, Run(b, same)
  PROVE  Books'
<1>1. CASE commits = <<>>
  BY <1>1, StartsBooks DEF Run
<1>2. CASE commits # <<>>
  <2>1. PICK i \in DOMAIN commits, restart \in BOOLEAN : Starts(commits[i], restart, b, same)
    BY <1>2 DEF Run
  <2>2. Kept(commits[i])
    BY DEF Books
  <2>. QED  BY <2>1, <2>2, StartsBooks
<1>. QED  BY <1>1, <1>2

LEMMA BooksStep == CostsTyped /\ Books /\ [Next]_vars => Books'
<1> SUFFICES ASSUME CostsTyped, Books, [Next]_vars PROVE Books'
  OBVIOUS
<1>1. CASE Record
  BY <1>1, RecordBooks
<1>2. CASE CalledBack \/ CallbackRaises
  BY <1>2, CallbackBooks
<1>3. ASSUME NEW s \in Scopes, NEW n \in Costs, Charge(s, n) \/ CallbackCharges(s, n) PROVE Books'
  <2>1. s \in open
    <3>1. CASE Charge(s, n)
      BY <3>1 DEF Charge, Books, Tree
    <3>. QED  BY <1>3, <3>1 DEF CallbackCharges
  <2>. QED  BY <1>3, <2>1, TracksBooks DEF Charge, CallbackCharges
<1>4. ASSUME NEW s \in Scopes, NEW b \in Amendments, UpdateBudget(s, b) PROVE Books'
  BY <1>4, SameBooks DEF UpdateBudget, flow, history, Books, Tree
<1>5. ASSUME NEW s \in Scopes, Open(s) PROVE Books'
  BY <1>5, OpenBooks
<1>6. ASSUME NEW s \in Scopes, StartVerb(s) \/ EndVerb(s) PROVE Books'
  <2>1. verb' \subseteq open
    BY <1>6 DEF StartVerb, EndVerb, Books, Tree
  <2>. QED  BY <1>6, <2>1, SameBooks DEF StartVerb, EndVerb, tracker, history
<1>7. ASSUME NEW s \in Scopes, Close(s) PROVE Books'
  <2>1. Drop({s}, Parent(s)) /\ s \in open /\ s # Root /\ phase = "running" /\ call = <<>>
        /\ Children(s) \cap (open \cup DOMAIN saved) = {} /\ UNCHANGED <<saved, commits>>
    BY <1>7 DEF Close, AtRest, Drop, history
  <2>2. ASSUME NEW t \in Under(s), t # s PROVE t \notin open \cup DOMAIN saved
    BY <1>7, <2>1, <2>2, ChildOnTheWay DEF Books, Tree
  <2>3. s \notin DOMAIN saved
    BY <2>1, TreeFacts
  <2>. QED  BY <2>1, <2>2, <2>3, DropBooks
<1>8. ASSUME NEW s \in Scopes, Abandon(s) PROVE Books'
  <2>1. Drop(Under(s), Parent(s)) /\ s \in open /\ s # Root /\ phase = "running" /\ call = <<>>
        /\ Under(s) \cap DOMAIN saved = {} /\ UNCHANGED <<saved, commits>>
    BY <1>8 DEF Abandon, AtRest, Drop, history
  <2>2. s \in Under(s)
    BY Places
  <2>. QED  BY <2>1, <2>2, DropBooks
<1>9. CASE Checkpoint
  <2>1. AtRest /\ Commit(Capture) /\ UNCHANGED <<phase, open, verb, spent, call, saved, own>>
    BY <1>9 DEF Checkpoint, flow, tracker
  <2>2. \A i \in DOMAIN commits' : Kept(commits'[i])
    BY <2>1, CaptureKept, CommitKeeps
  <2>3. Tree' /\ Stacked' /\ Closed'
    BY <2>1 DEF Books, Tree, Stacked, Closed, AtRest
  <2>4. \A s : Pending(s)' = Pending(s)
    BY <2>1 DEF Pending, Now, Last
  <2>5. Booked'
    BY <2>1, <2>4 DEF Books, Booked
  <2>. QED  BY <2>1, <2>2, <2>3, <2>5 DEF Books
<1>10. CASE SetHalt
  BY <1>10, SameBooks DEF SetHalt, flow, history, Books, Tree
<1>11. CASE HaltCommit
  <2>1. AtRest /\ Commit(Capture) /\ Ends("halted") /\ UNCHANGED own
    BY <1>11 DEF HaltCommit
  <2>2. Root \in DOMAIN Capture /\ Capture[Root] = spent[Root]
    BY <2>1, CaptureKept DEF Kept
  <2>. QED  BY <2>1, <2>2, CaptureKept, CommitKeeps, EndsBooks
<1>12. CASE Complete
  <2>1. AtRest /\ Commit(FinalCapture) /\ Ends("complete") /\ UNCHANGED own
        /\ open = {Root} /\ DOMAIN saved = {}
    BY <1>12 DEF Complete
  <2>2. Root \in DOMAIN Capture /\ Capture[Root] = spent[Root] /\ FinalCapture = Capture
    BY <2>1, CaptureKept DEF Kept
  <2>. QED  BY <2>1, <2>2, CaptureKept, CommitKeeps, EndsBooks
<1>13. CASE Fail
  BY <1>13, EndsBooks DEF Fail, Books
<1>14. ASSUME NEW b \in RootBudgets, NEW same \in BOOLEAN, Run(b, same) PROVE Books'
  BY <1>14, RunBooks
<1>15. CASE UNCHANGED vars
  BY <1>15, SameBooks DEF vars, flow, tracker, history, Books, Tree
<1>. QED  BY <1>1, <1>2, <1>3, <1>4, <1>5, <1>6, <1>7, <1>8, <1>9, <1>10, <1>11, <1>12, <1>13, <1>14, <1>15
          DEF Next

LEMMA BooksHold == Spec => [](CostsTyped /\ LatchAgrees /\ Books)
<1>1. Init => CostsTyped /\ LatchAgrees /\ Books
  BY InitTyped, InitBooks
<1>2. (CostsTyped /\ LatchAgrees /\ Books) /\ [Next]_vars => (CostsTyped /\ LatchAgrees /\ Books)'
  BY Step, BooksStep
<1>. QED  BY <1>1, <1>2, PTL DEF Spec

(* What is left of the types: the calls on the stack bring costs, and the sets
   of trackers are of places. *)
Priced(calls) == \A i \in DOMAIN calls : calls[i].cost \in Costs
Placed ==
  /\ phase \in Phases /\ first \subseteq open
  /\ latched \subseteq Scopes /\ lowered \subseteq Scopes
  /\ Priced(call)

LEMMA TrackedPlaced ==
  ASSUME CostsTyped, Placed, NEW s \in Scopes, NEW n \in Costs, Tracks(s, n) PROVE Placed'
<1>1. call \in Seq(Frames) /\ Frame(s, n) \in Frames /\ Frame(s, n).cost = n
  BY CostsAssumption DEF CostsTyped, Frame, Frames
<1>2. call' = Append(call, Frame(s, n)) /\ UNCHANGED <<phase, open, first, latched, lowered>>
  BY DEF Tracks, flow, tracker
<1>3. Priced(call')
  <2> HIDE DEF Frame
  <2>. QED  BY <1>1, <1>2 DEF Placed, Priced
<1>. QED  BY <1>2, <1>3 DEF Placed

LEMMA TopPriced ==
  ASSUME CostsTyped, Books, Placed, call # <<>>, NEW f \in Frames, f.cost = Now.cost
  PROVE  Priced(Moves(f))
<1>1. call \in Seq(Frames) /\ Now = call[Len(call)] /\ Len(call) \in DOMAIN call
  BY LastCall DEF CostsTyped
<1>2. f.cost \in Costs
  BY <1>1 DEF Placed, Priced
<1>. QED  BY <1>1, <1>2 DEF Moves, Placed, Priced

LEMMA RecordPlaced ==
  ASSUME CostsTyped, Books, Placed, Record PROVE Placed'
<1>1. PICK s : s = Level
  OBVIOUS
<1>2. /\ call # <<>> /\ call' = Moves(NextLevel(Now)) /\ UNCHANGED <<phase, open, first>>
      /\ latched' \in {latched, latched \cup {s}} /\ lowered' \in {lowered, lowered \ {s}}
  BY <1>1 DEF Record, Latch, Stays, flow
<1>3. Now \in Frames /\ Now.at \in 1..Len(Now.path) /\ \E p \in Scopes : Now.path = Path[p]
  BY <1>2, LastCall
<1>4. s \in Scopes
  <2>1. PICK p \in Scopes : Now.path = Path[p]
    BY <1>3
  <2>2. Path[p] \in Seq(Scopes) /\ Now.at \in 1..Len(Path[p])
    BY <1>3, <2>1, CostsAssumption
  <2>3. Path[p][Now.at] \in Scopes
    BY <2>2
  <2>. QED  BY <1>1, <2>1, <2>3 DEF Level
<1>5. NextLevel(Now) \in Frames /\ NextLevel(Now).cost = Now.cost
  <2>1. \A f \in Frames : NextLevel(f).cost = f.cost
    BY DEF NextLevel, Frames
  <2>. QED  BY <1>3, <2>1, NextLevelTypes
<1>6. Priced(call')
  BY <1>2, <1>5, TopPriced
<1>. QED  BY <1>2, <1>4, <1>6 DEF Placed

LEMMA CallbackPlaced ==
  ASSUME CostsTyped, Books, Placed, CalledBack \/ CallbackRaises PROVE Placed'
<1>1. call # <<>> /\ UNCHANGED <<phase, open, first, latched, lowered>>
  BY DEF CalledBack, CallbackRaises, flow, tracker
<1>2. call \in Seq(Frames) /\ Now \in Frames /\ Len(call) \in Nat \ {0}
  BY <1>1, NowTypes DEF CostsTyped
<1>3. Priced(call')
  <2>1. ASSUME NEW k \in 0..(Len(call) - 1), call' = SubSeq(call, 1, k) PROVE Priced(call')
    BY <1>2, <2>1 DEF Placed, Priced
  <2>2. CASE CallbackRaises
    BY <2>1, <2>2 DEF CallbackRaises
  <2>3. CASE CalledBack /\ ~(Now.at < Len(Now.path))
    <3>1. call' = SubSeq(call, 1, Len(call) - 1) /\ Len(call) - 1 \in 0..(Len(call) - 1)
      BY <1>2, <2>3 DEF CalledBack, Front
    <3>. QED  BY <2>1, <3>1
  <2>4. CASE CalledBack /\ Now.at < Len(Now.path)
    <3>1. call' = Moves([Now EXCEPT !.at = Now.at + 1])
      BY <2>4 DEF CalledBack
    <3>2. \A f \in Frames : [f EXCEPT !.at = f.at + 1] \in Frames /\ [f EXCEPT !.at = f.at + 1].cost = f.cost
      BY DEF Frames
    <3>. QED  BY <1>1, <1>2, <3>1, <3>2, TopPriced
  <2>. QED  BY <2>2, <2>3, <2>4
<1>. QED  BY <1>1, <1>3 DEF Placed

LEMMA EndsPlaced ==
  ASSUME NEW how \in Phases, Ends(how), Placed PROVE Placed'
BY DEF Ends, Placed, Priced, tracker

LEMMA StartsPlaced ==
  ASSUME Placed, NEW c, NEW restart, NEW b, NEW same, Starts(c, restart, b, same) PROVE Placed'
<1>1. /\ phase' = "running" /\ open' = {Root} /\ first' = {Root} /\ call' = call
      /\ latched' \in {{Root}, {}} /\ lowered' \in {{Root}, {}}
  BY DEF Starts
<1>. QED  BY <1>1, CostsAssumption DEF Placed, Phases

LEMMA PlacedStep == CostsTyped /\ Books /\ Placed /\ [Next]_vars => Placed'
<1> SUFFICES ASSUME CostsTyped, Books, Placed, [Next]_vars PROVE Placed'
  OBVIOUS
<1> USE DEF flow, tracker
<1>1. CASE Record
  BY <1>1, RecordPlaced
<1>2. CASE CalledBack \/ CallbackRaises
  BY <1>2, CallbackPlaced
<1>3. ASSUME NEW s \in Scopes, NEW n \in Costs, Charge(s, n) \/ CallbackCharges(s, n) PROVE Placed'
  BY <1>3, TrackedPlaced DEF Charge, CallbackCharges
<1>4. ASSUME NEW s \in Scopes, NEW b \in Amendments, UpdateBudget(s, b) PROVE Placed'
  BY <1>4 DEF UpdateBudget, Placed
<1>5. ASSUME NEW s \in Scopes, Open(s) PROVE Placed'
  BY <1>5 DEF Open, Placed
<1>6. ASSUME NEW s \in Scopes, StartVerb(s) \/ EndVerb(s) PROVE Placed'
  BY <1>6 DEF StartVerb, EndVerb, Placed
<1>7. ASSUME NEW s \in Scopes, Close(s) \/ Abandon(s) PROVE Placed'
  <2>1. PICK S : Drop(S, Parent(s))
    BY <1>7 DEF Close, Abandon
  <2>. QED  BY <2>1 DEF Drop, Placed
<1>8. CASE Checkpoint \/ SetHalt
  BY <1>8 DEF Checkpoint, SetHalt, Placed
<1>9. CASE HaltCommit \/ Complete \/ Fail
  BY <1>9, EndsPlaced DEF HaltCommit, Complete, Fail, Phases
<1>10. ASSUME NEW b \in RootBudgets, NEW same \in BOOLEAN, Run(b, same) PROVE Placed'
  BY <1>10, StartsPlaced DEF Run
<1>11. CASE UNCHANGED vars
  BY <1>11 DEF vars, Placed
<1>. QED  BY <1>1, <1>2, <1>3, <1>4, <1>5, <1>6, <1>7, <1>8, <1>9, <1>10, <1>11 DEF Next

(* Every variable of a run's trackers and checkpoints has its type; no scope is
   both in use and waiting to be restored. *)
THEOREM CostsTypeCorrect == Spec => []TypeOK
<1>1. Init => Placed
  BY DEF Init, Placed, Priced, Phases
<1>2. CostsTyped /\ Books /\ Placed => TypeOK
  <2> SUFFICES ASSUME CostsTyped, Books, Placed PROVE TypeOK
    OBVIOUS
  <2>1. verb \subseteq open /\ DOMAIN saved \cap open = {} /\ own \in [Scopes -> Int]
    BY DEF Books, Tree
  <2>2. \A i \in DOMAIN call : /\ call[i].path \in {Path[s] : s \in Scopes}
                               /\ call[i].at \in 1..Len(call[i].path)
                               /\ call[i].up \in BOOLEAN /\ call[i].cost \in Costs
    <3>1. \A i \in DOMAIN call : call[i] \in Frames
      BY DEF CostsTyped
    <3>. QED  BY <3>1 DEF Books, Stacked, Placed, Priced, Frames
  <2>3. \A i \in DOMAIN commits : Entry(commits[i].entries) /\ commits[i].own \in [Scopes -> Int]
    BY DEF CostsTyped, CommitsTyped, Books, Kept
  <2>. QED  BY <2>1, <2>2, <2>3 DEF TypeOK, CostsTyped, Placed
<1>. QED  BY <1>1, <1>2, PlacedStep, BooksHold, PTL DEF Spec

(* However the run was stopped, resumed, restarted and rescued, a tracker's
   spend is what was recorded at it and below it on this line of commits, and
   so is what a checkpoint saved for it. *)
THEOREM SpendSums == Spec => []SpendIsSum
<1>1. CostsTyped /\ Books => SpendIsSum
  <2> SUFFICES ASSUME CostsTyped, Books, phase = "running", \A i \in DOMAIN call : ~call[i].up
               PROVE  /\ \A s \in open : spent[s] = SumOf(own, Under(s))
                      /\ \A s \in DOMAIN saved : saved[s] = SumOf(own, Under(s))
    BY DEF SpendIsSum
  <2>1. \A s : Pending(s) = 0
    BY LastCall DEF Pending
  <2>2. ASSUME NEW s \in open PROVE spent[s] = SumOf(own, Under(s))
    <3>1. spent[s] \in Int /\ spent[s] + Pending(s) = SumOf(own, Under(s))
      BY DEF CostsTyped, Books, Booked
    <3>. QED  BY <2>1, <3>1
  <2>3. \A s \in DOMAIN saved : saved[s] = SumOf(own, Under(s))
    BY DEF Books, Booked
  <2>. QED  BY <2>2, <2>3
<1>. QED  BY <1>1, BooksHold, PTL

(* A session that goes on from a halt or from a run that completed starts with
   the spend the session before ended with. *)
THEOREM SessionsContinue == Spec => TotalsContinue
<1> DEFINE Continues ==
      \A b \in RootBudgets, same \in BOOLEAN :
        (/\ phase \in {"halted", "complete"}
         /\ Starts(commits[Len(commits)], FALSE, b, same)) => spent'[Root] = spent[Root]
<1>1. CostsTyped /\ Books => Continues
  <2> SUFFICES ASSUME Books, NEW b \in RootBudgets, NEW same \in BOOLEAN,
                      phase \in {"halted", "complete"},
                      Starts(commits[Len(commits)], FALSE, b, same)
               PROVE  spent'[Root] = spent[Root]
    OBVIOUS
  <2> DEFINE commit == commits[Len(commits)]
  <2>1. Root \in DOMAIN commit.entries /\ commit.entries[Root] = spent[Root]
    BY DEF Books, Closed
  <2>2. Root \in Scopes
    BY CostsAssumption
  <2> HIDE DEF commit
  <2>3. spent' = [s \in Scopes |-> IF s = Root THEN commit.entries[Root] ELSE 0]
    BY <2>1 DEF Starts, commit
  <2>. QED  BY <2>1, <2>2, <2>3
<1>2. CostsTyped /\ Books /\ [Next]_vars => [Continues]_vars
  BY <1>1
<1>. QED  BY <1>2, BooksHold, PTL DEF Spec, TotalsContinue

-----------------------------------------------------------------------------
(* What a checkpoint holds.  Values nested to a depth are made of those nested
   to one less, and what the codec's functions give of a value, of what they
   give of its parts. *)

Top == 3 * Nesting + 3
Below(n) == IF n = 0 THEN [json |-> {}, held |-> {}] ELSE Layer[n - 1]

(* CHOOSE picks the function that is meant, once there is one. *)
LEMMA LayerChosen ==
  ASSUME NEW F, F = [n \in 0..Top |-> LayerOver(IF n = 0 THEN [json |-> {}, held |-> {}] ELSE F[n - 1])]
  PROVE  Layer = [n \in 0..Top |-> LayerOver(IF n = 0 THEN [json |-> {}, held |-> {}] ELSE Layer[n - 1])]
BY DEF Layer, Top

LEMMA LayerIs == \A n \in 0..Top : Layer[n] = LayerOver(Below(n))
<1> DEFINE Of(F, n) == LayerOver(IF n = 0 THEN [json |-> {}, held |-> {}] ELSE F[n - 1])
           Works(n) == \E F : \A d \in 0..n : F[d] = Of(F, d)
           T == {n \in Nat : ~Works(n)}
<1>1. ASSUME NEW d \in Nat, NEW F, NEW G, d # 0 => F[d - 1] = G[d - 1]
      PROVE  Of(F, d) = Of(G, d)
  <2>1. CASE d = 0
    BY <2>1
  <2>2. CASE d # 0
    BY <1>1, <2>2
  <2>. QED  BY <2>1, <2>2
<1> HIDE DEF Of
<1>2. T = {}
  <2> SUFFICES ASSUME T # {} PROVE FALSE
    OBVIOUS
  <2>1. PICK m \in T : \A k \in T : ~ (k < m)
    <3>1. T \in SUBSET Nat
      OBVIOUS
    <3> HIDE DEF T
    <3>. QED  BY <3>1, LeastOf
  <2>2. m \in Nat /\ ~Works(m)
    BY <2>1
  <2>3. \E F : \A d \in 0..(m - 1) : F[d] = Of(F, d)
    <3>1. CASE m = 0
      <4>1. 0..(m - 1) = {}
        BY <3>1
      <4>. QED  BY <4>1
    <3>2. CASE m # 0
      <4>1. m - 1 \in Nat /\ m - 1 < m
        BY <2>2, <3>2
      <4>2. Works(m - 1)
        BY <2>1, <4>1
      <4>. QED  BY <4>2
    <3>. QED  BY <3>1, <3>2
  <2>4. PICK F : \A d \in 0..(m - 1) : F[d] = Of(F, d)
    BY <2>3
  <2> DEFINE G == [d \in 0..m |-> Of(F, d)]
  <2>5. ASSUME NEW d \in 0..m PROVE G[d] = Of(G, d)
    <3>1. d \in Nat /\ (d # 0 => d - 1 \in 0..(m - 1) /\ d - 1 \in 0..m)
      BY <2>2
    <3>2. d # 0 => F[d - 1] = G[d - 1]
      BY <2>4, <3>1
    <3>3. G[d] = Of(F, d)
      OBVIOUS
    <3> HIDE DEF G
    <3>. QED  BY <1>1, <3>1, <3>2, <3>3
  <2> HIDE DEF G
  <2>6. Works(m)
    BY <2>5
  <2>. QED  BY <2>2, <2>6
<1>3. Top \in Nat
  BY CodecConstants DEF Top
<1>4. PICK F : \A d \in 0..Top : F[d] = Of(F, d)
  BY <1>2, <1>3
<1> DEFINE G == [d \in 0..Top |-> F[d]]
<1>5. ASSUME NEW d \in 0..Top PROVE G[d] = Of(G, d)
  <2>1. d \in Nat /\ (d # 0 => d - 1 \in 0..Top)
    BY <1>3
  <2>2. G[d] = F[d] /\ (d # 0 => F[d - 1] = G[d - 1])
    BY <2>1
  <2> HIDE DEF G
  <2>. QED  BY <1>1, <1>4, <2>1, <2>2
<1>6. G = [d \in 0..Top |-> G[d]]
  OBVIOUS
<1> HIDE DEF G
<1>7. G = [d \in 0..Top |-> Of(G, d)]
  BY <1>5, <1>6
<1>8. Layer = [d \in 0..Top |-> Of(Layer, d)]
  BY <1>7, LayerChosen DEF Of
<1>9. \A d \in 0..Top : Layer[d] = Of(Layer, d)
  BY <1>8
<1>. QED  BY <1>9 DEF Of, Below

LEMMA LayersGrow ==
  ASSUME NEW S, NEW T, S \subseteq T, NEW I, NEW J, I \subseteq J
  PROVE  /\ Seq(S) \subseteq Seq(T) /\ Entries(S) \subseteq Entries(T)
         /\ JsonOver(S) \subseteq JsonOver(T) /\ ValueOver(S, I) \subseteq ValueOver(T, J)
<1>1. Seq(S) \subseteq Seq(T)
  OBVIOUS
<1>2. Entries(S) \subseteq Entries(T) /\ Entries(I) \subseteq Entries(J)
  BY DEF Entries
<1> DEFINE A == Seq(S)
           B == Seq(T)
           C == Entries(S)
           D == Entries(T)
           K == Entries(I)
           L == Entries(J)
<1>3. A \subseteq B /\ C \subseteq D /\ K \subseteq L
  BY <1>1, <1>2
<1>4. /\ JsonOver(S) = [is : {"leaf"}, leaf : Strings] \cup [is : {"list"}, items : A]
           \cup [is : {"dict"}, at : C]
      /\ JsonOver(T) = [is : {"leaf"}, leaf : Strings] \cup [is : {"list"}, items : B]
           \cup [is : {"dict"}, at : D]
  BY DEF JsonOver
<1>5. /\ ValueOver(S, I) = JsonOver(S) \cup [is : {"tuple"}, items : A]
           \cup [is : {"object"}, class : Classes, at : C] \cup [is : {"model"}, class : Pydantic, at : K]
           \cup [is : {"failure"}, type : Strings, restored : BOOLEAN, item : S] \cup {Alien}
      /\ ValueOver(T, J) = JsonOver(T) \cup [is : {"tuple"}, items : B]
           \cup [is : {"object"}, class : Classes, at : D] \cup [is : {"model"}, class : Pydantic, at : L]
           \cup [is : {"failure"}, type : Strings, restored : BOOLEAN, item : T] \cup {Alien}
  BY DEF ValueOver
<1> HIDE DEF A, B, C, D, K, L
<1>6. /\ [is : {"list"}, items : A] \subseteq [is : {"list"}, items : B]
      /\ [is : {"tuple"}, items : A] \subseteq [is : {"tuple"}, items : B]
      /\ [is : {"dict"}, at : C] \subseteq [is : {"dict"}, at : D]
      /\ [is : {"object"}, class : Classes, at : C] \subseteq [is : {"object"}, class : Classes, at : D]
      /\ [is : {"model"}, class : Pydantic, at : K] \subseteq [is : {"model"}, class : Pydantic, at : L]
      /\ [is : {"failure"}, type : Strings, restored : BOOLEAN, item : S]
           \subseteq [is : {"failure"}, type : Strings, restored : BOOLEAN, item : T]
  BY <1>3
<1>7. JsonOver(S) \subseteq JsonOver(T)
  BY <1>4, <1>6
<1>8. ValueOver(S, I) \subseteq ValueOver(T, J)
  BY <1>5, <1>6, <1>7
<1>. QED  BY <1>1, <1>2, <1>7, <1>8

LEMMA LayerParts ==
  ASSUME NEW n \in 0..Top
  PROVE  /\ Layer[n].json = JsonOver(Below(n).json)
         /\ Layer[n].held = ValueOver(Below(n).held, Below(n).json)
<1> DEFINE b == Below(n)
<1>1. Layer[n] = LayerOver(b)
  BY LayerIs
<1> HIDE DEF b
<1>2. LayerOver(b).json = JsonOver(b.json) /\ LayerOver(b).held = ValueOver(b.held, b.json)
  BY DEF LayerOver
<1>. QED  BY <1>1, <1>2 DEF b

(* A layer holds those below it. *)
LEMMA LayersNest ==
  ASSUME NEW n \in 0..Top
  PROVE  Below(n).json \subseteq Layer[n].json /\ Below(n).held \subseteq Layer[n].held
<1> DEFINE Nests(k) == Below(k).json \subseteq Layer[k].json /\ Below(k).held \subseteq Layer[k].held
           T == {k \in 0..Top : ~Nests(k)}
<1>1. Top \in Nat
  BY CodecConstants DEF Top
<1>2. T = {}
  <2> SUFFICES ASSUME T # {} PROVE FALSE
    OBVIOUS
  <2>1. PICK m \in T : \A k \in T : ~ (k < m)
    <3>1. T \in SUBSET Nat
      BY <1>1
    <3> HIDE DEF T
    <3>. QED  BY <3>1, LeastOf
  <2>2. m \in 0..Top /\ ~Nests(m)
    BY <2>1
  <2>3. CASE m = 0
    <3>1. Below(m).json = {} /\ Below(m).held = {}
      BY <2>3 DEF Below
    <3>. QED  BY <2>2, <3>1
  <2>4. CASE m # 0
    <3>1. m - 1 \in 0..Top /\ m - 1 < m
      BY <1>1, <2>2, <2>4
    <3>2. Nests(m - 1)
      <4>1. m - 1 \notin T
        BY <2>1, <3>1
      <4>. QED  BY <3>1, <4>1
    <3>3. /\ JsonOver(Below(m - 1).json) \subseteq JsonOver(Layer[m - 1].json)
          /\ ValueOver(Below(m - 1).held, Below(m - 1).json)
               \subseteq ValueOver(Layer[m - 1].held, Layer[m - 1].json)
      <4> DEFINE S == Below(m - 1).held
                 I == Below(m - 1).json
                 U == Layer[m - 1].held
                 J == Layer[m - 1].json
      <4>1. S \subseteq U /\ I \subseteq J
        BY <3>2
      <4> HIDE DEF S, I, U, J
      <4>2. JsonOver(I) \subseteq JsonOver(J) /\ ValueOver(S, I) \subseteq ValueOver(U, J)
        BY <4>1, LayersGrow
      <4>. QED  BY <4>2 DEF S, I, U, J
    <3>4. Below(m) = Layer[m - 1]
      BY <2>4 DEF Below
    <3>5. /\ Layer[m].json = JsonOver(Layer[m - 1].json)
          /\ Layer[m].held = ValueOver(Layer[m - 1].held, Layer[m - 1].json)
      BY <2>2, <3>4, LayerParts
    <3>6. /\ Layer[m - 1].json = JsonOver(Below(m - 1).json)
          /\ Layer[m - 1].held = ValueOver(Below(m - 1).held, Below(m - 1).json)
      BY <3>1, LayerParts
    <3>. QED  BY <2>2, <3>3, <3>4, <3>5, <3>6
  <2>. QED  BY <2>3, <2>4
<1>. QED  BY <1>2

LEMMA LayersWithin ==
  ASSUME NEW n \in 0..Top, NEW m \in 0..n
  PROVE  Layer[m].json \subseteq Layer[n].json /\ Layer[m].held \subseteq Layer[n].held
<1> DEFINE In(k) == Layer[m].json \subseteq Layer[k].json /\ Layer[m].held \subseteq Layer[k].held
           T == {k \in m..Top : ~In(k)}
<1>1. Top \in Nat
  BY CodecConstants DEF Top
<1>2. T = {}
  <2> SUFFICES ASSUME T # {} PROVE FALSE
    OBVIOUS
  <2>1. PICK k \in T : \A l \in T : ~ (l < k)
    <3>1. T \in SUBSET Nat
      BY <1>1
    <3> HIDE DEF T
    <3>. QED  BY <3>1, LeastOf
  <2>2. k \in m..Top /\ ~In(k) /\ k # m
    BY <2>1
  <2>3. k - 1 \in m..Top /\ k - 1 < k /\ k \in 0..Top /\ k # 0
    BY <1>1, <2>2
  <2>4. In(k - 1)
    <3>1. k - 1 \notin T
      BY <2>1, <2>3
    <3>. QED  BY <2>3, <3>1
  <2>5. Below(k) = Layer[k - 1]
    BY <2>3 DEF Below
  <2>6. In(k)
    BY <2>3, <2>4, <2>5, LayersNest
  <2>. QED  BY <2>2, <2>6
<1>3. n \in m..Top
  BY <1>1
<1>. QED  BY <1>2, <1>3

Flags == BOOLEAN

(* The forms of a value, and that nothing held is Absent. *)
LEMMA Forms ==
  ASSUME NEW S, NEW J, NEW v \in ValueOver(S, J)
  PROVE  \/ \E x \in Strings : v = Leaf(x)
         \/ \E s \in Seq(S) : v = List(s)
         \/ \E s \in Seq(S) : v = Tuple(s)
         \/ \E f \in Entries(S) : v = Dict(f)
         \/ \E c \in Classes, f \in Entries(S) : v = Object(c, f)
         \/ \E c \in Pydantic, f \in Entries(J) : v = Model(c, f)
         \/ \E t \in Strings, b \in Flags, p \in S : v = Failure(t, b, p)
         \/ v = Alien
<1> DEFINE A == Seq(S)
           C == Entries(S)
           K == Entries(J)
<1>1. /\ ValueOver(S, J) = JsonOver(S) \cup [is : {"tuple"}, items : A]
           \cup [is : {"object"}, class : Classes, at : C] \cup [is : {"model"}, class : Pydantic, at : K]
           \cup [is : {"failure"}, type : Strings, restored : BOOLEAN, item : S] \cup {Alien}
      /\ JsonOver(S) = [is : {"leaf"}, leaf : Strings] \cup [is : {"list"}, items : A]
           \cup [is : {"dict"}, at : C]
  BY DEF JsonOver, ValueOver
<1> HIDE DEF A, C, K
<1>2. v \in [is : {"leaf"}, leaf : Strings] => \E x \in Strings : v = Leaf(x)
  BY DEF Leaf
<1>3. v \in [is : {"list"}, items : A] => \E s \in A : v = List(s)
  BY DEF List
<1>4. v \in [is : {"tuple"}, items : A] => \E s \in A : v = Tuple(s)
  BY DEF Tuple
<1>5. v \in [is : {"dict"}, at : C] => \E f \in C : v = Dict(f)
  BY DEF Dict
<1>6. v \in [is : {"object"}, class : Classes, at : C] => \E c \in Classes, f \in C : v = Object(c, f)
  BY DEF Object
<1>7. v \in [is : {"model"}, class : Pydantic, at : K] => \E c \in Pydantic, f \in K : v = Model(c, f)
  BY DEF Model
<1>8. v \in [is : {"failure"}, type : Strings, restored : BOOLEAN, item : S]
        => \E t \in Strings, b \in Flags, p \in S : v = Failure(t, b, p)
  BY DEF Failure, Flags
<1>9. \/ v \in [is : {"leaf"}, leaf : Strings] \/ v \in [is : {"list"}, items : A]
      \/ v \in [is : {"tuple"}, items : A] \/ v \in [is : {"dict"}, at : C]
      \/ v \in [is : {"object"}, class : Classes, at : C]
      \/ v \in [is : {"model"}, class : Pydantic, at : K]
      \/ v \in [is : {"failure"}, type : Strings, restored : BOOLEAN, item : S]
      \/ v = Alien
  BY <1>1
<1>. QED  BY <1>2, <1>3, <1>4, <1>5, <1>6, <1>7, <1>8, <1>9 DEF A, C, K

LEMMA FormsIn ==
  ASSUME NEW S, NEW J
  PROVE  /\ \A x \in Strings : Leaf(x) \in JsonOver(S)
         /\ \A s \in Seq(S) : List(s) \in JsonOver(S) /\ Tuple(s) \in ValueOver(S, J)
         /\ \A f \in Entries(S) : Dict(f) \in JsonOver(S)
         /\ \A c \in Classes, f \in Entries(S) : Object(c, f) \in ValueOver(S, J)
         /\ \A c \in Pydantic, f \in Entries(J) : Model(c, f) \in ValueOver(S, J)
         /\ \A t \in Strings, b \in Flags, p \in S : Failure(t, b, p) \in ValueOver(S, J)
         /\ JsonOver(S) \subseteq ValueOver(S, J)
<1> DEFINE A == Seq(S)
           C == Entries(S)
           K == Entries(J)
<1>1. /\ ValueOver(S, J) = JsonOver(S) \cup [is : {"tuple"}, items : A]
           \cup [is : {"object"}, class : Classes, at : C] \cup [is : {"model"}, class : Pydantic, at : K]
           \cup [is : {"failure"}, type : Strings, restored : BOOLEAN, item : S] \cup {Alien}
      /\ JsonOver(S) = [is : {"leaf"}, leaf : Strings] \cup [is : {"list"}, items : A]
           \cup [is : {"dict"}, at : C]
  BY DEF JsonOver, ValueOver
<1> HIDE DEF A, C, K
<1>2. /\ \A x \in Strings : Leaf(x) \in [is : {"leaf"}, leaf : Strings]
      /\ \A s \in A : List(s) \in [is : {"list"}, items : A]
      /\ \A s \in A : Tuple(s) \in [is : {"tuple"}, items : A]
      /\ \A f \in C : Dict(f) \in [is : {"dict"}, at : C]
  BY DEF Leaf, List, Tuple, Dict
<1>3. /\ \A c \in Classes, f \in C : Object(c, f) \in [is : {"object"}, class : Classes, at : C]
      /\ \A c \in Pydantic, f \in K : Model(c, f) \in [is : {"model"}, class : Pydantic, at : K]
  BY DEF Object, Model
<1>4. \A t \in Strings, b \in Flags, p \in S :
        Failure(t, b, p) \in [is : {"failure"}, type : Strings, restored : BOOLEAN, item : S]
  BY DEF Failure, Flags
<1>. QED  BY <1>1, <1>2, <1>3, <1>4 DEF A, C, K

LEMMA NoneAbsent ==
  ASSUME NEW S, NEW J
  PROVE  Absent \notin JsonOver(S) /\ Absent \notin ValueOver(S, J)
<1>1. Absent \notin ValueOver(S, J)
  <2> SUFFICES ASSUME Absent \in ValueOver(S, J) PROVE FALSE
    OBVIOUS
  <2> DEFINE v == Absent
  <2>1. v.is = "absent"
    BY DEF Absent
  <2>2. v \in ValueOver(S, J)
    OBVIOUS
  <2> HIDE DEF v
  <2>3. v.is # "absent"
    BY <2>2, Forms DEF Leaf, List, Tuple, Dict, Object, Model, Failure, Alien
  <2>. QED  BY <2>1, <2>3
<1>. QED  BY <1>1, FormsIn

-----------------------------------------------------------------------------
(* What is done to each of a value's parts. *)

LEMMA AllAlike ==
  ASSUME NEW F, NEW G, NEW g, \A k \in DOMAIN g : g[k] # Absent => F[g[k]] = G[g[k]]
  PROVE  All(F, g) = All(G, g)
<1> DEFINE A(k) == IF g[k] = Absent THEN Absent ELSE F[g[k]]
           B(k) == IF g[k] = Absent THEN Absent ELSE G[g[k]]
<1>1. \A k \in DOMAIN g : A(k) = B(k)
  OBVIOUS
<1>2. All(F, g) = [k \in DOMAIN g |-> A(k)] /\ All(G, g) = [k \in DOMAIN g |-> B(k)]
  BY DEF All
<1> HIDE DEF A, B
<1>. QED  BY <1>1, <1>2

LEMMA AllOf ==
  ASSUME NEW F, NEW g
  PROVE  /\ DOMAIN All(F, g) = DOMAIN g
         /\ \A k \in DOMAIN g : All(F, g)[k] = IF g[k] = Absent THEN Absent ELSE F[g[k]]
BY DEF All

LEMMA AllItems ==
  ASSUME NEW S, NEW T, NEW F, NEW s \in Seq(S), Absent \notin S,
         \A i \in DOMAIN s : F[s[i]] \in T
  PROVE  All(F, s) \in Seq(T) /\ \A i \in DOMAIN s : All(F, s)[i] = F[s[i]]
<1>1. Len(s) \in Nat /\ DOMAIN s = 1..Len(s) /\ \A i \in DOMAIN s : s[i] \in S /\ s[i] # Absent
  OBVIOUS
<1>2. All(F, s) = [i \in 1..Len(s) |-> F[s[i]]]
  <2> DEFINE A(k) == IF s[k] = Absent THEN Absent ELSE F[s[k]]
  <2>1. All(F, s) = [k \in DOMAIN s |-> A(k)]
    BY DEF All
  <2>2. \A k \in DOMAIN s : A(k) = F[s[k]]
    BY <1>1
  <2> HIDE DEF A
  <2>. QED  BY <1>1, <2>1, <2>2
<1>3. All(F, s) \in [1..Len(s) -> T]
  BY <1>1, <1>2
<1>. QED  BY <1>1, <1>2, <1>3

LEMMA AllEntries ==
  ASSUME NEW S, NEW T, NEW F, NEW f \in Entries(S), Absent \notin T,
         \A k \in Present(f) : F[f[k]] \in T
  PROVE  /\ All(F, f) \in Entries(T) /\ DOMAIN f = Keys
         /\ Present(All(F, f)) = Present(f) /\ \A k \in Present(f) : f[k] \in S /\ All(F, f)[k] = F[f[k]]
         /\ \A k \in Keys : All(F, f)[k] = Absent <=> f[k] = Absent
<1>1. DOMAIN f = Keys /\ \A k \in Keys : f[k] \in S \cup {Absent}
  BY DEF Entries
<1> DEFINE g == All(F, f)
<1>2. DOMAIN g = Keys /\ \A k \in Keys : g[k] = IF f[k] = Absent THEN Absent ELSE F[f[k]]
  BY <1>1, AllOf
<1>3. g = [k \in Keys |-> g[k]]
  BY <1>1 DEF All
<1>4. \A k \in Keys : f[k] # Absent => k \in Present(f) /\ F[f[k]] \in T
  BY <1>1 DEF Present
<1>5. \A k \in Present(f) : k \in Keys /\ f[k] # Absent
  BY <1>1 DEF Present
<1> HIDE DEF g
<1>6. g \in Entries(T)
  <2>1. \A k \in Keys : g[k] \in T \cup {Absent}
    BY <1>2, <1>4
  <2>. QED  BY <1>3, <2>1 DEF Entries
<1>7. \A k \in Keys : g[k] = Absent <=> f[k] = Absent
  BY <1>2, <1>4
<1>8. Present(g) = Present(f)
  BY <1>1, <1>2, <1>7 DEF Present
<1>. QED  BY <1>1, <1>2, <1>5, <1>6, <1>7, <1>8 DEF g

(* Doing one thing after another to each. *)
LEMMA AllAgain ==
  ASSUME NEW F, NEW G, NEW H, NEW g,
         \A k \in DOMAIN g : g[k] # Absent => F[g[k]] # Absent /\ G[F[g[k]]] = H[g[k]]
  PROVE  All(G, All(F, g)) = All(H, g)
<1> DEFINE m == All(F, g)
<1>1. DOMAIN m = DOMAIN g /\ \A k \in DOMAIN g : m[k] = IF g[k] = Absent THEN Absent ELSE F[g[k]]
  BY AllOf
<1> HIDE DEF m
<1> DEFINE A(k) == IF m[k] = Absent THEN Absent ELSE G[m[k]]
           B(k) == IF g[k] = Absent THEN Absent ELSE H[g[k]]
<1>2. All(G, m) = [k \in DOMAIN g |-> A(k)] /\ All(H, g) = [k \in DOMAIN g |-> B(k)]
  BY <1>1 DEF All
<1>3. \A k \in DOMAIN g : A(k) = B(k)
  BY <1>1
<1> HIDE DEF A, B
<1>4. All(G, m) = All(H, g)
  BY <1>2, <1>3
<1>. QED  BY <1>4 DEF m

-----------------------------------------------------------------------------
(* That encode, its refusals, the parts and what comes back are defined for all
   that is held. *)

By(what, F, v) ==
  CASE what = "code" -> EncodedBy(F, v)
    [] what = "raises" -> RaisesBy(F, v)
    [] what = "parts" -> PartsBy(F, v)
    [] what = "back" -> BackBy(F, v)
Whats == {"code", "raises", "parts", "back"}

CodesForms(F) ==
  /\ \A s : /\ EncodedBy(F, List(s)) = List(All(F, s)) /\ BackBy(F, List(s)) = List(All(F, s))
            /\ EncodedBy(F, Tuple(s)) = Typed("tuple", List(All(F, s)))
            /\ BackBy(F, Tuple(s)) = Tuple(All(F, s))
  /\ \A f : /\ EncodedBy(F, Dict(f)) = EncodedDict(All(F, f)) /\ BackBy(F, Dict(f)) = Dict(All(F, f))
  /\ \A c, f : /\ EncodedBy(F, Object(c, f)) = Typed(c, EncodedDict(All(F, f)))
               /\ BackBy(F, Object(c, f)) = Object(c, All(F, f))
               /\ EncodedBy(F, Model(c, f)) = Typed(c, Dict(f)) /\ BackBy(F, Model(c, f)) = Model(c, f)
  /\ \A t, b, p : /\ EncodedBy(F, Failure(t, b, p)) = Typed("Failure", FailureFields(t, F[p]))
                  /\ BackBy(F, Failure(t, b, p)) = Failure(t, TRUE, F[p])
  /\ \A x : EncodedBy(F, Leaf(x)) = Leaf(x) /\ BackBy(F, Leaf(x)) = Leaf(x)
  /\ EncodedBy(F, Alien) = Alien /\ BackBy(F, Alien) = Alien

LEMMA ByForm == ASSUME NEW F PROVE CodesForms(F)
<1>1. \A s : /\ EncodedBy(F, List(s)) = List(All(F, s)) /\ BackBy(F, List(s)) = List(All(F, s))
             /\ EncodedBy(F, Tuple(s)) = Typed("tuple", List(All(F, s)))
             /\ BackBy(F, Tuple(s)) = Tuple(All(F, s))
  <2> TAKE s
  <2>1. List(s).is = "list" /\ List(s).items = s /\ Tuple(s).is = "tuple" /\ Tuple(s).items = s
    BY DEF List, Tuple
  <2>. QED  BY <2>1 DEF EncodedBy, BackBy
<1>2. \A f : EncodedBy(F, Dict(f)) = EncodedDict(All(F, f)) /\ BackBy(F, Dict(f)) = Dict(All(F, f))
  <2> TAKE f
  <2>1. Dict(f).is = "dict" /\ Dict(f).at = f
    BY DEF Dict
  <2>. QED  BY <2>1 DEF EncodedBy, BackBy
<1>3. \A c, f : /\ EncodedBy(F, Object(c, f)) = Typed(c, EncodedDict(All(F, f)))
                /\ BackBy(F, Object(c, f)) = Object(c, All(F, f))
                /\ EncodedBy(F, Model(c, f)) = Typed(c, Dict(f)) /\ BackBy(F, Model(c, f)) = Model(c, f)
  <2> TAKE c, f
  <2>1. /\ Object(c, f).is = "object" /\ Object(c, f).class = c /\ Object(c, f).at = f
        /\ Model(c, f).is = "model" /\ Model(c, f).class = c /\ Model(c, f).at = f
    BY DEF Object, Model
  <2>. QED  BY <2>1 DEF EncodedBy, BackBy
<1>4. \A t, b, p : /\ EncodedBy(F, Failure(t, b, p)) = Typed("Failure", FailureFields(t, F[p]))
                   /\ BackBy(F, Failure(t, b, p)) = Failure(t, TRUE, F[p])
  <2> TAKE t, b, p
  <2>1. Failure(t, b, p).is = "failure" /\ Failure(t, b, p).type = t /\ Failure(t, b, p).item = p
    BY DEF Failure
  <2>. QED  BY <2>1 DEF EncodedBy, BackBy
<1>5. \A x : EncodedBy(F, Leaf(x)) = Leaf(x) /\ BackBy(F, Leaf(x)) = Leaf(x)
  <2> TAKE x
  <2>1. Leaf(x).is = "leaf"
    BY DEF Leaf
  <2>. QED  BY <2>1 DEF EncodedBy, BackBy
<1>6. EncodedBy(F, Alien) = Alien /\ BackBy(F, Alien) = Alien
  BY DEF EncodedBy, BackBy, Alien
<1>. QED  BY <1>1, <1>2, <1>3, <1>4, <1>5, <1>6 DEF CodesForms

PartsAt(F, g, D) == UNION {F[g[k]] : k \in D}
And(v, parts) == {v} \cup parts
SomeAt(F, g, D) == \E k \in D : F[g[k]]

SplitsForms(F) ==
  /\ \A s : /\ PartsBy(F, List(s)) = And(List(s), PartsAt(F, s, DOMAIN s))
            /\ PartsBy(F, Tuple(s)) = And(Tuple(s), PartsAt(F, s, DOMAIN s))
  /\ \A f : PartsBy(F, Dict(f)) = And(Dict(f), PartsAt(F, f, Present(f)))
  /\ \A c, f : /\ PartsBy(F, Object(c, f)) = And(Object(c, f), PartsAt(F, f, Present(f)))
               /\ PartsBy(F, Model(c, f)) = And(Model(c, f), {})
  /\ \A t, b, p : PartsBy(F, Failure(t, b, p)) = And(Failure(t, b, p), F[p])
  /\ \A x : PartsBy(F, Leaf(x)) = And(Leaf(x), {})
  /\ PartsBy(F, Alien) = And(Alien, {})

LEMMA PartsForm == ASSUME NEW F PROVE SplitsForms(F)
<1>1. \A s : /\ PartsBy(F, List(s)) = And(List(s), PartsAt(F, s, DOMAIN s))
             /\ PartsBy(F, Tuple(s)) = And(Tuple(s), PartsAt(F, s, DOMAIN s))
  <2> TAKE s
  <2>1. List(s).is = "list" /\ List(s).items = s /\ Tuple(s).is = "tuple" /\ Tuple(s).items = s
    BY DEF List, Tuple
  <2>. QED  BY <2>1 DEF PartsBy, PartsAt, And
<1>2. \A f : PartsBy(F, Dict(f)) = And(Dict(f), PartsAt(F, f, Present(f)))
  <2> TAKE f
  <2>1. Dict(f).is = "dict" /\ Dict(f).at = f
    BY DEF Dict
  <2>. QED  BY <2>1 DEF PartsBy, PartsAt, And
<1>3. \A c, f : /\ PartsBy(F, Object(c, f)) = And(Object(c, f), PartsAt(F, f, Present(f)))
                /\ PartsBy(F, Model(c, f)) = And(Model(c, f), {})
  <2> TAKE c, f
  <2>1. Object(c, f).is = "object" /\ Object(c, f).at = f /\ Model(c, f).is = "model"
    BY DEF Object, Model
  <2>. QED  BY <2>1 DEF PartsBy, PartsAt, And
<1>4. \A t, b, p : PartsBy(F, Failure(t, b, p)) = And(Failure(t, b, p), F[p])
  <2> TAKE t, b, p
  <2>1. Failure(t, b, p).is = "failure" /\ Failure(t, b, p).item = p
    BY DEF Failure
  <2>. QED  BY <2>1 DEF PartsBy, PartsAt, And
<1>5. \A x : PartsBy(F, Leaf(x)) = And(Leaf(x), {})
  <2> TAKE x
  <2>1. Leaf(x).is = "leaf"
    BY DEF Leaf
  <2>. QED  BY <2>1 DEF PartsBy, PartsAt, And
<1>6. PartsBy(F, Alien) = And(Alien, {})
  <2>1. Alien.is = "alien"
    BY DEF Alien
  <2>. QED  BY <2>1 DEF PartsBy, PartsAt, And
<1>. QED  BY <1>1, <1>2, <1>3, <1>4, <1>5, <1>6 DEF SplitsForms

RefusesForms(F) ==
  /\ \A s : /\ RaisesBy(F, List(s)) = SomeAt(F, s, DOMAIN s)
            /\ RaisesBy(F, Tuple(s)) = SomeAt(F, s, DOMAIN s)
  /\ \A f : RaisesBy(F, Dict(f)) = SomeAt(F, f, Present(f))
  /\ \A c, f : /\ RaisesBy(F, Object(c, f)) = (c \in Local \/ SomeAt(F, f, Present(f)))
               /\ RaisesBy(F, Model(c, f)) = (c \in Local)
  /\ \A t, b, p : RaisesBy(F, Failure(t, b, p)) = F[p]
  /\ \A x : RaisesBy(F, Leaf(x)) = FALSE
  /\ RaisesBy(F, Alien) = TRUE

LEMMA RaisesForm == ASSUME NEW F PROVE RefusesForms(F)
<1>1. \A s : /\ RaisesBy(F, List(s)) = SomeAt(F, s, DOMAIN s)
             /\ RaisesBy(F, Tuple(s)) = SomeAt(F, s, DOMAIN s)
  <2> TAKE s
  <2>1. List(s).is = "list" /\ List(s).items = s /\ Tuple(s).is = "tuple" /\ Tuple(s).items = s
    BY DEF List, Tuple
  <2>. QED  BY <2>1 DEF RaisesBy, SomeAt
<1>2. \A f : RaisesBy(F, Dict(f)) = SomeAt(F, f, Present(f))
  <2> TAKE f
  <2>1. Dict(f).is = "dict" /\ Dict(f).at = f
    BY DEF Dict
  <2>. QED  BY <2>1 DEF RaisesBy, SomeAt
<1>3. \A c, f : /\ RaisesBy(F, Object(c, f)) = (c \in Local \/ SomeAt(F, f, Present(f)))
                /\ RaisesBy(F, Model(c, f)) = (c \in Local)
  <2> TAKE c, f
  <2>1. /\ Object(c, f).is = "object" /\ Object(c, f).class = c /\ Object(c, f).at = f
        /\ Model(c, f).is = "model" /\ Model(c, f).class = c
    BY DEF Object, Model
  <2>. QED  BY <2>1 DEF RaisesBy, SomeAt
<1>4. \A t, b, p : RaisesBy(F, Failure(t, b, p)) = F[p]
  <2> TAKE t, b, p
  <2>1. Failure(t, b, p).is = "failure" /\ Failure(t, b, p).item = p
    BY DEF Failure
  <2>. QED  BY <2>1 DEF RaisesBy, SomeAt
<1>5. \A x : RaisesBy(F, Leaf(x)) = FALSE
  <2> TAKE x
  <2>1. Leaf(x).is = "leaf"
    BY DEF Leaf
  <2>. QED  BY <2>1 DEF RaisesBy, SomeAt
<1>6. RaisesBy(F, Alien) = TRUE
  <2>1. Alien.is = "alien"
    BY DEF Alien
  <2>. QED  BY <2>1 DEF RaisesBy, SomeAt
<1>. QED  BY <1>1, <1>2, <1>3, <1>4, <1>5, <1>6 DEF RefusesForms

(* They look only at the parts. *)
LEMMA ByAlike ==
  ASSUME NEW what \in Whats, NEW S, NEW J, NEW v \in ValueOver(S, J),
         NEW F, NEW G, \A p \in S : F[p] = G[p]
  PROVE  By(what, F, v) = By(what, G, v)
<1>1. ASSUME NEW s \in Seq(S) PROVE All(F, s) = All(G, s) /\ \A i \in DOMAIN s : F[s[i]] = G[s[i]]
  <2>1. \A i \in DOMAIN s : s[i] \in S
    OBVIOUS
  <2>2. \A i \in DOMAIN s : F[s[i]] = G[s[i]]
    BY <2>1
  <2>. QED  BY <2>2, AllAlike
<1>2. ASSUME NEW f \in Entries(S)
      PROVE  All(F, f) = All(G, f) /\ \A k \in Present(f) : F[f[k]] = G[f[k]]
  <2>1. \A k \in DOMAIN f : f[k] # Absent => f[k] \in S
    BY DEF Entries
  <2>2. \A k \in DOMAIN f : f[k] # Absent => F[f[k]] = G[f[k]]
    BY <2>1
  <2>. QED  BY <2>2, AllAlike DEF Present
<1>3. EncodedBy(F, v) = EncodedBy(G, v) /\ BackBy(F, v) = BackBy(G, v)
  <2>0. CodesForms(F) /\ CodesForms(G)
    BY ByForm
  <2>1. CASE \E x \in Strings : v = Leaf(x)
    BY <2>0, <2>1 DEF CodesForms
  <2>2. CASE \E s \in Seq(S) : v = List(s)
    BY <2>0, <1>1, <2>2 DEF CodesForms
  <2>3. CASE \E s \in Seq(S) : v = Tuple(s)
    BY <2>0, <1>1, <2>3 DEF CodesForms
  <2>4. CASE \E f \in Entries(S) : v = Dict(f)
    BY <2>0, <1>2, <2>4 DEF CodesForms
  <2>5. CASE \E c \in Classes, f \in Entries(S) : v = Object(c, f)
    BY <2>0, <1>2, <2>5 DEF CodesForms
  <2>6. CASE \E c \in Pydantic, f \in Entries(J) : v = Model(c, f)
    BY <2>0, <2>6 DEF CodesForms
  <2>7. CASE \E t \in Strings, b \in Flags, p \in S : v = Failure(t, b, p)
    <3>1. PICK t \in Strings, b \in Flags, p \in S : v = Failure(t, b, p)
      BY <2>7
    <3>2. F[p] = G[p]
      OBVIOUS
    <3>3. /\ EncodedBy(F, v) = Typed("Failure", FailureFields(t, F[p])) /\ BackBy(F, v) = Failure(t, TRUE, F[p])
          /\ EncodedBy(G, v) = Typed("Failure", FailureFields(t, G[p])) /\ BackBy(G, v) = Failure(t, TRUE, G[p])
      <4>1. v.is = "failure" /\ v.type = t /\ v.item = p
        BY <3>1 DEF Failure
      <4>. QED  BY <4>1 DEF EncodedBy, BackBy
    <3>. QED  BY <3>2, <3>3
  <2>8. CASE v = Alien
    BY <2>0, <2>8 DEF CodesForms
  <2>. QED  BY <2>1, <2>2, <2>3, <2>4, <2>5, <2>6, <2>7, <2>8, Forms
<1>4. PartsBy(F, v) = PartsBy(G, v)
  <2>0. SplitsForms(F) /\ SplitsForms(G)
    BY PartsForm
  <2>1. CASE \E x \in Strings : v = Leaf(x)
    BY <2>0, <2>1 DEF SplitsForms
  <2>2. CASE \E s \in Seq(S) : v = List(s) \/ v = Tuple(s)
    <3>1. PICK s \in Seq(S) : v = List(s) \/ v = Tuple(s)
      BY <2>2
    <3>2. PartsAt(F, s, DOMAIN s) = PartsAt(G, s, DOMAIN s)
      BY <1>1 DEF PartsAt
    <3>. QED  BY <2>0, <3>1, <3>2 DEF SplitsForms
  <2>3. CASE \E f \in Entries(S) : v = Dict(f) \/ \E c \in Classes : v = Object(c, f)
    <3>1. PICK f \in Entries(S) : v = Dict(f) \/ \E c \in Classes : v = Object(c, f)
      BY <2>3
    <3>2. PartsAt(F, f, Present(f)) = PartsAt(G, f, Present(f))
      BY <1>2 DEF PartsAt
    <3>. QED  BY <2>0, <3>1, <3>2 DEF SplitsForms
  <2>4. CASE \E c \in Pydantic, f \in Entries(J) : v = Model(c, f)
    BY <2>0, <2>4 DEF SplitsForms
  <2>5. CASE \E t \in Strings, b \in Flags, p \in S : v = Failure(t, b, p)
    <3>1. PICK t \in Strings, b \in Flags, p \in S : v = Failure(t, b, p)
      BY <2>5
    <3>2. F[p] = G[p]
      OBVIOUS
    <3>. QED  BY <2>0, <3>1, <3>2 DEF SplitsForms
  <2>6. CASE v = Alien
    BY <2>0, <2>6 DEF SplitsForms
  <2>. QED  BY <2>1, <2>2, <2>3, <2>4, <2>5, <2>6, Forms
<1>5. RaisesBy(F, v) = RaisesBy(G, v)
  <2>0. RefusesForms(F) /\ RefusesForms(G)
    BY RaisesForm
  <2>1. CASE \E x \in Strings : v = Leaf(x)
    BY <2>0, <2>1 DEF RefusesForms
  <2>2. CASE \E s \in Seq(S) : v = List(s) \/ v = Tuple(s)
    <3>1. PICK s \in Seq(S) : v = List(s) \/ v = Tuple(s)
      BY <2>2
    <3>2. SomeAt(F, s, DOMAIN s) = SomeAt(G, s, DOMAIN s)
      BY <1>1 DEF SomeAt
    <3>. QED  BY <2>0, <3>1, <3>2 DEF RefusesForms
  <2>3. CASE \E f \in Entries(S) : v = Dict(f)
    <3>1. PICK f \in Entries(S) : v = Dict(f)
      BY <2>3
    <3>2. SomeAt(F, f, Present(f)) = SomeAt(G, f, Present(f))
      BY <1>2 DEF SomeAt
    <3>. QED  BY <2>0, <3>1, <3>2 DEF RefusesForms
  <2>4. CASE \E c \in Classes, f \in Entries(S) : v = Object(c, f)
    <3>1. PICK c \in Classes, f \in Entries(S) : v = Object(c, f)
      BY <2>4
    <3>2. SomeAt(F, f, Present(f)) = SomeAt(G, f, Present(f))
      BY <1>2 DEF SomeAt
    <3>. QED  BY <2>0, <3>1, <3>2 DEF RefusesForms
  <2>5. CASE \E c \in Pydantic, f \in Entries(J) : v = Model(c, f)
    BY <2>0, <2>5 DEF RefusesForms
  <2>6. CASE \E t \in Strings, b \in Flags, p \in S : v = Failure(t, b, p)
    <3>1. PICK t \in Strings, b \in Flags, p \in S : v = Failure(t, b, p)
      BY <2>6
    <3>2. F[p] = G[p]
      OBVIOUS
    <3>. QED  BY <2>0, <3>1, <3>2 DEF RefusesForms
  <2>7. CASE v = Alien
    BY <2>0, <2>7 DEF RefusesForms
  <2>. QED  BY <2>1, <2>2, <2>3, <2>4, <2>5, <2>6, <2>7, Forms
<1>. QED  BY <1>3, <1>4, <1>5 DEF By, Whats

LEMMA ByExists ==
  ASSUME NEW what \in Whats
  PROVE  \E F : F = [v \in Held |-> By(what, F, v)]
<1> DEFINE Works(n) == \E F : \A v \in Layer[n].held : F[v] = By(what, F, v)
           T == {n \in 0..Nesting : ~Works(n)}
<1>1. Nesting \in Nat /\ Top \in Nat /\ Nesting <= Top
  BY CodecConstants DEF Top
<1>2. T = {}
  <2> SUFFICES ASSUME T # {} PROVE FALSE
    OBVIOUS
  <2>1. PICK m \in T : \A k \in T : ~ (k < m)
    <3>1. T \in SUBSET Nat
      BY <1>1
    <3> HIDE DEF T
    <3>. QED  BY <3>1, LeastOf
  <2>2. m \in 0..Nesting /\ ~Works(m) /\ m \in 0..Top
    BY <1>1, <2>1
  <2> DEFINE S == Below(m).held
             J == Below(m).json
             H == Layer[m].held
  <2>3. \E F : \A v \in S : F[v] = By(what, F, v)
    <3>1. CASE m = 0
      <4>1. S = {}
        BY <3>1 DEF Below
      <4>. QED  BY <4>1
    <3>2. CASE m # 0
      <4>1. m - 1 \in 0..Nesting /\ m - 1 < m
        BY <1>1, <2>2, <3>2
      <4>2. Works(m - 1)
        <5>1. m - 1 \notin T
          BY <2>1, <4>1
        <5>. QED  BY <4>1, <5>1
      <4>3. S = Layer[m - 1].held
        BY <3>2 DEF Below
      <4>. QED  BY <4>2, <4>3
    <3>. QED  BY <3>1, <3>2
  <2>4. H = ValueOver(S, J) /\ S \subseteq H
    BY <2>2, LayerParts, LayersNest
  <2> HIDE DEF S, J, H
  <2>5. PICK F : \A v \in S : F[v] = By(what, F, v)
    BY <2>3
  <2> DEFINE G == [v \in H |-> By(what, F, v)]
  <2>6. \A p \in S : F[p] = G[p]
    BY <2>4, <2>5
  <2>7. ASSUME NEW v \in H PROVE G[v] = By(what, G, v)
    <3>1. G[v] = By(what, F, v)
      OBVIOUS
    <3>2. v \in ValueOver(S, J)
      BY <2>4
    <3> HIDE DEF G
    <3>. QED  BY <2>6, <3>1, <3>2, ByAlike
  <2> HIDE DEF G
  <2>8. Works(m)
    BY <2>7 DEF H
  <2>. QED  BY <2>2, <2>8
<1> DEFINE S == Below(Nesting).held
           J == Below(Nesting).json
<1>3. PICK F : \A v \in Held : F[v] = By(what, F, v)
  <2>1. Nesting \in 0..Nesting
    BY <1>1
  <2>. QED  BY <1>2, <2>1 DEF Held
<1> DEFINE G == [v \in Held |-> F[v]]
<1>4. Held = ValueOver(S, J) /\ S \subseteq Held
  <2>1. Nesting \in 0..Top
    BY <1>1
  <2>. QED  BY <2>1, LayerParts, LayersNest DEF Held
<1> HIDE DEF S, J
<1>5. ASSUME NEW v \in Held PROVE By(what, F, v) = By(what, G, v)
  <2>1. \A p \in S : F[p] = G[p]
    BY <1>4
  <2>2. v \in ValueOver(S, J)
    BY <1>4
  <2> HIDE DEF G
  <2>. QED  BY <2>1, <2>2, ByAlike
<1>6. G = [v \in Held |-> By(what, G, v)]
  <2>1. \A v \in Held : G[v] = By(what, G, v)
    BY <1>3, <1>5
  <2>2. G = [v \in Held |-> G[v]]
    OBVIOUS
  <2> HIDE DEF G
  <2>. QED  BY <2>1, <2>2
<1> HIDE DEF G
<1>. QED  BY <1>6

LEMMA EncodeChosen ==
  ASSUME NEW F, F = [v \in Held |-> EncodedBy(F, v)]
  PROVE  Encode = [v \in Held |-> EncodedBy(Encode, v)]
BY DEF Encode
LEMMA RaisesChosen ==
  ASSUME NEW F, F = [v \in Held |-> RaisesBy(F, v)]
  PROVE  Raises = [v \in Held |-> RaisesBy(Raises, v)]
BY DEF Raises
LEMMA PartsChosen ==
  ASSUME NEW F, F = [v \in Held |-> PartsBy(F, v)]
  PROVE  Parts = [v \in Held |-> PartsBy(Parts, v)]
BY DEF Parts
LEMMA BackChosen ==
  ASSUME NEW F, F = [v \in Held |-> BackBy(F, v)]
  PROVE  Back = [v \in Held |-> BackBy(Back, v)]
BY DEF Back

LEMMA CodeIs ==
  \A v \in Held : /\ Encode[v] = EncodedBy(Encode, v) /\ Raises[v] = RaisesBy(Raises, v)
                  /\ Parts[v] = PartsBy(Parts, v) /\ Back[v] = BackBy(Back, v)
<1>1. Encode = [v \in Held |-> EncodedBy(Encode, v)]
  <2>1. PICK F : F = [v \in Held |-> By("code", F, v)]
    BY ByExists DEF Whats
  <2>2. F = [v \in Held |-> EncodedBy(F, v)]
    BY <2>1 DEF By
  <2>. QED  BY <2>2, EncodeChosen
<1>2. Raises = [v \in Held |-> RaisesBy(Raises, v)]
  <2>1. PICK F : F = [v \in Held |-> By("raises", F, v)]
    BY ByExists DEF Whats
  <2>2. F = [v \in Held |-> RaisesBy(F, v)]
    BY <2>1 DEF By
  <2>. QED  BY <2>2, RaisesChosen
<1>3. Parts = [v \in Held |-> PartsBy(Parts, v)]
  <2>1. PICK F : F = [v \in Held |-> By("parts", F, v)]
    BY ByExists DEF Whats
  <2>2. F = [v \in Held |-> PartsBy(F, v)]
    BY <2>1 DEF By
  <2>. QED  BY <2>2, PartsChosen
<1>4. Back = [v \in Held |-> BackBy(Back, v)]
  <2>1. PICK F : F = [v \in Held |-> By("back", F, v)]
    BY ByExists DEF Whats
  <2>2. F = [v \in Held |-> BackBy(F, v)]
    BY <2>1 DEF By
  <2>. QED  BY <2>2, BackChosen
<1>5. \A v \in Held : Encode[v] = EncodedBy(Encode, v)
  BY <1>1
<1>6. \A v \in Held : Raises[v] = RaisesBy(Raises, v)
  BY <1>2
<1>7. \A v \in Held : Parts[v] = PartsBy(Parts, v)
  BY <1>3
<1>8. \A v \in Held : Back[v] = BackBy(Back, v)
  BY <1>4
<1>. QED  BY <1>5, <1>6, <1>7, <1>8

-----------------------------------------------------------------------------
(* That decode is defined for all that is stored. *)

LEMMA JsonForms ==
  ASSUME NEW S, NEW v \in JsonOver(S)
  PROVE  \/ \E x \in Strings : v = Leaf(x)
         \/ \E s \in Seq(S) : v = List(s)
         \/ \E f \in Entries(S) : v = Dict(f)
<1> DEFINE A == Seq(S)
           C == Entries(S)
<1>1. JsonOver(S) = [is : {"leaf"}, leaf : Strings] \cup [is : {"list"}, items : A]
           \cup [is : {"dict"}, at : C]
  BY DEF JsonOver
<1> HIDE DEF A, C
<1>2. v \in [is : {"leaf"}, leaf : Strings] => \E x \in Strings : v = Leaf(x)
  BY DEF Leaf
<1>3. v \in [is : {"list"}, items : A] => \E s \in A : v = List(s)
  BY DEF List
<1>4. v \in [is : {"dict"}, at : C] => \E f \in C : v = Dict(f)
  BY DEF Dict
<1>. QED  BY <1>1, <1>2, <1>3, <1>4 DEF A, C

LEMMA JsonParts ==
  ASSUME NEW S, NEW v \in JsonOver(S)
  PROVE  /\ v.is = "list" => v.items \in Seq(S)
         /\ v.is = "dict" => v.at \in Entries(S)
<1>1. CASE \E x \in Strings : v = Leaf(x)
  BY <1>1 DEF Leaf
<1>2. CASE \E s \in Seq(S) : v = List(s)
  <2>1. PICK s \in Seq(S) : v = List(s)
    BY <1>2
  <2>2. v.is = "list" /\ v.items = s
    BY <2>1 DEF List
  <2>. QED  BY <2>2
<1>3. CASE \E f \in Entries(S) : v = Dict(f)
  <2>1. PICK f \in Entries(S) : v = Dict(f)
    BY <1>3
  <2>2. v.is = "dict" /\ v.at = f
    BY <2>1 DEF Dict
  <2>. QED  BY <2>2
<1>. QED  BY <1>1, <1>2, <1>3, JsonForms

(* It looks at what is in the data, and at what is in the data's "$data". *)
LEMMA DecodedAlike ==
  ASSUME NEW S, S \subseteq JsonOver(S), NEW v \in JsonOver(S),
         NEW F, NEW G, \A p \in S : F[p] = G[p]
  PROVE  DecodedBy(F, v) = DecodedBy(G, v)
<1>1. ASSUME NEW s \in Seq(S) PROVE All(F, s) = All(G, s)
  <2>1. \A i \in DOMAIN s : s[i] \in S
    OBVIOUS
  <2>2. \A i \in DOMAIN s : F[s[i]] = G[s[i]]
    BY <2>1
  <2>. QED  BY <2>2, AllAlike
<1>2. ASSUME NEW f \in Entries(S) PROVE All(F, f) = All(G, f)
  <2>1. \A k \in DOMAIN f : f[k] # Absent => f[k] \in S
    BY DEF Entries
  <2>2. \A k \in DOMAIN f : f[k] # Absent => F[f[k]] = G[f[k]]
    BY <2>1
  <2>. QED  BY <2>2, AllAlike
<1>3. v.is = "list" => All(F, v.items) = All(G, v.items)
  BY <1>1, JsonParts
<1>4. v.is = "dict" => All(F, v.at) = All(G, v.at)
  BY <1>2, JsonParts
<1>5. ASSUME NEW types, NEW form, Tagged(v, types, form) PROVE Inner(v) \in S /\ Inner(v).is = form
  <2>1. v.is = "dict" /\ "$data" \in Present(v.at) /\ v.at["$data"].is = form
    BY <1>5 DEF Tagged
  <2>2. v.at \in Entries(S)
    BY <2>1, JsonParts
  <2>3. v.at["$data"] \in S
    BY <2>1, <2>2 DEF Present, Entries
  <2>. QED  BY <2>1, <2>3 DEF Inner
<1>6. Tagged(v, {"dict"}, "dict") => Unwrapped(F, Inner(v).at) = Unwrapped(G, Inner(v).at)
  <2> SUFFICES ASSUME Tagged(v, {"dict"}, "dict")
               PROVE  Unwrapped(F, Inner(v).at) = Unwrapped(G, Inner(v).at)
    OBVIOUS
  <2>1. Inner(v) \in JsonOver(S) /\ Inner(v).is = "dict"
    BY <1>5
  <2>2. Inner(v).at \in Entries(S)
    BY <2>1, JsonParts
  <2>. QED  BY <1>2, <2>2 DEF Unwrapped
<1>7. Tagged(v, {"tuple"}, "list") => All(F, Inner(v).items) = All(G, Inner(v).items)
  <2> SUFFICES ASSUME Tagged(v, {"tuple"}, "list")
               PROVE  All(F, Inner(v).items) = All(G, Inner(v).items)
    OBVIOUS
  <2>1. Inner(v) \in JsonOver(S) /\ Inner(v).is = "list"
    BY <1>5
  <2>2. Inner(v).items \in Seq(S)
    BY <2>1, JsonParts
  <2>. QED  BY <1>1, <2>2
<1>8. Tagged(v, Classes \cup {"Failure"}, "dict") => F[Inner(v)] = G[Inner(v)]
  BY <1>5
<1>. QED  BY <1>3, <1>4, <1>6, <1>7, <1>8 DEF DecodedBy

LEMMA DecodeChosen ==
  ASSUME NEW F, F = [data \in Data |-> DecodedBy(F, data)]
  PROVE  Decode = [data \in Data |-> DecodedBy(Decode, data)]
BY DEF Decode

LEMMA DecodeIs == \A data \in Data : Decode[data] = DecodedBy(Decode, data)
<1> DEFINE Works(n) == \E F : \A v \in Layer[n].json : F[v] = DecodedBy(F, v)
           T == {n \in 0..Top : ~Works(n)}
<1>1. Top \in Nat
  BY CodecConstants DEF Top
<1>2. \A m \in 0..Top :
        /\ Layer[m].json = JsonOver(Below(m).json) /\ Below(m).json \subseteq Layer[m].json
        /\ Below(m).json \subseteq JsonOver(Below(m).json)
  BY LayerParts, LayersNest
<1>3. T = {}
  <2> SUFFICES ASSUME T # {} PROVE FALSE
    OBVIOUS
  <2>1. PICK m \in T : \A k \in T : ~ (k < m)
    <3>1. T \in SUBSET Nat
      BY <1>1
    <3> HIDE DEF T
    <3>. QED  BY <3>1, LeastOf
  <2>2. m \in 0..Top /\ ~Works(m)
    BY <2>1
  <2> DEFINE S == Below(m).json
             H == Layer[m].json
  <2>3. \E F : \A v \in S : F[v] = DecodedBy(F, v)
    <3>1. CASE m = 0
      <4>1. S = {}
        BY <3>1 DEF Below
      <4>. QED  BY <4>1
    <3>2. CASE m # 0
      <4>1. m - 1 \in 0..Top /\ m - 1 < m
        BY <1>1, <2>2, <3>2
      <4>2. Works(m - 1)
        <5>1. m - 1 \notin T
          BY <2>1, <4>1
        <5>. QED  BY <4>1, <5>1
      <4>3. S = Layer[m - 1].json
        BY <3>2 DEF Below
      <4>. QED  BY <4>2, <4>3
    <3>. QED  BY <3>1, <3>2
  <2>4. H = JsonOver(S) /\ S \subseteq H /\ S \subseteq JsonOver(S)
    BY <1>2, <2>2
  <2> HIDE DEF S, H
  <2>5. PICK F : \A v \in S : F[v] = DecodedBy(F, v)
    BY <2>3
  <2> DEFINE G == [v \in H |-> DecodedBy(F, v)]
  <2>6. \A p \in S : F[p] = G[p]
    BY <2>4, <2>5
  <2>7. ASSUME NEW v \in H PROVE G[v] = DecodedBy(G, v)
    <3>1. G[v] = DecodedBy(F, v)
      OBVIOUS
    <3>2. v \in JsonOver(S)
      BY <2>4
    <3> HIDE DEF G
    <3>. QED  BY <2>4, <2>6, <3>1, <3>2, DecodedAlike
  <2> HIDE DEF G
  <2>8. Works(m)
    BY <2>7 DEF H
  <2>. QED  BY <2>2, <2>8
<1> DEFINE S == Below(Top).json
<1>4. PICK F : \A v \in Data : F[v] = DecodedBy(F, v)
  <2>1. Top \in 0..Top
    BY <1>1
  <2>. QED  BY <1>3, <2>1 DEF Data, Top
<1> DEFINE G == [v \in Data |-> F[v]]
<1>5. Data = JsonOver(S) /\ S \subseteq Data /\ S \subseteq JsonOver(S)
  <2>1. Top \in 0..Top /\ Data = Layer[Top].json
    BY <1>1 DEF Data, Top
  <2>. QED  BY <1>2, <2>1
<1> HIDE DEF S
<1>6. ASSUME NEW v \in Data PROVE DecodedBy(F, v) = DecodedBy(G, v)
  <2>1. \A p \in S : F[p] = G[p]
    BY <1>5
  <2>2. v \in JsonOver(S)
    BY <1>5
  <2> HIDE DEF G
  <2>. QED  BY <1>5, <2>1, <2>2, DecodedAlike
<1>7. G = [v \in Data |-> DecodedBy(G, v)]
  <2>1. \A v \in Data : G[v] = DecodedBy(G, v)
    BY <1>4, <1>6
  <2>2. G = [v \in Data |-> G[v]]
    OBVIOUS
  <2> HIDE DEF G
  <2>. QED  BY <2>1, <2>2
<1> HIDE DEF G
<1>8. Decode = [v \in Data |-> DecodedBy(Decode, v)]
  BY <1>7, DecodeChosen
<1>. QED  BY <1>8

-----------------------------------------------------------------------------
(* What encode gives of a value, decode makes what comes back of it. *)

LEMMA PairFacts ==
  ASSUME NEW k \in Keys, NEW l \in Keys, k # l, NEW v, NEW w, v # Absent, w # Absent
  PROVE  /\ DOMAIN Pairs(k, v, l, w) = Keys /\ Pairs(k, v, l, w)[k] = v /\ Pairs(k, v, l, w)[l] = w
         /\ Present(Pairs(k, v, l, w)) = {k, l}
         /\ \A m \in Keys : m # k /\ m # l => Pairs(k, v, l, w)[m] = Absent
         /\ \A X : v \in X /\ w \in X => Pairs(k, v, l, w) \in Entries(X)
<1> DEFINE f == Pairs(k, v, l, w)
<1>1. f = [m \in Keys |-> IF m = k THEN v ELSE IF m = l THEN w ELSE Absent]
  BY DEF Pairs
<1>2. /\ DOMAIN f = Keys /\ f[k] = v /\ f[l] = w
      /\ \A m \in Keys : m # k /\ m # l => f[m] = Absent
  BY <1>1
<1>3. \A X : v \in X /\ w \in X => f \in Entries(X)
  BY <1>1 DEF Entries
<1> HIDE DEF f
<1>4. Present(f) = {k, l}
  BY <1>2 DEF Present
<1>. QED  BY <1>2, <1>3, <1>4 DEF f

LEMMA KeyFacts ==
  /\ "$type" \in Keys /\ "$data" \in Keys /\ "type" \in Keys /\ "item" \in Keys
  /\ "dict" \in Strings /\ "tuple" \in Strings /\ "Failure" \in Strings
  /\ Classes \subseteq Strings /\ Pydantic \subseteq Strings
BY CodecConstants

LEMMA LeafFacts == \A x : Leaf(x).is = "leaf" /\ Leaf(x).leaf = x /\ Leaf(x) # Absent
<1> SUFFICES ASSUME NEW x PROVE Leaf(x).is = "leaf" /\ Leaf(x).leaf = x /\ Leaf(x) # Absent
  OBVIOUS
<1>1. Leaf(x).is = "leaf" /\ Leaf(x).leaf = x
  BY DEF Leaf
<1>2. Absent.is = "absent"
  BY DEF Absent
<1>. QED  BY <1>1, <1>2

LEMMA TypedFacts ==
  ASSUME NEW t, NEW d, d # Absent
  PROVE  /\ Typed(t, d).is = "dict" /\ Tag(Typed(t, d)) = t /\ Inner(Typed(t, d)) = d
         /\ Typed(t, d).at["$type"] # Absent
         /\ \A types, form : Tagged(Typed(t, d), types, form) <=> t \in types /\ d.is = form
         /\ \A X : Leaf(t) \in X /\ d \in X => Typed(t, d) \in JsonOver(X)
<1> DEFINE f == Pairs("$type", Leaf(t), "$data", d)
           v == Typed(t, d)
<1>1. /\ f["$type"] = Leaf(t) /\ f["$data"] = d /\ Present(f) = {"$type", "$data"}
      /\ \A X : Leaf(t) \in X /\ d \in X => f \in Entries(X)
  BY KeyFacts, LeafFacts, PairFacts
<1> HIDE DEF f
<1>2. v = Dict(f)
  BY DEF Typed, f
<1>3. v.is = "dict" /\ v.at = f
  BY <1>2 DEF Dict
<1>4. \A X : Leaf(t) \in X /\ d \in X => v \in JsonOver(X)
  BY <1>1, <1>2, FormsIn
<1> HIDE DEF v
<1>5. \A types, form : Tagged(v, types, form) <=> t \in types /\ d.is = form
  BY <1>1, <1>3, LeafFacts DEF Tagged
<1>6. Tag(v) = t /\ Inner(v) = d /\ v.at["$type"] # Absent
  BY <1>1, <1>3, LeafFacts DEF Tag, Inner
<1>. QED  BY <1>3, <1>4, <1>5, <1>6 DEF v

LEMMA DictFacts == \A f : Dict(f).is = "dict" /\ Dict(f).at = f /\ Dict(f) # Absent
<1> SUFFICES ASSUME NEW f PROVE Dict(f).is = "dict" /\ Dict(f).at = f /\ Dict(f) # Absent
  OBVIOUS
<1>1. Dict(f).is = "dict" /\ Dict(f).at = f
  BY DEF Dict
<1>2. Absent.is = "absent"
  BY DEF Absent
<1>. QED  BY <1>1, <1>2

LEMMA ListFacts == \A s : List(s).is = "list" /\ List(s).items = s /\ List(s) # Absent
<1> SUFFICES ASSUME NEW s PROVE List(s).is = "list" /\ List(s).items = s /\ List(s) # Absent
  OBVIOUS
<1>1. List(s).is = "list" /\ List(s).items = s
  BY DEF List
<1>2. Absent.is = "absent"
  BY DEF Absent
<1>. QED  BY <1>1, <1>2

LEMMA DecodedLeaf == ASSUME NEW F, NEW x PROVE DecodedBy(F, Leaf(x)) = Leaf(x)
<1>1. Leaf(x).is = "leaf"
  BY LeafFacts
<1>. QED  BY <1>1 DEF DecodedBy, Tagged

LEMMA DecodedList == ASSUME NEW F, NEW s PROVE DecodedBy(F, List(s)) = List(All(F, s))
<1>1. List(s).is = "list" /\ List(s).items = s
  BY ListFacts
<1>. QED  BY <1>1 DEF DecodedBy, Tagged

LEMMA DecodedPlain ==
  ASSUME NEW F, NEW f, f["$type"] = Absent
  PROVE  DecodedBy(F, Dict(f)) = Dict(All(F, f))
<1>1. Dict(f).is = "dict" /\ Dict(f).at = f
  BY DictFacts
<1>2. \A types, form : ~Tagged(Dict(f), types, form)
  <2>1. "$type" \notin Present(f)
    BY DEF Present
  <2>. QED  BY <1>1, <2>1 DEF Tagged
<1>. QED  BY <1>1, <1>2 DEF DecodedBy

(* Names of classes are names of neither forms nor the others' classes. *)
LEMMA DecodedTyped ==
  ASSUME NEW F
  PROVE  /\ \A f : DecodedBy(F, Typed("dict", Dict(f))) = Dict(All(F, f))
         /\ \A s : DecodedBy(F, Typed("tuple", List(s))) = Tuple(All(F, s))
         /\ \A c \in Pydantic : \A f : DecodedBy(F, Typed(c, Dict(f))) = Model(c, f)
         /\ \A c \in Classes \cup {"Failure"} : \A d :
              d.is = "dict" /\ d # Absent => DecodedBy(F, Typed(c, d)) = FromDict(c, F[d].at)
<1> DEFINE Kinds == Classes \cup {"Failure"}
<1>0. /\ "dict" \notin Pydantic /\ "dict" \notin Kinds /\ "tuple" \notin Pydantic /\ "tuple" \notin Kinds
      /\ \A c \in Kinds : c # "dict" /\ c # "tuple" /\ c \notin Pydantic
      /\ \A c \in Pydantic : c # "dict" /\ c # "tuple" /\ c \notin Kinds
  BY CodecConstants
<1>1. \A f : DecodedBy(F, Typed("dict", Dict(f))) = Dict(All(F, f))
  <2> TAKE f
  <2> DEFINE v == Typed("dict", Dict(f))
  <2>1. /\ v.is = "dict" /\ Inner(v) = Dict(f) /\ v.at["$type"] # Absent
        /\ \A types, form : Tagged(v, types, form) <=> "dict" \in types /\ Dict(f).is = form
    BY DictFacts, TypedFacts
  <2>2. Dict(f).is = "dict" /\ Dict(f).at = f
    BY DictFacts
  <2> HIDE DEF v, Kinds
  <2>3. /\ Tagged(v, {"dict"}, "dict") /\ ~Tagged(v, {"tuple"}, "list")
        /\ ~Tagged(v, Pydantic, "dict") /\ ~Tagged(v, Kinds, "dict")
    BY <1>0, <2>1, <2>2
  <2>4. DecodedBy(F, v) = Unwrapped(F, Inner(v).at)
    BY <2>1, <2>3 DEF DecodedBy, Kinds
  <2>. QED  BY <2>1, <2>2, <2>4 DEF Unwrapped, v
<1>2. \A s : DecodedBy(F, Typed("tuple", List(s))) = Tuple(All(F, s))
  <2> TAKE s
  <2> DEFINE v == Typed("tuple", List(s))
  <2>1. /\ v.is = "dict" /\ Inner(v) = List(s) /\ v.at["$type"] # Absent
        /\ \A types, form : Tagged(v, types, form) <=> "tuple" \in types /\ List(s).is = form
    BY ListFacts, TypedFacts
  <2>2. List(s).is = "list" /\ List(s).items = s
    BY ListFacts
  <2> HIDE DEF v, Kinds
  <2>3. /\ ~Tagged(v, {"dict"}, "dict") /\ Tagged(v, {"tuple"}, "list")
        /\ ~Tagged(v, Pydantic, "dict") /\ ~Tagged(v, Kinds, "dict")
    BY <1>0, <2>1, <2>2
  <2>4. DecodedBy(F, v) = Tuple(All(F, Inner(v).items))
    BY <2>1, <2>3 DEF DecodedBy, Kinds
  <2>. QED  BY <2>1, <2>2, <2>4 DEF v
<1>3. \A c \in Pydantic : \A f : DecodedBy(F, Typed(c, Dict(f))) = Model(c, f)
  <2> SUFFICES ASSUME NEW c \in Pydantic, NEW f PROVE DecodedBy(F, Typed(c, Dict(f))) = Model(c, f)
    OBVIOUS
  <2> DEFINE v == Typed(c, Dict(f))
  <2>1. /\ v.is = "dict" /\ Inner(v) = Dict(f) /\ Tag(v) = c /\ v.at["$type"] # Absent
        /\ \A types, form : Tagged(v, types, form) <=> c \in types /\ Dict(f).is = form
    BY DictFacts, TypedFacts
  <2>2. Dict(f).is = "dict" /\ Dict(f).at = f
    BY DictFacts
  <2> HIDE DEF v, Kinds
  <2>3. /\ ~Tagged(v, {"dict"}, "dict") /\ ~Tagged(v, {"tuple"}, "list")
        /\ Tagged(v, Pydantic, "dict") /\ ~Tagged(v, Kinds, "dict")
    BY <1>0, <2>1, <2>2
  <2>4. DecodedBy(F, v) = Model(Tag(v), Inner(v).at)
    BY <2>1, <2>3 DEF DecodedBy, Kinds
  <2>. QED  BY <2>1, <2>2, <2>4 DEF v
<1>4. \A c \in Kinds : \A d :
        d.is = "dict" /\ d # Absent => DecodedBy(F, Typed(c, d)) = FromDict(c, F[d].at)
  <2> SUFFICES ASSUME NEW c \in Kinds, NEW d, d.is = "dict", d # Absent
               PROVE  DecodedBy(F, Typed(c, d)) = FromDict(c, F[d].at)
    OBVIOUS
  <2> DEFINE v == Typed(c, d)
  <2>1. /\ v.is = "dict" /\ Inner(v) = d /\ Tag(v) = c /\ v.at["$type"] # Absent
        /\ \A types, form : Tagged(v, types, form) <=> c \in types /\ d.is = form
    BY TypedFacts
  <2> HIDE DEF v, Kinds
  <2>2. /\ ~Tagged(v, {"dict"}, "dict") /\ ~Tagged(v, {"tuple"}, "list")
        /\ ~Tagged(v, Pydantic, "dict") /\ Tagged(v, Kinds, "dict")
    BY <1>0, <2>1
  <2>3. DecodedBy(F, v) = FromDict(Tag(v), F[Inner(v)].at)
    BY <2>1, <2>2 DEF DecodedBy, Kinds
  <2>. QED  BY <2>1, <2>3 DEF v
<1>. QED  BY <1>1, <1>2, <1>3, <1>4

(* A value that is stored as data of D comes back among what is held, as what
   is stored as the same data. *)
Sound(v, D, S) ==
  /\ Encode[v] \in D /\ Decode[Encode[v]] = Back[v]
  /\ Back[v] \in S /\ ~Raises[Back[v]]
  /\ Encode[Back[v]] = Encode[v] /\ Back[Back[v]] = Back[v]

PartsSound(S, D) == \A p \in S : ~Raises[p] => Sound(p, D, S)

LEMMA ItemsSound ==
  ASSUME NEW S, NEW D, Absent \notin S, Absent \notin D, PartsSound(S, D),
         NEW s \in Seq(S), ~SomeAt(Raises, s, DOMAIN s)
  PROVE  /\ All(Encode, s) \in Seq(D) /\ All(Decode, All(Encode, s)) = All(Back, s)
         /\ All(Back, s) \in Seq(S) /\ ~SomeAt(Raises, All(Back, s), DOMAIN All(Back, s))
         /\ All(Encode, All(Back, s)) = All(Encode, s) /\ All(Back, All(Back, s)) = All(Back, s)
<1>1. \A i \in DOMAIN s : s[i] \in S /\ Sound(s[i], D, S)
  <2> TAKE i \in DOMAIN s
  <2>1. s[i] \in S
    OBVIOUS
  <2>2. ~Raises[s[i]]
    BY DEF SomeAt
  <2>. QED  BY <2>1, <2>2 DEF PartsSound
<1>2. All(Encode, s) \in Seq(D)
  <2>1. \A i \in DOMAIN s : Encode[s[i]] \in D
    BY <1>1 DEF Sound
  <2>. QED  BY <2>1, AllItems
<1>3. All(Back, s) \in Seq(S) /\ \A i \in DOMAIN s : All(Back, s)[i] = Back[s[i]]
  <2>1. \A i \in DOMAIN s : Back[s[i]] \in S
    BY <1>1 DEF Sound
  <2>2. All(Back, s) \in Seq(S)
    BY <2>1, AllItems
  <2>3. \A i \in DOMAIN s : All(Back, s)[i] = Back[s[i]]
    <3>1. \A i \in DOMAIN s : s[i] # Absent
      BY <1>1
    <3>2. \A i \in DOMAIN s : All(Back, s)[i] = IF s[i] = Absent THEN Absent ELSE Back[s[i]]
      BY AllOf
    <3>. QED  BY <3>1, <3>2
  <2>. QED  BY <2>2, <2>3
<1>4. All(Decode, All(Encode, s)) = All(Back, s)
  <2>1. \A i \in DOMAIN s : Encode[s[i]] # Absent /\ Decode[Encode[s[i]]] = Back[s[i]]
    BY <1>1 DEF Sound
  <2>. QED  BY <2>1, AllAgain
<1>5. All(Encode, All(Back, s)) = All(Encode, s)
  <2>1. \A i \in DOMAIN s : Back[s[i]] # Absent /\ Encode[Back[s[i]]] = Encode[s[i]]
    BY <1>1 DEF Sound
  <2>. QED  BY <2>1, AllAgain
<1>6. All(Back, All(Back, s)) = All(Back, s)
  <2>1. \A i \in DOMAIN s : Back[s[i]] # Absent /\ Back[Back[s[i]]] = Back[s[i]]
    BY <1>1 DEF Sound
  <2>. QED  BY <2>1, AllAgain
<1>7. ~SomeAt(Raises, All(Back, s), DOMAIN All(Back, s))
  <2>1. DOMAIN All(Back, s) = DOMAIN s
    BY AllOf
  <2>2. \A i \in DOMAIN s : ~Raises[All(Back, s)[i]]
    BY <1>1, <1>3 DEF Sound
  <2>. QED  BY <2>1, <2>2 DEF SomeAt
<1>. QED  BY <1>2, <1>3, <1>4, <1>5, <1>6, <1>7

LEMMA EntriesSound ==
  ASSUME NEW S, NEW D, Absent \notin S, Absent \notin D, PartsSound(S, D),
         NEW f \in Entries(S), ~SomeAt(Raises, f, Present(f))
  PROVE  /\ All(Encode, f) \in Entries(D) /\ All(Decode, All(Encode, f)) = All(Back, f)
         /\ All(Back, f) \in Entries(S) /\ ~SomeAt(Raises, All(Back, f), Present(All(Back, f)))
         /\ All(Encode, All(Back, f)) = All(Encode, f) /\ All(Back, All(Back, f)) = All(Back, f)
<1>1. \A k \in Present(f) : f[k] \in S /\ Sound(f[k], D, S)
  <2> TAKE k \in Present(f)
  <2>1. f[k] \in S
    BY DEF Present, Entries
  <2>2. ~Raises[f[k]]
    BY DEF SomeAt
  <2>. QED  BY <2>1, <2>2 DEF PartsSound
<1>0. \A k \in DOMAIN f : f[k] # Absent => Sound(f[k], D, S)
  BY <1>1 DEF Present
<1>2. All(Encode, f) \in Entries(D)
  <2>1. \A k \in Present(f) : Encode[f[k]] \in D
    BY <1>1 DEF Sound
  <2>. QED  BY <2>1, AllEntries
<1>3. /\ All(Back, f) \in Entries(S) /\ Present(All(Back, f)) = Present(f)
      /\ \A k \in Present(f) : All(Back, f)[k] = Back[f[k]]
  <2>1. \A k \in Present(f) : Back[f[k]] \in S
    BY <1>1 DEF Sound
  <2>. QED  BY <2>1, AllEntries
<1>4. All(Decode, All(Encode, f)) = All(Back, f)
  <2>1. \A k \in DOMAIN f : f[k] # Absent => Encode[f[k]] # Absent /\ Decode[Encode[f[k]]] = Back[f[k]]
    BY <1>0 DEF Sound
  <2>. QED  BY <2>1, AllAgain
<1>5. All(Encode, All(Back, f)) = All(Encode, f)
  <2>1. \A k \in DOMAIN f : f[k] # Absent => Back[f[k]] # Absent /\ Encode[Back[f[k]]] = Encode[f[k]]
    BY <1>0 DEF Sound
  <2>. QED  BY <2>1, AllAgain
<1>6. All(Back, All(Back, f)) = All(Back, f)
  <2>1. \A k \in DOMAIN f : f[k] # Absent => Back[f[k]] # Absent /\ Back[Back[f[k]]] = Back[f[k]]
    BY <1>0 DEF Sound
  <2>. QED  BY <2>1, AllAgain
<1>7. ~SomeAt(Raises, All(Back, f), Present(All(Back, f)))
  <2>1. \A k \in Present(f) : ~Raises[All(Back, f)[k]]
    BY <1>1, <1>3 DEF Sound
  <2>. QED  BY <1>3, <2>1 DEF SomeAt
<1>. QED  BY <1>2, <1>3, <1>4, <1>5, <1>6, <1>7

(* What holds the codes of the parts below, and the three layers above that
   hold the value's own. *)
Room(D0, D1, D2, D3) ==
  /\ D1 = JsonOver(D0) /\ D2 = JsonOver(D1) /\ D3 = JsonOver(D2)
  /\ D0 \subseteq D1 /\ D1 \subseteq D2 /\ D2 \subseteq D3 /\ D3 \subseteq Data
  /\ \A x \in Strings : Leaf(x) \in D0
  /\ Absent \notin D3

LEMMA RoomFor ==
  ASSUME NEW n \in 0..Nesting
  PROVE  /\ Room(Layer[3 * n].json, Layer[3 * n + 1].json, Layer[3 * n + 2].json, Layer[3 * n + 3].json)
         /\ Below(n).json \subseteq Layer[3 * n].json
<1> DEFINE m == 3 * n
<1>1. /\ Nesting \in Nat /\ n \in Nat /\ m \in Nat /\ Top \in Nat /\ m + 3 <= Top /\ n <= m
      /\ m \in 0..Top /\ m + 1 \in 0..Top /\ m + 2 \in 0..Top /\ m + 3 \in 0..Top /\ Top \in 0..Top
      /\ (m + 1) - 1 = m /\ (m + 2) - 1 = m + 1 /\ (m + 3) - 1 = m + 2
      /\ m + 1 # 0 /\ m + 2 # 0 /\ m + 3 # 0 /\ m + 3 \in 0..Top /\ n \in 0..Top /\ n \in 0..m
  BY CodecConstants DEF Top
<1> HIDE DEF m
<1>2. /\ Below(m + 1) = Layer[m] /\ Below(m + 2) = Layer[m + 1] /\ Below(m + 3) = Layer[m + 2]
  BY <1>1 DEF Below
<1>3. /\ Layer[m + 1].json = JsonOver(Layer[m].json) /\ Layer[m + 2].json = JsonOver(Layer[m + 1].json)
      /\ Layer[m + 3].json = JsonOver(Layer[m + 2].json) /\ Layer[m].json = JsonOver(Below(m).json)
  BY <1>1, <1>2, LayerParts
<1>4. /\ Layer[m].json \subseteq Layer[m + 1].json /\ Layer[m + 1].json \subseteq Layer[m + 2].json
      /\ Layer[m + 2].json \subseteq Layer[m + 3].json
  BY <1>1, <1>2, LayersNest
<1>5. Layer[m + 3].json \subseteq Data
  <2>1. m + 3 \in 0..Top /\ Data = Layer[Top].json
    BY <1>1 DEF Data, Top
  <2>. QED  BY <1>1, <2>1, LayersWithin
<1>6. \A x \in Strings : Leaf(x) \in Layer[m].json
  BY <1>3, FormsIn
<1>7. Absent \notin Layer[m + 3].json
  BY <1>3, NoneAbsent
<1>8. Below(n).json \subseteq Layer[m].json
  <2>1. Below(n).json \subseteq Layer[n].json
    BY <1>1, LayersNest
  <2>2. Layer[n].json \subseteq Layer[m].json
    BY <1>1, LayersWithin
  <2>. QED  BY <2>1, <2>2
<1>. QED  BY <1>3, <1>4, <1>5, <1>6, <1>7, <1>8 DEF Room, m

(* A dict is wrapped when it has a "$type" of its own, and unwrapped again. *)
LEMMA DictCodes ==
  ASSUME NEW D0, NEW D1, NEW D2, NEW D3, Room(D0, D1, D2, D3), NEW f \in Entries(D0)
  PROVE  /\ EncodedDict(f) \in D2 /\ EncodedDict(f).is = "dict" /\ EncodedDict(f) # Absent
         /\ Decode[EncodedDict(f)] = Dict(All(Decode, f))
<1>1. Dict(f) \in D1 /\ Dict(f).is = "dict" /\ Dict(f) # Absent
  BY DictFacts, FormsIn DEF Room
<1>2. CASE f["$type"] = Absent
  <2>1. EncodedDict(f) = Dict(f)
    BY <1>2 DEF EncodedDict
  <2>2. Dict(f) \in D2 /\ Dict(f) \in Data
    BY <1>1 DEF Room
  <2>3. Decode[Dict(f)] = Dict(All(Decode, f))
    BY <1>2, <2>2, DecodeIs, DecodedPlain
  <2>. QED  BY <1>1, <2>1, <2>2, <2>3
<1>3. CASE f["$type"] # Absent
  <2> DEFINE v == Typed("dict", Dict(f))
  <2>1. EncodedDict(f) = v
    BY <1>3 DEF EncodedDict
  <2>2. v \in D2
    <3>1. Leaf("dict") \in D1
      BY KeyFacts DEF Room
    <3>. QED  BY <1>1, <3>1, TypedFacts DEF Room
  <2>3. v \in Data /\ v # Absent
    BY <2>2 DEF Room
  <2>4. v.is = "dict"
    BY <1>1, TypedFacts
  <2>5. Decode[v] = Dict(All(Decode, f))
    <3>1. DecodedBy(Decode, v) = Dict(All(Decode, f))
      BY DecodedTyped
    <3> HIDE DEF v
    <3>. QED  BY <2>3, <3>1, DecodeIs
  <2>. QED  BY <2>1, <2>2, <2>3, <2>4, <2>5
<1>. QED  BY <1>2, <1>3

(* So for each form of a value made of parts for which it holds. *)
LEMMA FormSound ==
  ASSUME NEW S, NEW J, NEW D0, NEW D1, NEW D2, NEW D3, Room(D0, D1, D2, D3), J \subseteq D0,
         Absent \notin S, PartsSound(S, D0), ValueOver(S, J) \subseteq Held,
         NEW v \in ValueOver(S, J), ~Raises[v]
  PROVE  Sound(v, D3, ValueOver(S, J))
<1> DEFINE H == ValueOver(S, J)
<1>1. /\ D0 \subseteq D3 /\ D1 \subseteq D3 /\ D2 \subseteq D3 /\ D3 \subseteq Data
      /\ Absent \notin D0 /\ Absent \notin D1 /\ Absent \notin D2 /\ Absent \notin D3
  BY DEF Room
<1>2. \A w \in H : /\ Encode[w] = EncodedBy(Encode, w) /\ Raises[w] = RaisesBy(Raises, w)
                   /\ Back[w] = BackBy(Back, w)
  BY CodeIs
<1>3. CodesForms(Encode) /\ CodesForms(Back) /\ RefusesForms(Raises)
  BY ByForm, RaisesForm
<1>4. CASE \E x \in Strings : v = Leaf(x)
  <2>1. PICK x \in Strings : v = Leaf(x)
    BY <1>4
  <2>2. Encode[v] = v /\ Back[v] = v
    BY <1>2, <1>3, <2>1 DEF CodesForms
  <2>3. v \in D0 /\ v \in Data
    BY <1>1, <2>1 DEF Room
  <2>4. Decode[v] = v
    BY <2>1, <2>3, DecodeIs, DecodedLeaf
  <2>. QED  BY <1>1, <2>2, <2>3, <2>4 DEF Sound
<1>5. CASE \E s \in Seq(S) : v = List(s)
  <2>1. PICK s \in Seq(S) : v = List(s)
    BY <1>5
  <2>2. ~SomeAt(Raises, s, DOMAIN s)
    BY <1>2, <1>3, <2>1 DEF RefusesForms
  <2>3. /\ All(Encode, s) \in Seq(D0) /\ All(Decode, All(Encode, s)) = All(Back, s)
        /\ All(Back, s) \in Seq(S) /\ ~SomeAt(Raises, All(Back, s), DOMAIN All(Back, s))
        /\ All(Encode, All(Back, s)) = All(Encode, s) /\ All(Back, All(Back, s)) = All(Back, s)
    BY <1>1, <2>2, ItemsSound
  <2>4. Encode[v] = List(All(Encode, s)) /\ Back[v] = List(All(Back, s))
    BY <1>2, <1>3, <2>1 DEF CodesForms
  <2>5. Back[v] \in H
    BY <2>3, <2>4, FormsIn
  <2>6. /\ Encode[Back[v]] = List(All(Encode, All(Back, s)))
        /\ Back[Back[v]] = List(All(Back, All(Back, s)))
    BY <1>2, <1>3, <2>4, <2>5 DEF CodesForms
  <2>12. Raises[Back[v]] = SomeAt(Raises, All(Back, s), DOMAIN All(Back, s))
    <3>1. Raises[Back[v]] = RaisesBy(Raises, Back[v])
      BY <1>2, <2>5
    <3>. QED  BY <1>3, <2>4, <3>1 DEF RefusesForms
  <2>7. Encode[v] \in D1 /\ Encode[v] \in Data
    BY <1>1, <2>3, <2>4, FormsIn DEF Room
  <2>8. Decode[Encode[v]] = List(All(Decode, All(Encode, s)))
    BY <2>4, <2>7, DecodeIs, DecodedList
  <2>. QED  BY <1>1, <2>3, <2>4, <2>5, <2>6, <2>7, <2>8, <2>12 DEF Sound
<1>6. CASE \E s \in Seq(S) : v = Tuple(s)
  <2>1. PICK s \in Seq(S) : v = Tuple(s)
    BY <1>6
  <2>2. ~SomeAt(Raises, s, DOMAIN s)
    BY <1>2, <1>3, <2>1 DEF RefusesForms
  <2>3. /\ All(Encode, s) \in Seq(D0) /\ All(Decode, All(Encode, s)) = All(Back, s)
        /\ All(Back, s) \in Seq(S) /\ ~SomeAt(Raises, All(Back, s), DOMAIN All(Back, s))
        /\ All(Encode, All(Back, s)) = All(Encode, s) /\ All(Back, All(Back, s)) = All(Back, s)
    BY <1>1, <2>2, ItemsSound
  <2>4. Encode[v] = Typed("tuple", List(All(Encode, s))) /\ Back[v] = Tuple(All(Back, s))
    BY <1>2, <1>3, <2>1 DEF CodesForms
  <2>5. Back[v] \in H
    BY <2>3, <2>4, FormsIn
  <2>6. /\ Encode[Back[v]] = Typed("tuple", List(All(Encode, All(Back, s))))
        /\ Back[Back[v]] = Tuple(All(Back, All(Back, s)))
    BY <1>2, <1>3, <2>4, <2>5 DEF CodesForms
  <2>12. Raises[Back[v]] = SomeAt(Raises, All(Back, s), DOMAIN All(Back, s))
    <3>1. Raises[Back[v]] = RaisesBy(Raises, Back[v])
      BY <1>2, <2>5
    <3>. QED  BY <1>3, <2>4, <3>1 DEF RefusesForms
  <2>7. Encode[v] \in D2 /\ Encode[v] \in Data
    <3>1. List(All(Encode, s)) \in D1 /\ Leaf("tuple") \in D1 /\ List(All(Encode, s)) # Absent
      BY <1>1, <2>3, FormsIn, KeyFacts DEF Room
    <3>. QED  BY <1>1, <2>4, <3>1, TypedFacts DEF Room
  <2>8. Decode[Encode[v]] = Tuple(All(Decode, All(Encode, s)))
    BY <2>4, <2>7, DecodeIs, DecodedTyped
  <2>. QED  BY <1>1, <2>3, <2>4, <2>5, <2>6, <2>7, <2>8, <2>12 DEF Sound
<1>7. CASE \E f \in Entries(S) : v = Dict(f)
  <2>1. PICK f \in Entries(S) : v = Dict(f)
    BY <1>7
  <2>2. ~SomeAt(Raises, f, Present(f))
    BY <1>2, <1>3, <2>1 DEF RefusesForms
  <2>3. /\ All(Encode, f) \in Entries(D0) /\ All(Decode, All(Encode, f)) = All(Back, f)
        /\ All(Back, f) \in Entries(S) /\ ~SomeAt(Raises, All(Back, f), Present(All(Back, f)))
        /\ All(Encode, All(Back, f)) = All(Encode, f) /\ All(Back, All(Back, f)) = All(Back, f)
    BY <1>1, <2>2, EntriesSound
  <2>4. Encode[v] = EncodedDict(All(Encode, f)) /\ Back[v] = Dict(All(Back, f))
    BY <1>2, <1>3, <2>1 DEF CodesForms
  <2>5. Back[v] \in H
    BY <2>3, <2>4, FormsIn
  <2>6. /\ Encode[Back[v]] = EncodedDict(All(Encode, All(Back, f)))
        /\ Back[Back[v]] = Dict(All(Back, All(Back, f)))
    BY <1>2, <1>3, <2>4, <2>5 DEF CodesForms
  <2>12. Raises[Back[v]] = SomeAt(Raises, All(Back, f), Present(All(Back, f)))
    <3>1. Raises[Back[v]] = RaisesBy(Raises, Back[v])
      BY <1>2, <2>5
    <3>. QED  BY <1>3, <2>4, <3>1 DEF RefusesForms
  <2>7. Encode[v] \in D2 /\ Decode[Encode[v]] = Dict(All(Decode, All(Encode, f)))
    BY <2>3, <2>4, DictCodes
  <2>. QED  BY <1>1, <2>3, <2>4, <2>5, <2>6, <2>7, <2>12 DEF Sound
<1>8. CASE \E c \in Classes, f \in Entries(S) : v = Object(c, f)
  <2>1. PICK c \in Classes, f \in Entries(S) : v = Object(c, f)
    BY <1>8
  <2>2. ~SomeAt(Raises, f, Present(f)) /\ c \notin Local
    BY <1>2, <1>3, <2>1 DEF RefusesForms
  <2>3. /\ All(Encode, f) \in Entries(D0) /\ All(Decode, All(Encode, f)) = All(Back, f)
        /\ All(Back, f) \in Entries(S) /\ ~SomeAt(Raises, All(Back, f), Present(All(Back, f)))
        /\ All(Encode, All(Back, f)) = All(Encode, f) /\ All(Back, All(Back, f)) = All(Back, f)
    BY <1>1, <2>2, EntriesSound
  <2> DEFINE d == EncodedDict(All(Encode, f))
  <2>4. Encode[v] = Typed(c, d) /\ Back[v] = Object(c, All(Back, f))
    BY <1>2, <1>3, <2>1 DEF CodesForms
  <2>5. Back[v] \in H
    BY <2>3, <2>4, FormsIn
  <2>6. /\ Encode[Back[v]] = Typed(c, EncodedDict(All(Encode, All(Back, f))))
        /\ Back[Back[v]] = Object(c, All(Back, All(Back, f)))
    BY <1>2, <1>3, <2>4, <2>5 DEF CodesForms
  <2>12. Raises[Back[v]] = (c \in Local \/ SomeAt(Raises, All(Back, f), Present(All(Back, f))))
    <3>1. Raises[Back[v]] = RaisesBy(Raises, Back[v])
      BY <1>2, <2>5
    <3>. QED  BY <1>3, <2>4, <3>1 DEF RefusesForms
  <2>7. d \in D2 /\ d.is = "dict" /\ d # Absent /\ Decode[d] = Dict(All(Decode, All(Encode, f)))
    BY <2>3, DictCodes
  <2>8. Typed(c, d) \in D3 /\ Typed(c, d) \in Data
    <3> HIDE DEF d
    <3>1. Leaf(c) \in D2
      BY KeyFacts DEF Room
    <3>. QED  BY <1>1, <2>7, <3>1, TypedFacts DEF Room
  <2>9. Decode[Typed(c, d)] = Object(c, All(Decode, All(Encode, f)))
    <3> DEFINE w == Typed(c, d)
    <3> HIDE DEF d
    <3>1. DecodedBy(Decode, w) = FromDict(c, Decode[d].at)
      BY <2>7, DecodedTyped
    <3>2. Decode[w] = DecodedBy(Decode, w)
      BY <2>8, DecodeIs
    <3>3. FromDict(c, Decode[d].at) = Object(c, Decode[d].at)
      BY CodecConstants DEF FromDict
    <3>4. Decode[d].at = All(Decode, All(Encode, f))
      BY <2>7, DictFacts
    <3>. QED  BY <3>1, <3>2, <3>3, <3>4
  <2>10. Encode[v] \in D3 /\ Decode[Encode[v]] = Back[v]
    BY <2>3, <2>4, <2>8, <2>9
  <2>11. ~Raises[Back[v]] /\ Encode[Back[v]] = Encode[v] /\ Back[Back[v]] = Back[v]
    BY <2>2, <2>3, <2>4, <2>6, <2>12
  <2>. QED  BY <2>5, <2>10, <2>11 DEF Sound
<1>9. CASE \E c \in Pydantic, f \in Entries(J) : v = Model(c, f)
  <2>1. PICK c \in Pydantic, f \in Entries(J) : v = Model(c, f)
    BY <1>9
  <2>2. Encode[v] = Typed(c, Dict(f)) /\ Back[v] = v
    BY <1>2, <1>3, <2>1 DEF CodesForms
  <2>3. Encode[v] \in D2 /\ Encode[v] \in Data
    <3>1. f \in Entries(D0)
      BY LayersGrow
    <3>2. Dict(f) \in D1 /\ Dict(f) # Absent /\ Leaf(c) \in D1
      BY <3>1, DictFacts, FormsIn, KeyFacts DEF Room
    <3>. QED  BY <1>1, <2>2, <3>2, TypedFacts DEF Room
  <2>4. Decode[Encode[v]] = v
    BY <2>1, <2>2, <2>3, DecodeIs, DecodedTyped
  <2>. QED  BY <1>1, <2>2, <2>3, <2>4 DEF Sound
<1>10. CASE \E t \in Strings, b \in Flags, p \in S : v = Failure(t, b, p)
  <2>1. PICK t \in Strings, b \in Flags, p \in S : v = Failure(t, b, p)
    BY <1>10
  <2> DEFINE Coded(e) == Typed("Failure", FailureFields(t, e))
  <2>2. ASSUME NEW w \in H, NEW u, NEW x, w = Failure(t, u, x)
        PROVE  /\ Raises[w] <=> Raises[x]
               /\ Encode[w] = Coded(Encode[x])
               /\ Back[w] = Failure(t, TRUE, Back[x])
    <3>1. w.is = "failure" /\ w.type = t /\ w.item = x
      BY <2>2 DEF Failure
    <3>2. RaisesBy(Raises, w) = Raises[x]
      BY <3>1 DEF RaisesBy
    <3>3. EncodedBy(Encode, w) = Coded(Encode[x]) /\ BackBy(Back, w) = Failure(t, TRUE, Back[x])
      BY <3>1 DEF EncodedBy, BackBy
    <3>. QED  BY <1>2, <3>2, <3>3
  <2>3. Sound(p, D0, S)
    <3>1. ~Raises[p]
      <4>1. v \in H /\ v = Failure(t, b, p)
        BY <2>1
      <4>2. Raises[v] <=> Raises[p]
        BY <2>2, <4>1
      <4>. QED  BY <4>2
    <3>. QED  BY <3>1 DEF PartsSound
  <2> DEFINE e == Encode[p]
             q == Back[p]
             g == Pairs("type", Leaf(t), "item", e)
             d == FailureFields(t, e)
  <2>4. /\ e \in D0 /\ e # Absent /\ Decode[e] = q /\ q \in S
        /\ ~Raises[q] /\ Encode[q] = e /\ Back[q] = q
    BY <1>1, <2>3 DEF Sound
  <2>5. Encode[v] = Typed("Failure", d) /\ Back[v] = Failure(t, TRUE, q)
    BY <2>1, <2>2
  <2>6. Back[v] \in H
    <3>1. TRUE \in Flags
      BY DEF Flags
    <3> HIDE DEF q
    <3>. QED  BY <2>4, <2>5, <3>1, FormsIn
  <2>7. ~Raises[Back[v]] /\ Encode[Back[v]] = Encode[v] /\ Back[Back[v]] = Back[v]
    <3> DEFINE w == Back[v]
    <3>1. w \in H /\ w = Failure(t, TRUE, q)
      BY <2>5, <2>6
    <3> HIDE DEF w, e, q, Coded
    <3>2. /\ Raises[w] <=> Raises[q]
          /\ Encode[w] = Coded(Encode[q])
          /\ Back[w] = Failure(t, TRUE, Back[q])
      BY <2>2, <3>1
    <3>3. Encode[v] = Coded(e) /\ Back[v] = w
      BY <2>5 DEF Coded, w
    <3>. QED  BY <2>4, <3>1, <3>2, <3>3
  <2> HIDE DEF e, q
  <2>8. /\ g \in Entries(D0) /\ g["$type"] = Absent /\ g["type"] = Leaf(t) /\ g["item"] = e
        /\ DOMAIN g = Keys
    <3>1. Leaf(t) \in D0 /\ Leaf(t) # Absent
      BY LeafFacts DEF Room
    <3>. QED  BY <2>4, <3>1, KeyFacts, PairFacts
  <2>9. d = Dict(g)
    BY DEF FailureFields
  <2> HIDE DEF d, g
  <2>10. /\ d \in D1 /\ d \in Data /\ d.is = "dict" /\ d # Absent
         /\ Typed("Failure", d) \in D2 /\ Typed("Failure", d) \in Data
    <3>1. d \in D1 /\ d.is = "dict" /\ d # Absent
      BY <2>8, <2>9, DictFacts, FormsIn DEF Room
    <3>2. Leaf("Failure") \in D1
      BY KeyFacts DEF Room
    <3>3. Typed("Failure", d) \in D2
      BY <3>1, <3>2, TypedFacts DEF Room
    <3>. QED  BY <1>1, <3>1, <3>3
  <2>11. Decode[d].at["type"] = Leaf(t) /\ Decode[d].at["item"] = q
    <3>1. Decode[d] = Dict(All(Decode, g))
      BY <2>8, <2>9, <2>10, DecodeIs, DecodedPlain
    <3>2. Decode[d].at = All(Decode, g)
      BY <3>1, DictFacts
    <3>3. All(Decode, g)["type"] = Decode[Leaf(t)] /\ All(Decode, g)["item"] = Decode[e]
      <4>1. Leaf(t) # Absent /\ "type" \in DOMAIN g /\ "item" \in DOMAIN g
        BY <2>8, KeyFacts, LeafFacts
      <4>. QED  BY <2>4, <2>8, <4>1, AllOf
    <3>4. Decode[Leaf(t)] = Leaf(t)
      <4>1. Leaf(t) \in Data
        BY <1>1 DEF Room
      <4>. QED  BY <4>1, DecodeIs, DecodedLeaf
    <3>. QED  BY <2>4, <3>2, <3>3, <3>4
  <2>12. Decode[Typed("Failure", d)] = Failure(t, TRUE, q)
    <3> DEFINE w == Typed("Failure", d)
    <3>1. DecodedBy(Decode, w) = FromDict("Failure", Decode[d].at)
      BY <2>10, DecodedTyped
    <3>2. w \in Data
      BY <2>10
    <3>3. FromDict("Failure", Decode[d].at) = Failure(t, TRUE, q)
      <4>1. Leaf(t).leaf = t
        BY LeafFacts
      <4>. QED  BY <2>11, <4>1 DEF FromDict
    <3> HIDE DEF w
    <3>4. Decode[w] = Failure(t, TRUE, q)
      BY <3>1, <3>2, <3>3, DecodeIs
    <3>. QED  BY <3>4 DEF w
  <2>. QED  BY <1>1, <2>5, <2>6, <2>7, <2>10, <2>12 DEF Sound
<1>11. CASE v = Alien
  BY <1>2, <1>3, <1>11 DEF RefusesForms
<1>. QED  BY <1>4, <1>5, <1>6, <1>7, <1>8, <1>9, <1>10, <1>11, Forms

LEMMA AllSound == \A v \in Held : ~Raises[v] => Sound(v, Data, Held)
<1> DEFINE SoundAt(n) == \A v \in Layer[n].held : ~Raises[v] => Sound(v, Layer[3 * n + 3].json, Layer[n].held)
           T == {n \in 0..Nesting : ~SoundAt(n)}
<1>1. Nesting \in Nat /\ Top \in Nat /\ Nesting <= Top
  BY CodecConstants DEF Top
<1>2. T = {}
  <2> SUFFICES ASSUME T # {} PROVE FALSE
    OBVIOUS
  <2>1. PICK m \in T : \A k \in T : ~ (k < m)
    <3>1. T \in SUBSET Nat
      BY <1>1
    <3> HIDE DEF T
    <3>. QED  BY <3>1, LeastOf
  <2>2. m \in 0..Nesting /\ ~SoundAt(m) /\ m \in 0..Top
    BY <1>1, <2>1
  <2> DEFINE S == Below(m).held
             J == Below(m).json
             D0 == Layer[3 * m].json
             D1 == Layer[3 * m + 1].json
             D2 == Layer[3 * m + 2].json
             D3 == Layer[3 * m + 3].json
  <2>3. Room(D0, D1, D2, D3) /\ J \subseteq D0
    BY <2>2, RoomFor
  <2>4. PartsSound(S, D0) /\ Absent \notin S
    <3>1. CASE m = 0
      <4>1. S = {}
        BY <3>1 DEF Below
      <4>. QED  BY <4>1 DEF PartsSound
    <3>2. CASE m # 0
      <4>1. m - 1 \in 0..Nesting /\ m - 1 < m /\ m - 1 \in 0..Top /\ 3 * (m - 1) + 3 = 3 * m
        BY <1>1, <2>2, <3>2
      <4>2. SoundAt(m - 1)
        <5>1. m - 1 \notin T
          BY <2>1, <4>1
        <5>. QED  BY <4>1, <5>1
      <4>3. S = Layer[m - 1].held
        BY <3>2 DEF Below
      <4>4. Absent \notin Layer[m - 1].held
        BY <4>1, LayerParts, NoneAbsent
      <4>. QED  BY <4>1, <4>2, <4>3, <4>4 DEF PartsSound
    <3>. QED  BY <3>1, <3>2
  <2>5. Layer[m].held = ValueOver(S, J)
    BY <2>2, LayerParts
  <2>6. ValueOver(S, J) \subseteq Held
    <3>1. Nesting \in 0..Top /\ m \in 0..Nesting
      BY <1>1, <2>2
    <3>2. Layer[m].held \subseteq Held
      BY <3>1, LayersWithin DEF Held
    <3>. QED  BY <2>5, <3>2
  <2>7. SoundAt(m)
    <3> HIDE DEF S, J, D0, D1, D2
    <3>1. \A v \in ValueOver(S, J) : ~Raises[v] => Sound(v, D3, ValueOver(S, J))
      <4> HIDE DEF D3
      <4>. QED  BY <2>3, <2>4, <2>6, FormSound
    <3>. QED  BY <2>5, <3>1
  <2>. QED  BY <2>2, <2>7
<1>3. SoundAt(Nesting)
  <2>1. Nesting \in 0..Nesting
    BY <1>1
  <2>. QED  BY <1>2, <2>1
<1>. QED  BY <1>3 DEF Data, Held

(* A value is refused just when a part of it cannot come back. *)
Tells(v) == Raises[v] <=> \E part \in Parts[v] : CannotComeBack(part)
PartsTell(S) == \A p \in S : Tells(p)

LEMMA AndTells ==
  ASSUME NEW v, NEW P
  PROVE  (\E part \in And(v, P) : CannotComeBack(part))
           <=> (CannotComeBack(v) \/ \E part \in P : CannotComeBack(part))
BY DEF And

LEMMA PartsAtTell ==
  ASSUME NEW g, NEW D, \A k \in D : Tells(g[k])
  PROVE  SomeAt(Raises, g, D) <=> \E part \in PartsAt(Parts, g, D) : CannotComeBack(part)
BY DEF SomeAt, PartsAt, Tells

LEMMA FormTells ==
  ASSUME NEW S, NEW J, PartsTell(S), ValueOver(S, J) \subseteq Held, NEW v \in ValueOver(S, J)
  PROVE  Tells(v)
<1>1. /\ Raises[v] = RaisesBy(Raises, v) /\ Parts[v] = PartsBy(Parts, v)
  BY CodeIs
<1>2. RefusesForms(Raises) /\ SplitsForms(Parts)
  BY RaisesForm, PartsForm
<1>3. CASE \E x \in Strings : v = Leaf(x)
  <2>1. PICK x \in Strings : v = Leaf(x)
    BY <1>3
  <2>2. Raises[v] = FALSE /\ Parts[v] = And(v, {})
    BY <1>1, <1>2, <2>1 DEF RefusesForms, SplitsForms
  <2>3. ~CannotComeBack(v)
    BY <2>1 DEF CannotComeBack, Leaf
  <2>. QED  BY <2>2, <2>3, AndTells DEF Tells
<1>4. CASE \E s \in Seq(S) : v = List(s) \/ v = Tuple(s)
  <2>1. PICK s \in Seq(S) : v = List(s) \/ v = Tuple(s)
    BY <1>4
  <2>2. Raises[v] = SomeAt(Raises, s, DOMAIN s) /\ Parts[v] = And(v, PartsAt(Parts, s, DOMAIN s))
    BY <1>1, <1>2, <2>1 DEF RefusesForms, SplitsForms
  <2>3. ~CannotComeBack(v)
    BY <2>1 DEF CannotComeBack, List, Tuple
  <2>4. \A i \in DOMAIN s : Tells(s[i])
    <3>1. \A i \in DOMAIN s : s[i] \in S
      OBVIOUS
    <3>. QED  BY <3>1 DEF PartsTell
  <2>. QED  BY <2>2, <2>3, <2>4, AndTells, PartsAtTell DEF Tells
<1>5. CASE \E f \in Entries(S) : v = Dict(f)
  <2>1. PICK f \in Entries(S) : v = Dict(f)
    BY <1>5
  <2>2. Raises[v] = SomeAt(Raises, f, Present(f)) /\ Parts[v] = And(v, PartsAt(Parts, f, Present(f)))
    BY <1>1, <1>2, <2>1 DEF RefusesForms, SplitsForms
  <2>3. ~CannotComeBack(v)
    BY <2>1 DEF CannotComeBack, Dict
  <2>4. \A k \in Present(f) : Tells(f[k])
    BY DEF Present, Entries, PartsTell
  <2>. QED  BY <2>2, <2>3, <2>4, AndTells, PartsAtTell DEF Tells
<1>6. CASE \E c \in Classes, f \in Entries(S) : v = Object(c, f)
  <2>1. PICK c \in Classes, f \in Entries(S) : v = Object(c, f)
    BY <1>6
  <2>2. /\ Raises[v] = (c \in Local \/ SomeAt(Raises, f, Present(f)))
        /\ Parts[v] = And(v, PartsAt(Parts, f, Present(f)))
    BY <1>1, <1>2, <2>1 DEF RefusesForms, SplitsForms
  <2>3. CannotComeBack(v) <=> c \in Local
    BY <2>1 DEF CannotComeBack, Object
  <2>4. \A k \in Present(f) : Tells(f[k])
    BY DEF Present, Entries, PartsTell
  <2>. QED  BY <2>2, <2>3, <2>4, AndTells, PartsAtTell DEF Tells
<1>7. CASE \E c \in Pydantic, f \in Entries(J) : v = Model(c, f)
  <2>1. PICK c \in Pydantic, f \in Entries(J) : v = Model(c, f)
    BY <1>7
  <2>2. Raises[v] = (c \in Local) /\ Parts[v] = And(v, {})
    BY <1>1, <1>2, <2>1 DEF RefusesForms, SplitsForms
  <2>3. CannotComeBack(v) <=> c \in Local
    BY <2>1 DEF CannotComeBack, Model
  <2>4. (\E part \in Parts[v] : CannotComeBack(part)) <=> CannotComeBack(v)
    BY <2>2, AndTells
  <2>5. Raises[v] <=> c \in Local
    BY <2>2
  <2>. QED  BY <2>3, <2>4, <2>5 DEF Tells
<1>8. CASE \E t \in Strings, b \in Flags, p \in S : v = Failure(t, b, p)
  <2>1. PICK t \in Strings, b \in Flags, p \in S : v = Failure(t, b, p)
    BY <1>8
  <2>2. Parts[v] = And(v, Parts[p])
    BY <1>1, <1>2, <2>1 DEF SplitsForms
  <2>3. Raises[v] <=> Raises[p]
    <3>1. v.is = "failure" /\ v.item = p
      BY <2>1 DEF Failure
    <3>2. RaisesBy(Raises, v) = Raises[p]
      BY <3>1 DEF RaisesBy
    <3>. QED  BY <1>1, <3>2
  <2>4. ~CannotComeBack(v)
    BY <2>1 DEF CannotComeBack, Failure
  <2>5. Tells(p)
    BY DEF PartsTell
  <2>. QED  BY <2>2, <2>3, <2>4, <2>5, AndTells DEF Tells
<1>9. CASE v = Alien
  <2>1. Raises[v] = TRUE /\ Parts[v] = And(v, {})
    BY <1>1, <1>2, <1>9 DEF RefusesForms, SplitsForms
  <2>2. CannotComeBack(v)
    BY <1>9 DEF CannotComeBack, Alien
  <2>. QED  BY <2>1, <2>2, AndTells DEF Tells
<1>. QED  BY <1>3, <1>4, <1>5, <1>6, <1>7, <1>8, <1>9, Forms

LEMMA AllTell == \A v \in Held : Tells(v)
<1> DEFINE T == {n \in 0..Nesting : ~PartsTell(Layer[n].held)}
<1>1. Nesting \in Nat /\ Top \in Nat /\ Nesting <= Top
  BY CodecConstants DEF Top
<1>2. T = {}
  <2> SUFFICES ASSUME T # {} PROVE FALSE
    OBVIOUS
  <2>1. PICK m \in T : \A k \in T : ~ (k < m)
    <3>1. T \in SUBSET Nat
      BY <1>1
    <3> HIDE DEF T
    <3>. QED  BY <3>1, LeastOf
  <2>2. m \in 0..Nesting /\ ~PartsTell(Layer[m].held) /\ m \in 0..Top
    BY <1>1, <2>1
  <2> DEFINE S == Below(m).held
             J == Below(m).json
  <2>3. PartsTell(S)
    <3>1. CASE m = 0
      <4>1. S = {}
        BY <3>1 DEF Below
      <4>. QED  BY <4>1 DEF PartsTell
    <3>2. CASE m # 0
      <4>1. m - 1 \in 0..Nesting /\ m - 1 < m
        BY <1>1, <2>2, <3>2
      <4>2. PartsTell(Layer[m - 1].held)
        <5>1. m - 1 \notin T
          BY <2>1, <4>1
        <5>. QED  BY <4>1, <5>1
      <4>3. S = Layer[m - 1].held
        BY <3>2 DEF Below
      <4>. QED  BY <4>2, <4>3
    <3>. QED  BY <3>1, <3>2
  <2>4. Layer[m].held = ValueOver(S, J)
    BY <2>2, LayerParts
  <2>5. ValueOver(S, J) \subseteq Held
    <3>1. Nesting \in 0..Top /\ m \in 0..Nesting
      BY <1>1, <2>2
    <3>2. Layer[m].held \subseteq Held
      BY <3>1, LayersWithin DEF Held
    <3>. QED  BY <2>4, <3>2
  <2> HIDE DEF S, J
  <2>6. PartsTell(Layer[m].held)
    BY <2>3, <2>4, <2>5, FormTells DEF PartsTell
  <2>. QED  BY <2>2, <2>6
<1>3. PartsTell(Layer[Nesting].held)
  <2>1. Nesting \in 0..Nesting
    BY <1>1
  <2>. QED  BY <1>2, <2>1
<1>. QED  BY <1>3 DEF PartsTell, Held


-----------------------------------------------------------------------------
(* What the run holds is what it held at first, or after a resume what comes
   back of it; what a checkpoint stores is the code of what it held at first. *)
CodecInv ==
  /\ kept \in [first : Held, saves : Nat]
  /\ slot.at = "live" => slot.value = IF kept.saves = 0 THEN kept.first ELSE Back[kept.first]
  /\ slot.at = "live" /\ kept.saves # 0 => ~Raises[kept.first]
  /\ slot.at = "stored" => ~Raises[kept.first] /\ kept.saves # 0 /\ slot.value = Encode[kept.first]
  /\ slot.at = "raised" => Raises[kept.first]

LEMMA AlienHeld == Alien \in Held
<1>1. Nesting \in 0..Top
  BY CodecConstants DEF Top
<1>2. Held = ValueOver(Below(Nesting).held, Below(Nesting).json)
  BY <1>1, LayerParts DEF Held
<1>. QED  BY <1>2 DEF ValueOver

LEMMA CodecInits == CodecInit => CodecInv
BY AlienHeld DEF CodecInit, CodecInv, Empty

LEMMA CodecSteps == CodecInv /\ [CodecNext]_codecVars => CodecInv'
<1> SUFFICES ASSUME CodecInv, [CodecNext]_codecVars PROVE CodecInv'
  OBVIOUS
<1>0. kept \in [first : Held, saves : Nat] /\ kept.first \in Held /\ kept.saves \in Nat
  BY DEF CodecInv
<1>1. ASSUME NEW v \in Values, Hold(v) PROVE CodecInv'
  <2>1. v \in Held
    BY CodecConstants
  <2>2. slot'.at = "live" /\ slot'.value = v /\ kept' = [first |-> v, saves |-> 0]
    BY <1>1 DEF Hold
  <2>. QED  BY <2>1, <2>2 DEF CodecInv
<1>2. CASE Save
  <2>1. /\ slot.at = "live" /\ ~Raises[slot.value] /\ slot'.at = "stored" /\ slot'.value = Encode[slot.value]
        /\ kept' = [kept EXCEPT !.saves = kept.saves + 1]
    BY <1>2 DEF Save
  <2>2. kept' \in [first : Held, saves : Nat] /\ kept'.first = kept.first /\ kept'.saves # 0
    BY <1>0, <2>1
  <2>3. ~Raises[kept.first] /\ Encode[slot.value] = Encode[kept.first]
    <3>1. CASE kept.saves = 0
      BY <2>1, <3>1 DEF CodecInv
    <3>2. CASE kept.saves # 0
      <4>1. ~Raises[kept.first] /\ slot.value = Back[kept.first]
        BY <2>1, <3>2 DEF CodecInv
      <4>2. Sound(kept.first, Data, Held)
        BY <1>0, <4>1, AllSound
      <4>. QED  BY <4>1, <4>2 DEF Sound
    <3>. QED  BY <3>1, <3>2
  <2>. QED  BY <2>1, <2>2, <2>3 DEF CodecInv
<1>3. CASE SaveRaises
  <2>1. slot.at = "live" /\ Raises[slot.value] /\ slot'.at = "raised" /\ kept' = kept
    BY <1>3 DEF SaveRaises
  <2>2. Raises[kept.first]
    <3>1. CASE kept.saves = 0
      BY <2>1, <3>1 DEF CodecInv
    <3>2. CASE kept.saves # 0
      <4>1. ~Raises[kept.first] /\ slot.value = Back[kept.first]
        BY <2>1, <3>2 DEF CodecInv
      <4>2. Sound(kept.first, Data, Held)
        BY <1>0, <4>1, AllSound
      <4>. QED  BY <2>1, <4>1, <4>2 DEF Sound
    <3>. QED  BY <3>1, <3>2
  <2>. QED  BY <1>0, <2>1, <2>2 DEF CodecInv
<1>4. CASE Resume
  <2>1. slot.at = "stored" /\ slot'.at = "live" /\ slot'.value = Decode[slot.value] /\ kept' = kept
    BY <1>4 DEF Resume
  <2>2. ~Raises[kept.first] /\ kept.saves # 0 /\ slot.value = Encode[kept.first]
    BY <2>1 DEF CodecInv
  <2>3. Sound(kept.first, Data, Held)
    BY <1>0, <2>2, AllSound
  <2>4. slot'.value = Back[kept.first]
    BY <2>1, <2>2, <2>3 DEF Sound
  <2>. QED  BY <1>0, <2>1, <2>2, <2>4 DEF CodecInv
<1>5. CASE Drops
  BY <1>5, AlienHeld DEF Drops, CodecInv, Empty
<1>6. CASE UNCHANGED codecVars
  BY <1>6 DEF codecVars, CodecInv
<1>. QED  BY <1>1, <1>2, <1>3, <1>4, <1>5, <1>6 DEF CodecNext

LEMMA CodecTells == CodecInv => ValuesSurvive
<1> SUFFICES ASSUME CodecInv PROVE ValuesSurvive
  OBVIOUS
<1>1. kept.first \in Held /\ Tells(kept.first)
  BY AllTell DEF CodecInv
<1>2. slot.at = "stored" => slot.value \in Data /\ ~Raises[kept.first]
  BY <1>1, AllSound DEF CodecInv, Sound
<1>. QED  BY <1>1, <1>2 DEF CodecInv, ValuesSurvive, Tells

(* A value that was stored comes back as it was, over any number of resumes:
   what a part of which cannot come back is not stored, and all else is. *)
THEOREM ValuesReturn == CodecSpec => []ValuesSurvive
<1>1. CodecInit => CodecInv
  BY CodecInits
<1>2. CodecInv /\ [CodecNext]_codecVars => CodecInv'
  BY CodecSteps
<1>3. CodecInv => ValuesSurvive
  BY CodecTells
<1>. QED  BY <1>1, <1>2, <1>3, PTL DEF CodecSpec


-----------------------------------------------------------------------------
(* The run's specification is the three side by side: each part's behaviours
   are those of its own, so what is proved of them holds of it. *)
THEOREM EachPart == RecordsSpec => Spec /\ PricingSpec /\ CodecSpec
<1> DEFINE all == <<vars, event, codecVars>>
<1>1. RecordsInit => Init /\ PricingInit /\ CodecInit
  BY DEF RecordsInit
<1>2. [RecordsNext]_all => [Next]_vars
  BY DEF RecordsNext, CostsRest
<1>3. [RecordsNext]_all => [PricingNext]_event
  BY DEF RecordsNext, PricingRests
<1>4. [RecordsNext]_all => [CodecNext]_codecVars
  BY DEF RecordsNext, CodecRests
<1>. QED  BY <1>1, <1>2, <1>3, <1>4, PTL DEF RecordsSpec, Spec, PricingSpec, CodecSpec
=============================================================================

---------------------------- MODULE DataLemmas -----------------------------
(* What the proofs of several components need to know about data: sums over  *)
(* a finite set, lines in which everybody stands once, and ranks in a set of *)
(* numbers.                                                                  *)
EXTENDS Integers, SequencesExt, FiniteSetTheorems, SequenceTheorems, WellFoundedInduction, TLAPS

-----------------------------------------------------------------------------
(* Sums.                                                                     *)

Choice(T) == CHOOSE x \in T : TRUE
Unfolds(g, h, S) ==
  \A T \in SUBSET S : g[T] = IF T = {} THEN 0 ELSE h[Choice(T)] + g[T \ {Choice(T)}]
AddsUp(g, h, S) == g \in [SUBSET S -> Int] /\ Unfolds(g, h, S)

(* What is chosen from a set with members is one of them.                    *)
LEMMA ChoiceIn == ASSUME NEW T, T # {} PROVE Choice(T) \in T
  BY DEF Choice

(* A family of subsets of a finite set has one with none of the family below. *)
LEMMA SmallestSubset ==
  ASSUME NEW S, IsFiniteSet(S), NEW Bad \in SUBSET SUBSET S, Bad # {}
  PROVE  \E T \in Bad : \A U \in Bad : U \subseteq T => U = T
<1>1. IsWellFoundedOn(StrictSubsetOrdering(S), FiniteSubsetsOf(S))
  BY FS_StrictSubsetOrderingWellFounded
<1>2. Bad \subseteq FiniteSubsetsOf(S)
  BY FS_Subset DEF FiniteSubsetsOf
<1>3. \E T \in Bad : \A U \in Bad : <<U, T>> \notin StrictSubsetOrdering(S)
  BY <1>1, <1>2, WFMin
<1>. QED BY <1>2, <1>3 DEF StrictSubsetOrdering, FiniteSubsetsOf

(* Two functions that unfold the same sum agree on the subsets both cover.   *)
LEMMA AddsUpOnce ==
  ASSUME NEW S, NEW R, IsFiniteSet(S), NEW h, NEW g, NEW k, Unfolds(g, h, S), Unfolds(k, h, R)
  PROVE  \A T \in SUBSET S : T \subseteq R => g[T] = k[T]
<1> DEFINE Bad == {T \in SUBSET S : T \subseteq R /\ g[T] # k[T]}
<1>1. SUFFICES ASSUME Bad # {} PROVE FALSE
  OBVIOUS
<1>2. PICK T \in Bad : \A U \in Bad : U \subseteq T => U = T
  <2>1. Bad \in SUBSET SUBSET S
    OBVIOUS
  <2> HIDE DEF Bad
  <2>. QED BY <1>1, <2>1, SmallestSubset
<1>3. CASE T = {}
  BY <1>3 DEF Unfolds
<1>4. CASE T # {}
  <2>1. Choice(T) \in T
    BY <1>4, ChoiceIn
  <2>2. T \ {Choice(T)} \notin Bad
    BY <1>2, <2>1
  <2>3. g[T \ {Choice(T)}] = k[T \ {Choice(T)}]
    BY <2>2
  <2>4. g[T] = h[Choice(T)] + g[T \ {Choice(T)}]
    BY <1>4 DEF Unfolds
  <2>5. k[T] = h[Choice(T)] + k[T \ {Choice(T)}]
    BY <1>4 DEF Unfolds
  <2>. QED BY <2>3, <2>4, <2>5
<1>. QED BY <1>3, <1>4

(* A finite set of integers can be added up.                                 *)
LEMMA AddsUpExists ==
  ASSUME NEW S, IsFiniteSet(S), NEW h \in [S -> Int]
  PROVE  \E g : AddsUp(g, h, S)
<1> DEFINE Bad == {T \in SUBSET S : ~\E g : AddsUp(g, h, T)}
<1>1. SUFFICES ASSUME Bad # {} PROVE FALSE
  OBVIOUS
<1>2. PICK T \in Bad : \A U \in Bad : U \subseteq T => U = T
  <2>1. Bad \in SUBSET SUBSET S
    OBVIOUS
  <2> HIDE DEF Bad
  <2>. QED BY <1>1, <2>1, SmallestSubset
<1>3. \A U \in SUBSET T : U # T => \E g : AddsUp(g, h, U)
  BY <1>2
<1> DEFINE part(U) == CHOOSE g : AddsUp(g, h, U)
           whole == [U \in SUBSET T |->
             IF U # T THEN part(U)[U]
             ELSE IF T = {} THEN 0 ELSE h[Choice(T)] + part(T \ {Choice(T)})[T \ {Choice(T)}]]
<1>4. ASSUME NEW U \in SUBSET T, U # T PROVE AddsUp(part(U), h, U)
  <2>1. \E g : AddsUp(g, h, U)
    BY <1>3, <1>4
  <2>. QED BY <2>1, Zenon
<1>5. \A U \in SUBSET T : U # {} => Choice(U) \in U /\ U \ {Choice(U)} \in SUBSET T /\ U \ {Choice(U)} # T
  BY ChoiceIn
<1> HIDE DEF part
<1>6. \A U \in SUBSET T : U # T => part(U)[U] \in Int
  BY <1>4 DEF AddsUp, Unfolds
<1>7. whole \in [SUBSET T -> Int]
  <2>1. T # {} => h[Choice(T)] \in Int
    BY <1>5
  <2>. QED BY <1>6, <1>5, <2>1
<1>8. \A U \in SUBSET T : U # T => whole[U] = IF U = {} THEN 0 ELSE h[Choice(U)] + whole[U \ {Choice(U)}]
  <2> SUFFICES ASSUME NEW U \in SUBSET T, U # T
               PROVE whole[U] = IF U = {} THEN 0 ELSE h[Choice(U)] + whole[U \ {Choice(U)}]
    OBVIOUS
  <2>1. part(U)[U] = IF U = {} THEN 0 ELSE h[Choice(U)] + part(U)[U \ {Choice(U)}]
    BY <1>4 DEF AddsUp, Unfolds
  <2>2. CASE U # {}
    <3> DEFINE V == U \ {Choice(U)}
    <3>1. V \in SUBSET U /\ V # T /\ V \in SUBSET T
      BY <1>5, <2>2
    <3>2. IsFiniteSet(U) /\ IsFiniteSet(V)
      BY <3>1, FS_Subset
    <3>3. AddsUp(part(U), h, U) /\ AddsUp(part(V), h, V)
      BY <1>4, <3>1
    <3> HIDE DEF V
    <3>4. part(U)[V] = part(V)[V]
      BY <3>1, <3>2, <3>3, AddsUpOnce DEF AddsUp
    <3>. QED BY <2>1, <2>2, <3>1, <3>4 DEF V
  <2>. QED BY <2>1, <2>2
<1>9. whole[T] = IF T = {} THEN 0 ELSE h[Choice(T)] + whole[T \ {Choice(T)}]
  BY <1>5
<1>10. AddsUp(whole, h, T)
  <2> HIDE DEF whole
  <2>. QED BY <1>7, <1>8, <1>9 DEF AddsUp, Unfolds
<1>. QED BY <1>2, <1>10

(* Any member may be taken out first: the sum does not depend on the order.  *)
LEMMA AddsUpInAnyOrder ==
  ASSUME NEW S, IsFiniteSet(S), NEW h \in [S -> Int], NEW g, AddsUp(g, h, S)
  PROVE  \A T \in SUBSET S : \A x \in T : g[T] = h[x] + g[T \ {x}]
<1> DEFINE Bad == {T \in SUBSET S : \E x \in T : g[T] # h[x] + g[T \ {x}]}
<1>1. SUFFICES ASSUME Bad # {} PROVE FALSE
  OBVIOUS
<1>2. PICK T \in Bad : \A U \in Bad : U \subseteq T => U = T
  <2>1. Bad \in SUBSET SUBSET S
    OBVIOUS
  <2> HIDE DEF Bad
  <2>. QED BY <1>1, <2>1, SmallestSubset
<1>3. PICK x \in T : g[T] # h[x] + g[T \ {x}]
  OBVIOUS
<1> DEFINE c == Choice(T)
<1>4. c \in T
  BY <1>3, ChoiceIn
<1>5. g[T] = h[c] + g[T \ {c}]
  BY <1>4 DEF AddsUp, Unfolds
<1>6. CASE x = c
  BY <1>3, <1>5, <1>6
<1>7. CASE x # c
  <2>1. T \ {c} \in (SUBSET S) \ Bad /\ T \ {x} \in (SUBSET S) \ Bad
    BY <1>2, <1>4
  <2>2. x \in T \ {c} /\ c \in T \ {x}
    BY <1>4, <1>7
  <2> HIDE DEF c
  <2>3. g[T \ {c}] = h[x] + g[(T \ {c}) \ {x}]
    BY <2>1, <2>2
  <2>4. g[T \ {x}] = h[c] + g[(T \ {x}) \ {c}]
    BY <2>1, <2>2
  <2>5. (T \ {c}) \ {x} = (T \ {x}) \ {c}
    OBVIOUS
  <2>6. g[(T \ {c}) \ {x}] \in Int /\ h[x] \in Int /\ h[c] \in Int
    BY <1>4 DEF AddsUp, Unfolds
  <2>7. g[T] # h[x] + g[T \ {x}]
    BY <1>3
  <2> HIDE DEF Bad
  <2>8. g[(T \ {c}) \ {x}] = g[(T \ {x}) \ {c}]
    BY <2>5
  <2>9. \A a, b, d, m \in Int : \A t, u : t = a + u /\ u = b + d /\ m = a + d => t = b + m
    OBVIOUS
  <2>10. g[T] = h[c] + g[T \ {c}] /\ g[T \ {x}] \in Int
    <3>1. T \ {x} \in SUBSET S
      BY <2>1
    <3>. QED BY <1>5, <3>1 DEF AddsUp
  <2> DEFINE d == g[(T \ {c}) \ {x}]
             t == g[T]   u == g[T \ {c}]   m == g[T \ {x}]   hc == h[c]   hx == h[x]
  <2>11. t = hc + u /\ u = hx + d /\ m = hc + d /\ t # hx + m
         /\ d \in Int /\ hc \in Int /\ hx \in Int /\ m \in Int
    BY <2>3, <2>4, <2>6, <2>7, <2>8, <2>10
  <2> HIDE DEF d, t, u, m, hc, hx
  <2>. QED BY <2>9, <2>11
<1>. QED BY <1>6, <1>7

(* The total of a function over a set. *)
Total(h, S) == (CHOOSE g : AddsUp(g, h, S))[S]

(* The total is one that adds up.                                            *)
LEMMA TotalDefined ==
  ASSUME NEW S, IsFiniteSet(S), NEW h \in [S -> Int]
  PROVE  AddsUp(CHOOSE g : AddsUp(g, h, S), h, S)
<1>1. \E g : AddsUp(g, h, S)
  BY AddsUpExists
<1>. QED BY <1>1, Zenon

(* Sums over subsets without x do not see a change at x.                     *)
LEMMA AgreeAway ==
  ASSUME NEW S, IsFiniteSet(S), NEW h, NEW k, NEW f, NEW g, AddsUp(f, h, S), AddsUp(g, k, S),
         NEW x, \A y \in S : y # x => h[y] = k[y]
  PROVE  \A T \in SUBSET S : x \notin T => f[T] = g[T]
<1> DEFINE Bad == {T \in SUBSET S : x \notin T /\ f[T] # g[T]}
<1>1. SUFFICES ASSUME Bad # {} PROVE FALSE
  OBVIOUS
<1>2. PICK T \in Bad : \A U \in Bad : U \subseteq T => U = T
  <2>1. Bad \in SUBSET SUBSET S
    OBVIOUS
  <2> HIDE DEF Bad
  <2>. QED BY <1>1, <2>1, SmallestSubset
<1>3. CASE T = {}
  BY <1>3 DEF AddsUp, Unfolds
<1>4. CASE T # {}
  <2>1. Choice(T) \in T
    BY <1>4, ChoiceIn
  <2>2. T \ {Choice(T)} \notin Bad
    BY <1>2, <2>1
  <2>3. f[T \ {Choice(T)}] = g[T \ {Choice(T)}]
    BY <2>2
  <2>4. f[T] = h[Choice(T)] + f[T \ {Choice(T)}] /\ g[T] = k[Choice(T)] + g[T \ {Choice(T)}]
    BY <1>4 DEF AddsUp, Unfolds
  <2>. QED BY <2>1, <2>3, <2>4
<1>. QED BY <1>3, <1>4

(* A change at one member moves the total by that change.                    *)
LEMMA TotalMoves ==
  ASSUME NEW S, IsFiniteSet(S), NEW h \in [S -> Int], NEW k \in [S -> Int],
         NEW x \in S, \A y \in S : y # x => h[y] = k[y]
  PROVE  Total(k, S) = Total(h, S) + k[x] - h[x] /\ Total(h, S) \in Int
<1>1. PICK f : f = CHOOSE ff : AddsUp(ff, h, S)
  OBVIOUS
<1>2. PICK g : g = CHOOSE gg : AddsUp(gg, k, S)
  OBVIOUS
<1>3. AddsUp(f, h, S) /\ AddsUp(g, k, S)
  BY <1>1, <1>2, TotalDefined
<1>4. f[S] = h[x] + f[S \ {x}] /\ g[S] = k[x] + g[S \ {x}]
  BY <1>3, AddsUpInAnyOrder
<1>5. f[S \ {x}] = g[S \ {x}]
  BY <1>3, AgreeAway
<1>6. f[S \ {x}] \in Int /\ f[S] \in Int
  BY <1>3 DEF AddsUp, Unfolds
<1>. QED BY <1>1, <1>2, <1>4, <1>5, <1>6 DEF Total

(* SumFunction of the community modules is that total.                       *)
LEMMA SumIsTotal ==
  ASSUME NEW S, IsFiniteSet(S), NEW h \in [S -> Int]
  PROVE  SumFunction(h) = Total(h, S)
<1> DEFINE F == CHOOSE iter : iter = [s \in SUBSET S |->
                  IF s = {} THEN 0 ELSE LET x == CHOOSE x \in s : TRUE
                                        IN h[x] + iter[s \ {x}]]
<1>1. SumFunction(h) = FoldFunctionOnSet(+, 0, h, S)
  BY DEF SumFunction, SumFunctionOnSet
<1>2. FoldFunctionOnSet(+, 0, h, S) = F[S]
  BY DEF FoldFunctionOnSet, MapThenFoldSet
<1>3. PICK g : g = CHOOSE gg : AddsUp(gg, h, S)
  OBVIOUS
<1>4. AddsUp(g, h, S)
  BY <1>3, TotalDefined
<1>5. g = [s \in SUBSET S |-> IF s = {} THEN 0 ELSE LET x == CHOOSE x \in s : TRUE
                                                   IN h[x] + g[s \ {x}]]
  BY <1>4 DEF AddsUp, Unfolds, Choice
<1>6. F = [s \in SUBSET S |-> IF s = {} THEN 0 ELSE LET x == CHOOSE x \in s : TRUE
                                                   IN h[x] + F[s \ {x}]]
  BY <1>5, Zenon
<1>7. Unfolds(F, h, S)
  <2> HIDE DEF F
  <2>. QED BY <1>6 DEF Unfolds, Choice
<1>8. F[S] = g[S]
  <2> HIDE DEF F
  <2>. QED BY <1>4, <1>7, AddsUpOnce DEF AddsUp
<1>. QED BY <1>1, <1>2, <1>3, <1>8 DEF Total

(* The sum of a finite function into the integers is an integer.             *)
LEMMA SumIsAnInteger ==
  ASSUME NEW S, IsFiniteSet(S), NEW h \in [S -> Int]
  PROVE  SumFunction(h) \in Int
<1>1. AddsUp(CHOOSE g : AddsUp(g, h, S), h, S)
  BY TotalDefined
<1>. QED BY <1>1, SumIsTotal DEF Total, AddsUp

(* A change at one member moves the sum by that change.                      *)
LEMMA SumMoves ==
  ASSUME NEW S, IsFiniteSet(S), NEW h \in [S -> Int], NEW k \in [S -> Int],
         NEW x \in S, \A y \in S : y # x => h[y] = k[y]
  PROVE  SumFunction(k) = SumFunction(h) + k[x] - h[x]
BY SumIsTotal, TotalMoves

(* The sum of zeros is zero.                                                 *)
LEMMA SumOfNothing ==
  ASSUME NEW S, IsFiniteSet(S), NEW h, h = [x \in S |-> 0]
  PROVE  SumFunction(h) = 0
<1>1. h \in [S -> Int]
  OBVIOUS
<1>2. AddsUp([T \in SUBSET S |-> 0], h, S)
  BY ChoiceIn DEF AddsUp, Unfolds
<1>3. PICK g : g = CHOOSE gg : AddsUp(gg, h, S)
  OBVIOUS
<1>4. AddsUp(g, h, S)
  BY <1>1, <1>3, TotalDefined
<1>5. g[S] = [T \in SUBSET S |-> 0][S]
  BY <1>2, <1>4, AddsUpOnce DEF AddsUp
<1>. QED BY <1>1, <1>3, <1>5, SumIsTotal DEF Total

(* The sum of naturals is not negative.                                      *)
LEMMA SumOfNaturals ==
  ASSUME NEW S, IsFiniteSet(S), NEW h \in [S -> Int], \A x \in S : h[x] >= 0
  PROVE  SumFunction(h) >= 0
<1>1. PICK g : g = CHOOSE gg : AddsUp(gg, h, S)
  OBVIOUS
<1>2. AddsUp(g, h, S)
  BY <1>1, TotalDefined
<1> DEFINE Bad == {T \in SUBSET S : ~ g[T] >= 0}
<1>3. ASSUME Bad # {} PROVE FALSE
  <2>1. PICK T \in Bad : \A U \in Bad : U \subseteq T => U = T
    <3>1. Bad \in SUBSET SUBSET S
      OBVIOUS
    <3> HIDE DEF Bad
    <3>. QED BY <1>3, <3>1, SmallestSubset
  <2>2. T # {}
    <3>1. T = {} => g[T] = 0
      BY <1>2 DEF AddsUp, Unfolds
    <3>. QED BY <3>1
  <2>3. Choice(T) \in T
    BY <2>2, ChoiceIn
  <2>4. g[T \ {Choice(T)}] >= 0
    BY <2>1, <2>3
  <2>5. g[T] = h[Choice(T)] + g[T \ {Choice(T)}]
    BY <2>2, <1>2 DEF AddsUp, Unfolds
  <2>6. h[Choice(T)] >= 0 /\ h[Choice(T)] \in Int /\ g[T \ {Choice(T)}] \in Int /\ ~ g[T] >= 0
    BY <2>3, <1>2 DEF AddsUp
  <2> HIDE DEF Bad
  <2>. QED BY <2>4, <2>5, <2>6
<1>4. g[S] >= 0
  BY <1>3
<1>. QED BY <1>1, <1>4, SumIsTotal DEF Total

-----------------------------------------------------------------------------
(* Lines.                                                                    *)


(* A sequence without its i-th element: the later ones move down one place. *)
LEMMA RemoveAtProperties ==
  ASSUME NEW S, NEW s \in Seq(S), NEW i \in DOMAIN s
  PROVE  /\ RemoveAt(s, i) \in Seq(S)
         /\ Len(RemoveAt(s, i)) = Len(s) - 1
         /\ \A j \in 1 .. Len(s) - 1 :
              RemoveAt(s, i)[j] = IF j < i THEN s[j] ELSE s[j + 1]
<1> DEFINE before == SubSeq(s, 1, i - 1)
           after == SubSeq(s, i + 1, Len(s))
<1>1. /\ before \in Seq(S) /\ Len(before) = i - 1
      /\ \A j \in 1 .. i - 1 : before[j] = s[j]
  BY SubSeqProperties
<1>2. /\ after \in Seq(S) /\ Len(after) = Len(s) - i
      /\ \A j \in 1 .. Len(s) - i : after[j] = s[i + j]
  BY SubSeqProperties
<1> HIDE DEF before, after
<1>3. RemoveAt(s, i) = before \o after
  BY DEF RemoveAt, before, after
<1>4. RemoveAt(s, i) \in Seq(S) /\ Len(RemoveAt(s, i)) = Len(s) - 1
  BY <1>1, <1>2, <1>3
<1>5. \A j \in 1 .. Len(s) - 1 : RemoveAt(s, i)[j] = IF j < i THEN before[j] ELSE after[j - (i - 1)]
  BY <1>1, <1>2, <1>3, ConcatProperties
<1>6. ASSUME NEW j \in 1 .. Len(s) - 1
      PROVE  RemoveAt(s, i)[j] = IF j < i THEN s[j] ELSE s[j + 1]
  <2>1. i \in Int /\ j \in Int /\ Len(s) \in Nat /\ i >= 1
    OBVIOUS
  <2>2. CASE j < i
    BY <1>1, <1>5, <2>1, <2>2
  <2>3. CASE j >= i
    <3>1. j - (i - 1) \in 1 .. Len(s) - i /\ i + (j - (i - 1)) = j + 1
      BY <2>1, <2>3
    <3>2. RemoveAt(s, i)[j] = after[j - (i - 1)]
      BY <1>5, <2>1, <2>3
    <3>3. after[j - (i - 1)] = s[i + (j - (i - 1))]
      BY <1>2, <3>1
    <3>. QED BY <2>1, <2>3, <3>1, <3>2, <3>3
  <2>. QED BY <2>1, <2>2, <2>3
<1>. QED BY <1>4, <1>6

(* A line in which everybody stands once: who joins at its end, ...          *)
LEMMA LineGrows ==
  ASSUME NEW S, NEW s \in Seq(S), IsInjective(s), NEW x \in S, x \notin Range(s)
  PROVE  /\ Append(s, x) \in Seq(S) /\ IsInjective(Append(s, x))
         /\ Range(Append(s, x)) = Range(s) \cup {x}
<1> DEFINE r == Append(s, x)
<1>1. /\ r \in Seq(S) /\ DOMAIN r = 1 .. Len(s) + 1 /\ r[Len(s) + 1] = x /\ DOMAIN s = 1 .. Len(s)
      /\ \A i \in 1 .. Len(s) : r[i] = s[i]
  OBVIOUS
<1>2. \A i \in 1 .. Len(s) : s[i] # x
  BY <1>1 DEF Range
<1> HIDE DEF r
<1>3. IsInjective(r)
  BY <1>1, <1>2 DEF IsInjective
<1>4. Range(r) = Range(s) \cup {x}
  <2>1. Range(r) \subseteq Range(s) \cup {x}
    BY <1>1 DEF Range
  <2>2. \A i \in DOMAIN s : i \in DOMAIN r /\ r[i] = s[i]
    BY <1>1
  <2>3. Len(s) + 1 \in DOMAIN r
    BY <1>1
  <2>. QED BY <1>1, <2>1, <2>2, <2>3 DEF Range
<1>. QED BY <1>1, <1>3, <1>4 DEF r

(* ... who leaves from the middle, ...                                       *)
LEMMA LineShrinks ==
  ASSUME NEW S, NEW s \in Seq(S), IsInjective(s), NEW i \in DOMAIN s
  PROVE  /\ RemoveAt(s, i) \in Seq(S) /\ IsInjective(RemoveAt(s, i))
         /\ Range(RemoveAt(s, i)) = Range(s) \ {s[i]}
<1> DEFINE r == RemoveAt(s, i)
           old(j) == IF j < i THEN j ELSE j + 1
<1>0. r \in Seq(S) /\ Len(r) = Len(s) - 1
  BY RemoveAtProperties
<1>1. /\ r \in Seq(S) /\ DOMAIN r = 1 .. Len(s) - 1 /\ DOMAIN s = 1 .. Len(s) /\ Len(s) \in Nat
      /\ i \in 1 .. Len(s)
  <2> HIDE DEF r
  <2>. QED BY <1>0
<1>2. \A j \in DOMAIN r : r[j] = s[old(j)] /\ old(j) \in DOMAIN s /\ old(j) # i
  <2> TAKE j \in DOMAIN r
  <2>1. j \in 1 .. Len(s) - 1
    BY <1>1
  <2>2. r[j] = IF j < i THEN s[j] ELSE s[j + 1]
    BY <2>1, RemoveAtProperties
  <2>3. r[j] = s[old(j)]
    BY <2>2
  <2> HIDE DEF r
  <2>. QED BY <1>1, <2>1, <2>3
<1>3. \A j, k \in DOMAIN r : old(j) = old(k) => j = k
  BY <1>1
<1>4. \A k \in DOMAIN s : k # i => \E j \in DOMAIN r : old(j) = k
  <2> TAKE k \in DOMAIN s
  <2>1. CASE k < i
    BY <1>1, <2>1
  <2>2. CASE k > i
    <3>1. k - 1 \in DOMAIN r /\ old(k - 1) = k
      BY <1>1, <2>2
    <3>. QED BY <3>1
  <2>. QED BY <1>1, <2>1, <2>2
<1> HIDE DEF r, old
<1>5. IsInjective(r)
  BY <1>2, <1>3 DEF IsInjective
<1>6. Range(r) = Range(s) \ {s[i]}
  BY <1>1, <1>2, <1>4 DEF IsInjective, Range
<1>. QED BY <1>1, <1>5, <1>6 DEF r

(* ... and who is called from its front.                                     *)
LEMMA LineAdvances ==
  ASSUME NEW S, NEW s \in Seq(S), IsInjective(s), s # <<>>
  PROVE  /\ Tail(s) \in Seq(S) /\ IsInjective(Tail(s)) /\ Head(s) \in S
         /\ Head(s) \in Range(s) /\ Range(Tail(s)) = Range(s) \ {Head(s)}
<1> DEFINE r == Tail(s)
<1>1. /\ r \in Seq(S) /\ DOMAIN r = 1 .. Len(s) - 1 /\ DOMAIN s = 1 .. Len(s) /\ Len(s) \in Nat \ {0}
      /\ Head(s) = s[1] /\ 1 \in DOMAIN s
      /\ \A j \in DOMAIN r : r[j] = s[j + 1] /\ j + 1 \in DOMAIN s /\ j + 1 # 1
  OBVIOUS
<1> HIDE DEF r
<1>2. \A k \in DOMAIN s : k # 1 => \E j \in DOMAIN r : r[j] = s[k]
  <2> TAKE k \in DOMAIN s
  <2>1. CASE k # 1
    <3>1. k - 1 \in DOMAIN r /\ (k - 1) + 1 = k
      BY <1>1, <2>1
    <3>2. r[k - 1] = s[k]
      BY <1>1, <3>1
    <3>. QED BY <3>1, <3>2
  <2>. QED BY <2>1
<1>3. IsInjective(r)
  BY <1>1 DEF IsInjective
<1>4. Range(r) = Range(s) \ {s[1]}
  BY <1>1, <1>2 DEF IsInjective, Range
<1>. QED BY <1>1, <1>3, <1>4 DEF Range, r

-----------------------------------------------------------------------------
(* Ranks.                                                                    *)

(* How many members of D there are up to i.                                  *)
Rank(D, i) == Cardinality({j \in D : j <= i})

(* A rank in a finite set is at most the set's size.                         *)
LEMMA RankIsNatural ==
  ASSUME NEW D \in SUBSET Nat, IsFiniteSet(D), NEW i \in Int
  PROVE  /\ Rank(D, i) \in Nat /\ Cardinality(D) \in Nat /\ Rank(D, i) <= Cardinality(D)
         /\ IsFiniteSet({j \in D : j <= i})
<1>1. {j \in D : j <= i} \in SUBSET D
  OBVIOUS
<1>2. IsFiniteSet({j \in D : j <= i}) /\ Cardinality({j \in D : j <= i}) <= Cardinality(D)
  BY <1>1, FS_Subset
<1>. QED BY <1>2, FS_CardinalityType DEF Rank

(* The rank of a member is above that of anything before it.                 *)
LEMMA RankRises ==
  ASSUME NEW D \in SUBSET Nat, IsFiniteSet(D), NEW i \in Int, NEW j \in D, i < j
  PROVE  Rank(D, i) + 1 <= Rank(D, j)
<1> DEFINE A == {k \in D : k <= i}
           B == {k \in D : k <= j}
<1>1. IsFiniteSet(A) /\ IsFiniteSet(B)
  BY RankIsNatural
<1>0. i \in Int /\ j \in Int /\ \A k \in D : k \in Int
  OBVIOUS
<1>2. j \notin A /\ A \cup {j} \in SUBSET B
  <2>1. \A k \in D : k <= i => k <= j
    BY <1>0
  <2>2. j <= j /\ ~(j <= i)
    BY <1>0
  <2>. QED BY <2>1, <2>2
<1>3. Cardinality(A \cup {j}) = Cardinality(A) + 1
  BY <1>1, <1>2, FS_AddElement
<1>4. Cardinality(A \cup {j}) <= Cardinality(B)
  BY <1>1, <1>2, FS_Subset
<1>5. Rank(D, i) = Cardinality(A) /\ Rank(D, j) = Cardinality(B) /\ Cardinality(A) \in Nat
  BY <1>1, FS_CardinalityType DEF Rank
<1> HIDE DEF A, B
<1>. QED BY <1>3, <1>4, <1>5

(* One member more counts for the places from its own on.                    *)
LEMMA RankGrows ==
  ASSUME NEW D \in SUBSET Nat, IsFiniteSet(D), NEW k \in Nat, k \notin D, NEW i \in Int
  PROVE  Rank(D \cup {k}, i) = IF k <= i THEN Rank(D, i) + 1 ELSE Rank(D, i)
<1> DEFINE A == {j \in D : j <= i}
<1>1. IsFiniteSet(A) /\ k \notin A
  BY RankIsNatural
<1>2. CASE k <= i
  <2>1. {j \in D \cup {k} : j <= i} = A \cup {k}
    BY <1>2
  <2>2. Cardinality(A \cup {k}) = Cardinality(A) + 1
    BY <1>1, FS_AddElement
  <2>. QED BY <1>2, <2>1, <2>2 DEF Rank
<1>3. CASE ~(k <= i)
  <2>1. {j \in D \cup {k} : j <= i} = A
    BY <1>3
  <2>. QED BY <1>3, <2>1 DEF Rank
<1>. QED BY <1>2, <1>3

(* Among the first n members no later one can come up.                       *)
LEMMA FirstMembersStay ==
  ASSUME NEW D \in SUBSET Nat, IsFiniteSet(D), NEW k \in Nat, k \notin D, NEW n \in Int, n <= Rank(D, k)
  PROVE  {j \in D \cup {k} : Rank(D \cup {k}, j) \in 1 .. n} = {j \in D : Rank(D, j) \in 1 .. n}
<1> DEFINE E == D \cup {k}
<1>1. ASSUME NEW i \in Nat
      PROVE  Rank(D, i) \in Nat /\ Rank(E, i) = IF k <= i THEN Rank(D, i) + 1 ELSE Rank(D, i)
  <2>1. i \in Int
    OBVIOUS
  <2>2. Rank(D, i) \in Nat
    BY <2>1, RankIsNatural
  <2>3. Rank(D \cup {k}, i) = IF k <= i THEN Rank(D, i) + 1 ELSE Rank(D, i)
    BY <2>1, RankGrows
  <2>. QED BY <2>2, <2>3, Zenon
<1>2. \A j \in D : j \in Nat /\ j # k
  OBVIOUS
<1>3. \A j : j \in E <=> j \in D \/ j = k
  OBVIOUS
<1> HIDE DEF E
<1>4. Rank(E, k) = Rank(D, k) + 1 /\ Rank(D, k) \in Nat
  BY <1>1
<1>5. Rank(E, k) \notin 1 .. n
  BY <1>4
<1>6. ASSUME NEW j \in D
      PROVE  Rank(E, j) \in 1 .. n <=> Rank(D, j) \in 1 .. n
  <2>0. j \in Nat /\ k \in Nat /\ j # k
    BY <1>2
  <2> DEFINE a == Rank(D, k)
             b == Rank(D, j)
             c == Rank(E, j)
  <2>1. a \in Nat /\ b \in Nat /\ n <= a /\ c = IF k <= j THEN b + 1 ELSE b
    BY <1>1, <2>0
  <2>2. k < j => a + 1 <= b
    BY <2>0, RankRises
  <2> HIDE DEF a, b, c
  <2>3. c \in 1 .. n <=> b \in 1 .. n
    BY <2>0, <2>1, <2>2
  <2>. QED BY <2>3 DEF b, c
<1>7. {j \in E : Rank(E, j) \in 1 .. n} = {j \in D : Rank(D, j) \in 1 .. n}
  BY <1>3, <1>5, <1>6
<1>. QED BY <1>7 DEF E

(* Behind the place i of n there are at most n - i members.                  *)
LEMMA RankLeft ==
  ASSUME NEW n \in Nat, NEW D \in SUBSET (1 .. n), NEW i \in 1 .. n
  PROVE  IsFiniteSet(D) /\ Cardinality(D) <= Rank(D, i) + (n - i)
<1>1. IsFiniteSet(1 .. n)
  BY FS_Interval
<1>2. IsFiniteSet(D)
  BY <1>1, FS_Subset
<1> DEFINE A == {j \in D : j <= i}
           B == {j \in D : j > i}
<1>3. A \cup B = D /\ A \cap B = {} /\ A \in SUBSET D /\ B \in SUBSET D /\ B \in SUBSET (i + 1 .. n)
  <2>1. \A j \in D : j \in Int /\ 1 <= j /\ j <= n
    OBVIOUS
  <2>2. i \in Int /\ n \in Int
    OBVIOUS
  <2>3. B \in SUBSET (i + 1 .. n)
    <3>1. ASSUME NEW j \in D, j > i PROVE j \in i + 1 .. n
      BY <2>1, <2>2, <3>1
    <3>. QED BY <3>1
  <2>4. \A j \in D : (j <= i) <=> ~(j > i)
    BY <2>1, <2>2
  <2>. QED BY <2>3, <2>4
<1>4. IsFiniteSet(A) /\ IsFiniteSet(B)
  BY <1>2, <1>3, FS_Subset
<1>5. Cardinality(D) = Cardinality(A) + Cardinality(B) - Cardinality({})
  <2>1. Cardinality(A \cup B) = Cardinality(A) + Cardinality(B) - Cardinality(A \cap B)
    BY <1>4, FS_Union
  <2>. QED BY <1>3, <2>1
<1>6. i + 1 \in Int /\ n \in Int
  OBVIOUS
<1>7. IsFiniteSet(i + 1 .. n) /\ Cardinality(i + 1 .. n) = IF i + 1 > n THEN 0 ELSE n - (i + 1) + 1
  BY <1>6, FS_Interval
<1>8. Cardinality(B) <= Cardinality(i + 1 .. n)
  BY <1>3, <1>7, FS_Subset
<1>9. Cardinality({}) = 0 /\ Cardinality(A) \in Nat /\ Cardinality(B) \in Nat /\ Rank(D, i) = Cardinality(A)
  BY <1>4, FS_EmptySet, FS_CardinalityType DEF Rank
<1> DEFINE a == Cardinality(A)
           b == Cardinality(B)
<1>10. b <= n - i
  BY <1>7, <1>8, <1>9
<1>11. Cardinality(D) = a + b /\ Rank(D, i) = a /\ a \in Nat /\ b \in Nat
  BY <1>5, <1>9
<1> HIDE DEF a, b
<1>. QED BY <1>2, <1>10, <1>11
=============================================================================

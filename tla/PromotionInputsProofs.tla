----------------------- MODULE PromotionInputsProofs -----------------------
(***************************************************************************)
(* The promotion policy on its own, for decisions of any number, order and *)
(* timing: the kernel's operators keep what the loop of promotion.py       *)
(* keeps, and what is selected depends on nothing else.                    *)
(***************************************************************************)
EXTENDS PromotionInputs, DomainProofs

-----------------------------------------------------------------------------
(* Folding a sequence is a run of steps.                                   *)

LEMMA MaxOfNumbers ==
    ASSUME NEW n \in Nat, NEW s \in SUBSET (1 .. n), s # {}
    PROVE  /\ Max(s) \in s
           /\ \A x \in s : (\A y \in s : x >= y) => x = Max(s)
<1> DEFINE f == [a \in s |-> a]
<1>1. f \in [s -> 0 .. n]
  OBVIOUS
<1>2. PICK top \in s : \A a \in s : f[a] <= f[top]
  <2> HIDE DEF f
  <2>1. QED
    BY <1>1, LargestMeasure
<1>3. \A y \in s : top >= y
  BY <1>2
<1>4. Max(s) \in s /\ \A y \in s : Max(s) >= y
  BY <1>3 DEF Max
<1>5. \A x, y \in s : x >= y /\ y >= x => x = y
  OBVIOUS
<1>6. QED
  BY <1>4, <1>5

\* g is the function the fold of steps F from base is defined by.
FoldsBy(g, T, base, n, F) ==
    /\ g \in [SUBSET (1 .. n) -> T]
    /\ \A s \in SUBSET (1 .. n) :
        g[s] = IF s = {} THEN base ELSE F[Max(s)][g[s \ {Max(s)}]]

\* The function a fold is defined by exists: there is one over the subsets of
\* 1 .. n when there is one for every smaller number.
LEMMA FoldExists ==
    ASSUME NEW T, NEW base \in T, NEW N \in Nat, NEW F \in [1 .. N -> [T -> T]]
    PROVE  \E g : FoldsBy(g, T, base, N, F)
<1> DEFINE Folds(g, n) == FoldsBy(g, T, base, n, F)
           missing == {n \in 0 .. N : \A g : ~Folds(g, n)}
<1> HIDE DEF Folds
<1>1. SUFFICES ASSUME missing # {} PROVE FALSE
  <2>1. N \in 0 .. N
    OBVIOUS
  <2>2. missing = {} => \E g : Folds(g, N)
    BY <2>1
  <2>3. QED
    BY <2>2 DEF Folds, FoldsBy
<1>2. PICK m \in missing : \A n \in missing : m <= n
  <2>1. missing \in SUBSET Nat
    OBVIOUS
  <2> HIDE DEF missing
  <2>2. QED
    BY <1>1, <2>1, LeastNumber
<1>3. CASE m = 0
  <2> DEFINE g == [s \in SUBSET (1 .. 0) |-> base]
  <2>1. \A s \in SUBSET (1 .. 0) : s = {}
    OBVIOUS
  <2>2. Folds(g, 0)
    BY <2>1 DEF Folds, FoldsBy
  <2> HIDE DEF g
  <2>3. QED
    BY <1>2, <1>3, <2>2
<1>4. CASE m # 0
  <2>1. m \in 1 .. N /\ m \in Nat /\ m - 1 \in 0 .. N /\ m - 1 \notin missing
    <3>1. m \in 0 .. N
      OBVIOUS
    <3>2. m - 1 \in 0 .. N /\ ~(m <= m - 1) /\ m \in 1 .. N /\ m \in Nat
      BY <1>4, <3>1
    <3> HIDE DEF missing
    <3>3. m - 1 \notin missing
      BY <1>2, <3>2
    <3>4. QED
      BY <3>2, <3>3
  <2>2. PICK g : Folds(g, m - 1)
    BY <2>1
  <2> DEFINE next == [s \in SUBSET (1 .. m) |->
                        IF m \in s THEN F[m][g[s \ {m}]] ELSE g[s]]
  <2>3. /\ g \in [SUBSET (1 .. m - 1) -> T]
        /\ \A s \in SUBSET (1 .. m - 1) :
            g[s] = IF s = {} THEN base ELSE F[Max(s)][g[s \ {Max(s)}]]
    BY <2>2 DEF Folds, FoldsBy
  <2> HIDE DEF missing
  <2>4. \A s \in SUBSET (1 .. m) : s \ {m} \in SUBSET (1 .. m - 1)
    BY <2>1
  <2>5. next \in [SUBSET (1 .. m) -> T]
    <3>1. ASSUME NEW s \in SUBSET (1 .. m)
          PROVE  (IF m \in s THEN F[m][g[s \ {m}]] ELSE g[s]) \in T
      <4>1. CASE m \in s
        <5>1. g[s \ {m}] \in T
          BY <2>3, <2>4
        <5>2. F[m] \in [T -> T]
          BY <2>1
        <5>3. QED
          BY <4>1, <5>1, <5>2
      <4>2. CASE m \notin s
        <5>1. s \in SUBSET (1 .. m - 1)
          BY <2>4, <4>2
        <5>2. QED
          BY <2>3, <4>2, <5>1
      <4>3. QED
        BY <4>1, <4>2
    <3>2. QED
      BY <3>1
  <2>6. ASSUME NEW s \in SUBSET (1 .. m)
        PROVE  next[s] = IF s = {} THEN base ELSE F[Max(s)][next[s \ {Max(s)}]]
    <3>1. CASE m \in s
      <4>1. \A y \in s : m >= y
        BY <2>1
      <4>2. Max(s) = m
        BY <2>1, <3>1, <4>1, MaxOfNumbers
      <4>3. s \ {m} \in SUBSET (1 .. m) /\ m \notin s \ {m}
        OBVIOUS
      <4>4. next[s \ {m}] = g[s \ {m}] /\ next[s] = F[m][g[s \ {m}]]
        BY <3>1, <4>3
      <4>5. QED
        BY <3>1, <4>2, <4>4
    <3>2. CASE m \notin s
      <4>1. s \in SUBSET (1 .. m - 1) /\ next[s] = g[s]
        BY <2>4, <3>2
      <4>2. s # {} => next[s \ {Max(s)}] = g[s \ {Max(s)}]
        BY <3>2
      <4>3. g[s] = IF s = {} THEN base ELSE F[Max(s)][g[s \ {Max(s)}]]
        BY <2>3, <4>1
      <4>4. QED
        BY <4>1, <4>2, <4>3
    <3>3. QED
      BY <3>1, <3>2
  <2>7. Folds(next, m)
    BY <2>5, <2>6 DEF Folds, FoldsBy
  <2>8. QED
    BY <1>2, <2>7 DEF missing
<1>5. QED
  BY <1>3, <1>4

-----------------------------------------------------------------------------
(* The stable sort.                                                        *)

LEMMA InsertType ==
    ASSUME NEW S, NEW sorted \in Seq(S), NEW d \in S
    PROVE  /\ InsertSorted(sorted, d) \in Seq(S)
           /\ Cardinality({i \in DOMAIN sorted : sorted[i].created_at <= d.created_at})
                \in 0 .. Len(sorted)
<1> DEFINE before == {i \in DOMAIN sorted : sorted[i].created_at <= d.created_at}
           n == Cardinality(before)
           l == Len(sorted)
<1>1. l \in Nat /\ DOMAIN sorted = 1 .. l
  OBVIOUS
<1>2. IsFiniteSet(1 .. l) /\ Cardinality(1 .. l) = l
  BY <1>1, FS_Interval
<1>3. before \in SUBSET (1 .. l)
  BY <1>1
<1> HIDE DEF before
<1>4. n \in Nat /\ n <= l
  BY <1>2, <1>3, FS_Subset, FS_CardinalityType
<1> HIDE DEF n
<1>5. n \in 0 .. l
  BY <1>1, <1>4
<1>6. SubSeq(sorted, 1, n) \in Seq(S) /\ SubSeq(sorted, n + 1, l) \in Seq(S)
  BY <1>1, <1>5
<1>7. SubSeq(sorted, 1, n) \o <<d>> \o SubSeq(sorted, n + 1, l) \in Seq(S)
  BY <1>6
<1>8. QED
  BY <1>5, <1>7 DEF InsertSorted, before, n, l

LEMMA SortedRuns ==
    ASSUME NEW seq \in Seq(ReviewDecision)
    PROVE  \E h : /\ h[0] = <<>>
                  /\ \A n \in 1 .. Len(seq) : h[n] = InsertSorted(h[n - 1], seq[n])
                  /\ Sorted(seq) = h[Len(seq)]
<1> DEFINE T == Seq(ReviewDecision)
           N == Len(seq)
           base == <<>>
           F == [n \in 1 .. N |-> [t \in T |-> InsertSorted(t, seq[n])]]
           Step(iter) == [s \in SUBSET DOMAIN seq |->
                            IF s = {} THEN base
                            ELSE InsertSorted(iter[s \ {Max(s)}], seq[Max(s)])]
           iter == CHOOSE f : f = Step(f)
           h == [n \in 0 .. N |-> iter[1 .. n]]
<1>1. N \in Nat /\ DOMAIN seq = 1 .. N /\ base \in T
      /\ \A n \in 1 .. N : seq[n] \in ReviewDecision
  OBVIOUS
<1>2. F \in [1 .. N -> [T -> T]]
  <2>1. \A n \in 1 .. N : \A t \in T : InsertSorted(t, seq[n]) \in T
    BY <1>1, InsertType
  <2>2. QED
    BY <2>1
<1>3. \A n \in 1 .. N : \A t \in T : F[n][t] = InsertSorted(t, seq[n])
  OBVIOUS
<1>4. PICK g \in [SUBSET (1 .. N) -> T] : \A s \in SUBSET (1 .. N) :
            g[s] = IF s = {} THEN base ELSE F[Max(s)][g[s \ {Max(s)}]]
  <2>0. N \in Nat /\ base \in T
    BY <1>1
  <2> HIDE DEF F, T, N, base
  <2>1. \E g : FoldsBy(g, T, base, N, F)
    BY <1>2, <2>0, FoldExists
  <2>2. QED
    BY <2>1 DEF FoldsBy
<1>5. g = Step(g)
  <2>1. ASSUME NEW s \in SUBSET (1 .. N), s # {}
        PROVE  g[s] = InsertSorted(g[s \ {Max(s)}], seq[Max(s)])
    <3>1. Max(s) \in 1 .. N
      BY <1>1, <2>1, MaxOfNumbers
    <3>2. g[s \ {Max(s)}] \in T
      OBVIOUS
    <3>3. QED
      BY <1>3, <1>4, <2>1, <3>1, <3>2
  <2>2. g = [s \in SUBSET (1 .. N) |-> g[s]]
    OBVIOUS
  <2> HIDE DEF F, T, N, base
  <2>3. QED
    BY <1>1, <1>4, <2>1, <2>2
<1>6. iter = Step(iter)
  BY <1>5
<1>7. Sorted(seq) = iter[DOMAIN seq]
  BY DEF Sorted, FoldLeft, MapThenFoldSet
<1> HIDE DEF iter, F, T
<1>8. h[0] = <<>>
  <2>1. 1 .. 0 = {}
    OBVIOUS
  <2>2. iter[{}] = <<>>
    BY <1>6
  <2>3. QED
    BY <1>1, <2>1, <2>2
<1>9. ASSUME NEW n \in 1 .. N
      PROVE  h[n] = InsertSorted(h[n - 1], seq[n])
  <2>1. /\ 1 .. n \in SUBSET (1 .. N) /\ 1 .. n # {} /\ n \in 1 .. n
        /\ (1 .. n) \ {n} = 1 .. n - 1 /\ n \in Nat /\ n - 1 \in 0 .. N /\ n \in 0 .. N
    <3>1. n \in Nat /\ n >= 1 /\ n <= N
      BY <1>1
    <3>2. 1 .. n \subseteq 1 .. N /\ n \in 1 .. n /\ (1 .. n) \ {n} = 1 .. n - 1
      BY <1>1, <3>1
    <3>3. n - 1 \in 0 .. N /\ n \in 0 .. N
      BY <1>1, <3>1
    <3>4. QED
      BY <3>1, <3>2, <3>3
  <2>2. Max(1 .. n) = n
    <3>1. \A y \in 1 .. n : n >= y
      BY <2>1
    <3>2. QED
      BY <2>1, <3>1, MaxOfNumbers
  <2>3. iter[1 .. n] = InsertSorted(iter[(1 .. n) \ {Max(1 .. n)}], seq[Max(1 .. n)])
    BY <1>1, <1>6, <2>1
  <2>4. QED
    BY <2>1, <2>2, <2>3
<1>10. QED
  <2>1. Sorted(seq) = h[N]
    BY <1>1, <1>7
  <2> HIDE DEF h
  <2>2. QED
    BY <1>8, <1>9, <2>1


\* Induction up to a number, over a set instead of a predicate.
LEMMA CountingUp ==
    ASSUME NEW N \in Nat, NEW G, 0 \in G, \A n \in 1 .. N : n - 1 \in G => n \in G
    PROVE  \A n \in 0 .. N : n \in G
<1> DEFINE missing == {n \in 0 .. N : n \notin G}
<1>1. SUFFICES ASSUME missing # {} PROVE FALSE
  OBVIOUS
<1>2. PICK m \in missing : \A n \in missing : m <= n
  <2>1. missing \in SUBSET Nat
    OBVIOUS
  <2> HIDE DEF missing
  <2>2. QED
    BY <1>1, <2>1, LeastNumber
<1>3. m \in 0 .. N /\ m \notin G /\ m # 0
  OBVIOUS
<1>4. m \in 1 .. N /\ m - 1 \in 0 .. N /\ ~(m <= m - 1)
  BY <1>3
<1>5. m - 1 \notin missing
  <2> HIDE DEF missing
  <2>1. QED
    BY <1>2, <1>4
<1>6. QED
  BY <1>3, <1>4, <1>5

\* A set that holds every smaller number of a range with each of its own is
\* the range up to its size.
LEMMA InitialSegment ==
    ASSUME NEW n \in Nat, NEW B \in SUBSET (1 .. n),
           \A i \in B : \A k \in 1 .. n : k < i => k \in B
    PROVE  Cardinality(B) \in 0 .. n /\ B = 1 .. Cardinality(B)
<1> DEFINE beyond == (1 .. n + 1) \ B
<1>1. beyond \in SUBSET Nat /\ n + 1 \in beyond
  OBVIOUS
<1>2. PICK c \in beyond : \A i \in beyond : c <= i
  <2> HIDE DEF beyond
  <2>1. QED
    BY <1>1, LeastNumber
<1>3. c \in 1 .. n + 1 /\ c \notin B
  OBVIOUS
<1>4. \A i \in 1 .. c - 1 : i \in B
  <2>1. ASSUME NEW i \in 1 .. c - 1, i \notin B
        PROVE  FALSE
    <3>1. i \in beyond /\ ~(c <= i)
      BY <1>3, <2>1
    <3> HIDE DEF beyond
    <3>2. QED
      BY <1>2, <3>1
  <2>2. QED
    BY <2>1
<1>5. \A i \in B : i \in 1 .. c - 1
  <2>1. ASSUME NEW i \in B
        PROVE  i < c
    <3>1. i \in 1 .. n /\ i # c
      BY <1>3
    <3>2. c < i => c \in 1 .. n
      BY <1>3, <3>1
    <3>3. ~(c < i)
      BY <1>3, <3>2
    <3>4. QED
      BY <1>3, <3>1, <3>3
  <2>2. QED
    BY <1>3, <2>1
<1>6. B = 1 .. c - 1
  BY <1>4, <1>5
<1>7. c - 1 \in Nat /\ c - 1 \in 0 .. n
  BY <1>3
<1>8. Cardinality(1 .. c - 1) = c - 1
  BY <1>7, FS_Interval
<1>9. QED
  BY <1>6, <1>7, <1>8

\* sorted holds the first n decisions of seq, each once, in the order the
\* kernel compares them in; p tells where each comes from.
Arranges(p, n, sorted, seq) ==
    /\ sorted \in Seq(ReviewDecision) /\ Len(sorted) = n
    /\ p \in [1 .. n -> 1 .. n]
    /\ \A i \in 1 .. n : sorted[i] = seq[p[i]]
    /\ \A j \in 1 .. n : \E i \in 1 .. n : p[i] = j
    /\ \A i, j \in 1 .. n : i < j => SortedAfter(seq, p[j], p[i])

\* One insertion keeps that.
LEMMA InsertArranges ==
    ASSUME NEW seq \in Seq(ReviewDecision), NEW n \in Nat, n + 1 <= Len(seq),
           NEW sorted, NEW p, Arranges(p, n, sorted, seq)
    PROVE  \E q : Arranges(q, n + 1, InsertSorted(sorted, seq[n + 1]), seq)
<1> DEFINE d == seq[n + 1]
           before == {i \in DOMAIN sorted : sorted[i].created_at <= d.created_at}
           m == Cardinality(before)
           new == InsertSorted(sorted, d)
           q == [i \in 1 .. n + 1 |-> IF i <= m THEN p[i]
                                     ELSE IF i = m + 1 THEN n + 1 ELSE p[i - 1]]
           time(i) == seq[i].created_at
<1>1. /\ sorted \in Seq(ReviewDecision) /\ Len(sorted) = n /\ DOMAIN sorted = 1 .. n
      /\ p \in [1 .. n -> 1 .. n]
      /\ \A i \in 1 .. n : sorted[i] = seq[p[i]]
      /\ \A j \in 1 .. n : \E i \in 1 .. n : p[i] = j
      /\ \A i, j \in 1 .. n : i < j => SortedAfter(seq, p[j], p[i])
  <2> HIDE DEF d, before, m, new, q, time
  <2>1. /\ sorted \in Seq(ReviewDecision) /\ Len(sorted) = n
        /\ p \in [1 .. n -> 1 .. n]
        /\ \A i \in 1 .. n : sorted[i] = seq[p[i]]
        /\ \A j \in 1 .. n : \E i \in 1 .. n : p[i] = j
        /\ \A i, j \in 1 .. n : i < j => SortedAfter(seq, p[j], p[i])
    BY Zenon DEF Arranges
  <2>2. DOMAIN sorted = 1 .. n
    BY <2>1
  <2>3. QED
    BY <2>1, <2>2
<1>2. /\ \A i \in 1 .. n + 1 : time(i) \in Nat
      /\ d \in ReviewDecision /\ d.created_at = time(n + 1)
  <2>1. \A i \in 1 .. n + 1 : seq[i] \in ReviewDecision
    OBVIOUS
  <2>2. n + 1 \in 1 .. n + 1
    OBVIOUS
  <2>3. QED
    BY <2>1, <2>2 DEF ReviewDecision
<1>3. \A i \in 1 .. n : p[i] \in 1 .. n /\ p[i] \in 1 .. n + 1
  BY <1>1
<1> HIDE DEF time
<1>4. \A i, j \in 1 .. n : i < j => time(p[i]) <= time(p[j])
  <2>1. ASSUME NEW i \in 1 .. n, NEW j \in 1 .. n, i < j
        PROVE  time(p[i]) <= time(p[j])
    <3>1. time(p[j]) > time(p[i]) \/ time(p[j]) = time(p[i])
      BY <1>1, <2>1 DEF SortedAfter, time
    <3>2. time(p[i]) \in Nat /\ time(p[j]) \in Nat
      BY <1>2, <1>3
    <3>3. QED
      BY <3>1, <3>2
  <2>2. QED
    BY <2>1
<1>5. before = {i \in 1 .. n : time(p[i]) <= time(n + 1)}
  BY <1>1, <1>2 DEF time
<1>6. m \in 0 .. n /\ before = 1 .. m
  <2>1. ASSUME NEW i \in before, NEW k \in 1 .. n, k < i
        PROVE  k \in before
    <3>1. i \in 1 .. n /\ time(p[i]) <= time(n + 1) /\ time(p[k]) <= time(p[i])
      BY <1>4, <1>5, <2>1
    <3>2. time(p[i]) \in Nat /\ time(p[k]) \in Nat /\ time(n + 1) \in Nat
      BY <1>2, <1>3, <3>1
    <3>3. QED
      BY <1>5, <3>1, <3>2
  <2>2. before \in SUBSET (1 .. n)
    BY <1>5
  <2> HIDE DEF before
  <2>3. QED
    BY <2>1, <2>2, InitialSegment
<1>7. /\ \A i \in 1 .. m : time(p[i]) <= time(n + 1)
      /\ \A i \in m + 1 .. n : time(p[i]) > time(n + 1)
  <2>1. \A i \in 1 .. n : i <= m <=> time(p[i]) <= time(n + 1)
    BY <1>5, <1>6
  <2>2. ASSUME NEW i \in m + 1 .. n
        PROVE  time(p[i]) > time(n + 1)
    <3>1. i \in 1 .. n /\ ~(i <= m)
      BY <1>6
    <3>2. time(p[i]) \in Nat /\ time(n + 1) \in Nat
      BY <1>2, <1>3, <3>1
    <3>3. ~(time(p[i]) <= time(n + 1))
      BY <2>1, <3>1
    <3>4. QED
      BY <3>2, <3>3
  <2>3. \A i \in 1 .. m : i \in 1 .. n /\ i <= m
    BY <1>6
  <2>4. QED
    BY <2>1, <2>2, <2>3
<1>8. /\ new \in Seq(ReviewDecision) /\ Len(new) = n + 1
      /\ \A i \in 1 .. n + 1 : new[i] = IF i <= m THEN sorted[i]
                                      ELSE IF i = m + 1 THEN d ELSE sorted[i - 1]
  <2> DEFINE left == SubSeq(sorted, 1, m)
             right == SubSeq(sorted, m + 1, n)
  <2>1. new = left \o <<d>> \o right
    BY <1>1 DEF InsertSorted
  <2> HIDE DEF before, m, d, new
  <2>2. /\ left \in Seq(ReviewDecision) /\ Len(left) = m
        /\ \A i \in 1 .. m : left[i] = sorted[i]
    BY <1>1, <1>6
  <2>3. /\ right \in Seq(ReviewDecision) /\ Len(right) = n - m
        /\ \A i \in 1 .. n - m : right[i] = sorted[m + i]
    BY <1>1, <1>6
  <2> HIDE DEF left, right
  <2> DEFINE head == left \o <<d>>
  <2>4. /\ head \in Seq(ReviewDecision) /\ Len(head) = m + 1
        /\ \A i \in 1 .. m : head[i] = left[i]
        /\ head[m + 1] = d
    BY <1>2, <1>6, <2>2
  <2> HIDE DEF head
  <2>5. /\ head \o right \in Seq(ReviewDecision) /\ Len(head \o right) = n + 1
        /\ \A i \in 1 .. m + 1 : (head \o right)[i] = head[i]
        /\ \A i \in m + 2 .. n + 1 : (head \o right)[i] = right[i - (m + 1)]
    <3>1. Len(head \o right) = n + 1 /\ n + 1 \in Nat
      BY <1>6, <2>3, <2>4
    <3>2. \A i \in 1 .. m + 1 : (head \o right)[i] = head[i]
      BY <1>6, <2>3, <2>4
    <3>3. ASSUME NEW i \in m + 2 .. n + 1
          PROVE  (head \o right)[i] = right[i - (m + 1)]
      <4>1. i \in 1 .. n + 1 /\ i > m + 1
        BY <1>6
      <4>2. QED
        BY <1>6, <2>3, <2>4, <4>1
    <3>4. head \o right \in Seq(ReviewDecision)
      BY <2>3, <2>4
    <3>5. QED
      BY <3>1, <3>2, <3>3, <3>4
  <2>6. \A i \in m + 2 .. n + 1 : /\ i - (m + 1) \in 1 .. n - m
                                  /\ m + (i - (m + 1)) = i - 1
    BY <1>6
  <2>7. new = head \o right
    BY <2>1 DEF head
  <2>8. ASSUME NEW i \in 1 .. n + 1
        PROVE  new[i] = IF i <= m THEN sorted[i]
                        ELSE IF i = m + 1 THEN d ELSE sorted[i - 1]
    <3>1. CASE i <= m
      <4>1. i \in 1 .. m /\ i \in 1 .. m + 1
        BY <1>6, <3>1
      <4>2. QED
        BY <2>2, <2>4, <2>5, <2>7, <3>1, <4>1
    <3>2. CASE i = m + 1
      <4>1. i \in 1 .. m + 1 /\ ~(i <= m)
        BY <1>6, <3>2
      <4>2. QED
        BY <2>4, <2>5, <2>7, <3>2, <4>1
    <3>3. CASE i > m + 1
      <4>1. i \in m + 2 .. n + 1 /\ ~(i <= m) /\ i # m + 1
        BY <1>6, <3>3
      <4>2. QED
        BY <2>3, <2>5, <2>6, <2>7, <4>1
    <3>4. QED
      BY <1>6, <3>1, <3>2, <3>3
  <2>9. QED
    BY <2>5, <2>7, <2>8
<1> HIDE DEF before, m, new
<1>9. ASSUME NEW i \in 1 .. n + 1
      PROVE  \/ i <= m /\ i \in 1 .. m /\ i \in 1 .. n /\ q[i] = p[i]
             \/ i = m + 1 /\ q[i] = n + 1
             \/ i > m + 1 /\ i - 1 \in m + 1 .. n /\ i - 1 \in 1 .. n /\ q[i] = p[i - 1]
  BY <1>6
<1>10. q \in [1 .. n + 1 -> 1 .. n + 1]
  BY <1>3, <1>9
<1>11. \A i \in 1 .. n + 1 : new[i] = seq[q[i]]
  BY <1>1, <1>6, <1>8, <1>9
<1>12. ASSUME NEW j \in 1 .. n + 1
       PROVE  \E i \in 1 .. n + 1 : q[i] = j
  <2>1. CASE j = n + 1
    <3>1. m + 1 \in 1 .. n + 1 /\ q[m + 1] = n + 1
      BY <1>6
    <3>2. QED
      BY <2>1, <3>1
  <2>2. CASE j # n + 1
    <3>1. PICK k \in 1 .. n : p[k] = j
      BY <1>1, <2>2
    <3>2. CASE k <= m
      <4>1. k \in 1 .. n + 1 /\ q[k] = p[k]
        BY <3>2
      <4>2. QED
        BY <3>1, <4>1
    <3>3. CASE ~(k <= m)
      <4>1. k + 1 \in 1 .. n + 1 /\ q[k + 1] = p[k]
        BY <1>6, <3>3
      <4>2. QED
        BY <3>1, <4>1
    <3>4. QED
      BY <3>2, <3>3
  <2>3. QED
    BY <2>1, <2>2
<1>13. ASSUME NEW i \in 1 .. n + 1, NEW j \in 1 .. n + 1, i < j
       PROVE  SortedAfter(seq, q[j], q[i])
  <2>1. CASE i <= m /\ j <= m
    <3>1. q[i] = p[i] /\ q[j] = p[j] /\ i \in 1 .. n /\ j \in 1 .. n
      BY <1>6, <2>1
    <3>2. QED
      BY <1>1, <1>13, <3>1
  <2>2. CASE i <= m /\ j = m + 1
    <3>1. q[i] = p[i] /\ q[j] = n + 1 /\ i \in 1 .. m /\ i \in 1 .. n
      BY <1>6, <2>2
    <3>2. time(p[i]) <= time(n + 1) /\ p[i] \in 1 .. n
      BY <1>3, <1>7, <3>1
    <3>3. time(p[i]) \in Nat /\ time(n + 1) \in Nat /\ n + 1 > p[i]
      BY <1>2, <3>2
    <3>4. time(n + 1) > time(p[i]) \/ (time(n + 1) = time(p[i]) /\ n + 1 > p[i])
      BY <3>2, <3>3
    <3>5. QED
      BY <3>1, <3>4 DEF SortedAfter, time
  <2>3. CASE i <= m /\ j > m + 1
    <3>1. q[i] = p[i] /\ q[j] = p[j - 1] /\ i \in 1 .. n /\ j - 1 \in 1 .. n /\ i < j - 1
      BY <1>6, <1>9, <2>3
    <3>2. QED
      BY <1>1, <3>1
  <2>4. CASE i = m + 1 /\ j > m + 1
    <3>1. q[i] = n + 1 /\ q[j] = p[j - 1] /\ j - 1 \in m + 1 .. n
      BY <1>6, <2>4
    <3>2. time(p[j - 1]) > time(n + 1)
      BY <1>7, <3>1
    <3>3. QED
      BY <3>1, <3>2 DEF SortedAfter, time
  <2>5. CASE i > m + 1 /\ j > m + 1
    <3>1. /\ q[i] = p[i - 1] /\ q[j] = p[j - 1]
          /\ i - 1 \in 1 .. n /\ j - 1 \in 1 .. n /\ i - 1 < j - 1
      BY <1>6, <1>9, <1>13, <2>5
    <3>2. QED
      BY <1>1, <3>1
  <2>6. QED
    BY <1>6, <1>13, <2>1, <2>2, <2>3, <2>4, <2>5
<1> HIDE DEF q
<1>14. Arranges(q, n + 1, new, seq)
  BY <1>8, <1>10, <1>11, <1>12, <1>13 DEF Arranges
<1>15. QED
  BY <1>14 DEF new


LEMMA SortedArranges ==
    ASSUME NEW seq \in Seq(ReviewDecision)
    PROVE  \E p : Arranges(p, Len(seq), Sorted(seq), seq)
<1> DEFINE N == Len(seq)
<1>1. PICK h : /\ h[0] = <<>>
               /\ \A n \in 1 .. N : h[n] = InsertSorted(h[n - 1], seq[n])
               /\ Sorted(seq) = h[N]
  BY SortedRuns
<1> DEFINE G == {n \in 0 .. N : \E p : Arranges(p, n, h[n], seq)}
<1>2. N \in Nat
  OBVIOUS
<1>3. 0 \in G
  <2> DEFINE p == [i \in 1 .. 0 |-> i]
  <2>1. Arranges(p, 0, <<>>, seq)
    BY DEF Arranges
  <2>2. 0 \in 0 .. N
    BY <1>2
  <2>3. QED
    BY <1>1, <2>1, <2>2
<1>4. ASSUME NEW n \in 1 .. N, n - 1 \in G
      PROVE  n \in G
  <2>1. n \in 0 .. N /\ n - 1 \in Nat /\ (n - 1) + 1 = n /\ n <= Len(seq)
    BY <1>2
  <2>2. PICK p : Arranges(p, n - 1, h[n - 1], seq)
    BY <1>4
  <2> DEFINE k == n - 1
             sorted == h[n - 1]
  <2>3. k \in Nat /\ k + 1 = n /\ k + 1 <= Len(seq) /\ Arranges(p, k, sorted, seq)
    BY <2>1, <2>2
  <2>4. h[n] = InsertSorted(sorted, seq[n])
    BY <1>1
  <2> HIDE DEF k, sorted, G
  <2>5. \E q : Arranges(q, k + 1, InsertSorted(sorted, seq[k + 1]), seq)
    BY <2>3, InsertArranges
  <2>6. \E q : Arranges(q, n, h[n], seq)
    BY <2>3, <2>4, <2>5
  <2>7. QED
    BY <2>1, <2>6 DEF G
<1>5. N \in G
  <2>1. N \in 0 .. N
    BY <1>2
  <2> HIDE DEF G, N
  <2>2. QED
    BY <1>2, <1>3, <1>4, <2>1, CountingUp
<1>6. QED
  BY <1>1, <1>5

-----------------------------------------------------------------------------
(* The loop.                                                               *)

LEMMA RecordType ==
    ASSUME NEW latest \in UNION {[D -> ReviewDecision] : D \in SUBSET Nat},
           NEW d \in ReviewDecision
    PROVE  RecordLatest(latest, d) \in UNION {[D -> ReviewDecision] : D \in SUBSET Nat}
<1>1. PICK D \in SUBSET Nat : latest \in [D -> ReviewDecision]
  OBVIOUS
<1>2. d.assertion \in Nat
  BY DEF ReviewDecision
<1> DEFINE next == [a \in DOMAIN latest \cup {d.assertion} |->
                        IF a = d.assertion THEN d ELSE latest[a]]
           E == D \cup {d.assertion}
<1>3. next \in [E -> ReviewDecision] /\ E \in SUBSET Nat
  BY <1>1, <1>2
<1> HIDE DEF next, E
<1>4. next \in UNION {[C -> ReviewDecision] : C \in SUBSET Nat}
  BY <1>3
<1>5. QED
  BY <1>4 DEF RecordLatest, next

\* The loop is a run of RecordLatest over what it is given.
LEMMA LoopRuns ==
    ASSUME NEW seq \in Seq(ReviewDecision),
           seq = Sorted(reviews)
    PROVE  \E h : /\ h[0] = [a \in {} |-> {}]
                  /\ \A n \in 1 .. Len(seq) : h[n] = RecordLatest(h[n - 1], seq[n])
                  /\ LoopReviews = h[Len(seq)]
<1> DEFINE T == UNION {[D -> ReviewDecision] : D \in SUBSET Nat}
           N == Len(seq)
           base == [a \in {} |-> {}]
           F == [n \in 1 .. N |-> [t \in T |-> RecordLatest(t, seq[n])]]
           Step(iter) == [s \in SUBSET DOMAIN seq |->
                            IF s = {} THEN base
                            ELSE RecordLatest(iter[s \ {Max(s)}], seq[Max(s)])]
           iter == CHOOSE f : f = Step(f)
           h == [n \in 0 .. N |-> iter[1 .. n]]
<1>0. base \in T
  <2>1. base \in [{} -> ReviewDecision] /\ {} \in SUBSET Nat
    OBVIOUS
  <2>2. QED
    BY <2>1
<1>1. /\ N \in Nat /\ DOMAIN seq = 1 .. N
      /\ \A n \in 1 .. N : seq[n] \in ReviewDecision
  OBVIOUS
<1>2. F \in [1 .. N -> [T -> T]]
  <2>1. \A n \in 1 .. N : \A t \in T : RecordLatest(t, seq[n]) \in T
    BY <1>1, RecordType
  <2> HIDE DEF T
  <2>2. QED
    BY <2>1
<1>3. \A n \in 1 .. N : \A t \in T : F[n][t] = RecordLatest(t, seq[n])
  <2> HIDE DEF T
  <2>1. QED
    OBVIOUS
<1>4. PICK g : FoldsBy(g, T, base, N, F)
  <2>1. N \in Nat
    BY <1>1
  <2> HIDE DEF F, T, N, base
  <2>2. QED
    BY <1>0, <1>2, <2>1, FoldExists
<1>5. g = Step(g)
  <2> HIDE DEF T
  <2>1. /\ g \in [SUBSET (1 .. N) -> T]
        /\ \A s \in SUBSET (1 .. N) :
            g[s] = IF s = {} THEN base ELSE F[Max(s)][g[s \ {Max(s)}]]
    BY <1>4 DEF FoldsBy
  <2>2. ASSUME NEW s \in SUBSET (1 .. N), s # {}
        PROVE  g[s] = RecordLatest(g[s \ {Max(s)}], seq[Max(s)])
    <3>1. Max(s) \in 1 .. N
      BY <1>1, <2>2, MaxOfNumbers
    <3>2. g[s \ {Max(s)}] \in T
      BY <2>1
    <3>3. QED
      BY <1>3, <2>1, <2>2, <3>1, <3>2
  <2>3. g = [s \in SUBSET (1 .. N) |-> g[s]]
    BY <2>1
  <2> HIDE DEF F, N, base
  <2>4. QED
    BY <1>1, <2>1, <2>2, <2>3
<1>6. iter = Step(iter)
  BY <1>5
<1>7. LoopReviews = iter[DOMAIN seq]
  BY DEF LoopReviews, FoldLeft, MapThenFoldSet
<1> HIDE DEF iter, F, T
<1>8. h[0] = base
  <2>1. 1 .. 0 = {}
    OBVIOUS
  <2>2. iter[{}] = base
    BY <1>6
  <2>3. QED
    BY <1>1, <2>1, <2>2
<1>9. ASSUME NEW n \in 1 .. N
      PROVE  h[n] = RecordLatest(h[n - 1], seq[n])
  <2>1. /\ 1 .. n \in SUBSET (1 .. N) /\ 1 .. n # {} /\ n \in 1 .. n
        /\ (1 .. n) \ {n} = 1 .. n - 1 /\ n \in Nat /\ n - 1 \in 0 .. N /\ n \in 0 .. N
    <3>1. n \in Nat /\ n >= 1 /\ n <= N
      BY <1>1
    <3>2. 1 .. n \subseteq 1 .. N /\ n \in 1 .. n /\ (1 .. n) \ {n} = 1 .. n - 1
      BY <1>1, <3>1
    <3>3. n - 1 \in 0 .. N /\ n \in 0 .. N
      BY <1>1, <3>1
    <3>4. QED
      BY <3>1, <3>2, <3>3
  <2>2. Max(1 .. n) = n
    <3>1. \A y \in 1 .. n : n >= y
      BY <2>1
    <3>2. QED
      BY <2>1, <3>1, MaxOfNumbers
  <2>3. iter[1 .. n] = RecordLatest(iter[(1 .. n) \ {Max(1 .. n)}], seq[Max(1 .. n)])
    BY <1>1, <1>6, <2>1
  <2>4. QED
    BY <2>1, <2>2, <2>3
<1>10. QED
  <2>1. LoopReviews = h[N]
    BY <1>1, <1>7
  <2> HIDE DEF h
  <2>2. QED
    BY <1>8, <1>9, <2>1

\* Of the first n decisions of s, latest holds the last that counts for each
\* assertion.
Holds(latest, s, n) ==
    /\ latest \in UNION {[D -> ReviewDecision] : D \in SUBSET Nat}
    /\ \A i \in 1 .. n : Counts(s[i]) => s[i].assertion \in DOMAIN latest
    /\ \A a \in DOMAIN latest : \E i \in 1 .. n :
        /\ Counts(s[i]) /\ s[i].assertion = a /\ latest[a] = s[i]
        /\ \A j \in 1 .. n : j > i /\ Counts(s[j]) => s[j].assertion # a

LEMMA RecordHolds ==
    ASSUME NEW s \in Seq(ReviewDecision), NEW n \in Nat, n + 1 <= Len(s),
           NEW latest, Holds(latest, s, n)
    PROVE  Holds(RecordLatest(latest, s[n + 1]), s, n + 1)
<1> DEFINE d == s[n + 1]
           next == RecordLatest(latest, d)
<1>1. d \in ReviewDecision
  OBVIOUS
<1>2. next \in UNION {[D -> ReviewDecision] : D \in SUBSET Nat}
  BY <1>1, RecordType DEF Holds
<1>3. /\ \A i \in 1 .. n + 1 : i \in 1 .. n \/ i = n + 1
      /\ \A i \in 1 .. n : i \in 1 .. n + 1 /\ n + 1 > i
      /\ n + 1 \in 1 .. n + 1
  OBVIOUS
<1>4. CASE ~Counts(d)
  <2>1. next = latest
    BY <1>4 DEF RecordLatest
  <2> HIDE DEF next
  <2>2. \A i \in 1 .. n + 1 : Counts(s[i]) => i \in 1 .. n
    BY <1>3, <1>4
  <2>3. QED
    BY <1>2, <1>3, <2>1, <2>2 DEF Holds, next
<1>5. CASE Counts(d)
  <2>1. /\ DOMAIN next = DOMAIN latest \cup {d.assertion}
        /\ next[d.assertion] = d
        /\ \A a \in DOMAIN latest : a # d.assertion => next[a] = latest[a]
    BY <1>5 DEF RecordLatest
  <2> HIDE DEF next
  <2>2. \A i \in 1 .. n + 1 : Counts(s[i]) => s[i].assertion \in DOMAIN next
    BY <1>3, <2>1 DEF Holds
  <2>3. ASSUME NEW a \in DOMAIN next
        PROVE  \E i \in 1 .. n + 1 :
                /\ Counts(s[i]) /\ s[i].assertion = a /\ next[a] = s[i]
                /\ \A j \in 1 .. n + 1 : j > i /\ Counts(s[j]) => s[j].assertion # a
    <3>1. CASE a = d.assertion
      <4>1. \A j \in 1 .. n + 1 : ~(j > n + 1)
        OBVIOUS
      <4>2. QED
        BY <1>3, <1>5, <2>1, <3>1, <4>1
    <3>2. CASE a # d.assertion
      <4>1. a \in DOMAIN latest /\ next[a] = latest[a]
        BY <2>1, <3>2
      <4>2. PICK i \in 1 .. n :
                /\ Counts(s[i]) /\ s[i].assertion = a /\ latest[a] = s[i]
                /\ \A j \in 1 .. n : j > i /\ Counts(s[j]) => s[j].assertion # a
        BY <4>1 DEF Holds
      <4>3. \A j \in 1 .. n + 1 : j > i /\ Counts(s[j]) => s[j].assertion # a
        BY <1>3, <3>2, <4>2
      <4>4. QED
        BY <1>3, <4>1, <4>2, <4>3
    <3>3. QED
      BY <3>1, <3>2
  <2>4. QED
    BY <1>2, <2>2, <2>3 DEF Holds, next
<1>6. QED
  BY <1>4, <1>5

LEMMA LoopHolds ==
    ASSUME NEW s \in Seq(ReviewDecision), s = Sorted(reviews)
    PROVE  Holds(LoopReviews, s, Len(s))
<1> DEFINE N == Len(s)
           empty == [a \in {} |-> {}]
<1>1. PICK h : /\ h[0] = empty
               /\ \A n \in 1 .. N : h[n] = RecordLatest(h[n - 1], s[n])
               /\ LoopReviews = h[N]
  BY LoopRuns
<1> DEFINE G == {n \in 0 .. N : Holds(h[n], s, n)}
<1>2. N \in Nat
  OBVIOUS
<1>3. 0 \in G
  <2>1. empty \in [{} -> ReviewDecision] /\ {} \in SUBSET Nat /\ DOMAIN empty = {}
    OBVIOUS
  <2> HIDE DEF empty
  <2>2. empty \in UNION {[D -> ReviewDecision] : D \in SUBSET Nat}
    BY <2>1
  <2>3. Holds(empty, s, 0)
    <3>1. 1 .. 0 = {}
      OBVIOUS
    <3>2. QED
      BY <2>1, <2>2, <3>1 DEF Holds
  <2>4. 0 \in 0 .. N
    BY <1>2
  <2>5. QED
    BY <1>1, <2>3, <2>4
<1>4. ASSUME NEW n \in 1 .. N, n - 1 \in G
      PROVE  n \in G
  <2> DEFINE k == n - 1
             latest == h[n - 1]
  <2>1. n \in 0 .. N /\ k \in Nat /\ k + 1 = n /\ k + 1 <= Len(s)
    BY <1>2
  <2>2. Holds(latest, s, k) /\ h[n] = RecordLatest(latest, s[n])
    BY <1>1, <1>4
  <2> HIDE DEF k, latest, G
  <2>3. Holds(RecordLatest(latest, s[k + 1]), s, k + 1)
    BY <2>1, <2>2, RecordHolds
  <2>4. Holds(h[n], s, n)
    BY <2>1, <2>2, <2>3
  <2>5. QED
    BY <2>1, <2>4 DEF G
<1>5. N \in G
  <2>1. N \in 0 .. N
    BY <1>2
  <2> HIDE DEF G, N
  <2>2. QED
    BY <1>2, <1>3, <1>4, <2>1, CountingUp
<1>6. QED
  BY <1>1, <1>5


\* For every run and every tuple of decisions, whatever their order and
\* their times, the kernel's latest review of an assertion is the decision
\* the loop keeps for it (promotion.py _latest_valid_reviews).
LEMMA LatestReviewIsLoops ==
    ASSUME assertions \in Seq(Assertion), reviews \in Seq(ReviewDecision)
    PROVE  /\ DOMAIN LoopReviews \subseteq DOMAIN assertions
           /\ LatestReviewIsLoop
<1> DEFINE s == Sorted(reviews)
           N == Len(reviews)
           latest == LoopReviews
<1>1. PICK p : Arranges(p, N, s, reviews)
  BY SortedArranges
<1>2. /\ s \in Seq(ReviewDecision) /\ Len(s) = N /\ N \in Nat
      /\ p \in [1 .. N -> 1 .. N] /\ DOMAIN reviews = 1 .. N
      /\ \A i \in 1 .. N : s[i] = reviews[p[i]]
      /\ \A j \in 1 .. N : \E i \in 1 .. N : p[i] = j
      /\ \A i, j \in 1 .. N : i < j => SortedAfter(reviews, p[j], p[i])
  BY <1>1 DEF Arranges
<1>3. Holds(latest, s, N)
  <2>1. Holds(LoopReviews, s, Len(s))
    BY <1>2, LoopHolds
  <2>2. QED
    BY <1>2, <2>1
<1> HIDE DEF s, latest
<1>4. ASSUME NEW a \in DOMAIN latest
      PROVE  a \in DOMAIN assertions
  <2>1. PICK i \in 1 .. N : Counts(s[i]) /\ s[i].assertion = a
    BY <1>3 DEF Holds
  <2>2. QED
    BY <2>1 DEF Counts
<1>5. ASSUME NEW a \in DOMAIN assertions
      PROVE  LatestReview(assertions, reviews, a) = IF a \in DOMAIN latest THEN {latest[a]} ELSE {}
  <2> DEFINE valid == {i \in DOMAIN reviews : IsReviewOf(assertions, reviews[i], a)}
             last == {i \in valid : \A j \in valid \ {i} : SortedAfter(reviews, i, j)}
  <2>1. LatestReview(assertions, reviews, a) = {reviews[i] : i \in last}
    BY DEF LatestReview
  <2>2. \A i \in 1 .. N : i \in valid <=> (Counts(reviews[i]) /\ reviews[i].assertion = a)
    BY <1>2 DEF IsReviewOf, Counts
  <2>3. valid \subseteq 1 .. N
    BY <1>2
  <2>4. \A i, j \in valid : ~(SortedAfter(reviews, i, j) /\ SortedAfter(reviews, j, i))
    <3>1. ASSUME NEW i \in 1 .. N, NEW j \in 1 .. N
          PROVE  ~(SortedAfter(reviews, i, j) /\ SortedAfter(reviews, j, i))
      <4>0. reviews[i] \in ReviewDecision /\ reviews[j] \in ReviewDecision
        BY <1>2
      <4>1. reviews[i].created_at \in Nat /\ reviews[j].created_at \in Nat
        BY <4>0 DEF ReviewDecision
      <4>2. QED
        BY <4>1 DEF SortedAfter
    <3>2. QED
      BY <2>3, <3>1
  <2>5. \A i \in last : i \in valid /\ \A j \in valid : j # i => SortedAfter(reviews, i, j)
    OBVIOUS
  <2>6. \A i \in valid : (\A j \in valid : j # i => SortedAfter(reviews, i, j)) => i \in last
    OBVIOUS
  <2> HIDE DEF valid, last
  <2>7. CASE a \in DOMAIN latest
    <3>1. PICK i \in 1 .. N :
            /\ Counts(s[i]) /\ s[i].assertion = a /\ latest[a] = s[i]
            /\ \A j \in 1 .. N : j > i /\ Counts(s[j]) => s[j].assertion # a
      BY <1>3, <2>7 DEF Holds
    <3>2. p[i] \in 1 .. N /\ p[i] \in valid /\ reviews[p[i]] = latest[a]
      BY <1>2, <2>2, <3>1
    <3>3. ASSUME NEW j \in valid, j # p[i]
          PROVE  SortedAfter(reviews, p[i], j)
      <4>1. PICK k \in 1 .. N : p[k] = j
        BY <1>2, <2>3
      <4>2. Counts(s[k]) /\ s[k].assertion = a
        <5>1. s[k] = reviews[j] /\ j \in 1 .. N
          BY <1>2, <2>3, <4>1
        <5>2. QED
          BY <2>2, <5>1
      <4>3. ~(k > i) /\ k # i
        BY <3>1, <3>3, <4>1, <4>2
      <4>4. k < i
        BY <4>3
      <4>5. QED
        BY <1>2, <4>1, <4>4
    <3>4. p[i] \in last
      BY <2>6, <3>2, <3>3
    <3>5. \A j \in last : j = p[i]
      BY <2>4, <2>5, <3>2, <3>4
    <3>6. QED
      BY <2>1, <2>7, <3>2, <3>4, <3>5
  <2>8. CASE a \notin DOMAIN latest
    <3>1. ASSUME NEW j \in last
          PROVE  FALSE
      <4>1. j \in valid /\ j \in 1 .. N
        BY <2>3, <2>5
      <4>2. PICK k \in 1 .. N : p[k] = j
        BY <1>2, <4>1
      <4>3. Counts(s[k]) /\ s[k].assertion = a
        <5>1. s[k] = reviews[j]
          BY <1>2, <4>2
        <5>2. QED
          BY <2>2, <4>1, <5>1
      <4>4. QED
        BY <1>3, <2>8, <4>3 DEF Holds
    <3>2. QED
      BY <2>1, <2>8, <3>1
  <2>9. QED
    BY <2>7, <2>8
<1>6. LatestReviewIsLoop
  BY <1>5 DEF LatestReviewIsLoop, latest
<1>7. QED
  BY <1>4, <1>6 DEF latest


\* What is kept is a run of KeepCounting over the tuple.
LEMMA ValidRuns ==
    ASSUME NEW seq \in Seq(ReviewDecision),
           seq = reviews
    PROVE  \E h : /\ h[0] = <<>>
                  /\ \A n \in 1 .. Len(seq) : h[n] = KeepCounting(h[n - 1], seq[n])
                  /\ ValidOnly = h[Len(seq)]
<1> DEFINE T == Seq(ReviewDecision)
           N == Len(seq)
           base == <<>>
           F == [n \in 1 .. N |-> [t \in T |-> KeepCounting(t, seq[n])]]
           Step(iter) == [s \in SUBSET DOMAIN seq |->
                            IF s = {} THEN base
                            ELSE KeepCounting(iter[s \ {Max(s)}], seq[Max(s)])]
           iter == CHOOSE f : f = Step(f)
           h == [n \in 0 .. N |-> iter[1 .. n]]
<1>0. base \in T
  OBVIOUS
<1>1. /\ N \in Nat /\ DOMAIN seq = 1 .. N
      /\ \A n \in 1 .. N : seq[n] \in ReviewDecision
  OBVIOUS
<1>2. F \in [1 .. N -> [T -> T]]
  <2>1. \A n \in 1 .. N : \A t \in T : KeepCounting(t, seq[n]) \in T
    BY <1>1 DEF KeepCounting
  <2> HIDE DEF T
  <2>2. QED
    BY <2>1
<1>3. \A n \in 1 .. N : \A t \in T : F[n][t] = KeepCounting(t, seq[n])
  <2> HIDE DEF T
  <2>1. QED
    OBVIOUS
<1>4. PICK g : FoldsBy(g, T, base, N, F)
  <2>1. N \in Nat
    BY <1>1
  <2> HIDE DEF F, T, N, base
  <2>2. QED
    BY <1>0, <1>2, <2>1, FoldExists
<1>5. g = Step(g)
  <2> HIDE DEF T
  <2>1. /\ g \in [SUBSET (1 .. N) -> T]
        /\ \A s \in SUBSET (1 .. N) :
            g[s] = IF s = {} THEN base ELSE F[Max(s)][g[s \ {Max(s)}]]
    BY <1>4 DEF FoldsBy
  <2>2. ASSUME NEW s \in SUBSET (1 .. N), s # {}
        PROVE  g[s] = KeepCounting(g[s \ {Max(s)}], seq[Max(s)])
    <3>1. Max(s) \in 1 .. N
      BY <1>1, <2>2, MaxOfNumbers
    <3>2. g[s \ {Max(s)}] \in T
      BY <2>1
    <3>3. QED
      BY <1>3, <2>1, <2>2, <3>1, <3>2
  <2>3. g = [s \in SUBSET (1 .. N) |-> g[s]]
    BY <2>1
  <2> HIDE DEF F, N, base
  <2>4. QED
    BY <1>1, <2>1, <2>2, <2>3
<1>6. iter = Step(iter)
  BY <1>5
<1>7. ValidOnly = iter[DOMAIN seq]
  BY DEF ValidOnly, FoldLeft, MapThenFoldSet
<1> HIDE DEF iter, F, T
<1>8. h[0] = base
  <2>1. 1 .. 0 = {}
    OBVIOUS
  <2>2. iter[{}] = base
    BY <1>6
  <2>3. QED
    BY <1>1, <2>1, <2>2
<1>9. ASSUME NEW n \in 1 .. N
      PROVE  h[n] = KeepCounting(h[n - 1], seq[n])
  <2>1. /\ 1 .. n \in SUBSET (1 .. N) /\ 1 .. n # {} /\ n \in 1 .. n
        /\ (1 .. n) \ {n} = 1 .. n - 1 /\ n \in Nat /\ n - 1 \in 0 .. N /\ n \in 0 .. N
    <3>1. n \in Nat /\ n >= 1 /\ n <= N
      BY <1>1
    <3>2. 1 .. n \subseteq 1 .. N /\ n \in 1 .. n /\ (1 .. n) \ {n} = 1 .. n - 1
      BY <1>1, <3>1
    <3>3. n - 1 \in 0 .. N /\ n \in 0 .. N
      BY <1>1, <3>1
    <3>4. QED
      BY <3>1, <3>2, <3>3
  <2>2. Max(1 .. n) = n
    <3>1. \A y \in 1 .. n : n >= y
      BY <2>1
    <3>2. QED
      BY <2>1, <3>1, MaxOfNumbers
  <2>3. iter[1 .. n] = KeepCounting(iter[(1 .. n) \ {Max(1 .. n)}], seq[Max(1 .. n)])
    BY <1>1, <1>6, <2>1
  <2>4. QED
    BY <2>1, <2>2, <2>3
<1>10. QED
  <2>1. ValidOnly = h[N]
    BY <1>1, <1>7
  <2> HIDE DEF h
  <2>2. QED
    BY <1>8, <1>9, <2>1
-----------------------------------------------------------------------------
(* The tuple of decisions rearranged, or part of it.                       *)

\* When a tuple takes over, in their order, the decisions of another one that
\* count, the latest review of every assertion is the same.
LEMMA LatestOfSameOrder ==
    ASSUME NEW seq, NEW other, NEW e \in [DOMAIN other -> DOMAIN seq],
           \A k \in DOMAIN other : other[k] = seq[e[k]],
           \A k, l \in DOMAIN other : k # l =>
                /\ e[k] # e[l]
                /\ SortedAfter(other, k, l) <=> SortedAfter(seq, e[k], e[l]),
           \A i \in DOMAIN seq : Counts(seq[i]) => \E k \in DOMAIN other : e[k] = i,
           NEW a \in DOMAIN assertions
    PROVE  LatestReview(assertions, other, a) = LatestReview(assertions, seq, a)
<1> DEFINE valid == {i \in DOMAIN seq : IsReviewOf(assertions, seq[i], a)}
           others == {k \in DOMAIN other : IsReviewOf(assertions, other[k], a)}
           last == {i \in valid : \A j \in valid \ {i} : SortedAfter(seq, i, j)}
           lasts == {k \in others : \A l \in others \ {k} : SortedAfter(other, k, l)}
<1>1. \A k \in others : k \in DOMAIN other /\ e[k] \in valid
  OBVIOUS
<1>2. ASSUME NEW i \in valid
      PROVE  \E k \in others : e[k] = i
  <2>1. Counts(seq[i])
    BY DEF IsReviewOf, Counts
  <2>2. PICK k \in DOMAIN other : e[k] = i
    BY <2>1
  <2>3. QED
    BY <2>2
<1>3. LatestReview(assertions, seq, a) = {seq[i] : i \in last}
  BY DEF LatestReview
<1>4. LatestReview(assertions, other, a) = {other[k] : k \in lasts}
  BY DEF LatestReview
<1>5. ASSUME NEW k \in lasts
      PROVE  e[k] \in last
  <2>1. k \in others /\ \A l \in others : l # k => SortedAfter(other, k, l)
    OBVIOUS
  <2>2. ASSUME NEW j \in valid, j # e[k]
        PROVE  SortedAfter(seq, e[k], j)
    <3>1. PICK l \in others : e[l] = j
      BY <1>2
    <3>2. l # k /\ SortedAfter(other, k, l)
      BY <2>1, <2>2, <3>1
    <3> HIDE DEF valid, others, last, lasts
    <3>3. QED
      BY <1>1, <2>1, <3>1, <3>2
  <2>3. e[k] \in valid
    BY <1>1, <2>1
  <2> HIDE DEF valid, others, lasts
  <2>4. QED
    BY <2>2, <2>3
<1>6. ASSUME NEW i \in last
      PROVE  \E k \in lasts : e[k] = i
  <2>1. i \in valid /\ \A j \in valid : j # i => SortedAfter(seq, i, j)
    OBVIOUS
  <2>2. PICK k \in others : e[k] = i
    BY <1>2, <2>1
  <2>3. ASSUME NEW l \in others, l # k
        PROVE  SortedAfter(other, k, l)
    <3> HIDE DEF valid, others, last, lasts
    <3>1. k \in DOMAIN other /\ l \in DOMAIN other /\ e[l] \in valid
      BY <1>1
    <3>2. e[l] # i
      BY <2>2, <2>3, <3>1
    <3>3. QED
      BY <2>1, <2>2, <2>3, <3>1, <3>2
  <2>4. k \in lasts
    BY <2>3
  <2>5. QED
    BY <2>2, <2>4
<1>7. \A k \in lasts : other[k] = seq[e[k]]
  OBVIOUS
<1> HIDE DEF valid, others, last, lasts
<1>8. {other[k] : k \in lasts} \subseteq {seq[i] : i \in last}
  BY <1>5, <1>7
<1>9. {seq[i] : i \in last} \subseteq {other[k] : k \in lasts}
  BY <1>6, <1>7
<1>10. QED
  BY <1>3, <1>4, <1>8, <1>9

\* Selection is then the same for every key.
LEMMA SelectOfSameOrder ==
    ASSUME NEW seq, NEW other, NEW key,
           \A a \in DOMAIN assertions :
                LatestReview(assertions, other, a) = LatestReview(assertions, seq, a)
    PROVE  Select(assertions, seq, key) = Select(assertions, other, key)
<1>1. \A a \in Candidates(assertions, key) :
        LatestReview(assertions, other, a) = LatestReview(assertions, seq, a)
  BY DEF Candidates
<1>2. QED
  BY <1>1, SelectByLatest

\* Exchanging two neighbours that were not made at the same time is such a
\* rearrangement.
LEMMA ExchangeKeepsLatest ==
    ASSUME NEW seq \in Seq(ReviewDecision), NEW i \in 1 .. Len(seq) - 1,
           seq[i].created_at # seq[i + 1].created_at,
           NEW a \in DOMAIN assertions
    PROVE  LatestReview(assertions,
                        [seq EXCEPT ![i] = seq[i + 1], ![i + 1] = seq[i]], a)
            = LatestReview(assertions, seq, a)
<1> DEFINE N == Len(seq)
           other == [seq EXCEPT ![i] = seq[i + 1], ![i + 1] = seq[i]]
           e == [k \in 1 .. N |-> IF k = i THEN i + 1 ELSE IF k = i + 1 THEN i ELSE k]
<1>1. /\ N \in Nat /\ i \in Nat /\ DOMAIN seq = 1 .. N /\ DOMAIN other = 1 .. N
      /\ i \in 1 .. N /\ i + 1 \in 1 .. N /\ i # i + 1
  OBVIOUS
<1>2. /\ e \in [1 .. N -> 1 .. N]
      /\ e[i] = i + 1 /\ e[i + 1] = i
      /\ \A k \in 1 .. N : k # i /\ k # i + 1 => e[k] = k
  BY <1>1
<1>3. \A k \in 1 .. N : e[e[k]] = k
  BY <1>1, <1>2
<1>4. \A k \in 1 .. N : other[k] = seq[e[k]]
  <2>1. other[i] = seq[i + 1] /\ other[i + 1] = seq[i]
    BY <1>1
  <2>2. \A k \in 1 .. N : k # i /\ k # i + 1 => other[k] = seq[k]
    BY <1>1
  <2> HIDE DEF other, e
  <2>3. QED
    BY <1>2, <2>1, <2>2
<1> HIDE DEF other, e, N
<1>5. \A k \in 1 .. N : seq[k].created_at \in Nat
  <2>1. \A k \in 1 .. N : seq[k] \in ReviewDecision
    BY <1>1
  <2>2. QED
    BY <2>1 DEF ReviewDecision
<1>6. ASSUME NEW k \in 1 .. N, NEW l \in 1 .. N, k # l
      PROVE  /\ e[k] # e[l]
             /\ SortedAfter(other, k, l) <=> SortedAfter(seq, e[k], e[l])
  <2>1. e[k] \in 1 .. N /\ e[l] \in 1 .. N /\ e[k] # e[l]
    BY <1>2, <1>3, <1>6
  <2>2. k \in Nat /\ l \in Nat /\ e[k] \in Nat /\ e[l] \in Nat
    BY <1>1, <2>1
  <2>3. ASSUME seq[e[k]].created_at = seq[e[l]].created_at
        PROVE  (k > l) <=> (e[k] > e[l])
    <3>1. CASE k = i
      <4>1. l # i + 1
        BY <1>1, <1>2, <2>3, <3>1
      <4>2. e[k] = i + 1 /\ e[l] = l
        BY <1>2, <1>6, <3>1, <4>1
      <4>3. QED
        BY <1>1, <1>6, <2>2, <3>1, <4>1, <4>2
    <3>2. CASE k = i + 1
      <4>1. l # i
        BY <1>1, <1>2, <2>3, <3>2
      <4>2. e[k] = i /\ e[l] = l
        BY <1>2, <1>6, <3>2, <4>1
      <4>3. QED
        BY <1>1, <1>6, <2>2, <3>2, <4>1, <4>2
    <3>3. CASE k # i /\ k # i + 1
      <4>1. e[k] = k
        BY <1>2, <3>3
      <4>2. CASE l = i
        BY <1>1, <1>2, <2>2, <3>3, <4>1, <4>2
      <4>3. CASE l = i + 1
        BY <1>1, <1>2, <2>2, <3>3, <4>1, <4>3
      <4>4. CASE l # i /\ l # i + 1
        BY <1>2, <4>1, <4>4
      <4>5. QED
        BY <4>2, <4>3, <4>4
    <3>4. QED
      BY <3>1, <3>2, <3>3
  <2>4. other[k] = seq[e[k]] /\ other[l] = seq[e[l]]
    BY <1>4
  <2>5. SortedAfter(other, k, l) <=> SortedAfter(seq, e[k], e[l])
    BY <1>5, <2>1, <2>3, <2>4 DEF SortedAfter
  <2>6. QED
    BY <2>1, <2>5
<1>7. \A j \in DOMAIN seq : Counts(seq[j]) => \E k \in DOMAIN other : e[k] = j
  BY <1>1, <1>2, <1>3
<1>8. e \in [DOMAIN other -> DOMAIN seq]
  BY <1>1, <1>2
<1>9. \A k, l \in DOMAIN other : k # l =>
        /\ e[k] # e[l]
        /\ SortedAfter(other, k, l) <=> SortedAfter(seq, e[k], e[l])
  BY <1>1, <1>6
<1>10. \A k \in DOMAIN other : other[k] = seq[e[k]]
  BY <1>1, <1>4
<1>11. LatestReview(assertions, other, a) = LatestReview(assertions, seq, a)
  BY <1>7, <1>8, <1>9, <1>10, LatestOfSameOrder
<1>12. QED
  BY <1>11 DEF other

\* kept holds, in their order, the first n decisions of seq that count; e is
\* where they were.
Keeps(e, kept, seq, n) ==
    /\ kept \in Seq(ReviewDecision)
    /\ e \in [DOMAIN kept -> 1 .. n]
    /\ \A k \in DOMAIN kept : kept[k] = seq[e[k]]
    /\ \A k, l \in DOMAIN kept : k < l => e[k] < e[l]
    /\ \A i \in 1 .. n : Counts(seq[i]) => \E k \in DOMAIN kept : e[k] = i

LEMMA KeepCountingKeeps ==
    ASSUME NEW seq \in Seq(ReviewDecision), NEW n \in Nat, n + 1 <= Len(seq),
           NEW kept, NEW e, Keeps(e, kept, seq, n)
    PROVE  \E f : Keeps(f, KeepCounting(kept, seq[n + 1]), seq, n + 1)
<1> DEFINE d == seq[n + 1]
           m == Len(kept)
           f == [k \in 1 .. m + 1 |-> IF k = m + 1 THEN n + 1 ELSE e[k]]
<1>1. /\ kept \in Seq(ReviewDecision) /\ m \in Nat /\ DOMAIN kept = 1 .. m
      /\ e \in [1 .. m -> 1 .. n]
      /\ \A k \in 1 .. m : kept[k] = seq[e[k]]
      /\ \A k, l \in 1 .. m : k < l => e[k] < e[l]
      /\ \A i \in 1 .. n : Counts(seq[i]) => \E k \in 1 .. m : e[k] = i
  BY DEF Keeps
<1>2. d \in ReviewDecision
  OBVIOUS
<1>3. CASE ~Counts(d)
  <2>1. KeepCounting(kept, d) = kept
    BY <1>3 DEF KeepCounting
  <2>2. \A k \in 1 .. m : e[k] \in 1 .. n + 1
    BY <1>1
  <2>3. e \in [1 .. m -> 1 .. n + 1]
    BY <1>1, <2>2
  <2>4. \A i \in 1 .. n + 1 : i \in 1 .. n \/ i = n + 1
    OBVIOUS
  <2>5. \A i \in 1 .. n + 1 : Counts(seq[i]) => \E k \in 1 .. m : e[k] = i
    BY <1>1, <1>3, <2>4
  <2> HIDE DEF m, d
  <2>6. Keeps(e, kept, seq, n + 1)
    BY <1>1, <2>3, <2>5 DEF Keeps
  <2>7. QED
    BY <2>1, <2>6 DEF d
<1>4. CASE Counts(d)
  <2> DEFINE new == Append(kept, d)
  <2>1. KeepCounting(kept, d) = new
    BY <1>4 DEF KeepCounting
  <2>2. /\ new \in Seq(ReviewDecision) /\ DOMAIN new = 1 .. m + 1
        /\ new[m + 1] = d /\ \A k \in 1 .. m : new[k] = kept[k]
    BY <1>1, <1>2, AppendProperties
  <2>3. f \in [1 .. m + 1 -> 1 .. n + 1] /\ f[m + 1] = n + 1
    BY <1>1
  <2>4. \A k \in 1 .. m : f[k] = e[k] /\ f[k] \in Nat /\ f[k] < n + 1
    BY <1>1
  <2>5. \A k \in 1 .. m + 1 : k \in 1 .. m \/ k = m + 1
    BY <1>1
  <2> HIDE DEF new, f, m, d
  <2>6. \A k \in 1 .. m + 1 : new[k] = seq[f[k]]
    BY <1>1, <2>2, <2>3, <2>4, <2>5 DEF d
  <2>7. ASSUME NEW k \in 1 .. m + 1, NEW l \in 1 .. m + 1, k < l
        PROVE  f[k] < f[l]
    <3>1. k \in 1 .. m
      BY <1>1, <2>7
    <3>2. CASE l \in 1 .. m
      BY <1>1, <2>4, <2>7, <3>1, <3>2
    <3>3. CASE l = m + 1
      BY <2>3, <2>4, <3>1, <3>3
    <3>4. QED
      BY <2>5, <3>2, <3>3
  <2>8. ASSUME NEW i \in 1 .. n + 1, Counts(seq[i])
        PROVE  \E k \in 1 .. m + 1 : f[k] = i
    <3>1. CASE i = n + 1
      <4>1. m + 1 \in 1 .. m + 1
        BY <1>1
      <4>2. QED
        BY <2>3, <3>1, <4>1
    <3>2. CASE i # n + 1
      <4>1. i \in 1 .. n
        BY <3>2
      <4>2. PICK k \in 1 .. m : e[k] = i
        BY <1>1, <2>8, <4>1
      <4>3. k \in 1 .. m + 1
        BY <1>1
      <4>4. QED
        BY <2>4, <4>2, <4>3
    <3>3. QED
      BY <3>1, <3>2
  <2>9. Keeps(f, new, seq, n + 1)
    BY <2>2, <2>3, <2>6, <2>7, <2>8 DEF Keeps
  <2>10. QED
    BY <2>1, <2>9 DEF d
<1>5. QED
  BY <1>3, <1>4

LEMMA ValidOnlyKeeps ==
    ASSUME NEW seq \in Seq(ReviewDecision), seq = reviews
    PROVE  \E e : Keeps(e, ValidOnly, seq, Len(seq))
<1> DEFINE N == Len(seq)
<1>1. PICK h : /\ h[0] = <<>>
               /\ \A n \in 1 .. N : h[n] = KeepCounting(h[n - 1], seq[n])
               /\ ValidOnly = h[N]
  BY ValidRuns
<1> DEFINE G == {n \in 0 .. N : \E e : Keeps(e, h[n], seq, n)}
<1>2. N \in Nat
  OBVIOUS
<1>3. 0 \in G
  <2> DEFINE none == [k \in {} |-> 0]
  <2>1. h[0] \in Seq(ReviewDecision) /\ DOMAIN h[0] = {}
    BY <1>1
  <2>2. 1 .. 0 = {} /\ none \in [{} -> 1 .. 0]
    OBVIOUS
  <2> HIDE DEF none
  <2>3. Keeps(none, h[0], seq, 0)
    BY <2>1, <2>2 DEF Keeps
  <2>4. 0 \in 0 .. N
    BY <1>2
  <2>5. QED
    BY <2>3, <2>4
<1>4. ASSUME NEW n \in 1 .. N, n - 1 \in G
      PROVE  n \in G
  <2> DEFINE k == n - 1
             kept == h[n - 1]
  <2>1. n \in 0 .. N /\ k \in Nat /\ k + 1 = n /\ k + 1 <= Len(seq)
    BY <1>2
  <2>2. (\E e : Keeps(e, kept, seq, k)) /\ h[n] = KeepCounting(kept, seq[n])
    BY <1>1, <1>4
  <2> HIDE DEF k, kept, G
  <2>3. PICK e : Keeps(e, kept, seq, k)
    BY <2>2
  <2>4. \E f : Keeps(f, KeepCounting(kept, seq[k + 1]), seq, k + 1)
    BY <2>1, <2>3, KeepCountingKeeps
  <2>5. \E f : Keeps(f, h[n], seq, n)
    BY <2>1, <2>2, <2>4
  <2>6. QED
    BY <2>1, <2>5 DEF G
<1>5. N \in G
  <2>1. N \in 0 .. N
    BY <1>2
  <2> HIDE DEF G, N
  <2>2. QED
    BY <1>2, <1>3, <1>4, <2>1, CountingUp
<1>6. QED
  BY <1>1, <1>5

\* Leaving out what does not count leaves every latest review.
LEMMA ValidOnlyKeepsLatest ==
    ASSUME NEW seq \in Seq(ReviewDecision), seq = reviews,
           NEW a \in DOMAIN assertions
    PROVE  LatestReview(assertions, ValidOnly, a) = LatestReview(assertions, seq, a)
<1> DEFINE kept == ValidOnly
           N == Len(seq)
<1>1. PICK e : Keeps(e, kept, seq, N)
  BY ValidOnlyKeeps
<1> HIDE DEF kept
<1>2. /\ N \in Nat /\ DOMAIN seq = 1 .. N
      /\ kept \in Seq(ReviewDecision) /\ e \in [DOMAIN kept -> 1 .. N]
      /\ \A k \in DOMAIN kept : kept[k] = seq[e[k]]
      /\ \A k, l \in DOMAIN kept : k < l => e[k] < e[l]
      /\ \A i \in 1 .. N : Counts(seq[i]) => \E k \in DOMAIN kept : e[k] = i
  BY <1>1 DEF Keeps
<1>3. ASSUME NEW k \in DOMAIN kept, NEW l \in DOMAIN kept, k # l
      PROVE  /\ e[k] # e[l]
             /\ SortedAfter(kept, k, l) <=> SortedAfter(seq, e[k], e[l])
  <2>1. k \in Nat /\ l \in Nat /\ e[k] \in Nat /\ e[l] \in Nat
    BY <1>2
  <2>2. k < l => e[k] < e[l]
    BY <1>2
  <2>3. l < k => e[l] < e[k]
    BY <1>2
  <2>4. kept[k] = seq[e[k]] /\ kept[l] = seq[e[l]]
    BY <1>2
  <2>5. e[k] # e[l] /\ ((k > l) <=> (e[k] > e[l]))
    BY <1>3, <2>1, <2>2, <2>3
  <2>6. QED
    BY <2>4, <2>5 DEF SortedAfter
<1>4. \A k, l \in DOMAIN kept : k # l =>
        /\ e[k] # e[l]
        /\ SortedAfter(kept, k, l) <=> SortedAfter(seq, e[k], e[l])
  BY <1>3
<1>5. e \in [DOMAIN kept -> DOMAIN seq]
  BY <1>2
<1>6. \A i \in DOMAIN seq : Counts(seq[i]) => \E k \in DOMAIN kept : e[k] = i
  BY <1>2
<1>7. \A k \in DOMAIN kept : kept[k] = seq[e[k]]
  BY <1>2
<1>8. LatestReview(assertions, kept, a) = LatestReview(assertions, seq, a)
  BY <1>4, <1>5, <1>6, <1>7, LatestOfSameOrder
<1>9. QED
  BY <1>8 DEF kept
-----------------------------------------------------------------------------
(* What holds of every input.                                              *)

InputsInv == assertions \in Seq(Assertion) /\ reviews \in Seq(ReviewDecision)

LEMMA InputsStay == Spec => []InputsInv
<1>1. Init => InputsInv
  BY InputsAssumption DEF Init, InputsInv
<1>2. InputsInv /\ [Next]_vars => InputsInv'
  <2>1. SUFFICES ASSUME InputsInv, [Next]_vars PROVE InputsInv'
    OBVIOUS
  <2>2. CASE AddReview
    <3>1. PICK d \in DecisionInputs : reviews' = Append(reviews, d)
      BY <2>2 DEF AddReview
    <3>2. d \in ReviewDecision
      BY InputsAssumption
    <3>3. reviews' \in Seq(ReviewDecision)
      BY <2>1, <3>1, <3>2, AppendProperties DEF InputsInv
    <3>4. QED
      BY <2>1, <2>2, <3>3 DEF AddReview, InputsInv
  <2>3. CASE UNCHANGED vars
    BY <2>1, <2>3 DEF vars, InputsInv
  <2>4. QED
    BY <2>1, <2>2, <2>3 DEF Next
<1>3. QED
  BY <1>1, <1>2, PTL DEF Spec

\* However many decisions there are, in whatever order and with whatever
\* times, the kernel keeps of each assertion the decision that the sorted loop
\* keeps (promotion.py _latest_valid_reviews).
THEOREM KernelKeepsWhatTheLoopKeeps == Spec => []LatestReviewIsLoop
<1>1. InputsInv => LatestReviewIsLoop
  BY LatestReviewIsLoops DEF InputsInv
<1>2. QED
  BY <1>1, InputsStay, PTL

\* Decisions on a former state of an assertion, or on an assertion of another
\* run, never have an effect on any key (promotion.py _latest_valid_reviews).
THEOREM StaleReviewsHaveNoEffect == Spec => []StaleReviewsInert
<1>1. InputsInv => StaleReviewsInert
  <2>1. SUFFICES ASSUME InputsInv, NEW key \in Keys
                 PROVE  Select(assertions, reviews, key)
                            = Select(assertions, ValidOnly, key)
    BY DEF StaleReviewsInert
  <2>2. ASSUME NEW a \in DOMAIN assertions
        PROVE  LatestReview(assertions, ValidOnly, a) = LatestReview(assertions, reviews, a)
    BY <2>1, ValidOnlyKeepsLatest DEF InputsInv
  <2>3. QED
    BY <2>2, SelectOfSameOrder
<1>2. QED
  BY <1>1, InputsStay, PTL

\* In which order decisions made at different times are stored changes no
\* selection, in a tuple of any length (promotion.py, the sort by created_at).
THEOREM StorageOrderHasNoEffect == Spec => []ArrivalOrderInert
<1>1. InputsInv => ArrivalOrderInert
  <2>1. SUFFICES ASSUME InputsInv, NEW i \in 1 .. Len(reviews) - 1,
                        reviews[i].created_at # reviews[i + 1].created_at,
                        NEW key \in Keys
                 PROVE  Select(assertions, reviews, key) =
                            Select(assertions,
                                   [reviews EXCEPT ![i] = reviews[i + 1],
                                                   ![i + 1] = reviews[i]], key)
    BY DEF ArrivalOrderInert
  <2> DEFINE exchanged == [reviews EXCEPT ![i] = reviews[i + 1],
                                          ![i + 1] = reviews[i]]
  <2>2. ASSUME NEW a \in DOMAIN assertions
        PROVE  LatestReview(assertions, exchanged, a) = LatestReview(assertions, reviews, a)
    BY <2>1, ExchangeKeepsLatest DEF InputsInv
  <2> HIDE DEF exchanged
  <2>3. Select(assertions, reviews, key) = Select(assertions, exchanged, key)
    BY <2>2, SelectOfSameOrder
  <2>4. QED
    BY <2>3 DEF exchanged
<1>2. QED
  BY <1>1, InputsStay, PTL

\* No decisions, whatever they are, let more than one value through for a key,
\* and none can keep back a key that the policy accepts (promotion.py _select).
THEOREM SelectionIsDetermined == Spec => []SelectionDetermined
<1>1. InputsInv => SelectionDetermined
  <2>1. SUFFICES ASSUME InputsInv, NEW key \in Keys
                 PROVE  /\ Cardinality(Select(assertions, reviews, key)) <= 1
                        /\ Accepted(assertions, key) # {} /\ ~IsConflicted(assertions, key) =>
                            Select(assertions, reviews, key) # {}
    BY DEF SelectionDetermined
  <2>2. assertions \in Seq(Assertion) /\ reviews \in Seq(ReviewDecision)
    BY <2>1 DEF InputsInv
  <2> DEFINE selected == Select(assertions, reviews, key)
  <2>3. \A s, t \in selected : s = t
    BY <2>2, SelectUnique
  <2>4. Cardinality(selected) <= 1
    <3> HIDE DEF selected
    <3>1. CASE selected = {}
      BY <3>1, FS_EmptySet
    <3>2. CASE selected # {}
      <4>1. PICK s : selected = {s}
        BY <2>3, <3>2
      <4>2. QED
        BY <4>1, FS_Singleton
    <3>3. QED
      BY <3>1, <3>2
  <2>5. ASSUME Accepted(assertions, key) # {}, ~IsConflicted(assertions, key)
        PROVE  selected # {}
    <3>1. AutoAcceptance(assertions, key) # {}
      BY <2>2, <2>5, StrongestExists
    <3>2. QED
      BY <2>5, <3>1 DEF Select
  <2>6. QED
    BY <2>4, <2>5
<1>2. QED
  BY <1>1, InputsStay, PTL

\* Whatever the sources and the reviewers say, what a contradicted key is
\* resolved to is one candidate that the last word on it lets through, with the
\* last word on every other against it (promotion.py _select).
THEOREM ConflictEndsWithOneSurvivor == Spec => []ConflictHasOneSurvivor
<1>1. InputsInv => ConflictHasOneSurvivor
  <2>1. SUFFICES ASSUME InputsInv, NEW key \in Keys,
                        NEW s \in Select(assertions, reviews, key),
                        IsConflicted(assertions, key)
                 PROVE  \E a \in Candidates(assertions, key) :
                            /\ s.assertion_ids = {a}
                            /\ LoopReviews[a].outcome # "reject"
                            /\ s.value = ApprovedValue(assertions[a], LoopReviews[a])
                            /\ \A b \in Candidates(assertions, key) \ {a} :
                                    LoopReviews[b].outcome = "reject"
    BY DEF ConflictHasOneSurvivor
  <2> DEFINE cs == Candidates(assertions, key)
             approved == {a \in cs : Approvals(assertions, reviews, a) # {}}
  <2>2. /\ FullyReviewed(assertions, reviews, key)
        /\ s \in SoleApproval(assertions, reviews, key)
    BY <2>1 DEF Select
  <2>3. PICK a \in {b \in approved : approved = {b}} :
            s \in {[value |-> ApprovedValue(assertions[a], d), assertion_ids |-> {a}]
                    : d \in Approvals(assertions, reviews, a)}
    BY <2>2 DEF SoleApproval
  <2>4. PICK d \in Approvals(assertions, reviews, a) :
            s = [value |-> ApprovedValue(assertions[a], d), assertion_ids |-> {a}]
    BY <2>3
  <2>5. ASSUME NEW b \in cs
        PROVE  /\ LatestReview(assertions, reviews, b) = {LoopReviews[b]}
    <3>1. b \in DOMAIN assertions
      BY DEF Candidates
    <3>2. LatestReview(assertions, reviews, b) =
            IF b \in DOMAIN LoopReviews THEN {LoopReviews[b]} ELSE {}
      BY <2>1, <3>1, LatestReviewIsLoops DEF InputsInv, LatestReviewIsLoop
    <3>3. LatestReview(assertions, reviews, b) # {}
      BY <2>2 DEF FullyReviewed
    <3>4. QED
      BY <3>2, <3>3
  <2>6. a \in cs /\ approved = {a}
    BY <2>3
  <2>7. d = LoopReviews[a] /\ d.outcome # "reject"
    BY <2>5, <2>6 DEF Approvals
  <2>8. ASSUME NEW b \in cs \ {a}
        PROVE  LoopReviews[b].outcome = "reject"
    <3>1. Approvals(assertions, reviews, b) = {}
      BY <2>6
    <3>2. LoopReviews[b] \in LatestReview(assertions, reviews, b)
      BY <2>5
    <3>3. QED
      BY <3>1, <3>2 DEF Approvals
  <2>9. s.assertion_ids = {a} /\ s.value = ApprovedValue(assertions[a], LoopReviews[a])
    BY <2>4, <2>7
  <2>10. QED
    BY <2>6, <2>7, <2>8, <2>9
<1>2. QED
  BY <1>1, InputsStay, PTL
=============================================================================

------------------------- MODULE ConsoleCapture_proofs -------------------------
(***************************************************************************)
(* Proofs about ConsoleCapture: that the search of truncateToBuffer finds  *)
(* the longest beginning that fits, for all entries and every limit, and   *)
(* what the steps of the console do to its invariant.                      *)
(*                                                                         *)
(* The sum of the sizes and the search are recursive functions.  What they *)
(* compute is proved by least counterexamples: a set of natural numbers    *)
(* that is not empty has a least element.                                  *)
(***************************************************************************)
EXTENDS ConsoleCapture, SequenceTheorems, WellFoundedInduction, TLAPS

LEMMA LeastElement ==
  ASSUME NEW T \in SUBSET Nat, T # {}
  PROVE  \E x \in T : \A y \in T : x <= y
<1>1. IsWellFoundedOn(OpToRel(<, Nat), Nat)
  BY NatLessThanWellFounded
<1>2. PICK x \in T : \A y \in T : ~(<<y, x>> \in OpToRel(<, Nat))
  BY <1>1, WFMin
<1>3. \A y \in T : ~(y < x)
  BY <1>2 DEF OpToRel
<1>4. QED
  BY <1>3

LEMMA MaxIs ==
  ASSUME NEW N \in Nat, NEW S \in SUBSET (0..N), S # {}
  PROVE  Max(S) \in S /\ \A y \in S : y <= Max(S)
<1> DEFINE T == {k \in Nat : N - k \in S}
<1>1. PICK s \in S : TRUE
  OBVIOUS
<1>2. s \in 0..N /\ N - s \in Nat /\ N - (N - s) = s
  OBVIOUS
<1>3. T \in SUBSET Nat /\ N - s \in T
  BY <1>2
<1>4. PICK k \in T : \A l \in T : k <= l
  BY <1>3, LeastElement
<1>5. N - k \in S /\ k \in Nat
  BY <1>4
<1>6. ASSUME NEW y \in S PROVE N - k >= y
  <2>1. y \in 0..N /\ N - y \in Nat /\ N - (N - y) = y
    OBVIOUS
  <2>2. N - y \in T
    BY <2>1
  <2>3. k <= N - y
    BY <1>4, <2>2
  <2>4. QED
    BY <1>5, <2>1, <2>3
<1>7. \E x \in S : \A y \in S : x >= y
  BY <1>5, <1>6
<1>8. Max(S) \in S /\ \A y \in S : Max(S) >= y
  BY <1>7 DEF Max
<1>9. ASSUME NEW y \in S PROVE y <= Max(S)
  <2>1. \A x \in S : x \in Int
    OBVIOUS
  <2>3. y \in Int /\ Max(S) \in Int /\ Max(S) >= y
    BY <1>8, <2>1
  <2>2. QED
    BY <2>3
<1>10. QED
  BY <1>8, <1>9

(***************************************************************************)
(* The size of a JSON array.                                               *)
(***************************************************************************)

LEMMA EntryFacts ==
  ASSUME NEW e \in Entries
  PROVE  /\ Len(e) \in Nat
         /\ \A i \in 1..Len(e) : e[i].size \in Nat
         /\ e \in Seq([n: 1..MaxLogs, size: Sizes])
<1>1. Sizes \subseteq Nat
  BY ConsoleAssumption
<1>2. e \in Seq([n: 1..MaxLogs, size: Sizes]) /\ Len(e) \in Nat
  BY DEF Entries
<1>3. ASSUME NEW i \in 1..Len(e) PROVE e[i].size \in Nat
  <2>1. e[i] \in [n: 1..MaxLogs, size: Sizes]
    BY <1>2, ElementOfSeq
  <2>2. QED
    BY <1>1, <2>1
<1>4. QED
  BY <1>2, <1>3

\* The equations of the sum have a solution: one for the first m sizes is
\* one for m + 1 with the next size added.
LEMMA SumExists ==
  ASSUME NEW e \in Entries, NEW m \in 0..Len(e)
  PROVE  \E f \in [0..m -> Nat] :
           \A n \in 0..m : f[n] = IF n = 0 THEN 0 ELSE f[n - 1] + e[n].size
<1> DEFINE Sum(f, k) == \A n \in 0..k : f[n] = IF n = 0 THEN 0 ELSE f[n - 1] + e[n].size
           T == {k \in 0..Len(e) : ~ \E f \in [0..k -> Nat] : Sum(f, k)}
<1>1. Len(e) \in Nat /\ \A i \in 1..Len(e) : e[i].size \in Nat
  BY EntryFacts
<1>2. T \in SUBSET Nat
  BY <1>1
<1>3. SUFFICES ASSUME T # {} PROVE FALSE
  OBVIOUS
<1>4. PICK k \in T : \A l \in T : k <= l
  BY <1>2, <1>3, LeastElement
<1>5. k \in 0..Len(e) /\ k \in Nat
  BY <1>1
<1>6. k # 0
  <2>1. [i \in 0..0 |-> 0] \in [0..0 -> Nat] /\ Sum([i \in 0..0 |-> 0], 0)
    OBVIOUS
  <2>2. QED
    BY <2>1
<1>7. k - 1 \in 0..Len(e) /\ ~(k <= k - 1)
  BY <1>1, <1>5, <1>6
<1>8. k - 1 \notin T
  BY <1>4, <1>7
<1>9. PICK f \in [0..(k - 1) -> Nat] : Sum(f, k - 1)
  BY <1>7, <1>8
<1> DEFINE g == [n \in 0..k |-> IF n = k THEN f[k - 1] + e[k].size ELSE f[n]]
<1>10. f[k - 1] \in Nat /\ e[k].size \in Nat
  BY <1>1, <1>5, <1>6, <1>9
<1>11. g \in [0..k -> Nat]
  BY <1>5, <1>10
<1>12. ASSUME NEW n \in 0..k PROVE g[n] = IF n = 0 THEN 0 ELSE g[n - 1] + e[n].size
  <2>1. CASE n = k
    BY <1>5, <1>6, <2>1
  <2>2. CASE n # k
    <3>1. n \in 0..(k - 1) /\ g[n] = f[n]
      BY <1>5, <2>2
    <3>2. n # 0 => g[n - 1] = f[n - 1]
      BY <1>5, <2>2
    <3>3. QED
      BY <1>9, <3>1, <3>2
  <2>3. QED
    BY <2>1, <2>2
<1>13. Sum(g, k)
  BY <1>12
<1>14. QED
  BY <1>11, <1>13

LEMMA BytesIs ==
  ASSUME NEW e \in Entries
  PROVE  /\ Bytes(e) \in [0..Len(e) -> Nat]
         /\ Bytes(e)[0] = 0
         /\ \A n \in 1..Len(e) : Bytes(e)[n] = Bytes(e)[n - 1] + e[n].size
<1>1. Len(e) \in Nat /\ \A i \in 1..Len(e) : e[i].size \in Nat
  BY EntryFacts
<1>2. PICK f \in [0..Len(e) -> Nat] :
        \A n \in 0..Len(e) : f[n] = IF n = 0 THEN 0 ELSE f[n - 1] + e[n].size
  <2>1. Len(e) \in 0..Len(e)
    BY <1>1
  <2>2. QED
    BY <2>1, SumExists
<1>3. f = [n \in 0..Len(e) |-> IF n = 0 THEN 0 ELSE f[n - 1] + e[n].size]
  BY <1>2
<1> DEFINE b == Bytes(e)
<1>4. b = [n \in 0..Len(e) |-> IF n = 0 THEN 0 ELSE b[n - 1] + e[n].size]
  BY <1>3 DEF Bytes
<1> HIDE DEF b
<1>5. b[0] = 0 /\ \A n \in 1..Len(e) : b[n] = b[n - 1] + e[n].size
  BY <1>1, <1>4
<1> DEFINE T == {n \in 0..Len(e) : b[n] \notin Nat}
<1>6. T = {}
  <2>1. SUFFICES ASSUME T # {} PROVE FALSE
    OBVIOUS
  <2>2. PICK n \in T : \A l \in T : n <= l
    <3>1. T \in SUBSET Nat
      OBVIOUS
    <3>2. QED
      BY <2>1, <3>1, LeastElement
  <2>3. n \in 1..Len(e) /\ n - 1 \in 0..Len(e) /\ ~(n <= n - 1)
    BY <1>1, <1>5
  <2>4. b[n - 1] \in Nat
    BY <2>2, <2>3
  <2>5. QED
    BY <1>1, <1>5, <2>3, <2>4
<1>7. b \in [0..Len(e) -> Nat]
  BY <1>4, <1>6
<1>8. QED
  BY <1>5, <1>7 DEF b

\* Sequences that begin alike have as many bytes there.
LEMMA BytesAgree ==
  ASSUME NEW s \in Entries, NEW e \in Entries, NEW k \in Nat, k <= Len(s), k <= Len(e),
         \A i \in 1..k : s[i] = e[i]
  PROVE  Bytes(s)[k] = Bytes(e)[k]
<1> DEFINE T == {n \in 0..k : Bytes(s)[n] # Bytes(e)[n]}
<1>1. SUFFICES ASSUME T # {} PROVE FALSE
  OBVIOUS
<1>2. PICK n \in T : \A l \in T : n <= l
  <2>1. T \in SUBSET Nat
    OBVIOUS
  <2>2. QED
    BY <1>1, <2>1, LeastElement
<1>3. Len(s) \in Nat /\ Len(e) \in Nat
  BY EntryFacts
<1>4. n \in 1..k
  BY BytesIs
<1>5. n \in 1..Len(s) /\ n \in 1..Len(e) /\ n - 1 \in 0..k /\ ~(n <= n - 1)
  BY <1>3, <1>4
<1>6. Bytes(s)[n - 1] = Bytes(e)[n - 1]
  BY <1>2, <1>5
<1>7. QED
  BY <1>4, <1>5, <1>6, BytesIs

LEMMA BytesGrow ==
  ASSUME NEW e \in Entries, NEW m \in 0..Len(e), NEW n \in 0..Len(e), m <= n
  PROVE  Bytes(e)[m] <= Bytes(e)[n]
<1> DEFINE T == {k \in 0..Len(e) : m <= k /\ ~(Bytes(e)[m] <= Bytes(e)[k])}
<1>0. T \in SUBSET Nat
  OBVIOUS
<1>1. Len(e) \in Nat /\ \A i \in 1..Len(e) : e[i].size \in Nat
  BY EntryFacts
<1>2. Bytes(e) \in [0..Len(e) -> Nat]
  BY BytesIs
<1>3. SUFFICES ASSUME T # {} PROVE FALSE
  OBVIOUS
<1>4. PICK k \in T : \A l \in T : k <= l
  BY <1>0, <1>3, LeastElement
<1>5. Bytes(e)[m] \in Nat
  BY <1>2
<1>6. m < k
  BY <1>1, <1>5
<1>7. k \in 1..Len(e) /\ k - 1 \in 0..Len(e) /\ m <= k - 1 /\ ~(k <= k - 1)
  BY <1>1, <1>6
<1>8. Bytes(e)[m] <= Bytes(e)[k - 1]
  BY <1>4, <1>7
<1>9. Bytes(e)[k] = Bytes(e)[k - 1] + e[k].size /\ e[k].size \in Nat /\ Bytes(e)[k - 1] \in Nat
  BY <1>1, <1>2, <1>7, BytesIs
<1>10. QED
  BY <1>5, <1>8, <1>9

\* The size of the array of the first n entries.
SizeOf(e, n) == 2 + Bytes(e)[n] + (IF n = 0 THEN 0 ELSE n - 1)

LEMMA Beginning ==
  ASSUME NEW e \in Entries, NEW n \in 0..Len(e)
  PROVE  /\ SubSeq(e, 1, n) \in Entries
         /\ Len(SubSeq(e, 1, n)) = n
         /\ \A i \in 1..n : SubSeq(e, 1, n)[i] = e[i]
         /\ JsonSize(SubSeq(e, 1, n)) = SizeOf(e, n)
<1> DEFINE s == SubSeq(e, 1, n)
<1>1. e \in Seq([n: 1..MaxLogs, size: Sizes]) /\ Len(e) \in Nat /\ n \in Nat /\ n \in Int /\ 1 \in Int
  <2>1. e \in Seq([n: 1..MaxLogs, size: Sizes]) /\ Len(e) \in Nat
    BY EntryFacts
  <2>2. QED
    BY <2>1
<1>2. \A i \in 1..n : e[i] \in [n: 1..MaxLogs, size: Sizes]
  <2>1. \A i \in 1..n : i \in 1..Len(e)
    BY <1>1
  <2>2. QED
    BY <1>1, <2>1, ElementOfSeq
<1>3. /\ s \in Seq([n: 1..MaxLogs, size: Sizes])
      /\ Len(s) = IF 1 <= n THEN n - 1 + 1 ELSE 0
      /\ \A i \in 1 .. n - 1 + 1 : s[i] = e[1 + i - 1]
  BY <1>1, <1>2, SubSeqProperties
<1>4. Len(s) = n /\ s \in Entries
  BY <1>1, <1>3 DEF Entries
<1>5. \A i \in 1..n : s[i] = e[i]
  <2>1. \A i \in 1..n : i \in 1 .. n - 1 + 1 /\ 1 + i - 1 = i
    BY <1>1
  <2>2. QED
    BY <1>3, <2>1
<1> HIDE DEF s
<1>6. Bytes(s)[n] = Bytes(e)[n]
  BY <1>1, <1>4, <1>5, BytesAgree
<1>7. s = <<>> <=> n = 0
  BY <1>1, <1>3, <1>4, EmptySeq
<1>8. JsonSize(s) = SizeOf(e, n)
  BY <1>4, <1>6, <1>7 DEF JsonSize, SizeOf
<1>9. QED
  BY <1>4, <1>5, <1>8 DEF s

LEMMA SizeIs ==
  ASSUME NEW e \in Entries
  PROVE  /\ JsonSize(e) = SizeOf(e, Len(e))
         /\ \A n \in 0..Len(e) : SizeOf(e, n) \in Nat
         /\ \A m, n \in 0..Len(e) : m <= n => SizeOf(e, m) <= SizeOf(e, n)
         /\ SizeOf(e, 0) = 2
<1>1. Len(e) \in Nat /\ Bytes(e) \in [0..Len(e) -> Nat] /\ Bytes(e)[0] = 0
  BY EntryFacts, BytesIs
<1>2. e = <<>> <=> Len(e) = 0
  BY EntryFacts, EmptySeq
<1>3. JsonSize(e) = SizeOf(e, Len(e))
  BY <1>2 DEF JsonSize, SizeOf
<1>4. ASSUME NEW n \in 0..Len(e) PROVE SizeOf(e, n) \in Nat
  <2>1. Bytes(e)[n] \in Nat /\ n \in Nat
    BY <1>1
  <2>2. QED
    BY <2>1 DEF SizeOf
<1>5. ASSUME NEW m \in 0..Len(e), NEW n \in 0..Len(e), m <= n
      PROVE  SizeOf(e, m) <= SizeOf(e, n)
  <2>1. Bytes(e)[m] \in Nat /\ Bytes(e)[n] \in Nat /\ m \in Nat /\ n \in Nat
    BY <1>1
  <2>2. Bytes(e)[m] <= Bytes(e)[n]
    BY <1>5, BytesGrow
  <2>3. QED
    BY <1>5, <2>1, <2>2 DEF SizeOf
<1>6. SizeOf(e, 0) = 2
  BY <1>1 DEF SizeOf
<1>7. QED
  BY <1>3, <1>4, <1>5, <1>6

\* What append counts is the size with the new entry.
LEMMA AppendedSize ==
  ASSUME NEW e \in Entries, NEW entry \in [n: 1..MaxLogs, size: Sizes]
  PROVE  /\ Append(e, entry) \in Entries
         /\ Len(Append(e, entry)) = Len(e) + 1
         /\ \A i \in 1..Len(e) : Append(e, entry)[i] = e[i]
         /\ Append(e, entry)[Len(e) + 1] = entry
         /\ JsonSize(Append(e, entry)) = JsonSize(e) + entry.size + (IF e = <<>> THEN 0 ELSE 1)
<1> DEFINE s == Append(e, entry)
<1>1. e \in Seq([n: 1..MaxLogs, size: Sizes]) /\ Len(e) \in Nat
  BY EntryFacts
<1>2. /\ s \in Entries /\ Len(s) = Len(e) + 1
      /\ \A i \in 1..Len(e) : s[i] = e[i]
      /\ s[Len(e) + 1] = entry
  BY <1>1 DEF Entries
<1> HIDE DEF s
<1>3. Bytes(s)[Len(e)] = Bytes(e)[Len(e)]
  BY <1>1, <1>2, BytesAgree
<1>4. Len(e) + 1 \in 1..Len(s) /\ Len(e) + 1 - 1 = Len(e)
  BY <1>1, <1>2
<1>5. Bytes(s)[Len(s)] = Bytes(e)[Len(e)] + entry.size
  <2>1. Bytes(s)[Len(e) + 1] = Bytes(s)[Len(e) + 1 - 1] + s[Len(e) + 1].size
    BY <1>2, <1>4, BytesIs
  <2>2. QED
    BY <1>2, <1>3, <1>4, <2>1
<1>6. /\ Bytes(e)[Len(e)] \in Nat /\ entry.size \in Nat
      /\ (e = <<>> <=> Len(e) = 0) /\ s # <<>>
  <2>1. Bytes(e)[Len(e)] \in Nat
    BY <1>1, BytesIs
  <2>2. entry.size \in Nat
    BY ConsoleAssumption
  <2>3. (e = <<>> <=> Len(e) = 0) /\ s # <<>>
    BY <1>1, <1>2, EmptySeq
  <2>4. QED
    BY <2>1, <2>2, <2>3
<1>7. JsonSize(s) = JsonSize(e) + entry.size + (IF e = <<>> THEN 0 ELSE 1)
  BY <1>1, <1>2, <1>5, <1>6 DEF JsonSize
<1>8. QED
  BY <1>2, <1>7 DEF s

(***************************************************************************)
(* truncateToBuffer.                                                       *)
(***************************************************************************)

\* The lengths of the beginnings that fit, with 0, and the longest.
Fitting(e, maxBytes) == {0} \cup {n \in 1..Len(e) : JsonSize(SubSeq(e, 1, n)) <= maxBytes}
Longest(e, maxBytes) == Max(Fitting(e, maxBytes))

\* A beginning fits if and only if it is not longer than the longest.
LEMMA LongestIs ==
  ASSUME NEW e \in Entries, NEW maxBytes \in Nat
  PROVE  /\ Longest(e, maxBytes) \in 0..Len(e)
         /\ \A n \in 1..Len(e) :
              JsonSize(SubSeq(e, 1, n)) <= maxBytes <=> n <= Longest(e, maxBytes)
<1> DEFINE S == Fitting(e, maxBytes)
           max == Longest(e, maxBytes)
<1>1. Len(e) \in Nat
  BY EntryFacts
<1>2. S \in SUBSET (0..Len(e)) /\ S # {}
  BY <1>1 DEF Fitting
<1>3. max \in S /\ \A n \in S : n <= max
  BY <1>1, <1>2, MaxIs DEF Longest
<1> HIDE DEF max
<1>4. max \in 0..Len(e)
  BY <1>2, <1>3
<1>5. ASSUME NEW n \in 1..Len(e), n <= max PROVE JsonSize(SubSeq(e, 1, n)) <= maxBytes
  <2>1. max \in 1..Len(e) /\ max \in 0..Len(e) /\ n \in 0..Len(e)
    BY <1>1, <1>4, <1>5
  <2>2. JsonSize(SubSeq(e, 1, max)) <= maxBytes
    BY <1>3, <2>1 DEF Fitting
  <2>3. SizeOf(e, max) <= maxBytes /\ JsonSize(SubSeq(e, 1, n)) = SizeOf(e, n)
    BY <2>1, <2>2, Beginning
  <2>4. SizeOf(e, n) <= SizeOf(e, max) /\ SizeOf(e, n) \in Nat /\ SizeOf(e, max) \in Nat
    BY <1>5, <2>1, SizeIs
  <2>5. QED
    BY <2>3, <2>4
<1>6. ASSUME NEW n \in 1..Len(e), JsonSize(SubSeq(e, 1, n)) <= maxBytes PROVE n <= max
  BY <1>3, <1>6 DEF Fitting
<1>7. QED
  BY <1>4, <1>5, <1>6 DEF max

\* What one round of the search makes of the rest of it.
Round(f, e, maxBytes) ==
  [b \in (0..Len(e)) \X (0..Len(e)) |->
     IF b[1] + 1 >= b[2] THEN b[1]
     ELSE IF JsonSize(SubSeq(e, 1, (b[1] + b[2]) \div 2)) <= maxBytes
          THEN f[<<(b[1] + b[2]) \div 2, b[2]>>]
     ELSE f[<<b[1], (b[1] + b[2]) \div 2>>]]

LEMMA Middle ==
  ASSUME NEW lo \in Nat, NEW hi \in Nat, lo + 1 < hi
  PROVE  (lo + hi) \div 2 \in Nat /\ lo < (lo + hi) \div 2 /\ (lo + hi) \div 2 < hi
OBVIOUS

\* The equations of the search have a solution.
LEMMA SearchExists ==
  ASSUME NEW e \in Entries, NEW maxBytes \in Nat
  PROVE  \E f : f = Round(f, e, maxBytes)
<1> DEFINE Bounds == (0..Len(e)) \X (0..Len(e))
           max == Longest(e, maxBytes)
           f == [b \in Bounds |-> IF b[1] + 1 >= b[2] \/ max <= b[1] THEN b[1]
                                  ELSE IF max >= b[2] THEN b[2] - 1 ELSE max]
<1>1. Len(e) \in Nat /\ max \in 0..Len(e) /\ max \in Nat
  BY EntryFacts, LongestIs
<1>2. \A n \in 1..Len(e) : JsonSize(SubSeq(e, 1, n)) <= maxBytes <=> n <= max
  BY LongestIs
<1> HIDE DEF max
<1>3. ASSUME NEW lo \in 0..Len(e), NEW hi \in 0..Len(e)
      PROVE  f[<<lo, hi>>] = Round(f, e, maxBytes)[<<lo, hi>>]
  <2> DEFINE mid == (lo + hi) \div 2
  <2>1. <<lo, hi>> \in Bounds /\ lo \in Nat /\ hi \in Nat
    BY <1>1
  <2>2. CASE lo + 1 >= hi
    BY <2>1, <2>2 DEF Round
  <2>3. CASE ~(lo + 1 >= hi)
    <3>1. mid \in Nat /\ lo < mid /\ mid < hi
      BY <2>1, <2>3, Middle
    <3>2. mid \in 1..Len(e) /\ <<mid, hi>> \in Bounds /\ <<lo, mid>> \in Bounds
      BY <1>1, <2>1, <3>1
    <3>3. JsonSize(SubSeq(e, 1, mid)) <= maxBytes <=> mid <= max
      BY <1>2, <3>2
    <3>4. Round(f, e, maxBytes)[<<lo, hi>>] = IF mid <= max THEN f[<<mid, hi>>] ELSE f[<<lo, mid>>]
      BY <2>1, <2>3, <3>3 DEF Round
    <3>5. /\ f[<<lo, hi>>] = IF lo + 1 >= hi \/ max <= lo THEN lo
                             ELSE IF max >= hi THEN hi - 1 ELSE max
          /\ f[<<mid, hi>>] = IF mid + 1 >= hi \/ max <= mid THEN mid
                              ELSE IF max >= hi THEN hi - 1 ELSE max
          /\ f[<<lo, mid>>] = IF lo + 1 >= mid \/ max <= lo THEN lo
                              ELSE IF max >= mid THEN mid - 1 ELSE max
      BY <2>1, <3>2
    <3> HIDE DEF mid, f
    <3>6. QED
      BY <1>1, <2>1, <2>3, <3>1, <3>4, <3>5
  <2>4. QED
    BY <2>2, <2>3
<1>4. \A b \in Bounds : f[b] = Round(f, e, maxBytes)[b]
  <2>1. \A b \in Bounds : b[1] \in 0..Len(e) /\ b[2] \in 0..Len(e) /\ b = <<b[1], b[2]>>
    OBVIOUS
  <2> HIDE DEF f
  <2>2. QED
    BY <1>3, <2>1
<1>5. f = Round(f, e, maxBytes)
  BY <1>4 DEF Round
<1>6. QED
  BY <1>5

\* Whatever solves them ends at the longest, from any bounds around it.
LEMMA SearchEnds ==
  ASSUME NEW e \in Entries, NEW maxBytes \in Nat, NEW f, f = Round(f, e, maxBytes),
         NEW low \in 0..Len(e), NEW high \in 0..Len(e),
         low <= Longest(e, maxBytes), Longest(e, maxBytes) < high
  PROVE  f[<<low, high>>] = Longest(e, maxBytes)
<1> DEFINE max == Longest(e, maxBytes)
           T == {d \in Nat : \E lo, hi \in 0..Len(e) :
                   lo <= max /\ max < hi /\ d = hi - lo /\ f[<<lo, hi>>] # max}
<1>1. Len(e) \in Nat /\ max \in 0..Len(e) /\ max \in Nat
  BY EntryFacts, LongestIs
<1>2. \A n \in 1..Len(e) : JsonSize(SubSeq(e, 1, n)) <= maxBytes <=> n <= max
  BY LongestIs
<1>3. low <= max /\ max < high
  OBVIOUS
<1> HIDE DEF max
<1>4. SUFFICES ASSUME f[<<low, high>>] # max PROVE FALSE
  BY DEF max
<1>5. high - low \in Nat /\ T \in SUBSET Nat
  BY <1>1, <1>3
<1>6. high - low \in T
  BY <1>3, <1>4, <1>5
<1>7. PICK d \in T : \A c \in T : d <= c
  BY <1>5, <1>6, LeastElement
<1>8. PICK lo \in 0..Len(e), hi \in 0..Len(e) :
        lo <= max /\ max < hi /\ d = hi - lo /\ f[<<lo, hi>>] # max
  OBVIOUS
<1>9. ASSUME NEW l \in 0..Len(e), NEW h \in 0..Len(e), l <= max, max < h, h - l < d
      PROVE  f[<<l, h>>] = max
  <2>1. h - l \in Nat
    BY <1>1, <1>9
  <2>2. d \in Nat /\ ~(d <= h - l)
    BY <1>5, <1>9, <2>1
  <2>3. h - l \notin T
    BY <1>7, <2>2
  <2>4. QED
    BY <1>9, <2>1, <2>3
<1> HIDE DEF T
<1> DEFINE mid == (lo + hi) \div 2
<1>10. lo \in Nat /\ hi \in Nat /\ <<lo, hi>> \in (0..Len(e)) \X (0..Len(e))
  BY <1>1
<1>11. CASE lo + 1 >= hi
  <2>1. f[<<lo, hi>>] = lo
    BY <1>10, <1>11 DEF Round
  <2>2. lo = max
    BY <1>1, <1>8, <1>10, <1>11
  <2>3. QED
    BY <1>8, <2>1, <2>2
<1>12. CASE ~(lo + 1 >= hi)
  <2>1. mid \in Nat /\ lo < mid /\ mid < hi
    BY <1>10, <1>12, Middle
  <2>2. mid \in 1..Len(e) /\ mid \in 0..Len(e)
    BY <1>1, <1>10, <2>1
  <2>3. f[<<lo, hi>>] = IF JsonSize(SubSeq(e, 1, mid)) <= maxBytes THEN f[<<mid, hi>>] ELSE f[<<lo, mid>>]
    BY <1>10, <1>12 DEF Round
  <2> HIDE DEF mid
  <2>4. CASE mid <= max
    <3>1. f[<<mid, hi>>] = max
      BY <1>1, <1>8, <1>9, <1>10, <2>1, <2>2, <2>4
    <3>2. QED
      BY <1>2, <1>8, <2>2, <2>3, <2>4, <3>1
  <2>5. CASE ~(mid <= max)
    <3>1. f[<<lo, mid>>] = max
      BY <1>1, <1>8, <1>9, <1>10, <2>1, <2>2, <2>5
    <3>2. QED
      BY <1>2, <1>8, <2>2, <2>3, <2>5, <3>1
  <2>6. QED
    BY <2>4, <2>5
<1>13. QED
  BY <1>11, <1>12

LEMMA SearchIs ==
  ASSUME NEW e \in Entries, NEW maxBytes \in Nat, Longest(e, maxBytes) < Len(e)
  PROVE  Search(e, maxBytes) = Longest(e, maxBytes)
<1>1. PICK f : f = Round(f, e, maxBytes)
  BY SearchExists
<1>2. \E g : g = Round(g, e, maxBytes) /\ Search(e, maxBytes) = g[<<0, Len(e)>>]
  BY <1>1 DEF Search, Round
<1>3. PICK g : g = Round(g, e, maxBytes) /\ Search(e, maxBytes) = g[<<0, Len(e)>>]
  BY <1>2
<1>4. 0 \in 0..Len(e) /\ Len(e) \in 0..Len(e) /\ 0 <= Longest(e, maxBytes)
  BY EntryFacts, LongestIs
<1>5. QED
  BY <1>3, <1>4, SearchEnds

\* truncateToBuffer keeps the longest beginning of the entries whose JSON has at
\* most maxBytes bytes, whatever the entries and the limit: the bisection neither
\* stops short of it nor passes it, and with a limit below the two bytes of an
\* empty array nothing is kept.
THEOREM TruncateKeepsLongest ==
  \A entries \in Entries, maxBytes \in Nat :
    /\ Truncate(entries, maxBytes) = LongestPrefix(entries, maxBytes)
    /\ Truncate(entries, maxBytes) \in Entries
    /\ Len(Truncate(entries, maxBytes)) <= Len(entries)
    /\ IsPrefix(Truncate(entries, maxBytes), entries)
<1> SUFFICES ASSUME NEW e \in Entries, NEW maxBytes \in Nat
    PROVE  /\ Truncate(e, maxBytes) = LongestPrefix(e, maxBytes)
           /\ Truncate(e, maxBytes) \in Entries
           /\ Len(Truncate(e, maxBytes)) <= Len(e)
           /\ IsPrefix(Truncate(e, maxBytes), e)
  OBVIOUS
<1> DEFINE max == Longest(e, maxBytes)
<1>1. Len(e) \in Nat /\ max \in 0..Len(e) /\ max \in Nat
  BY EntryFacts, LongestIs
<1>2. \A n \in 1..Len(e) : JsonSize(SubSeq(e, 1, n)) <= maxBytes <=> n <= max
  BY LongestIs
<1>3. LongestPrefix(e, maxBytes) = SubSeq(e, 1, max)
  BY DEF LongestPrefix, Longest, Fitting
<1>4. SubSeq(e, 1, Len(e)) = e
  BY EntryFacts, SubSeqFull
<1>5. max < Len(e) => Search(e, maxBytes) = max
  BY SearchIs
<1> HIDE DEF max
<1>6. Truncate(e, maxBytes) = SubSeq(e, 1, max)
  <2>1. CASE JsonSize(e) <= maxBytes
    <3>1. Truncate(e, maxBytes) = e
      BY <2>1 DEF Truncate
    <3>2. CASE Len(e) = 0
      BY <1>1, <1>4, <3>1, <3>2
    <3>3. CASE Len(e) # 0
      <4>1. Len(e) \in 1..Len(e)
        BY <1>1, <3>3
      <4>2. Len(e) <= max
        BY <1>2, <1>4, <2>1, <4>1
      <4>3. Len(e) = max
        BY <1>1, <4>2
      <4>4. QED
        BY <1>4, <3>1, <4>3
    <3>4. QED
      BY <3>2, <3>3
  <2>2. CASE ~(JsonSize(e) <= maxBytes) /\ maxBytes < 2
    <3>1. Truncate(e, maxBytes) = <<>>
      BY <2>2 DEF Truncate
    <3>2. ASSUME max # 0 PROVE FALSE
      <4>1. max \in 1..Len(e) /\ 0 \in 0..Len(e) /\ 0 <= max
        BY <1>1, <3>2
      <4>2. JsonSize(SubSeq(e, 1, max)) <= maxBytes
        BY <1>1, <1>2, <4>1
      <4>3. SizeOf(e, max) <= maxBytes
        BY <1>1, <4>2, Beginning
      <4>4. 2 <= SizeOf(e, max) /\ SizeOf(e, max) \in Nat
        BY <1>1, <4>1, SizeIs
      <4>5. QED
        BY <2>2, <4>3, <4>4
    <3>3. SubSeq(e, 1, 0) = <<>>
      BY SubSeqEmpty
    <3>4. QED
      BY <3>1, <3>2, <3>3
  <2>3. CASE ~(JsonSize(e) <= maxBytes) /\ ~(maxBytes < 2)
    <3>1. Truncate(e, maxBytes) = SubSeq(e, 1, Search(e, maxBytes))
      BY <2>3 DEF Truncate
    <3>2. max # Len(e)
      <4>1. CASE Len(e) = 0
        <5>1. JsonSize(e) = 2
          BY <4>1, SizeIs
        <5>2. QED
          BY <2>3, <5>1
      <4>2. CASE Len(e) # 0
        <5>1. Len(e) \in 1..Len(e) /\ Len(e) <= Len(e)
          BY <1>1, <4>2
        <5>2. QED
          BY <1>2, <1>4, <2>3, <5>1
      <4>3. QED
        BY <4>1, <4>2
    <3>3. max < Len(e)
      BY <1>1, <3>2
    <3>4. QED
      BY <1>5, <3>1, <3>3
  <2>4. QED
    BY <2>1, <2>2, <2>3
<1>7. SubSeq(e, 1, max) \in Entries /\ Len(SubSeq(e, 1, max)) = max
  BY <1>1, Beginning
<1>8. IsPrefix(SubSeq(e, 1, max), e)
  <2> DEFINE s == SubSeq(e, 1, max)
  <2>1. s \in Seq([n: 1..MaxLogs, size: Sizes]) /\ Len(s) = max
    BY <1>7, EntryFacts
  <2>2. SubSeq(s, 1, Len(s)) = s
    BY <2>1, SubSeqFull
  <2>3. SubSeq(s, 1, Len(s)) = SubSeq(e, 1, Len(s)) /\ Len(s) <= Len(e)
    BY <1>1, <2>1, <2>2
  <2> HIDE DEF s
  <2>4. IsPrefix(s, e)
    BY <2>3 DEF IsPrefix
  <2>5. QED
    BY <2>4 DEF s
<1>9. QED
  BY <1>1, <1>3, <1>6, <1>7, <1>8

(***************************************************************************)
(* The console of a page.                                                  *)
(***************************************************************************)

Pages == [acob: {"none", "plain", "frozen"},
          acobCapture: Calls \cup {None}, windowCapture: Calls \cup {None},
          console: Seq(Calls), logged: Entries]

Captures == [entries: Entries, truncated: BOOLEAN, active: BOOLEAN, expired: BOOLEAN,
             maxBytes: Budgets \cup {0}, originals: Seq(Calls), from: 0..MaxLogs]

\* The console of a page is its own, or has the shim on it that the scripts find.
Shape(p) ==
  /\ Len(p.logged) <= MaxLogs
  /\ p.acob = "frozen" => p.acobCapture = None
  /\ p.acobCapture \in {None, p.windowCapture}
  /\ p.console = IF Found(p) = None THEN <<>> ELSE <<Found(p)>>

LEMMA ConsoleParts ==
  ConsoleInv <=> /\ sessions \subseteq Tabs /\ budget \in Budgets
                 /\ page \in [Tabs -> Pages] /\ \A t \in Tabs : Shape(page[t])
                 /\ capture \in [Calls -> Captures]
                 /\ \A c \in Calls : capture[c].originals = <<>>
BY DEF ConsoleInv, ConsoleTypes, ShimOK, ShimCanBeUndone, Lost, Shape, Pages, Captures

LEMMA FoundInPage ==
  ASSUME NEW p \in Pages
  PROVE  Found(p) \in Calls \cup {None}
BY DEF Found, Pages

\* No capture, or a fresh one, is one without originals.
LEMMA NewCaptures ==
  /\ NoCapture \in Captures /\ NoCapture.originals = <<>>
  /\ FreshPage \in Pages /\ Shape(FreshPage)
<1>1. MaxLogs \in Nat
  BY ConsoleAssumption
<1>2. <<>> \in Entries /\ <<>> \in Seq(Calls) /\ Len(<<>>) = 0
  BY DEF Entries
<1>3. NoCapture \in Captures /\ NoCapture.originals = <<>>
  BY <1>1, <1>2 DEF NoCapture, Captures
<1>4. FreshPage \in Pages
  BY <1>2 DEF FreshPage, Pages
<1>5. Shape(FreshPage)
  BY <1>1, <1>2 DEF FreshPage, Shape, Found
<1>6. QED
  BY <1>3, <1>4, <1>5

\* A step changes the page of one tab at most.
LEMMA PageChanges ==
  ASSUME ConsoleInv, NEW t \in Tabs, NEW p \in Pages, Shape(p),
         page' = [page EXCEPT ![t] = p],
         capture' \in [Calls -> Captures], \A c \in Calls : capture'[c].originals = <<>>,
         sessions' \subseteq Tabs, budget' \in Budgets
  PROVE  ConsoleInv'
<1>1. page' \in [Tabs -> Pages] /\ \A s \in Tabs : Shape(page'[s])
  BY ConsoleParts
<1>2. (/\ sessions \subseteq Tabs /\ budget \in Budgets
       /\ page \in [Tabs -> Pages] /\ \A s \in Tabs : Shape(page[s])
       /\ capture \in [Calls -> Captures]
       /\ \A c \in Calls : capture[c].originals = <<>>)'
  BY <1>1
<1>3. QED
  BY <1>2 DEF ConsoleInv, ConsoleTypes, ShimOK, ShimCanBeUndone, Lost, Shape, Pages, Captures

\* Or no page at all.
LEMMA PagesStay ==
  ASSUME ConsoleInv, UNCHANGED page,
         capture' \in [Calls -> Captures], \A c \in Calls : capture'[c].originals = <<>>,
         sessions' \subseteq Tabs, budget' \in Budgets
  PROVE  ConsoleInv'
<1>1. (/\ sessions \subseteq Tabs /\ budget \in Budgets
       /\ page \in [Tabs -> Pages] /\ \A s \in Tabs : Shape(page[s])
       /\ capture \in [Calls -> Captures]
       /\ \A c \in Calls : capture[c].originals = <<>>)'
  BY ConsoleParts
<1>2. QED
  BY <1>1 DEF ConsoleInv, ConsoleTypes, ShimOK, ShimCanBeUndone, Lost, Shape, Pages, Captures

LEMMA ConsoleUntouched ==
  ASSUME ConsoleInv, UNCHANGED <<page, capture>>, sessions' \subseteq Tabs, budget' \in Budgets
  PROVE  ConsoleInv'
BY ConsoleParts, PagesStay

\* The libraries replace and freeze the namespace; the capture is found in the global.
LEMMA LoadLibrariesKeeps ==
  ASSUME ConsoleInv, NEW t \in Tabs, LoadLibraries(t), UNCHANGED <<sessions, budget, capture>>
  PROVE  ConsoleInv'
<1> DEFINE p == [page[t] EXCEPT !.acob = "frozen", !.acobCapture = None]
<1>1. page[t] \in Pages /\ Shape(page[t])
  BY ConsoleParts
<1>2. /\ p \in Pages /\ p.acob = "frozen" /\ p.acobCapture = None
      /\ p.windowCapture = page[t].windowCapture /\ p.console = page[t].console
      /\ p.logged = page[t].logged
  BY <1>1 DEF Pages
<1>3. page' = [page EXCEPT ![t] = p]
  BY <1>1 DEF LoadLibraries, Pages
<1> HIDE DEF p
<1>4. Found(p) = Found(page[t])
  BY <1>1, <1>2 DEF Found, Shape
<1>5. Shape(p)
  BY <1>1, <1>2, <1>4 DEF Shape
<1>6. QED
  BY <1>2, <1>3, <1>5, ConsoleParts, PageChanges

\* A new shim takes the place of the one found.
LEMMA InstallKeeps ==
  ASSUME ConsoleInv, NEW c \in Calls, Install(c, page[TabOf[c]]),
         sessions' \subseteq Tabs, UNCHANGED budget
  PROVE  ConsoleInv'
<1> DEFINE t == TabOf[c]
           old == page[t]
           prev == Found(old)
           originals == IF prev = None THEN old.console ELSE capture[prev].originals
           p == [old EXCEPT !.acob = IF @ = "none" THEN "plain" ELSE @,
                            !.acobCapture = IF old.acob = "frozen" THEN @ ELSE c,
                            !.windowCapture = c,
                            !.console = <<c>> \o originals]
           new == [NoCapture EXCEPT !.active = TRUE, !.maxBytes = budget,
                                    !.originals = originals, !.from = Len(old.logged)]
<1>1. t \in Tabs /\ None # c /\ MaxLogs \in Nat
  BY ConsoleAssumption
<1>2. old \in Pages /\ Shape(old) /\ prev \in Calls \cup {None}
  BY <1>1, ConsoleParts, FoundInPage
<1>3. originals = <<>>
  BY <1>2, ConsoleParts DEF Shape
<1>4. page' = [page EXCEPT ![t] = p]
      /\ capture' = [d \in Calls |-> IF d = c THEN new ELSE IF d = prev THEN NoCapture ELSE capture[d]]
  BY DEF Install
<1> HIDE DEF originals
<1>5. <<c>> \o originals = <<c>> /\ <<c>> \in Seq(Calls)
  <2>1. <<c>> \in Seq(Calls)
    OBVIOUS
  <2>2. <<c>> \o <<>> = <<c>>
    BY <2>1, ConcatEmptySeq
  <2>3. QED
    BY <1>3, <2>1, <2>2
<1>6. /\ p \in Pages /\ p.windowCapture = c /\ p.console = <<c>> /\ p.logged = old.logged
      /\ IF old.acob = "frozen" THEN p.acob = "frozen" /\ p.acobCapture = None
                                ELSE p.acob # "frozen" /\ p.acobCapture = c
  <2>1. p = [old EXCEPT !.acob = IF @ = "none" THEN "plain" ELSE @,
                        !.acobCapture = IF old.acob = "frozen" THEN @ ELSE c,
                        !.windowCapture = c,
                        !.console = <<c>>]
    BY <1>5
  <2> HIDE DEF p
  <2>2. QED
    BY <1>2, <1>5, <2>1 DEF Pages, Shape
<1>7. new \in Captures /\ new.originals = <<>>
  <2>1. Len(old.logged) \in 0 .. MaxLogs
    BY <1>1, <1>2 DEF Shape, Pages, Entries
  <2>2. budget \in Budgets /\ <<>> \in Seq(Calls) /\ NoCapture \in Captures
    BY ConsoleParts, NewCaptures
  <2>3. QED
    BY <1>3, <2>1, <2>2 DEF Captures
<1> HIDE DEF p, new
<1>8. Shape(p)
  BY <1>1, <1>2, <1>6 DEF Shape, Found
<1>9. capture' \in [Calls -> Captures] /\ \A d \in Calls : capture'[d].originals = <<>>
  BY <1>4, <1>7, NewCaptures, ConsoleParts
<1>10. budget' \in Budgets
  BY ConsoleParts
<1>11. QED
  BY <1>1, <1>4, <1>6, <1>8, <1>9, <1>10, PageChanges

\* Restoring takes the shim off.
LEMMA RestoreKeeps ==
  ASSUME ConsoleInv, NEW t \in Tabs, Restore(t), sessions' \subseteq Tabs, UNCHANGED budget
  PROVE  ConsoleInv'
<1> DEFINE old == page[t]
           cap == Found(old)
           p == [old EXCEPT !.acobCapture = None, !.windowCapture = None,
                            !.console = capture[cap].originals]
<1>1. old \in Pages /\ Shape(old) /\ cap \in Calls \cup {None} /\ budget' \in Budgets
  BY ConsoleParts, FoundInPage
<1>2. CASE cap = None
  <2>1. UNCHANGED <<page, capture>>
    BY <1>2 DEF Restore
  <2>2. QED
    BY <1>1, <2>1, ConsoleUntouched
<1>3. CASE cap # None
  <2>1. page' = [page EXCEPT ![t] = p] /\ capture' = [capture EXCEPT ![cap] = NoCapture]
    BY <1>3 DEF Restore
  <2>2. capture[cap].originals = <<>> /\ <<>> \in Seq(Calls)
    BY <1>1, <1>3, ConsoleParts
  <2>3. /\ p \in Pages /\ p.acobCapture = None /\ p.windowCapture = None /\ p.console = <<>>
        /\ p.logged = old.logged
    BY <1>1, <2>2 DEF Pages
  <2> HIDE DEF p
  <2>4. Shape(p)
    BY <1>1, <2>3 DEF Shape, Found
  <2>5. capture' \in [Calls -> Captures] /\ \A d \in Calls : capture'[d].originals = <<>>
    BY <2>1, NewCaptures, ConsoleParts
  <2>6. QED
    BY <1>1, <2>1, <2>3, <2>4, <2>5, PageChanges
<1>4. QED
  BY <1>2, <1>3

\* Logging fills captures only.
LEMMA LogKeeps ==
  ASSUME ConsoleInv, NEW t \in Tabs, NEW size \in Sizes, Log(t, size)
  PROVE  ConsoleInv'
<1> DEFINE old == page[t]
           entry == [n |-> Len(old.logged) + 1, size |-> size]
           p == [old EXCEPT !.logged = Append(@, entry)]
<1>1. old \in Pages /\ Shape(old) /\ MaxLogs \in Nat
  BY ConsoleParts, ConsoleAssumption
<1>2. /\ Len(old.logged) < MaxLogs
      /\ page' = [page EXCEPT ![t].logged = Append(@, entry)]
      /\ capture' = [c \in Calls |->
           IF Contains(old.console, c) THEN Appended(capture[c], entry) ELSE capture[c]]
      /\ UNCHANGED <<sessions, budget>>
  BY DEF Log
<1>3. entry \in [n: 1..MaxLogs, size: Sizes]
  BY <1>1, <1>2 DEF Pages, Entries
<1> HIDE DEF entry
<1>4. /\ p \in Pages /\ p.acob = old.acob /\ p.acobCapture = old.acobCapture
      /\ p.windowCapture = old.windowCapture /\ p.console = old.console
      /\ Len(p.logged) <= MaxLogs
  <2>1. old.logged \in Entries
    BY <1>1 DEF Pages
  <2>2. Append(old.logged, entry) \in Entries /\ Len(Append(old.logged, entry)) = Len(old.logged) + 1
    BY <1>3, <2>1 DEF Entries
  <2>3. Len(old.logged) \in Nat
    BY <2>1 DEF Entries
  <2>4. Len(Append(old.logged, entry)) <= MaxLogs
    BY <1>1, <1>2, <2>2, <2>3
  <2> DEFINE more == Append(old.logged, entry)
  <2>5. p = [old EXCEPT !.logged = more] /\ more \in Entries /\ Len(more) <= MaxLogs
    BY <2>2, <2>4
  <2> HIDE DEF p, more
  <2>6. QED
    BY <1>1, <2>5 DEF Pages
<1>5. page' = [page EXCEPT ![t] = p]
  BY <1>2
<1> HIDE DEF p
<1>6. Shape(p)
  BY <1>1, <1>4 DEF Shape, Found
<1>7. ASSUME NEW c \in Calls
      PROVE  Appended(capture[c], entry) \in Captures
             /\ Appended(capture[c], entry).originals = <<>>
  <2>1. capture[c] \in Captures /\ capture[c].originals = <<>>
    BY ConsoleParts
  <2>2. [capture[c] EXCEPT !.truncated = TRUE] \in Captures
        /\ [capture[c] EXCEPT !.truncated = TRUE].originals = <<>>
    BY <2>1 DEF Captures
  <2>3. Append(capture[c].entries, entry) \in Entries
    BY <1>3, <2>1 DEF Captures, Entries
  <2>4. [capture[c] EXCEPT !.entries = Append(@, entry)] \in Captures
        /\ [capture[c] EXCEPT !.entries = Append(@, entry)].originals = <<>>
    BY <2>1, <2>3 DEF Captures
  <2>5. QED
    BY <2>1, <2>2, <2>4 DEF Appended
<1>8. capture' \in [Calls -> Captures] /\ \A d \in Calls : capture'[d].originals = <<>>
  BY <1>2, <1>7, ConsoleParts
<1>9. sessions' \subseteq Tabs /\ budget' \in Budgets
  BY <1>2, ConsoleParts
<1>10. QED
  BY <1>4, <1>5, <1>6, <1>8, <1>9, PageChanges

LEMMA DeadlineKeeps ==
  ASSUME ConsoleInv, NEW c \in Calls, Deadline(c)
  PROVE  ConsoleInv'
<1>1. /\ capture' = [capture EXCEPT ![c].expired = TRUE]
      /\ UNCHANGED <<sessions, budget, page>>
  BY DEF Deadline
<1>2. capture[c] \in Captures /\ capture[c].originals = <<>>
  BY ConsoleParts
<1>3. [capture[c] EXCEPT !.expired = TRUE] \in Captures
      /\ [capture[c] EXCEPT !.expired = TRUE].originals = <<>>
  BY <1>2 DEF Captures
<1>4. capture' = [capture EXCEPT ![c] = [capture[c] EXCEPT !.expired = TRUE]]
  BY <1>1
<1>5. capture' \in [Calls -> Captures] /\ \A d \in Calls : capture'[d].originals = <<>>
  BY <1>3, <1>4, ConsoleParts
<1>6. QED
  BY <1>1, <1>5, ConsoleParts, PagesStay

LEMMA ReplacePageKeeps ==
  ASSUME ConsoleInv, NEW t \in Tabs, ReplacePage(t)
  PROVE  ConsoleInv'
<1>1. /\ page' = [page EXCEPT ![t] = FreshPage]
      /\ capture' = [c \in Calls |-> IF TabOf[c] = t THEN NoCapture ELSE capture[c]]
      /\ UNCHANGED <<sessions, budget>>
  BY DEF ReplacePage
<1>2. capture' \in [Calls -> Captures] /\ \A d \in Calls : capture'[d].originals = <<>>
  BY <1>1, NewCaptures, ConsoleParts
<1>3. QED
  BY <1>1, <1>2, NewCaptures, ConsoleParts, PageChanges

(***************************************************************************)
(* Captures and uploads.                                                   *)
(***************************************************************************)

LEMMA PrefixIs ==
  ASSUME NEW s \in Entries, NEW e \in Entries
  PROVE  IsPrefix(s, e) <=> Len(s) <= Len(e) /\ \A i \in 1..Len(s) : s[i] = e[i]
<1>1. /\ s \in Seq([n: 1..MaxLogs, size: Sizes]) /\ Len(s) \in Nat /\ Len(e) \in Nat
      /\ SubSeq(s, 1, Len(s)) = s
  BY EntryFacts, SubSeqFull
<1>2. ASSUME Len(s) <= Len(e)
      PROVE  s = SubSeq(e, 1, Len(s)) <=> \A i \in 1..Len(s) : s[i] = e[i]
  <2> DEFINE b == SubSeq(e, 1, Len(s))
  <2>1. Len(s) \in 0..Len(e)
    BY <1>1, <1>2
  <2>2. b \in Entries /\ Len(b) = Len(s) /\ \A i \in 1..Len(s) : b[i] = e[i]
    BY <2>1, Beginning
  <2>3. b \in Seq([n: 1..MaxLogs, size: Sizes])
    BY <2>2, EntryFacts
  <2> HIDE DEF b
  <2>4. (\A i \in 1..Len(s) : s[i] = e[i]) => s = b
    BY <1>1, <2>2, <2>3, SeqEqual
  <2>5. QED
    BY <2>2, <2>4 DEF b
<1>3. QED
  BY <1>1, <1>2 DEF IsPrefix

\* Of two beginnings of the same entries, one is the beginning of the other.
LEMMA PrefixesCompare ==
  ASSUME NEW s \in Entries, NEW u \in Entries, NEW e \in Entries, IsPrefix(s, e), IsPrefix(u, e)
  PROVE  IsPrefix(s, u) \/ IsPrefix(u, s)
<1>1. /\ Len(s) \in Nat /\ Len(u) \in Nat
      /\ Len(s) <= Len(e) /\ \A i \in 1..Len(s) : s[i] = e[i]
      /\ Len(u) <= Len(e) /\ \A i \in 1..Len(u) : u[i] = e[i]
  BY PrefixIs, EntryFacts
<1>2. CASE Len(s) <= Len(u)
  <2>1. \A i \in 1..Len(s) : i \in 1..Len(u)
    BY <1>1, <1>2
  <2>2. QED
    BY <1>1, <1>2, <2>1, PrefixIs
<1>3. CASE Len(u) <= Len(s)
  <2>1. \A i \in 1..Len(u) : i \in 1..Len(s)
    BY <1>1, <1>3
  <2>2. QED
    BY <1>1, <1>3, <2>1, PrefixIs
<1>4. QED
  BY <1>1, <1>2, <1>3

LEMMA PrefixGrows ==
  ASSUME NEW s \in Entries, NEW e \in Entries, NEW entry \in [n: 1..MaxLogs, size: Sizes],
         IsPrefix(s, e)
  PROVE  IsPrefix(s, Append(e, entry))
<1>1. /\ Len(s) \in Nat /\ Len(e) \in Nat
      /\ Len(s) <= Len(e) /\ \A i \in 1..Len(s) : s[i] = e[i]
  BY PrefixIs, EntryFacts
<1>2. /\ Append(e, entry) \in Entries /\ Len(Append(e, entry)) = Len(e) + 1
      /\ \A i \in 1..Len(e) : Append(e, entry)[i] = e[i]
  BY AppendedSize
<1>3. Len(s) <= Len(Append(e, entry)) /\ \A i \in 1..Len(s) : i \in 1..Len(e)
  BY <1>1, <1>2
<1>4. QED
  BY <1>1, <1>2, <1>3, PrefixIs

\* What follows the start of a session: nothing at first, then the new entry too.
LEMMA LoggedSince ==
  ASSUME NEW log \in Entries, NEW from \in 0..Len(log)
  PROVE  /\ SubSeq(log, from + 1, Len(log)) \in Entries
         /\ from = Len(log) => SubSeq(log, from + 1, Len(log)) = <<>>
         /\ \A entry \in [n: 1..MaxLogs, size: Sizes] :
              SubSeq(Append(log, entry), from + 1, Len(Append(log, entry)))
                = Append(SubSeq(log, from + 1, Len(log)), entry)
<1> DEFINE E == [n: 1..MaxLogs, size: Sizes]
           old == SubSeq(log, from + 1, Len(log))
<1>1. log \in Seq(E) /\ Len(log) \in Nat /\ from \in Nat /\ from <= Len(log)
  <2>1. log \in Seq(E) /\ Len(log) \in Nat
    BY EntryFacts
  <2>2. QED
    BY <2>1
<1> HIDE DEF E
<1>2. /\ old \in Seq(E)
      /\ Len(old) = Len(log) - from
      /\ \A i \in 1 .. Len(log) - from : old[i] = log[from + i]
  <2>1. \A i \in from + 1 .. Len(log) : log[i] \in E
    <3>1. \A i \in from + 1 .. Len(log) : i \in 1..Len(log)
      BY <1>1
    <3>2. QED
      BY <1>1, <3>1, ElementOfSeq
  <2>2. /\ old \in Seq(E)
        /\ Len(old) = IF from + 1 <= Len(log) THEN Len(log) - (from + 1) + 1 ELSE 0
        /\ \A i \in 1 .. Len(log) - (from + 1) + 1 : old[i] = log[from + 1 + i - 1]
    <3>1. from + 1 \in Int /\ Len(log) \in Int
      BY <1>1
    <3>2. QED
      BY <2>1, <3>1, SubSeqProperties
  <2>3. Len(old) = Len(log) - from /\ Len(log) - (from + 1) + 1 = Len(log) - from
    BY <1>1, <2>2
  <2>4. \A i \in 1 .. Len(log) - from : from + 1 + i - 1 = from + i
    BY <1>1
  <2>5. QED
    BY <2>2, <2>3, <2>4
<1>3. from = Len(log) => old = <<>>
  <2>1. from = Len(log) => Len(old) = 0
    BY <1>1, <1>2
  <2>2. QED
    BY <1>2, <2>1, EmptySeq
<1>4. ASSUME NEW entry \in E
      PROVE  SubSeq(Append(log, entry), from + 1, Len(Append(log, entry))) = Append(old, entry)
  <2> DEFINE more == Append(log, entry)
             new == SubSeq(more, from + 1, Len(more))
             added == Append(old, entry)
  <2>1. /\ more \in Seq(E) /\ Len(more) = Len(log) + 1 /\ more[Len(log) + 1] = entry
        /\ \A i \in 1..Len(log) : more[i] = log[i]
    BY <1>1
  <2>2. /\ added \in Seq(E) /\ Len(added) = Len(log) - from + 1
        /\ added[Len(log) - from + 1] = entry
        /\ \A i \in 1 .. Len(log) - from : added[i] = old[i]
    BY <1>1, <1>2
  <2> HIDE DEF more, added
  <2>3. \A i \in from + 1 .. Len(more) : more[i] \in E
    <3>1. \A i \in from + 1 .. Len(more) : i \in 1..Len(more)
      BY <1>1, <2>1
    <3>2. QED
      BY <2>1, <3>1, ElementOfSeq
  <2>4. /\ new \in Seq(E)
        /\ Len(new) = IF from + 1 <= Len(more) THEN Len(more) - (from + 1) + 1 ELSE 0
        /\ \A i \in 1 .. Len(more) - (from + 1) + 1 : new[i] = more[from + 1 + i - 1]
    <3>1. from + 1 \in Int /\ Len(more) \in Int
      BY <1>1, <2>1
    <3>2. QED
      BY <2>3, <3>1, SubSeqProperties
  <2>5. /\ Len(new) = Len(log) - from + 1
        /\ Len(more) - (from + 1) + 1 = Len(log) - from + 1
    BY <1>1, <2>1, <2>4
  <2> HIDE DEF new
  <2>6. ASSUME NEW i \in 1 .. Len(log) - from + 1 PROVE new[i] = added[i]
    <3>1. i \in Int /\ from + 1 + i - 1 = from + i
      BY <1>1
    <3>2. new[i] = more[from + i]
      BY <2>4, <2>5, <3>1
    <3>3. CASE i = Len(log) - from + 1
      <4>1. from + i = Len(log) + 1
        BY <1>1, <3>3
      <4>2. QED
        BY <2>1, <2>2, <3>2, <3>3, <4>1
    <3>4. CASE i # Len(log) - from + 1
      <4>1. i \in 1 .. Len(log) - from /\ from + i \in 1..Len(log)
        BY <1>1, <3>1, <3>4
      <4>2. QED
        BY <1>2, <2>1, <2>2, <3>2, <4>1
    <3>5. QED
      BY <3>3, <3>4
  <2>7. Len(new) = Len(added) /\ \A i \in 1..Len(new) : new[i] = added[i]
    BY <2>2, <2>5, <2>6
  <2>8. new = added
    BY <2>2, <2>4, <2>7, SeqEqual DEF new
  <2>9. QED
    BY <2>8 DEF new, added, more
<1>5. old \in Entries
  BY <1>2 DEF E, Entries
<1>6. QED
  BY <1>3, <1>4, <1>5 DEF E

\* What CaptureOK says of a page, the capture found in it and its last upload.
Follows(p, of, cap, up) ==
  /\ cap.active /\ cap.from <= Len(p.logged)
  /\ cap.truncated \/ cap.entries = SubSeq(p.logged, cap.from + 1, Len(p.logged))
  /\ up.of = of => IsPrefix(up.entries, cap.entries)

Within(cap) == cap.entries # <<>> => JsonSize(cap.entries) <= cap.maxBytes
Faithful(up) == up.complete /\ up.longest /\ up.cumulative

Uploads == [of: Calls \cup {None}, entries: Entries, complete: BOOLEAN,
            longest: BOOLEAN, cumulative: BOOLEAN]

LEMMA CaptureParts ==
  CaptureOK <=>
    /\ \A t \in Tabs : Found(page[t]) # None =>
         /\ TabOf[Found(page[t])] = t
         /\ Follows(page[t], Found(page[t]), capture[Found(page[t])], upload[t])
    /\ \A t \in Tabs : Faithful(upload[t])
    /\ \A c \in Calls : Within(capture[c])
BY DEF CaptureOK, UploadsAreFaithful, Lost, Follows, Within, Faithful

\* A step is about one tab: its page, the captures of its calls and its upload.
LEMMA TabChanges ==
  ASSUME ConsoleInv, UploadTypes, CaptureOK, NEW t \in Tabs, NEW p \in Pages, NEW up \in Uploads,
         page' = [page EXCEPT ![t] = p], upload' = [upload EXCEPT ![t] = up],
         \A c \in Calls : TabOf[c] # t => capture'[c] = capture[c],
         \A c \in Calls : TabOf[c] = t => Within(capture'[c]),
         Found(p) # None => /\ TabOf[Found(p)] = t
                            /\ Follows(p, Found(p), capture'[Found(p)], up),
         Faithful(up)
  PROVE  UploadTypes' /\ CaptureOK'
<1>1. /\ page \in [Tabs -> Pages] /\ upload \in [Tabs -> Uploads]
      /\ \A s \in Tabs : Found(page[s]) # None =>
           /\ TabOf[Found(page[s])] = s
           /\ Follows(page[s], Found(page[s]), capture[Found(page[s])], upload[s])
      /\ \A s \in Tabs : Faithful(upload[s])
      /\ \A c \in Calls : Within(capture[c])
  BY ConsoleParts, CaptureParts DEF UploadTypes, Uploads
<1>2. /\ page'[t] = p /\ upload'[t] = up /\ upload' \in [Tabs -> Uploads]
      /\ \A s \in Tabs : s # t => page'[s] = page[s] /\ upload'[s] = upload[s]
  BY <1>1
<1>3. ASSUME NEW s \in Tabs, Found(page'[s]) # None
      PROVE  /\ TabOf[Found(page'[s])] = s
             /\ Follows(page'[s], Found(page'[s]), capture'[Found(page'[s])], upload'[s])
  <2>1. CASE s = t
    BY <1>2, <1>3, <2>1
  <2>2. CASE s # t
    <3>1. page'[s] = page[s] /\ upload'[s] = upload[s] /\ Found(page[s]) # None
      BY <1>2, <1>3, <2>2
    <3>2. TabOf[Found(page[s])] = s /\ Found(page[s]) \in Calls
      BY <1>1, <3>1, FoundInPage
    <3>3. capture'[Found(page[s])] = capture[Found(page[s])]
      BY <2>2, <3>2
    <3>4. QED
      BY <1>1, <3>1, <3>2, <3>3
  <2>3. QED
    BY <2>1, <2>2
<1>4. \A s \in Tabs : Faithful(upload'[s])
  BY <1>1, <1>2
<1>5. \A c \in Calls : Within(capture'[c])
  BY <1>1
<1>6. (/\ \A s \in Tabs : Found(page[s]) # None =>
            /\ TabOf[Found(page[s])] = s
            /\ Follows(page[s], Found(page[s]), capture[Found(page[s])], upload[s])
       /\ \A s \in Tabs : Faithful(upload[s])
       /\ \A c \in Calls : Within(capture[c]))'
  BY <1>3, <1>4, <1>5
<1>7. CaptureOK'
  BY <1>6 DEF CaptureOK, UploadsAreFaithful, Lost, Follows, Within, Faithful
<1>8. UploadTypes'
  BY <1>2 DEF UploadTypes, Uploads
<1>9. QED
  BY <1>7, <1>8

\* What is known of one tab before a step.
LEMMA TabFacts ==
  ASSUME ConsoleInv, UploadTypes, CaptureOK, NEW t \in Tabs
  PROVE  /\ page[t] \in Pages /\ Shape(page[t]) /\ upload[t] \in Uploads /\ Faithful(upload[t])
         /\ \A c \in Calls : capture[c] \in Captures /\ Within(capture[c])
         /\ Found(page[t]) \in Calls \cup {None}
         /\ Found(page[t]) # None =>
              /\ TabOf[Found(page[t])] = t
              /\ Follows(page[t], Found(page[t]), capture[Found(page[t])], upload[t])
         /\ upload = [upload EXCEPT ![t] = upload[t]] /\ page = [page EXCEPT ![t] = page[t]]
         /\ Within(NoCapture) /\ NoCapture.entries = <<>>
<1>1. upload \in [Tabs -> Uploads] /\ page \in [Tabs -> Pages]
  BY ConsoleParts DEF UploadTypes, Uploads
<1>2. upload = [upload EXCEPT ![t] = upload[t]] /\ page = [page EXCEPT ![t] = page[t]]
  BY <1>1
<1>3. NoCapture.entries = <<>> /\ Within(NoCapture)
  BY DEF NoCapture, Within
<1>4. page[t] \in Pages /\ upload[t] \in Uploads /\ Found(page[t]) \in Calls \cup {None}
  BY <1>1, FoundInPage
<1>5. QED
  BY <1>2, <1>3, <1>4, ConsoleParts, CaptureParts

LEMMA CapturesUntouched ==
  ASSUME UploadTypes, CaptureOK, UNCHANGED <<page, capture, upload>>
  PROVE  UploadTypes' /\ CaptureOK'
BY DEF UploadTypes, CaptureOK, UploadsAreFaithful, Lost

LEMMA LoadLibrariesCaptures ==
  ASSUME ConsoleInv, UploadTypes, CaptureOK, NEW t \in Tabs, LoadLibraries(t),
         UNCHANGED <<capture, upload>>
  PROVE  /\ UploadTypes' /\ CaptureOK'
         /\ \A s \in Tabs : Found(page'[s]) = Found(page[s])
<1> DEFINE p == [page[t] EXCEPT !.acob = "frozen", !.acobCapture = None]
<1>1. page[t] \in Pages /\ Shape(page[t]) /\ page \in [Tabs -> Pages]
  BY ConsoleParts
<1>2. /\ p \in Pages /\ p.acobCapture = None
      /\ p.windowCapture = page[t].windowCapture /\ p.logged = page[t].logged
  BY <1>1 DEF Pages
<1>3. page' = [page EXCEPT ![t] = p]
  BY <1>1 DEF LoadLibraries, Pages
<1> HIDE DEF p
<1>4. Found(p) = Found(page[t])
  BY <1>1, <1>2 DEF Found, Shape
<1>5. Found(p) # None => /\ TabOf[Found(p)] = t
                         /\ Follows(p, Found(p), capture'[Found(p)], upload[t])
  BY <1>2, <1>4, TabFacts DEF Follows
<1>6. upload[t] \in Uploads /\ Faithful(upload[t]) /\ upload' = [upload EXCEPT ![t] = upload[t]]
      /\ \A c \in Calls : Within(capture'[c]) /\ capture'[c] = capture[c]
  BY TabFacts
<1>7. UploadTypes' /\ CaptureOK'
  BY <1>2, <1>3, <1>5, <1>6, TabChanges
<1>8. \A s \in Tabs : Found(page'[s]) = Found(page[s])
  BY <1>1, <1>3, <1>4
<1>9. QED
  BY <1>7, <1>8

\* A shim that is installed starts with what is logged from now on; nothing was
\* uploaded from it yet.
LEMMA InstallCaptures ==
  ASSUME ConsoleInv, UploadTypes, CaptureOK, NEW c \in Calls, Install(c, page[TabOf[c]]),
         UNCHANGED upload, c # upload[TabOf[c]].of
  PROVE  /\ UploadTypes' /\ CaptureOK'
         /\ \A s \in Tabs : Found(page'[s]) \in {Found(page[s]), c}
<1> DEFINE t == TabOf[c]
           old == page[t]
           prev == Found(old)
           originals == IF prev = None THEN old.console ELSE capture[prev].originals
           p == [old EXCEPT !.acob = IF @ = "none" THEN "plain" ELSE @,
                            !.acobCapture = IF old.acob = "frozen" THEN @ ELSE c,
                            !.windowCapture = c,
                            !.console = <<c>> \o originals]
           new == [NoCapture EXCEPT !.active = TRUE, !.maxBytes = budget,
                                    !.originals = originals, !.from = Len(old.logged)]
<1>1. t \in Tabs /\ None # c /\ page \in [Tabs -> Pages]
  BY ConsoleAssumption, ConsoleParts
<1>2. old \in Pages /\ Shape(old) /\ prev \in Calls \cup {None}
      /\ (prev # None => TabOf[prev] = t)
      /\ upload[t] \in Uploads /\ Faithful(upload[t]) /\ upload' = [upload EXCEPT ![t] = upload[t]]
      /\ Within(NoCapture) /\ \A d \in Calls : Within(capture[d])
  BY <1>1, TabFacts
<1>3. originals = <<>>
  BY <1>2, ConsoleParts DEF Shape
<1>4. page' = [page EXCEPT ![t] = p]
      /\ capture' = [d \in Calls |-> IF d = c THEN new ELSE IF d = prev THEN NoCapture ELSE capture[d]]
  BY DEF Install
<1> HIDE DEF originals
<1>5. <<c>> \o originals = <<c>> /\ <<c>> \in Seq(Calls)
  <2>1. <<c>> \in Seq(Calls)
    OBVIOUS
  <2>2. <<c>> \o <<>> = <<c>>
    BY <2>1, ConcatEmptySeq
  <2>3. QED
    BY <1>3, <2>1, <2>2
<1>6. /\ p \in Pages /\ p.windowCapture = c /\ p.logged = old.logged
      /\ p.acobCapture \in {None, c}
  <2>1. p = [old EXCEPT !.acob = IF @ = "none" THEN "plain" ELSE @,
                        !.acobCapture = IF old.acob = "frozen" THEN @ ELSE c,
                        !.windowCapture = c,
                        !.console = <<c>>]
    BY <1>5
  <2> HIDE DEF p
  <2>2. old.acob = "frozen" => old.acobCapture = None
    BY <1>2 DEF Shape
  <2>3. QED
    BY <1>2, <1>5, <2>1, <2>2 DEF Pages
<1>7. new.active /\ new.from = Len(old.logged) /\ new.entries = <<>>
  BY DEF NoCapture
<1> HIDE DEF p, new
<1>8. Found(p) = c
  BY <1>1, <1>6 DEF Found
<1>9. Follows(p, c, new, upload[t])
  <2>1. old.logged \in Entries
    BY <1>2 DEF Pages
  <2>2. Len(old.logged) \in 0..Len(old.logged) /\ Len(old.logged) \in Nat
    BY <2>1, EntryFacts
  <2>3. SubSeq(old.logged, Len(old.logged) + 1, Len(old.logged)) = <<>>
    BY <2>1, <2>2, LoggedSince
  <2>4. new.entries = SubSeq(p.logged, new.from + 1, Len(p.logged))
    <3>1. p.logged = old.logged /\ new.from = Len(old.logged) /\ new.entries = <<>>
      BY <1>6, <1>7
    <3> HIDE DEF old
    <3>2. QED
      BY <2>3, <3>1, Zenon
  <2>5. new.from <= Len(p.logged)
    BY <1>6, <1>7, <2>2
  <2>6. new.active /\ upload[t].of # c
    BY <1>7
  <2>7. QED
    BY <2>4, <2>5, <2>6 DEF Follows
<1>10. Within(new)
  BY <1>7 DEF Within
<1>11. /\ capture'[c] = new
       /\ \A d \in Calls : TabOf[d] # t => capture'[d] = capture[d]
       /\ \A d \in Calls : TabOf[d] = t => Within(capture'[d])
  <2>1. \A d \in Calls : Within(capture'[d])
    BY <1>2, <1>4, <1>10
  <2>2. \A d \in Calls : TabOf[d] # t => d # c /\ d # prev
    BY <1>2, ConsoleAssumption
  <2>3. QED
    BY <1>4, <2>1, <2>2
<1>12. UploadTypes' /\ CaptureOK'
  BY <1>1, <1>2, <1>4, <1>6, <1>8, <1>9, <1>11, TabChanges
<1>13. \A s \in Tabs : Found(page'[s]) \in {Found(page[s]), c}
  BY <1>1, <1>4, <1>8
<1>14. QED
  BY <1>12, <1>13

LEMMA RestoreCaptures ==
  ASSUME ConsoleInv, UploadTypes, CaptureOK, NEW t \in Tabs, Restore(t), UNCHANGED upload
  PROVE  /\ UploadTypes' /\ CaptureOK'
         /\ \A s \in Tabs : Found(page'[s]) \in {Found(page[s]), None}
<1> DEFINE old == page[t]
           cap == Found(old)
           p == [old EXCEPT !.acobCapture = None, !.windowCapture = None,
                            !.console = capture[cap].originals]
<1>1. old \in Pages /\ Shape(old) /\ cap \in Calls \cup {None} /\ page \in [Tabs -> Pages]
      /\ upload[t] \in Uploads /\ Faithful(upload[t]) /\ upload' = [upload EXCEPT ![t] = upload[t]]
      /\ Within(NoCapture) /\ \A d \in Calls : Within(capture[d])
  BY ConsoleParts, TabFacts
<1>2. CASE cap = None
  <2>1. UNCHANGED <<page, capture>>
    BY <1>2 DEF Restore
  <2>2. QED
    BY <2>1, CapturesUntouched
<1>3. CASE cap # None
  <2>1. page' = [page EXCEPT ![t] = p] /\ capture' = [capture EXCEPT ![cap] = NoCapture]
    BY <1>3 DEF Restore
  <2>2. capture[cap].originals = <<>> /\ <<>> \in Seq(Calls) /\ capture \in [Calls -> Captures]
    BY <1>1, <1>3, ConsoleParts
  <2>3. p \in Pages /\ p.acobCapture = None /\ p.windowCapture = None
    BY <1>1, <2>2 DEF Pages
  <2> HIDE DEF p
  <2>4. Found(p) = None
    BY <2>3 DEF Found
  <2>5. TabOf[cap] = t
    BY <1>3, TabFacts
  <2>6. /\ \A d \in Calls : TabOf[d] # t => capture'[d] = capture[d]
        /\ \A d \in Calls : TabOf[d] = t => Within(capture'[d])
    BY <1>1, <1>3, <2>1, <2>2, <2>5
  <2>7. UploadTypes' /\ CaptureOK'
    BY <1>1, <2>1, <2>3, <2>4, <2>6, TabChanges
  <2>8. \A s \in Tabs : Found(page'[s]) \in {Found(page[s]), None}
    BY <1>1, <2>1, <2>4
  <2>9. QED
    BY <2>7, <2>8
<1>4. QED
  BY <1>2, <1>3

\* A page logs: the capture found takes the entry as long as it fits.
LEMMA LogCaptures ==
  ASSUME ConsoleInv, UploadTypes, CaptureOK, NEW t \in Tabs, NEW size \in Sizes, Log(t, size)
  PROVE  /\ UploadTypes' /\ CaptureOK'
         /\ \A s \in Tabs : Found(page'[s]) = Found(page[s])
<1> DEFINE old == page[t]
           entry == [n |-> Len(old.logged) + 1, size |-> size]
           p == [old EXCEPT !.logged = Append(@, entry)]
           of == Found(old)
<1>1. /\ old \in Pages /\ Shape(old) /\ page \in [Tabs -> Pages] /\ MaxLogs \in Nat
      /\ upload[t] \in Uploads /\ Faithful(upload[t]) /\ upload' = [upload EXCEPT ![t] = upload[t]]
      /\ of \in Calls \cup {None}
      /\ of # None => TabOf[of] = t /\ Follows(old, of, capture[of], upload[t])
      /\ \A d \in Calls : Within(capture[d]) /\ capture[d] \in Captures
  <2>1. UNCHANGED upload
    BY DEF Log
  <2>2. QED
    BY <2>1, ConsoleParts, TabFacts, ConsoleAssumption
<1>2. /\ Len(old.logged) < MaxLogs
      /\ page' = [page EXCEPT ![t].logged = Append(@, entry)]
      /\ capture' = [c \in Calls |->
           IF Contains(old.console, c) THEN Appended(capture[c], entry) ELSE capture[c]]
      /\ old.console # <<>>
  BY DEF Log
<1>3. old.logged \in Entries /\ Len(old.logged) \in Nat
  BY <1>1, EntryFacts DEF Pages
<1>4. entry \in [n: 1..MaxLogs, size: Sizes] /\ entry.size = size
  BY <1>1, <1>2, <1>3
<1>5. of # None /\ old.console = <<of>>
  BY <1>1, <1>2 DEF Shape
<1>6. \A c \in Calls : Contains(old.console, c) <=> c = of
  BY <1>5 DEF Contains
<1> HIDE DEF entry
<1> DEFINE more == Append(old.logged, entry)
<1>7. p \in Pages /\ p.logged = more /\ Found(p) = of /\ page' = [page EXCEPT ![t] = p]
  <2>1. more \in Entries
    BY <1>3, <1>4, AppendedSize
  <2>2. p = [old EXCEPT !.logged = more]
    OBVIOUS
  <2>3. page' = [page EXCEPT ![t] = p]
    BY <1>2
  <2> HIDE DEF p, more
  <2>4. QED
    BY <1>1, <2>1, <2>2, <2>3 DEF Pages, Found
<1> HIDE DEF p
<1> DEFINE cap == capture[of]
           kept == Append(cap.entries, entry)
<1>8. /\ cap \in Captures /\ cap.entries \in Entries /\ Within(cap) /\ TabOf[of] = t
      /\ Follows(old, of, cap, upload[t])
      /\ capture' = [c \in Calls |-> IF c = of THEN Appended(cap, entry) ELSE capture[c]]
  BY <1>1, <1>2, <1>5, <1>6 DEF Captures
<1>9. kept \in Entries
      /\ JsonSize(kept) = JsonSize(cap.entries) + size + (IF cap.entries = <<>> THEN 0 ELSE 1)
  BY <1>4, <1>8, AppendedSize
<1>10. cap.active /\ cap.from <= Len(old.logged) /\ cap.from \in 0..Len(old.logged)
  BY <1>3, <1>8 DEF Follows, Captures
<1>11. Len(more) = Len(old.logged) + 1
  BY <1>3, <1>4, AppendedSize
<1>12. SubSeq(more, cap.from + 1, Len(more))
         = Append(SubSeq(old.logged, cap.from + 1, Len(old.logged)), entry)
  BY <1>3, <1>4, <1>10, LoggedSince
<1> HIDE DEF cap, kept, of, more
<1> DEFINE Taken == Within(Appended(cap, entry)) /\ Follows(p, of, Appended(cap, entry), upload[t])
<1>13. ASSUME cap.expired \/ ~Fits(cap, size) PROVE Taken
  <2> DEFINE new == [cap EXCEPT !.truncated = TRUE]
  <2>1. Appended(cap, entry) = new
    BY <1>4, <1>10, <1>13 DEF Appended
  <2>2. /\ new.truncated = TRUE /\ new.active = cap.active /\ new.from = cap.from
        /\ new.entries = cap.entries /\ new.maxBytes = cap.maxBytes
    BY <1>8 DEF Captures
  <2> HIDE DEF new
  <2>3. Within(new)
    BY <1>8, <2>2 DEF Within
  <2>4. Follows(p, of, new, upload[t])
    <3>1. new.active /\ new.from <= Len(p.logged)
      BY <1>3, <1>7, <1>10, <1>11, <2>2
    <3>2. new.truncated
      BY <2>2
    <3>3. upload[t].of = of => IsPrefix(upload[t].entries, new.entries)
      BY <1>8, <2>2 DEF Follows
    <3>4. QED
      BY <3>1, <3>2, <3>3 DEF Follows
  <2>5. QED
    BY <2>1, <2>3, <2>4
<1>14. ASSUME ~cap.expired, Fits(cap, size) PROVE Taken
  <2> DEFINE new == [cap EXCEPT !.entries = kept]
  <2>1. Appended(cap, entry) = new
    BY <1>4, <1>10, <1>14 DEF Appended, kept
  <2>2. /\ new.truncated = cap.truncated /\ new.active = cap.active /\ new.from = cap.from
        /\ new.entries = kept /\ new.maxBytes = cap.maxBytes
    BY <1>8 DEF Captures
  <2> HIDE DEF new
  <2>3. Within(new)
    BY <1>9, <1>14, <2>2 DEF Within, Fits
  <2>4. Follows(p, of, new, upload[t])
    <3>1. new.active /\ new.from <= Len(p.logged)
      BY <1>3, <1>7, <1>10, <1>11, <2>2
    <3>2. new.truncated \/ new.entries = SubSeq(p.logged, new.from + 1, Len(p.logged))
      <4>1. cap.truncated \/ cap.entries = SubSeq(old.logged, cap.from + 1, Len(old.logged))
        BY <1>8 DEF Follows
      <4>2. QED
        BY <1>7, <1>12, <2>2, <4>1 DEF kept
    <3>3. upload[t].of = of => IsPrefix(upload[t].entries, new.entries)
      <4>1. upload[t].entries \in Entries
        BY <1>1 DEF Uploads
      <4>2. upload[t].of = of => IsPrefix(upload[t].entries, cap.entries)
        BY <1>8 DEF Follows
      <4>3. QED
        BY <1>4, <1>8, <2>2, <4>1, <4>2, PrefixGrows DEF kept
    <3>4. QED
      BY <3>1, <3>2, <3>3 DEF Follows
  <2>5. QED
    BY <2>1, <2>3, <2>4
<1>15. Within(Appended(cap, entry)) /\ Follows(p, of, Appended(cap, entry), upload[t])
  BY <1>13, <1>14
<1>16. /\ of \in Calls /\ capture'[of] = Appended(cap, entry)
       /\ \A d \in Calls : TabOf[d] # t => capture'[d] = capture[d]
       /\ \A d \in Calls : TabOf[d] = t => Within(capture'[d])
  BY <1>1, <1>5, <1>8, <1>15
<1>17. UploadTypes' /\ CaptureOK'
  BY <1>1, <1>7, <1>8, <1>15, <1>16, TabChanges
<1>18. \A s \in Tabs : Found(page'[s]) = Found(page[s])
  BY <1>1, <1>7 DEF of
<1>19. QED
  BY <1>17, <1>18

LEMMA DeadlineCaptures ==
  ASSUME ConsoleInv, UploadTypes, CaptureOK, NEW c \in Calls, Deadline(c)
  PROVE  UploadTypes' /\ CaptureOK' /\ UNCHANGED <<page, upload>>
<1> DEFINE t == TabOf[c]
           new == [capture[c] EXCEPT !.expired = TRUE]
<1>1. /\ capture' = [capture EXCEPT ![c] = new]
      /\ UNCHANGED <<page, upload>>
  BY DEF Deadline
<1>2. t \in Tabs /\ capture \in [Calls -> Captures]
  BY ConsoleAssumption, ConsoleParts
<1>3. /\ new.truncated = capture[c].truncated /\ new.active = capture[c].active
      /\ new.from = capture[c].from
      /\ new.entries = capture[c].entries /\ new.maxBytes = capture[c].maxBytes
  BY <1>2 DEF Captures
<1> HIDE DEF new
<1>4. /\ page[t] \in Pages /\ page' = [page EXCEPT ![t] = page[t]]
      /\ upload[t] \in Uploads /\ Faithful(upload[t]) /\ upload' = [upload EXCEPT ![t] = upload[t]]
      /\ \A d \in Calls : Within(capture[d])
      /\ Found(page[t]) \in Calls \cup {None}
      /\ Found(page[t]) # None => /\ TabOf[Found(page[t])] = t
                                  /\ Follows(page[t], Found(page[t]), capture[Found(page[t])], upload[t])
  BY <1>1, <1>2, TabFacts
<1>5. /\ \A d \in Calls : TabOf[d] # t => capture'[d] = capture[d]
      /\ capture'[c] = new /\ \A d \in Calls : d # c => capture'[d] = capture[d]
  BY <1>1, <1>2
<1>6. Within(new)
  BY <1>3, <1>4 DEF Within
<1>7. \A d \in Calls : TabOf[d] = t => Within(capture'[d])
  BY <1>4, <1>5, <1>6
<1>8. Found(page[t]) # None => Follows(page[t], Found(page[t]), capture'[Found(page[t])], upload[t])
  <2>1. CASE Found(page[t]) = c
    BY <1>3, <1>4, <1>5, <2>1 DEF Follows
  <2>2. CASE Found(page[t]) # c
    BY <1>4, <1>5, <2>2
  <2>3. QED
    BY <2>1, <2>2
<1>9. QED
  BY <1>1, <1>2, <1>4, <1>5, <1>7, <1>8, TabChanges

LEMMA ReplacePageCaptures ==
  ASSUME ConsoleInv, UploadTypes, CaptureOK, NEW t \in Tabs, ReplacePage(t)
  PROVE  /\ UploadTypes' /\ CaptureOK'
         /\ \A s \in Tabs : Found(page'[s]) \in {Found(page[s]), None}
<1>1. /\ page' = [page EXCEPT ![t] = FreshPage]
      /\ capture' = [c \in Calls |-> IF TabOf[c] = t THEN NoCapture ELSE capture[c]]
      /\ UNCHANGED upload
  BY DEF ReplacePage
<1>2. /\ upload[t] \in Uploads /\ Faithful(upload[t]) /\ upload' = [upload EXCEPT ![t] = upload[t]]
      /\ Within(NoCapture) /\ page \in [Tabs -> Pages] /\ FreshPage \in Pages
  BY <1>1, ConsoleParts, TabFacts, NewCaptures
<1>3. Found(FreshPage) = None
  BY DEF Found, FreshPage
<1>4. /\ \A d \in Calls : TabOf[d] # t => capture'[d] = capture[d]
      /\ \A d \in Calls : TabOf[d] = t => Within(capture'[d])
  BY <1>1, <1>2
<1>5. UploadTypes' /\ CaptureOK'
  BY <1>1, <1>2, <1>3, <1>4, TabChanges
<1>6. QED
  BY <1>1, <1>2, <1>3, <1>5

\* A capture delivers the longest beginning that fits today's limit.
LEMMA UploadCaptures ==
  ASSUME ConsoleInv, UploadTypes, CaptureOK, NEW t \in Tabs, ~Lost(t), Upload(t),
         UNCHANGED <<page, capture>>
  PROVE  /\ UploadTypes' /\ CaptureOK'
         /\ \A s \in Tabs : upload'[s].of \in {upload[s].of, Found(page[s])}
<1> DEFINE of == Found(page[t])
           cap == capture[of]
           kept == Truncate(cap.entries, budget)
           logged == SubSeq(page[t].logged, cap.from + 1, Len(page[t].logged))
           before == upload[t]
           up == [of |-> of, entries |-> kept,
                  complete |-> kept = logged \/ Truncated(cap, kept),
                  longest |-> kept = LongestPrefix(cap.entries, budget),
                  cumulative |-> before.of = of =>
                                   IsPrefix(before.entries, kept) \/ IsPrefix(kept, before.entries)]
<1>1. upload' = [upload EXCEPT ![t] = up]
  BY DEF Upload
<1>2. of # None
  BY DEF Lost
<1>3. /\ of \in Calls /\ TabOf[of] = t /\ cap \in Captures /\ before \in Uploads
      /\ Follows(page[t], of, cap, before) /\ page[t] \in Pages
      /\ page' = [page EXCEPT ![t] = page[t]]
      /\ upload \in [Tabs -> Uploads] /\ \A d \in Calls : Within(capture[d])
  BY <1>2, TabFacts DEF UploadTypes, Uploads
<1>4. budget \in Nat /\ cap.entries \in Entries /\ before.entries \in Entries
  BY <1>3, ConsoleParts, ConsoleAssumption DEF Captures, Uploads
<1>5. /\ kept = LongestPrefix(cap.entries, budget) /\ kept \in Entries
      /\ Len(kept) <= Len(cap.entries) /\ IsPrefix(kept, cap.entries)
  BY <1>4, TruncateKeepsLongest
<1>6. cap.truncated \/ cap.entries = logged
  BY <1>3 DEF Follows
<1>7. before.of = of => IsPrefix(before.entries, cap.entries)
  BY <1>3 DEF Follows
<1> HIDE DEF kept, logged, before, cap, of
<1>8. kept = logged \/ Truncated(cap, kept)
  <2>1. Len(kept) \in Nat /\ Len(cap.entries) \in Nat
    BY <1>4, <1>5, EntryFacts
  <2>2. CASE Len(kept) = Len(cap.entries)
    <3>1. kept = cap.entries
      <4>1. \A i \in 1..Len(kept) : kept[i] = cap.entries[i]
        BY <1>4, <1>5, PrefixIs
      <4>2. kept \in Seq([n: 1..MaxLogs, size: Sizes]) /\ cap.entries \in Seq([n: 1..MaxLogs, size: Sizes])
        BY <1>4, <1>5, EntryFacts
      <4>3. QED
        BY <2>2, <4>1, <4>2, SeqEqual
    <3>2. QED
      BY <1>6, <3>1 DEF Truncated
  <2>3. CASE Len(kept) # Len(cap.entries)
    <3>1. Len(kept) < Len(cap.entries)
      BY <1>5, <2>1, <2>3
    <3>2. QED
      BY <3>1 DEF Truncated
  <2>4. QED
    BY <2>2, <2>3
<1>9. before.of = of => IsPrefix(before.entries, kept) \/ IsPrefix(kept, before.entries)
  BY <1>4, <1>5, <1>7, PrefixesCompare
<1>10. up \in Uploads /\ up.of = of /\ up.entries = kept /\ Faithful(up)
  <2>1. up = [of |-> of, entries |-> kept, complete |-> TRUE, longest |-> TRUE, cumulative |-> TRUE]
    BY <1>5, <1>8, <1>9
  <2> HIDE DEF up
  <2>2. QED
    BY <1>3, <1>5, <2>1 DEF Uploads, Faithful
<1> HIDE DEF up
<1>11. Follows(page[t], of, cap, up)
  BY <1>3, <1>5, <1>10 DEF Follows
<1>12. Found(page[t]) = of /\ capture'[of] = cap
       /\ \A d \in Calls : capture'[d] = capture[d]
  BY DEF of, cap
<1>13. UploadTypes' /\ CaptureOK'
  <2>1. Follows(page[t], Found(page[t]), capture'[Found(page[t])], up) /\ TabOf[Found(page[t])] = t
    BY <1>3, <1>11, <1>12
  <2>2. \A d \in Calls : Within(capture'[d])
    BY <1>3, <1>12
  <2>3. QED
    BY <1>1, <1>3, <1>10, <1>12, <2>1, <2>2, TabChanges
<1>14. \A s \in Tabs : upload'[s].of \in {upload[s].of, Found(page[s])}
  BY <1>1, <1>3, <1>10, <1>12
<1>15. QED
  BY <1>13, <1>14
===============================================================================

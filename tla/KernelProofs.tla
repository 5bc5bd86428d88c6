---------------------------- MODULE KernelProofs ----------------------------
(***************************************************************************)
(* Proofs about Kernel, for every number of tasks, priorities, mutexes and *)
(* messages, every length of the mailbox and every width of the counters.  *)
(*                                                                         *)
(* The functions of tasks.c come first: what each does to the lists (the   *)
(* lemmas ...Is) and what it preserves (...Keeps).  The invariant has      *)
(* layers, two of them here.  KernelInv holds in every case: the types,    *)
(* the walk of a task through queue.c, the ring buffer, the locks, the     *)
(* holders of mutexes.  From it follow the types and the refinement of     *)
(* Mailbox.                                                                *)
(*                                                                         *)
(* ListInv puts the lists in order, and who owns a mutex.  It needs that   *)
(* no wait for a mutex expires (MUTEX_EXPIRES = FALSE): after              *)
(* portMAX_DELAY ticks vTaskPriorityDisinheritAfterTimeout() resets the    *)
(* ready bit of the wrong priority, and sys_mutex_lock() returns without   *)
(* the mutex.                                                              *)
(***************************************************************************)
EXTENDS Kernel, SequenceTheorems, FiniteSetTheorems, WellFoundedInduction, TLAPS

-----------------------------------------------------------------------------
(* Numbers, minima and recursive functions.                                *)

\* Induction over an initial piece of the naturals.
LEMMA UpTo ==
    ASSUME NEW n \in Nat, NEW P, 0 \in P, \A i \in 1 .. n : i - 1 \in P => i \in P
    PROVE  \A i \in 0 .. n : i \in P
<1> DEFINE less == {ss \in Nat \X Nat : ss[1] < ss[2]}
           bad == {i \in 0 .. n : i \notin P}
<1>1. IsWellFoundedOn(less, Nat)
  BY NatLessThanWellFounded, Zenon DEF OpToRel
<1>2. bad \subseteq Nat
  OBVIOUS
<1>3. SUFFICES ASSUME bad # {} PROVE FALSE
  OBVIOUS
<1>4. PICK x \in bad : \A y \in bad : ~(<<y, x>> \in less)
  <2> HIDE DEF less, bad
  <2> QED BY <1>1, <1>2, <1>3, WFMin
<1>5. x # 0 /\ x \in 1 .. n /\ x \notin P
  OBVIOUS
<1>6. x - 1 \in P
  <2>1. x - 1 \in Nat /\ x \in Nat /\ x - 1 < x /\ x - 1 \in 0 .. n
    BY <1>5
  <2>2. <<x - 1, x>> \in less
    BY <2>1
  <2>3. x - 1 \notin bad
    BY <2>2, <1>4
  <2> QED BY <2>1, <2>3
<1> QED BY <1>5, <1>6

\* f follows the steps g from b, up to m.
Follows(f, m, b, g) == f[0] = b /\ \A i \in 1 .. m : f[i] = g[i][f[i - 1]]

\* A recursive function over 0 .. n exists.
LEMMA Recursion ==
    ASSUME NEW n \in Nat, NEW S, NEW b \in S, NEW g \in [1 .. n -> [S -> S]]
    PROVE  \E f \in [0 .. n -> S] : Follows(f, n, b, g)
<1> DEFINE P == {m \in 0 .. n : \E f \in [0 .. m -> S] : Follows(f, m, b, g)}
<1>1. 0 \in P
  <2> DEFINE h == [i \in 0 .. 0 |-> b]
  <2>1. h \in [0 .. 0 -> S] /\ Follows(h, 0, b, g)
    BY DEF Follows
  <2> HIDE DEF h
  <2> QED BY <2>1
<1>2. ASSUME NEW m \in 1 .. n, m - 1 \in P PROVE m \in P
  <2>1. PICK f \in [0 .. m - 1 -> S] : Follows(f, m - 1, b, g)
    BY <1>2
  <2> DEFINE h == [i \in 0 .. m |-> IF i = m THEN g[m][f[m - 1]] ELSE f[i]]
  <2>2. h \in [0 .. m -> S]
    OBVIOUS
  <2>3. h[0] = b
    BY <2>1 DEF Follows
  <2>4. ASSUME NEW i \in 1 .. m PROVE h[i] = g[i][h[i - 1]]
    BY <2>1 DEF Follows
  <2> HIDE DEF h
  <2>5. Follows(h, m, b, g)
    BY <2>3, <2>4 DEF Follows
  <2> QED BY <2>2, <2>5
<1>3. n \in P
  <2> HIDE DEF P
  <2>1. \A i \in 1 .. n : i - 1 \in P => i \in P
    BY <1>2
  <2>2. \A i \in 0 .. n : i \in P
    BY <1>1, <2>1, UpTo
  <2> QED BY <2>2
<1> QED BY <1>3

\* A nonempty set of naturals contains its minimum.
LEMMA MinIn ==
    ASSUME NEW S, S \subseteq Nat, S # {}
    PROVE  Min(S) \in S /\ \A y \in S : Min(S) <= y
<1> DEFINE less == {ss \in Nat \X Nat : ss[1] < ss[2]}
<1>1. IsWellFoundedOn(less, Nat)
  BY NatLessThanWellFounded, Zenon DEF OpToRel
<1> HIDE DEF less
<1>2. PICK x \in S : \A y \in S : ~(<<y, x>> \in less)
  BY <1>1, WFMin
<1>3. ASSUME NEW y \in S PROVE x <= y
  <2>1. x \in Nat /\ y \in Nat
    OBVIOUS
  <2>2. y < x => <<y, x>> \in less
    BY <2>1 DEF less
  <2> QED BY <1>2, <2>1, <2>2
<1> QED BY <1>3 DEF Min

\* Sums that wrap at n at most once.
LEMMA Wrap ==
    ASSUME NEW n \in Nat \ {0}, NEW a \in Int, -n <= a, a < n + n
    PROVE  a % n = IF a < 0 THEN a + n ELSE IF a < n THEN a ELSE a - n
OBVIOUS

\* The slot after a slot.
LEMMA WrapOne ==
    ASSUME NEW n \in Nat \ {0}, NEW a \in Int, NEW y, y = a + 1, 0 <= y, y < n + n
    PROVE  (a + 1) % n = IF y < n THEN y ELSE y - n
<1>1. y \in Int /\ -n <= y /\ y < n + n /\ ~(y < 0)
  OBVIOUS
<1>2. y % n = IF y < n THEN y ELSE y - n
  BY <1>1, Wrap
<1> QED BY <1>2

\* The slot after a slot, with or without a wrap in between.
LEMMA ModNext ==
    ASSUME NEW n \in Nat \ {0}, NEW a \in Int, 0 <= a, a < n + n
    PROVE  ((a % n) + 1) % n = (a + 1) % n
<1>1. PICK x \in Int : x = IF a < n THEN a ELSE a - n
  OBVIOUS
<1>2. a % n = x /\ 0 <= x /\ x < n
  <2>1. -n <= a /\ a < n + n /\ ~(a < 0)
    OBVIOUS
  <2>2. a % n = IF a < n THEN a ELSE a - n
    BY <2>1, Wrap
  <2> QED BY <1>1, <2>2
<1>3. (x + 1) % n = IF x + 1 < n THEN x + 1 ELSE 0
  <2>1. x + 1 \in Int /\ -n <= x + 1 /\ x + 1 < n + n + 1 /\ ~(x + 1 < 0)
    BY <1>2
  <2>2. CASE x + 1 < n + n
    <3>1. (x + 1) % n = IF x + 1 < n THEN x + 1 ELSE x + 1 - n
      BY <2>1, <2>2, WrapOne
    <3> QED BY <1>2, <3>1
  <2> QED BY <1>2, <2>2
<1>4. (a + 1) % n = IF x + 1 < n THEN x + 1 ELSE 0
  <2>1. CASE a < n
    BY <1>1, <1>3, <2>1
  <2>2. CASE a >= n /\ a + 1 < n + n
    <3>1. (a + 1) % n = a + 1 - n
      <4>1. a + 1 \in Int /\ -n <= a + 1 /\ a + 1 < n + n /\ ~(a + 1 < 0) /\ ~(a + 1 < n)
        BY <2>2
      <4> QED BY <4>1, WrapOne
    <3> QED BY <1>1, <1>2, <2>2, <3>1
  <2>3. CASE a + 1 = n + n
    <3>1. (n + n) % n = 0
      OBVIOUS
    <3> QED BY <1>1, <1>2, <2>3, <3>1
  <2> QED BY <2>1, <2>2, <2>3
<1> QED BY <1>2, <1>3, <1>4

\* A remainder is a slot.
LEMMA ModRange == ASSUME NEW n \in Nat \ {0}, NEW a \in Int PROVE a % n \in 0 .. n - 1
OBVIOUS

\* A nonempty finite set of naturals contains its maximum.
LEMMA MaxIn ==
    ASSUME NEW S, S \subseteq Nat, S # {}, IsFiniteSet(S)
    PROVE  Max(S) \in S /\ \A y \in S : y <= Max(S)
<1> DEFINE Has(T) == \E x \in T : \A y \in T : y <= x
           P == {n \in Nat : \A T \in SUBSET S : T # {} /\ Cardinality(T) = n => Has(T)}
<1>1. 0 \in P
  <2>1. ASSUME NEW T \in SUBSET S, Cardinality(T) = 0 PROVE T = {}
    BY <2>1, FS_Subset, FS_EmptySet
  <2> QED BY <2>1
<1>2. ASSUME NEW n \in Nat \ {0}, n - 1 \in P PROVE n \in P
  <2>1. SUFFICES ASSUME NEW T \in SUBSET S, T # {}, Cardinality(T) = n PROVE Has(T)
    OBVIOUS
  <2>2. PICK x \in T : TRUE
    BY <2>1
  <2>3. T \ {x} \in SUBSET S /\ Cardinality(T \ {x}) = n - 1
    BY <2>1, FS_Subset, FS_RemoveElement
  <2>4. CASE T \ {x} = {}
    <3>1. \A y \in T : y = x /\ y \in Nat
      BY <2>4
    <3> QED BY <3>1
  <2>5. CASE T \ {x} # {}
    <3>1. PICK z \in T \ {x} : \A y \in T \ {x} : y <= z
      BY <1>2, <2>3, <2>5
    <3>2. x \in Nat /\ z \in Nat /\ \A y \in T : y \in Nat
      OBVIOUS
    <3>3. CASE x <= z
      BY <3>1, <3>2, <3>3
    <3>4. CASE z < x
      BY <3>1, <3>2, <3>4
    <3> QED BY <3>2, <3>3, <3>4
  <2> QED BY <2>4, <2>5
<1>3. Cardinality(S) \in Nat
  BY FS_CardinalityType
<1>4. Cardinality(S) \in P
  <2> HIDE DEF P
  <2>1. \A i \in 1 .. Cardinality(S) : i - 1 \in P => i \in P
    BY <1>2
  <2>2. \A i \in 0 .. Cardinality(S) : i \in P
    BY <1>1, <1>3, <2>1, UpTo
  <2> QED BY <1>3, <2>2
<1>5. PICK x \in S : \A y \in S : y <= x
  BY <1>4
<1>6. x \in S /\ \A y \in S : x >= y
  BY <1>5
<1> QED BY <1>6 DEF Max

\* The maximum of two numbers.
LEMMA MaxOfTwo ==
    ASSUME NEW a \in Nat, NEW b \in Nat
    PROVE  Max({a, b}) = IF a >= b THEN a ELSE b
<1>1. {a, b} \subseteq Nat /\ {a, b} # {} /\ IsFiniteSet({a, b})
  <2>1. IsFiniteSet({a} \cup {b})
    BY FS_Singleton, FS_AddElement
  <2>2. {a, b} = {a} \cup {b}
    OBVIOUS
  <2> QED BY <2>1, <2>2
<1>2. Max({a, b}) \in {a, b} /\ \A y \in {a, b} : y <= Max({a, b})
  BY <1>1, MaxIn
<1>3. PICK m : m = Max({a, b})
  OBVIOUS
<1>4. m \in {a, b} /\ a <= m /\ b <= m
  BY <1>2, <1>3
<1>5. m = IF a >= b THEN a ELSE b
  BY <1>4
<1> QED BY <1>3, <1>5

\* The lists without the tasks of ts.
LEMMA KeptIs ==
    ASSUME NEW T, NEW l \in Seq(T), NEW ts
    PROVE  /\ Kept(l, ts)[0] = << >>
           /\ \A i \in 1 .. Len(l) :
                 Kept(l, ts)[i] = IF l[i] \in ts THEN Kept(l, ts)[i - 1]
                                  ELSE Append(Kept(l, ts)[i - 1], l[i])
<1> DEFINE g == [i \in 1 .. Len(l) |-> [s \in Seq(T) |-> IF l[i] \in ts THEN s ELSE Append(s, l[i])]]
<1>1. g \in [1 .. Len(l) -> [Seq(T) -> Seq(T)]]
  OBVIOUS
<1>2. Len(l) \in Nat /\ << >> \in Seq(T)
  OBVIOUS
<1>3. PICK f \in [0 .. Len(l) -> Seq(T)] : Follows(f, Len(l), << >>, g)
  <2> HIDE DEF g
  <2> QED BY <1>1, <1>2, Recursion
<1>4. f[0] = << >>
  BY <1>3 DEF Follows
<1>5. ASSUME NEW i \in 1 .. Len(l)
      PROVE  f[i] = IF l[i] \in ts THEN f[i - 1] ELSE Append(f[i - 1], l[i])
  <2>1. i - 1 \in 0 .. Len(l)
    BY <1>2
  <2>2. f[i] = g[i][f[i - 1]] /\ f[i - 1] \in Seq(T)
    BY <1>3, <2>1 DEF Follows
  <2> QED BY <2>2
<1> HIDE DEF g
<1>6. f = [i \in 0 .. Len(l) |-> IF i = 0 THEN << >> ELSE IF l[i] \in ts THEN f[i - 1] ELSE Append(f[i - 1], l[i])]
  <2>1. \A i \in 0 .. Len(l) : i = 0 \/ i \in 1 .. Len(l)
    BY <1>2
  <2> QED BY <1>4, <1>5, <2>1
<1>7. Kept(l, ts) = [i \in 0 .. Len(l) |-> IF i = 0 THEN << >> ELSE IF l[i] \in ts THEN Kept(l, ts)[i - 1] ELSE Append(Kept(l, ts)[i - 1], l[i])]
  BY <1>6 DEF Kept
<1>8. PICK K : K = Kept(l, ts)
  OBVIOUS
<1>9. K = [i \in 0 .. Len(l) |-> IF i = 0 THEN << >> ELSE IF l[i] \in ts THEN K[i - 1] ELSE Append(K[i - 1], l[i])]
  BY <1>7, <1>8
<1>10. K[0] = << >>
  BY <1>2, <1>9
<1>11. ASSUME NEW i \in 1 .. Len(l)
       PROVE  K[i] = IF l[i] \in ts THEN K[i - 1] ELSE Append(K[i - 1], l[i])
  <2>1. i \in 0 .. Len(l) /\ i # 0
    BY <1>2
  <2> QED BY <1>9, <2>1
<1> QED BY <1>8, <1>10, <1>11

\* What Append adds to the members of a sequence.
LEMMA RangeAppend ==
    ASSUME NEW T, NEW l \in Seq(T), NEW e \in T
    PROVE  Append(l, e) \in Seq(T) /\ Range(Append(l, e)) = Range(l) \cup {e}
<1>1. PICK a \in Seq(T) : a = Append(l, e)
  BY AppendProperties
<1>2. PICK n \in Nat : n = Len(l)
  OBVIOUS
<1>3. DOMAIN l = 1 .. n /\ DOMAIN a = 1 .. n + 1
  BY <1>1, <1>2, AppendProperties
<1>4. (\A i \in 1 .. n : a[i] = l[i]) /\ a[n + 1] = e
  BY <1>1, <1>2, AppendProperties
<1>5. \A i : i \in 1 .. n + 1 <=> i \in 1 .. n \/ i = n + 1
  BY <1>2
<1>6. Range(a) = {a[i] : i \in 1 .. n + 1} /\ Range(l) = {l[i] : i \in 1 .. n}
  BY <1>3 DEF Range
<1>7. \A x : x \in {a[i] : i \in 1 .. n + 1} <=> x \in {l[i] : i \in 1 .. n} \/ x = e
  BY <1>4, <1>5, Zenon
<1> QED BY <1>1, <1>6, <1>7

\* Kept leaves the other tasks, and no new one.
LEMMA KeptRange ==
    ASSUME NEW T, NEW l \in Seq(T), NEW ts
    PROVE  /\ Kept(l, ts)[Len(l)] \in Seq(T)
           /\ Range(Kept(l, ts)[Len(l)]) = Range(l) \ ts
           /\ Range(l) \cap ts = {} => Kept(l, ts)[Len(l)] = l
<1> DEFINE K == Kept(l, ts)
           P == {i \in 0 .. Len(l) : /\ K[i] \in Seq(T)
                                     /\ Range(K[i]) = {l[j] : j \in 1 .. i} \ ts
                                     /\ Range(l) \cap ts = {} => K[i] = SubSeq(l, 1, i)}
<1>1. Len(l) \in Nat /\ DOMAIN l = 1 .. Len(l)
  OBVIOUS
<1>2. 0 \in P
  <2>1. K[0] = << >>
    BY KeptIs
  <2> HIDE DEF K
  <2>2. Range(<< >>) = {}
    BY DEF Range
  <2>3. SubSeq(l, 1, 0) = << >>
    OBVIOUS
  <2>4. {l[j] : j \in 1 .. 0} = {}
    OBVIOUS
  <2>5. 0 \in 0 .. Len(l) /\ K[0] \in Seq(T)
    BY <1>1, <2>1
  <2> QED BY <2>1, <2>2, <2>3, <2>4, <2>5
<1>3. ASSUME NEW i \in 1 .. Len(l), i - 1 \in P PROVE i \in P
  <2>1. K[i] = IF l[i] \in ts THEN K[i - 1] ELSE Append(K[i - 1], l[i])
    BY KeptIs
  <2> HIDE DEF K
  <2>2. l[i] \in T /\ i \in Nat /\ i - 1 \in Nat /\ i \in 0 .. Len(l)
    BY <1>1
  <2>3. {l[j] : j \in 1 .. i} = {l[j] : j \in 1 .. i - 1} \cup {l[i]}
    BY <2>2
  <2>4. CASE l[i] \in ts
    <3>1. l[i] \in Range(l)
      BY <1>1, <2>2 DEF Range
    <3> QED BY <1>3, <2>1, <2>2, <2>3, <2>4, <3>1
  <2>5. CASE l[i] \notin ts
    <3>1. K[i - 1] \in Seq(T) /\ K[i] = Append(K[i - 1], l[i])
      BY <1>3, <2>1, <2>5
    <3>2. K[i] \in Seq(T) /\ Range(K[i]) = Range(K[i - 1]) \cup {l[i]}
      BY <2>2, <3>1, RangeAppend
    <3>3. SubSeq(l, 1, i) = Append(SubSeq(l, 1, i - 1), l[i])
      BY <1>1, <2>2
    <3> QED BY <1>3, <2>2, <2>3, <2>5, <3>1, <3>2, <3>3
  <2> QED BY <2>4, <2>5
<1>4. Len(l) \in P
  <2> HIDE DEF P
  <2>1. \A i \in 0 .. Len(l) : i \in P
    BY <1>1, <1>2, <1>3, UpTo
  <2> QED BY <1>1, <2>1
<1>5. Range(l) = {l[j] : j \in 1 .. Len(l)} /\ SubSeq(l, 1, Len(l)) = l
  BY <1>1 DEF Range
<1> QED BY <1>4, <1>5

\* An event list l in the order of the priorities p: no task comes before one
\* whose own priority is higher.
Sorted(p, l) == \A i \in DOMAIN l : \A j \in DOMAIN l : i < j => p[l[i]] >= Base[l[j]]

\* Whatever order l has, m has too.
Thins(l, m) == \A p : Sorted(p, l) => Sorted(p, m)

\* Kept leaves the order alone.
LEMMA KeptSorted ==
    ASSUME NEW T, NEW l \in Seq(T), NEW ts, NEW p, Sorted(p, l)
    PROVE  Sorted(p, Kept(l, ts)[Len(l)])
<1> DEFINE K == Kept(l, ts)
           P == {i \in 0 .. Len(l) : /\ K[i] \in Seq(T) /\ Sorted(p, K[i])
                                     /\ \A a \in DOMAIN K[i] : \E j \in 1 .. i : K[i][a] = l[j]}
<1>1. Len(l) \in Nat /\ DOMAIN l = 1 .. Len(l)
  OBVIOUS
<1>2. 0 \in P
  <2>1. K[0] = << >>
    BY KeptIs
  <2> HIDE DEF K
  <2>2. PICK e \in Seq(T) : e = << >> /\ DOMAIN e = {}
    <3>1. << >> \in Seq(T) /\ DOMAIN << >> = {}
      OBVIOUS
    <3> QED BY <3>1
  <2>3. Sorted(p, e) /\ K[0] = e /\ 0 \in 0 .. Len(l)
    BY <1>1, <2>1, <2>2 DEF Sorted
  <2> QED BY <2>2, <2>3
<1>3. ASSUME NEW i \in 1 .. Len(l), i - 1 \in P PROVE i \in P
  <2>1. K[i] = IF l[i] \in ts THEN K[i - 1] ELSE Append(K[i - 1], l[i])
    BY KeptIs
  <2> HIDE DEF K
  <2>2. l[i] \in T /\ i \in Nat /\ i - 1 \in Nat /\ i \in 0 .. Len(l) /\ i \in DOMAIN l
    BY <1>1
  <2>3. /\ K[i - 1] \in Seq(T) /\ Sorted(p, K[i - 1])
        /\ \A a \in DOMAIN K[i - 1] : \E j \in 1 .. i - 1 : K[i - 1][a] = l[j]
    BY <1>3
  <2>4. CASE l[i] \in ts
    <3>1. \A a \in DOMAIN K[i] : \E j \in 1 .. i : K[i][a] = l[j]
      BY <2>1, <2>2, <2>3, <2>4
    <3> QED BY <2>1, <2>2, <2>3, <2>4, <3>1
  <2>5. CASE l[i] \notin ts
    <3>1. PICK m \in Seq(T) : m = K[i - 1]
      BY <2>3
    <3>8. PICK y \in T : y = l[i]
      BY <2>2
    <3>9. Append(m, y) \in Seq(T) /\ Len(Append(m, y)) = Len(m) + 1
      OBVIOUS
    <3>2. PICK x \in Seq(T) : x = Append(m, y) /\ x = K[i]
      BY <2>1, <2>5, <3>1, <3>8, <3>9
    <3>3. /\ Len(m) \in Nat /\ DOMAIN m = 1 .. Len(m) /\ DOMAIN x = 1 .. Len(m) + 1
          /\ x[Len(m) + 1] = l[i] /\ \A a \in 1 .. Len(m) : x[a] = m[a]
      <4>1. /\ Append(m, y)[Len(m) + 1] = y
            /\ \A a \in 1 .. Len(m) : Append(m, y)[a] = m[a]
        OBVIOUS
      <4>2. Len(m) \in Nat /\ DOMAIN m = 1 .. Len(m) /\ DOMAIN x = 1 .. Len(m) + 1
        BY <3>2, <3>9
      <4> QED BY <3>2, <3>8, <4>1, <4>2
    <3>4. \A a \in DOMAIN m : \E j \in 1 .. i - 1 : m[a] = l[j]
      BY <2>3, <3>1
    <3>5. ASSUME NEW a \in DOMAIN x PROVE \E j \in 1 .. i : x[a] = l[j]
      <4>1. a \in 1 .. Len(m) \/ a = Len(m) + 1
        BY <3>3
      <4>2. \A j \in 1 .. i - 1 : j \in 1 .. i
        BY <2>2
      <4>3. i \in 1 .. i
        BY <2>2
      <4> QED BY <3>3, <3>4, <4>1, <4>2, <4>3
    <3>6. ASSUME NEW a \in DOMAIN x, NEW b \in DOMAIN x, a < b PROVE p[x[a]] >= Base[x[b]]
      <4>1. a \in 1 .. Len(m) /\ (b \in 1 .. Len(m) \/ b = Len(m) + 1)
        BY <3>3, <3>6
      <4>2. CASE b \in 1 .. Len(m)
        <5>1. p[m[a]] >= Base[m[b]]
          BY <2>3, <3>1, <3>3, <3>6, <4>1, <4>2 DEF Sorted
        <5> QED BY <3>3, <4>1, <4>2, <5>1
      <4>3. CASE b = Len(m) + 1
        <5>1. PICK j \in 1 .. i - 1 : m[a] = l[j]
          BY <3>3, <3>4, <4>1
        <5>2. j \in DOMAIN l /\ j < i
          BY <1>1, <2>2
        <5>3. p[l[j]] >= Base[l[i]]
          BY <2>2, <5>2 DEF Sorted
        <5> QED BY <3>3, <4>1, <4>3, <5>1, <5>3
      <4> QED BY <4>1, <4>2, <4>3
    <3>7. Sorted(p, x)
      BY <3>6 DEF Sorted
    <3> QED BY <2>2, <3>2, <3>5, <3>7
  <2> QED BY <2>4, <2>5
<1>4. Len(l) \in P
  <2> HIDE DEF P
  <2>1. \A i \in 0 .. Len(l) : i \in P
    BY <1>1, <1>2, <1>3, UpTo
  <2> QED BY <1>1, <2>1
<1> QED BY <1>4

\* vListInsert() adds the task.
LEMMA InsertRange ==
    ASSUME NEW s, NEW T, NEW l \in Seq(T), NEW t \in T
    PROVE  /\ InsertByPriority(s, l, t) \in Seq(T)
           /\ \A u : u \in Range(InsertByPriority(s, l, t)) <=> u \in Range(l) \/ u = t
<1> DEFINE A == {i \in DOMAIN l : \A j \in 1 .. i : s.uxPriority[l[j]] >= s.uxPriority[t]}
<1>1. Len(l) \in Nat /\ DOMAIN l = 1 .. Len(l)
  OBVIOUS
<1>2. A \in SUBSET (1 .. Len(l))
  BY <1>1
<1> HIDE DEF A
<1>3. PICK n \in 0 .. Len(l) : n = Cardinality(A)
  <2>1. IsFiniteSet(1 .. Len(l)) /\ Cardinality(1 .. Len(l)) = Len(l)
    BY <1>1, FS_Interval
  <2>2. IsFiniteSet(A) /\ Cardinality(A) <= Len(l)
    BY <1>2, <2>1, FS_Subset
  <2>3. Cardinality(A) \in Nat
    BY <2>2, FS_CardinalityType
  <2> QED BY <1>1, <2>2, <2>3
<1>4. InsertByPriority(s, l, t) = SubSeq(l, 1, n) \o <<t>> \o SubSeq(l, n + 1, Len(l))
  BY <1>3, Zenon DEF InsertByPriority, A
<1>5. /\ SubSeq(l, 1, n) \in Seq(T) /\ Range(SubSeq(l, 1, n)) = {l[i] : i \in 1 .. n}
      /\ SubSeq(l, n + 1, Len(l)) \in Seq(T)
      /\ Range(SubSeq(l, n + 1, Len(l))) = {l[i] : i \in n + 1 .. Len(l)}
  <2>1. /\ SubSeq(l, 1, n) \in Seq(T) /\ Len(SubSeq(l, 1, n)) = n
        /\ \A i \in 1 .. n : SubSeq(l, 1, n)[i] = l[i]
    BY <1>1
  <2>2. /\ SubSeq(l, n + 1, Len(l)) \in Seq(T) /\ Len(SubSeq(l, n + 1, Len(l))) = Len(l) - n
        /\ \A i \in 1 .. Len(l) - n : SubSeq(l, n + 1, Len(l))[i] = l[n + i]
    <3>1. n + 1 \in Int /\ Len(l) \in Int /\ \A i \in n + 1 .. Len(l) : l[i] \in T
      BY <1>1
    <3>2. /\ SubSeq(l, n + 1, Len(l)) \in Seq(T)
          /\ Len(SubSeq(l, n + 1, Len(l))) =
                IF n + 1 <= Len(l) THEN Len(l) - (n + 1) + 1 ELSE 0
          /\ \A i \in 1 .. Len(l) - (n + 1) + 1 : SubSeq(l, n + 1, Len(l))[i] = l[n + 1 + i - 1]
      BY <3>1, SubSeqProperties
    <3>5. Len(SubSeq(l, n + 1, Len(l))) = Len(l) - n
      <4>1. PICK m \in Nat : m = Len(l)
        BY <1>1
      <4>2. n \in Nat /\ n <= m
        BY <4>1
      <4>3. CASE n + 1 <= m
        <5>1. m - (n + 1) + 1 = m - n
          BY <4>2
        <5> QED BY <3>2, <4>1, <4>3, <5>1, Zenon
      <4>4. CASE ~(n + 1 <= m)
        <5>1. m - n = 0
          BY <4>2, <4>4
        <5> QED BY <3>2, <4>1, <4>4, <5>1, Zenon
      <4> QED BY <4>3, <4>4
    <3>6. ASSUME NEW i \in 1 .. Len(l) - n PROVE SubSeq(l, n + 1, Len(l))[i] = l[n + i]
      <4>1. i \in 1 .. Len(l) - (n + 1) + 1 /\ n + 1 + i - 1 = n + i
        BY <1>1
      <4>2. SubSeq(l, n + 1, Len(l))[i] = l[n + 1 + i - 1]
        BY <3>2, <4>1
      <4> QED BY <4>1, <4>2
    <3> QED BY <3>2, <3>5, <3>6
  <2>3. PICK u \in Seq(T) : u = SubSeq(l, 1, n)
    BY <2>1
  <2>4. PICK v \in Seq(T) : v = SubSeq(l, n + 1, Len(l))
    BY <2>2
  <2>9. DOMAIN u = 1 .. n /\ \A i \in 1 .. n : u[i] = l[i]
    BY <2>1, <2>3
  <2>10. DOMAIN v = 1 .. Len(l) - n /\ \A i \in 1 .. Len(l) - n : v[i] = l[n + i]
    BY <2>2, <2>4
  <2>5. \A i \in n + 1 .. Len(l) : i - n \in 1 .. Len(l) - n /\ n + (i - n) = i
    BY <1>1
  <2>6. \A i \in 1 .. Len(l) - n : n + i \in n + 1 .. Len(l)
    BY <1>1
  <2>7. Range(u) = {l[i] : i \in 1 .. n}
    BY <2>9 DEF Range
  <2>8. Range(v) = {l[i] : i \in n + 1 .. Len(l)}
    <3>1. ASSUME NEW i \in 1 .. Len(l) - n PROVE v[i] \in {l[j] : j \in n + 1 .. Len(l)}
      BY <2>6, <2>10
    <3>2. ASSUME NEW i \in n + 1 .. Len(l) PROVE \E j \in 1 .. Len(l) - n : v[j] = l[i]
      BY <2>5, <2>10
    <3> QED BY <2>10, <3>1, <3>2 DEF Range
  <2> QED BY <2>3, <2>4, <2>7, <2>8
<1>6. <<t>> \in Seq(T) /\ Range(<<t>>) = {t}
  BY DEF Range
<1>7. SubSeq(l, 1, n) \o <<t>> \in Seq(T)
  BY <1>5, <1>6
<1>8. Range(InsertByPriority(s, l, t)) = ({l[i] : i \in 1 .. n} \cup {t}) \cup {l[i] : i \in n + 1 .. Len(l)}
  <2>1. PICK u \in Seq(T) : u = SubSeq(l, 1, n)
    BY <1>5
  <2>2. PICK v \in Seq(T) : v = SubSeq(l, n + 1, Len(l))
    BY <1>5
  <2>3. PICK w \in Seq(T) : w = <<t>>
    BY <1>6
  <2>4. Range(u \o w) = Range(u) \cup Range(w)
    BY RangeConcatenation
  <2>6. u \o w \in Seq(T)
    OBVIOUS
  <2>5. Range((u \o w) \o v) = Range(u \o w) \cup Range(v)
    BY <2>6, RangeConcatenation, ZenonT(60)
  <2> QED BY <1>4, <1>5, <1>6, <2>1, <2>2, <2>3, <2>4, <2>5
<1>9. Range(l) = {l[i] : i \in 1 .. n} \cup {l[i] : i \in n + 1 .. Len(l)}
  BY <1>1 DEF Range
<1>10. InsertByPriority(s, l, t) \in Seq(T)
  BY <1>4, <1>5, <1>7
<1> QED BY <1>8, <1>9, <1>10

-----------------------------------------------------------------------------
(* The state of tasks.c                                                    *)

KRec ==
    [pxCurrentTCB : AllTasks, ready : [Prios -> SUBSET AllTasks],
     uxTopReadyPriority : SUBSET Prios, delayed : SUBSET Tasks, overflow : SUBSET Tasks,
     wake : [AllTasks -> 0 .. portMAX_DELAY],
     waitSend : [Queues -> Seq(Tasks)], waitRecv : [Queues -> Seq(Tasks)],
     xPendingReadyList : Seq(Tasks), uxSchedulerSuspended : BOOLEAN,
     uxPendedTicks : 0 .. PENDED, xTickCount : 0 .. portMAX_DELAY,
     xNumOfOverflows : 0 .. OVERFLOWS - 1, xNextTaskUnblockTime : 0 .. portMAX_DELAY,
     xYieldPending : BOOLEAN, pendsv : BOOLEAN, switch : BOOLEAN,
     uxPriority : [AllTasks -> Prios], uxMutexesHeld : [AllTasks -> Int]]

\* The locals of a call.
Locals ==
    [xTicksToWait : 0 .. portMAX_DELAY, xOverflowCount : 0 .. OVERFLOWS - 1,
     xTimeOnEntering : 0 .. portMAX_DELAY, set : BOOLEAN, xInheritanceOccurred : BOOLEAN,
     path : {"none", "again", "expired", "blocked"}]

\* What an operation of tasks.c leaves alone, by concern.
SameReady(s, r) == r.ready = s.ready /\ r.uxTopReadyPriority = s.uxTopReadyPriority
SameSleep(s, r) == r.delayed = s.delayed /\ r.overflow = s.overflow /\ r.wake = s.wake
SameEvents(s, r) == r.waitSend = s.waitSend /\ r.waitRecv = s.waitRecv
SamePending(s, r) == r.xPendingReadyList = s.xPendingReadyList
SameClock(s, r) ==
    /\ r.uxPendedTicks = s.uxPendedTicks /\ r.xTickCount = s.xTickCount
    /\ r.xNumOfOverflows = s.xNumOfOverflows
SameNext(s, r) == r.xNextTaskUnblockTime = s.xNextTaskUnblockTime
SameTask(s, r) ==
    /\ r.pxCurrentTCB = s.pxCurrentTCB
    /\ r.uxSchedulerSuspended = s.uxSchedulerSuspended
SameYield(s, r) == r.xYieldPending = s.xYieldPending /\ r.pendsv = s.pendsv /\ r.switch = s.switch
SamePrio(s, r) == r.uxPriority = s.uxPriority
SameHeld(s, r) == r.uxMutexesHeld = s.uxMutexesHeld

\* The assumptions on the constants, as the proofs use them.
LEMMA Constants ==
    /\ TICKS \in Nat \ {0} /\ portMAX_DELAY \in Nat \ {0} /\ portMAX_DELAY = TICKS - 1
    /\ OVERFLOWS \in Nat \ {0} /\ PENDED \in Nat /\ MBOX_SIZE \in Nat \ {0}
    /\ TIMEOUT \in 1 .. portMAX_DELAY
    /\ Base \in [AllTasks -> Prios] /\ Prios \subseteq Nat /\ 0 \in Prios /\ Base[Idle] = 0
    /\ Tasks \subseteq AllTasks /\ Idle \in AllTasks /\ Idle \notin Tasks
    /\ \A t \in Tasks : Base[t] > 0
    /\ mbox \in Queues /\ mbox \notin Mutexes /\ Mutexes \subseteq Queues
BY KernelAssumption DEF portMAX_DELAY, AllTasks, Prios, mbox, Queues

\* prvAddTaskToReadyList() changes the ready lists and the bitmap only.
LEMMA AddToReadyIs ==
    ASSUME NEW s \in KRec, NEW ts \in SUBSET AllTasks, NEW r, r = AddToReady(s, ts)
    PROVE  /\ r \in KRec
           /\ r.ready = [p \in Prios |-> s.ready[p] \cup {t \in ts : s.uxPriority[t] = p}]
           /\ r.uxTopReadyPriority = s.uxTopReadyPriority \cup {s.uxPriority[t] : t \in ts}
           /\ SameSleep(s, r) /\ SameEvents(s, r) /\ SamePending(s, r) /\ SameClock(s, r)
           /\ SameNext(s, r) /\ SameTask(s, r) /\ SameYield(s, r) /\ SamePrio(s, r)
           /\ SameHeld(s, r)
<1>1. PICK rd : rd = [p \in Prios |-> s.ready[p] \cup {t \in ts : s.uxPriority[t] = p}]
  OBVIOUS
<1>2. PICK top : top = s.uxTopReadyPriority \cup {s.uxPriority[t] : t \in ts}
  OBVIOUS
<1>3. rd \in [Prios -> SUBSET AllTasks] /\ top \in SUBSET Prios
  BY <1>1, <1>2 DEF KRec
<1>4. r = [s EXCEPT !.ready = rd, !.uxTopReadyPriority = top]
  BY <1>1, <1>2, Zenon DEF AddToReady
<1>5. r \in KRec /\ r.ready = rd /\ r.uxTopReadyPriority = top
  BY <1>3, <1>4 DEF KRec
<1>6. /\ SameSleep(s, r) /\ SameEvents(s, r) /\ SamePending(s, r) /\ SameClock(s, r)
      /\ SameNext(s, r) /\ SameTask(s, r) /\ SameYield(s, r) /\ SamePrio(s, r)
      /\ SameHeld(s, r)
  BY <1>4 DEF KRec, SameSleep, SameEvents, SamePending, SameClock, SameNext, SameTask,
              SameYield, SamePrio, SameHeld
<1> QED BY <1>1, <1>2, <1>5, <1>6

\* uxListRemove() from a ready list changes that list and the bitmap only.
LEMMA RemoveFromReadyIs ==
    ASSUME NEW s \in KRec, NEW t \in AllTasks, NEW p \in Prios, NEW b \in Prios,
           NEW r, r = RemoveFromReady(s, t, p, b)
    PROVE  /\ r \in KRec
           /\ \A x \in Prios : \A u : u \in r.ready[x] <=> u \in s.ready[x] /\ ~(x = p /\ u = t)
           /\ \A x : x \in r.uxTopReadyPriority <=>
                     x \in s.uxTopReadyPriority
                     /\ ~(x = b /\ s.ready[p] \subseteq {t} /\ (b = p \/ s.ready[b] = {}))
           /\ SameSleep(s, r) /\ SameEvents(s, r) /\ SamePending(s, r) /\ SameClock(s, r)
           /\ SameNext(s, r) /\ SameTask(s, r) /\ SameYield(s, r) /\ SamePrio(s, r)
           /\ SameHeld(s, r)
BY DEF RemoveFromReady, KRec, SameSleep, SameEvents, SamePending, SameClock, SameNext, SameTask,
       SameYield, SamePrio, SameHeld

\* uxListRemove() from the delayed lists changes these and the wake times only.
LEMMA RemoveFromDelayedIs ==
    ASSUME NEW s \in KRec, NEW ts \in SUBSET AllTasks, NEW r, r = RemoveFromDelayed(s, ts)
    PROVE  /\ r \in KRec
           /\ r.delayed = s.delayed \ ts /\ r.overflow = s.overflow \ ts
           /\ r.wake = [t \in AllTasks |-> IF t \in ts THEN 0 ELSE s.wake[t]]
           /\ SameReady(s, r) /\ SameEvents(s, r) /\ SamePending(s, r) /\ SameClock(s, r)
           /\ SameNext(s, r) /\ SameTask(s, r) /\ SameYield(s, r) /\ SamePrio(s, r)
           /\ SameHeld(s, r)
<1>1. PICK w : w = [t \in AllTasks |-> IF t \in ts THEN 0 ELSE s.wake[t]]
  OBVIOUS
<1>2. w \in [AllTasks -> 0 .. portMAX_DELAY]
  BY <1>1, Constants DEF KRec
<1>3. r = [s EXCEPT !.delayed = s.delayed \ ts, !.overflow = s.overflow \ ts, !.wake = w]
  BY <1>1 DEF RemoveFromDelayed
<1>4. r \in KRec /\ r.delayed = s.delayed \ ts /\ r.overflow = s.overflow \ ts /\ r.wake = w
  <2>1. PICK d \in SUBSET Tasks, o \in SUBSET Tasks : d = s.delayed \ ts /\ o = s.overflow \ ts
    BY DEF KRec
  <2>2. r = [s EXCEPT !.delayed = d, !.overflow = o, !.wake = w]
    BY <1>3, <2>1
  <2>3. r \in KRec
    BY <1>2, <2>2, ZenonT(60) DEF KRec
  <2>4. r.delayed = d /\ r.overflow = o /\ r.wake = w
    BY <2>2 DEF KRec
  <2> QED BY <2>1, <2>3, <2>4
<1>5. /\ SameReady(s, r) /\ SameEvents(s, r) /\ SamePending(s, r) /\ SameClock(s, r)
      /\ SameNext(s, r) /\ SameTask(s, r) /\ SameYield(s, r) /\ SamePrio(s, r)
      /\ SameHeld(s, r)
  BY <1>3 DEF KRec, SameReady, SameEvents, SamePending, SameClock, SameNext, SameTask,
              SameYield, SamePrio, SameHeld
<1> QED BY <1>1, <1>4, <1>5

\* uxListRemove() from the event lists takes the tasks out of every one.
LEMMA RemoveFromEventsIs ==
    ASSUME NEW s \in KRec, NEW ts, NEW r, r = RemoveFromEvents(s, ts)
    PROVE  /\ r \in KRec
           /\ \A q \in Queues : \A u :
                 /\ u \in Range(r.waitSend[q]) <=> u \in Range(s.waitSend[q]) /\ u \notin ts
                 /\ u \in Range(r.waitRecv[q]) <=> u \in Range(s.waitRecv[q]) /\ u \notin ts
           /\ \A q \in Queues : Thins(s.waitRecv[q], r.waitRecv[q])
           /\ SameReady(s, r) /\ SameSleep(s, r) /\ SamePending(s, r) /\ SameClock(s, r)
           /\ SameNext(s, r) /\ SameTask(s, r) /\ SameYield(s, r) /\ SamePrio(s, r)
           /\ SameHeld(s, r)
<1>1. PICK u : u = [q \in Queues |-> Kept(s.waitSend[q], ts)[Len(s.waitSend[q])]]
  OBVIOUS
<1>2. PICK v : v = [q \in Queues |-> Kept(s.waitRecv[q], ts)[Len(s.waitRecv[q])]]
  OBVIOUS
<1>3. s.waitSend \in [Queues -> Seq(Tasks)] /\ s.waitRecv \in [Queues -> Seq(Tasks)]
  BY DEF KRec
<1>4. ASSUME NEW q \in Queues
      PROVE  /\ u[q] \in Seq(Tasks) /\ Range(u[q]) = Range(s.waitSend[q]) \ ts
             /\ v[q] \in Seq(Tasks) /\ Range(v[q]) = Range(s.waitRecv[q]) \ ts
             /\ Thins(s.waitRecv[q], v[q])
  <2>1. PICK l \in Seq(Tasks) : l = s.waitSend[q]
    BY <1>3
  <2>2. PICK m \in Seq(Tasks) : m = s.waitRecv[q]
    BY <1>3
  <2>3. u[q] = Kept(l, ts)[Len(l)] /\ v[q] = Kept(m, ts)[Len(m)]
    BY <1>1, <1>2, <2>1, <2>2
  <2>4. Kept(l, ts)[Len(l)] \in Seq(Tasks) /\ Range(Kept(l, ts)[Len(l)]) = Range(l) \ ts
    BY KeptRange
  <2>5. Kept(m, ts)[Len(m)] \in Seq(Tasks) /\ Range(Kept(m, ts)[Len(m)]) = Range(m) \ ts
    BY KeptRange
  <2>6. Thins(m, Kept(m, ts)[Len(m)])
    BY KeptSorted DEF Thins
  <2> QED BY <2>1, <2>2, <2>3, <2>4, <2>5, <2>6
<1>5. u \in [Queues -> Seq(Tasks)] /\ v \in [Queues -> Seq(Tasks)]
  BY <1>1, <1>2, <1>4
<1>6. r = [s EXCEPT !.waitSend = u, !.waitRecv = v]
  BY <1>1, <1>2, Zenon DEF RemoveFromEvents
<1>7. r \in KRec /\ r.waitSend = u /\ r.waitRecv = v
  BY <1>5, <1>6 DEF KRec
<1>8. /\ SameReady(s, r) /\ SameSleep(s, r) /\ SamePending(s, r) /\ SameClock(s, r)
      /\ SameNext(s, r) /\ SameTask(s, r) /\ SameYield(s, r) /\ SamePrio(s, r)
      /\ SameHeld(s, r)
  BY <1>6 DEF KRec, SameReady, SameSleep, SamePending, SameClock, SameNext, SameTask,
              SameYield, SamePrio, SameHeld
<1> QED BY <1>4, <1>7, <1>8

\* prvResetNextTaskUnblockTime() finds the first wake time.
LEMMA ResetNextIs ==
    ASSUME NEW s \in KRec, NEW r, r = prvResetNextTaskUnblockTime(s)
    PROVE  /\ r \in KRec
           /\ \A t \in s.delayed : r.xNextTaskUnblockTime <= s.wake[t]
           /\ SameReady(s, r) /\ SameSleep(s, r) /\ SameEvents(s, r) /\ SamePending(s, r)
           /\ SameClock(s, r) /\ SameTask(s, r) /\ SameYield(s, r) /\ SamePrio(s, r)
           /\ SameHeld(s, r)
<1>1. s.delayed \subseteq AllTasks /\ s.wake \in [AllTasks -> 0 .. portMAX_DELAY]
  BY Constants DEF KRec
<1>2. PICK n \in 0 .. portMAX_DELAY : /\ r = [s EXCEPT !.xNextTaskUnblockTime = n]
                                      /\ \A t \in s.delayed : n <= s.wake[t]
  <2>1. CASE s.delayed = {}
    BY <2>1, Constants DEF prvResetNextTaskUnblockTime
  <2>2. CASE s.delayed # {}
    <3>1. PICK W : W = {s.wake[t] : t \in s.delayed}
      OBVIOUS
    <3>2. W \subseteq 0 .. portMAX_DELAY /\ W \subseteq Nat /\ W # {}
      BY <1>1, <2>2, <3>1, Constants
    <3>3. Min(W) \in W /\ \A y \in W : Min(W) <= y
      BY <3>2, MinIn
    <3>4. \A t \in s.delayed : Min(W) <= s.wake[t]
      BY <3>1, <3>3
    <3>5. r = [s EXCEPT !.xNextTaskUnblockTime = Min(W)]
      BY <2>2, <3>1, Zenon DEF prvResetNextTaskUnblockTime
    <3> QED BY <3>2, <3>3, <3>4, <3>5
  <2> QED BY <2>1, <2>2
<1>3. r \in KRec /\ r.xNextTaskUnblockTime = n
  BY <1>2 DEF KRec
<1>4. /\ SameReady(s, r) /\ SameSleep(s, r) /\ SameEvents(s, r) /\ SamePending(s, r)
      /\ SameClock(s, r) /\ SameTask(s, r) /\ SameYield(s, r) /\ SamePrio(s, r)
      /\ SameHeld(s, r)
  BY <1>2 DEF KRec, SameReady, SameSleep, SameEvents, SamePending, SameClock, SameTask,
              SameYield, SamePrio, SameHeld
<1> QED BY <1>2, <1>3, <1>4

-----------------------------------------------------------------------------
(* The lists                                                               *)

\* OneStateList, NoOversleep and TopReadyExact of a state of tasks.c.
Asleep(s) == s.delayed \cup s.overflow
Placed(s) ==
    \A t \in AllTasks :
        /\ \A p \in Prios : t \in s.ready[p] => p = s.uxPriority[t]
        /\ t \in s.ready[s.uxPriority[t]] <=> t \notin Asleep(s)
        /\ t \notin s.delayed \/ t \notin s.overflow
Timely(s) ==
    /\ \A t \in s.delayed : s.wake[t] > s.xTickCount /\ s.xNextTaskUnblockTime <= s.wake[t]
    /\ \A t \in s.overflow : s.wake[t] <= s.xTickCount
Exact(s) == \A p \in Prios : p \in s.uxTopReadyPriority <=> s.ready[p] # {}

\* A task in an event list is asleep; a pending one as well, but in no event list.
Listed(s) ==
    /\ Range(s.xPendingReadyList) \subseteq Asleep(s)
    /\ \A q \in Queues : /\ Range(s.waitSend[q]) \subseteq Asleep(s) \ Range(s.xPendingReadyList)
                         /\ Range(s.waitRecv[q]) \subseteq Asleep(s) \ Range(s.xPendingReadyList)
Flushed(s) == ~s.uxSchedulerSuspended => s.xPendingReadyList = << >> /\ s.uxPendedTicks = 0

\* No task is below its own priority; the idle task is at its own.
Raised(s) ==
    /\ \A t \in AllTasks : s.uxPriority[t] >= Base[t]
    /\ s.uxPriority[Idle] = 0 /\ 0 \in s.uxTopReadyPriority

Sane(s) == s \in KRec /\ Flushed(s) /\ Raised(s)
Sound(s) == Placed(s) /\ Timely(s) /\ Listed(s) /\ Exact(s)

\* Tasks are moved from the delayed lists to the ready lists.
LEMMA MakeReady ==
    ASSUME NEW s \in KRec, NEW ts \in SUBSET AllTasks,
           NEW r, r = AddToReady(RemoveFromDelayed(s, ts), ts)
    PROVE  /\ r \in KRec
           /\ \A u : /\ u \in r.delayed <=> u \in s.delayed /\ u \notin ts
                     /\ u \in r.overflow <=> u \in s.overflow /\ u \notin ts
           /\ \A p \in Prios : \A u : u \in r.ready[p] <=> u \in s.ready[p] \/ (u \in ts /\ s.uxPriority[u] = p)
           /\ SameEvents(s, r) /\ SamePending(s, r) /\ SameClock(s, r)
           /\ SameNext(s, r) /\ SameTask(s, r) /\ SameYield(s, r) /\ SamePrio(s, r)
           /\ SameHeld(s, r)
           /\ \A u \in Asleep(r) : r.wake[u] = s.wake[u]
           /\ Placed(s) => Placed(r)
           /\ Timely(s) => Timely(r)
           /\ Exact(s) => Exact(r)
           /\ Raised(s) => Raised(r)
<1>1. PICK a : a = RemoveFromDelayed(s, ts)
  OBVIOUS
<1>2. /\ a \in KRec
      /\ a.delayed = s.delayed \ ts /\ a.overflow = s.overflow \ ts
      /\ a.wake = [t \in AllTasks |-> IF t \in ts THEN 0 ELSE s.wake[t]]
      /\ SameReady(s, a) /\ SameEvents(s, a) /\ SamePending(s, a) /\ SameClock(s, a)
      /\ SameNext(s, a) /\ SameTask(s, a) /\ SameYield(s, a) /\ SamePrio(s, a)
      /\ SameHeld(s, a)
  BY <1>1, RemoveFromDelayedIs
<1>3. r = AddToReady(a, ts)
  BY <1>1
<1>4. /\ r \in KRec
      /\ r.ready = [p \in Prios |-> a.ready[p] \cup {t \in ts : a.uxPriority[t] = p}]
      /\ r.uxTopReadyPriority = a.uxTopReadyPriority \cup {a.uxPriority[t] : t \in ts}
      /\ SameSleep(a, r) /\ SameEvents(a, r) /\ SamePending(a, r) /\ SameClock(a, r)
      /\ SameNext(a, r) /\ SameTask(a, r) /\ SameYield(a, r) /\ SamePrio(a, r)
      /\ SameHeld(a, r)
  BY <1>2, <1>3, AddToReadyIs
<1>5. /\ r.delayed = s.delayed \ ts /\ r.overflow = s.overflow \ ts
      /\ r.wake = [t \in AllTasks |-> IF t \in ts THEN 0 ELSE s.wake[t]]
      /\ r.ready = [p \in Prios |-> s.ready[p] \cup {t \in ts : s.uxPriority[t] = p}]
      /\ r.uxTopReadyPriority = s.uxTopReadyPriority \cup {s.uxPriority[t] : t \in ts}
      /\ r.uxPriority = s.uxPriority
      /\ r.xTickCount = s.xTickCount /\ r.xNextTaskUnblockTime = s.xNextTaskUnblockTime
  BY <1>2, <1>4 DEF SameSleep, SameReady, SamePrio, SameClock, SameNext
<1>6. /\ SameEvents(s, r) /\ SamePending(s, r) /\ SameClock(s, r)
      /\ SameNext(s, r) /\ SameTask(s, r) /\ SameYield(s, r) /\ SamePrio(s, r)
      /\ SameHeld(s, r)
  BY <1>2, <1>4 DEF SameEvents, SamePending, SameClock, SameNext, SameTask, SameYield, SamePrio, SameHeld
<1>7. s.uxPriority \in [AllTasks -> Prios] /\ s.ready \in [Prios -> SUBSET AllTasks]
  BY DEF KRec
<1>8. ASSUME Placed(s) PROVE Placed(r)
  BY <1>5, <1>7, <1>8 DEF Placed, Asleep
<1>9. ASSUME Timely(s) PROVE Timely(r)
  BY <1>5, <1>9, Constants DEF Timely, KRec
<1>10. ASSUME Exact(s) PROVE Exact(r)
  BY <1>5, <1>7, <1>10 DEF Exact
<1>11. ASSUME Raised(s) PROVE Raised(r)
  BY <1>5, <1>11 DEF Raised
<1>12. ASSUME NEW u \in Asleep(r) PROVE r.wake[u] = s.wake[u]
  <2>1. u \notin ts /\ u \in AllTasks
    BY <1>5, Constants DEF Asleep, KRec
  <2> QED BY <1>5, <2>1
<1> QED BY <1>4, <1>5, <1>6, <1>8, <1>9, <1>10, <1>11, <1>12

\* The current task will wake in n ticks.
SetsAlarm(s, r, n) == r.wake = [s.wake EXCEPT ![s.pxCurrentTCB] = (s.xTickCount + n) % TICKS]

\* prvAddCurrentTaskToDelayedList() puts a ready task to sleep for n ticks.
LEMMA GoToSleep ==
    ASSUME NEW s \in KRec, NEW n \in 1 .. portMAX_DELAY, s.pxCurrentTCB \in Tasks,
           NEW r, r = prvAddCurrentTaskToDelayedList(s, n)
    PROVE  /\ r \in KRec
           /\ Asleep(r) = Asleep(s) \cup {s.pxCurrentTCB}
           /\ \A x \in Prios : \A u :
                 u \in r.ready[x] <=>
                 u \in s.ready[x] /\ ~(x = s.uxPriority[s.pxCurrentTCB] /\ u = s.pxCurrentTCB)
           /\ SameEvents(s, r) /\ SamePending(s, r) /\ SameClock(s, r)
           /\ SameTask(s, r) /\ SameYield(s, r) /\ SamePrio(s, r) /\ SameHeld(s, r)
           /\ Placed(s) /\ s.pxCurrentTCB \notin Asleep(s) => Placed(r)
           /\ Timely(s) /\ s.pxCurrentTCB \notin Asleep(s) => Timely(r)
           /\ Exact(s) => Exact(r)
           /\ Raised(s) => Raised(r)
           /\ SetsAlarm(s, r, n)
<1>1. PICK t \in Tasks : t = s.pxCurrentTCB
  OBVIOUS
<1>2. PICK p \in Prios : p = s.uxPriority[t]
  BY Constants DEF KRec
<1>3. PICK w \in 0 .. portMAX_DELAY : /\ w = (s.xTickCount + n) % TICKS
                                      /\ w # s.xTickCount
  <2>1. s.xTickCount \in 0 .. TICKS - 1 /\ n \in 1 .. TICKS - 1
    BY Constants DEF KRec
  <2>2. PICK x \in Nat : x = s.xTickCount /\ x < TICKS
    BY <2>1, Constants
  <2>3. PICK a \in Int : a = x + n /\ -TICKS <= a /\ a < TICKS + TICKS
    BY <2>1, <2>2, Constants
  <2>4. a % TICKS = IF a < 0 THEN a + TICKS ELSE IF a < TICKS THEN a ELSE a - TICKS
    BY <2>3, Constants, Wrap
  <2>5. a % TICKS \in 0 .. TICKS - 1 /\ a % TICKS # x
    BY <2>1, <2>2, <2>3, <2>4, Constants
  <2> QED BY <2>2, <2>3, <2>5, Constants
<1>4. PICK a : a = RemoveFromReady(s, t, p, p)
  OBVIOUS
<1>5. /\ a \in KRec
      /\ \A x \in Prios : \A u : u \in a.ready[x] <=> u \in s.ready[x] /\ ~(x = p /\ u = t)
      /\ \A x : x \in a.uxTopReadyPriority <=>
                x \in s.uxTopReadyPriority /\ ~(x = p /\ s.ready[p] \subseteq {t})
      /\ SameSleep(s, a) /\ SameEvents(s, a) /\ SamePending(s, a) /\ SameClock(s, a)
      /\ SameNext(s, a) /\ SameTask(s, a) /\ SameYield(s, a) /\ SamePrio(s, a)
      /\ SameHeld(s, a)
  <2>1. t \in AllTasks
    BY Constants
  <2>5. a \in KRec
    BY <1>4, <2>1, RemoveFromReadyIs
  <2>2. \A x \in Prios : \A u : u \in a.ready[x] <=> u \in s.ready[x] /\ ~(x = p /\ u = t)
    BY <1>4, <2>1, RemoveFromReadyIs
  <2>3. \A x : x \in a.uxTopReadyPriority <=>
                x \in s.uxTopReadyPriority /\ ~(x = p /\ s.ready[p] \subseteq {t})
    BY <1>4, <2>1, RemoveFromReadyIs
  <2>4. /\ SameSleep(s, a) /\ SameEvents(s, a) /\ SamePending(s, a) /\ SameClock(s, a)
        /\ SameNext(s, a) /\ SameTask(s, a) /\ SameYield(s, a) /\ SamePrio(s, a)
        /\ SameHeld(s, a)
    BY <1>4, <2>1, RemoveFromReadyIs
  <2> QED BY <2>2, <2>3, <2>4, <2>5
<1>6. PICK b : b = [a EXCEPT !.wake[t] = w]
  OBVIOUS
<1>7. /\ b \in KRec /\ b.wake = [s.wake EXCEPT ![t] = w]
      /\ b.delayed = s.delayed /\ b.overflow = s.overflow
      /\ SameReady(a, b) /\ SameEvents(s, b) /\ SamePending(s, b) /\ SameClock(s, b)
      /\ SameNext(s, b) /\ SameTask(s, b) /\ SameYield(s, b) /\ SamePrio(s, b)
      /\ SameHeld(s, b)
  <2>1. t \in AllTasks
    BY Constants
  <2>2. b \in KRec /\ b.wake = [a.wake EXCEPT ![t] = w]
    BY <1>5, <1>6, <2>1 DEF KRec
  <2>3. /\ SameReady(a, b) /\ SameEvents(a, b) /\ SamePending(a, b) /\ SameClock(a, b)
        /\ SameNext(a, b) /\ SameTask(a, b) /\ SameYield(a, b) /\ SamePrio(a, b)
        /\ SameHeld(a, b) /\ b.delayed = a.delayed /\ b.overflow = a.overflow
    BY <1>5, <1>6 DEF KRec, SameReady, SameSleep, SameEvents, SamePending, SameClock, SameNext,
                      SameTask, SameYield, SamePrio, SameHeld
  <2> QED BY <1>5, <2>2, <2>3 DEF SameSleep, SameEvents, SamePending, SameClock, SameNext,
                      SameTask, SameYield, SamePrio, SameHeld
<1>8. r = IF w < s.xTickCount
          THEN [b EXCEPT !.overflow = b.overflow \cup {t}]
          ELSE [b EXCEPT !.delayed = b.delayed \cup {t},
                         !.xNextTaskUnblockTime = Min({b.xNextTaskUnblockTime, w})]
  BY <1>1, <1>2, <1>3, <1>4, <1>6, Zenon DEF prvAddCurrentTaskToDelayedList
<1>9. PICK m \in 0 .. portMAX_DELAY : /\ m = Min({b.xNextTaskUnblockTime, w})
                                      /\ m <= b.xNextTaskUnblockTime /\ m <= w
  <2>1. b.xNextTaskUnblockTime \in 0 .. portMAX_DELAY
    BY <1>7 DEF KRec
  <2>2. PICK x \in 0 .. portMAX_DELAY : x = b.xNextTaskUnblockTime
    BY <2>1
  <2>3. {x, w} \subseteq Nat /\ {x, w} # {}
    BY Constants
  <2>4. Min({x, w}) \in {x, w} /\ \A y \in {x, w} : Min({x, w}) <= y
    BY <2>3, MinIn
  <2> QED BY <2>2, <2>4
<1>10. /\ r \in KRec /\ SameReady(b, r) /\ SameEvents(b, r) /\ SamePending(b, r)
       /\ SameClock(b, r) /\ SameTask(b, r) /\ SameYield(b, r) /\ SamePrio(b, r)
       /\ SameHeld(b, r) /\ r.wake = b.wake
       /\ w < s.xTickCount => /\ r.overflow = s.overflow \cup {t} /\ r.delayed = s.delayed
                              /\ r.xNextTaskUnblockTime = s.xNextTaskUnblockTime
       /\ ~(w < s.xTickCount) => /\ r.delayed = s.delayed \cup {t} /\ r.overflow = s.overflow
                                 /\ r.xNextTaskUnblockTime = m
  <2>1. CASE w < s.xTickCount
    <3>4. PICK o \in SUBSET Tasks : o = b.overflow \cup {t}
      BY <1>7 DEF KRec
    <3>1. r = [b EXCEPT !.overflow = o]
      BY <1>8, <2>1, <3>4
    <3>2. /\ r \in KRec /\ r.overflow = b.overflow \cup {t} /\ r.delayed = b.delayed
          /\ r.xNextTaskUnblockTime = b.xNextTaskUnblockTime /\ r.wake = b.wake
      <4>1. b \in KRec
        BY <1>7
      <4>2. r \in KRec
        BY <3>1, <4>1 DEF KRec
      <4> QED BY <3>1, <3>4, <4>1 DEF KRec
    <3>3. /\ SameReady(b, r) /\ SameEvents(b, r) /\ SamePending(b, r)
          /\ SameClock(b, r) /\ SameTask(b, r) /\ SameYield(b, r) /\ SamePrio(b, r)
          /\ SameHeld(b, r)
      BY <1>7, <3>1 DEF KRec, SameReady, SameEvents, SamePending, SameClock,
                    SameTask, SameYield, SamePrio, SameHeld
    <3> QED BY <1>7, <2>1, <3>2, <3>3 DEF SameNext
  <2>2. CASE ~(w < s.xTickCount)
    <3>4. PICK o \in SUBSET Tasks : o = b.delayed \cup {t}
      BY <1>7 DEF KRec
    <3>1. r = [b EXCEPT !.delayed = o, !.xNextTaskUnblockTime = m]
      BY <1>8, <1>9, <2>2, <3>4
    <3>2. /\ r \in KRec /\ r.overflow = b.overflow /\ r.delayed = b.delayed \cup {t}
          /\ r.xNextTaskUnblockTime = m /\ r.wake = b.wake
      <4>1. b \in KRec
        BY <1>7
      <4>2. r \in KRec
        BY <3>1, <4>1 DEF KRec
      <4> QED BY <3>1, <3>4, <4>1, ZenonT(60) DEF KRec
    <3>3. /\ SameReady(b, r) /\ SameEvents(b, r) /\ SamePending(b, r)
          /\ SameClock(b, r) /\ SameTask(b, r) /\ SameYield(b, r) /\ SamePrio(b, r)
          /\ SameHeld(b, r)
      BY <1>7, <3>1 DEF KRec, SameReady, SameEvents, SamePending, SameClock,
                    SameTask, SameYield, SamePrio, SameHeld
    <3> QED BY <1>7, <2>2, <3>2, <3>3
  <2> QED BY <2>1, <2>2
<1>11. /\ SameEvents(s, r) /\ SamePending(s, r) /\ SameClock(s, r)
       /\ SameTask(s, r) /\ SameYield(s, r) /\ SamePrio(s, r) /\ SameHeld(s, r)
  BY <1>7, <1>10 DEF SameEvents, SamePending, SameClock, SameTask, SameYield, SamePrio, SameHeld
<1>12. /\ \A x \in Prios : \A u : u \in r.ready[x] <=> u \in s.ready[x] /\ ~(x = p /\ u = t)
       /\ \A x : x \in r.uxTopReadyPriority <=>
                 x \in s.uxTopReadyPriority /\ ~(x = p /\ s.ready[p] \subseteq {t})
       /\ r.uxPriority = s.uxPriority /\ r.xTickCount = s.xTickCount
       /\ r.wake = [s.wake EXCEPT ![t] = w]
  BY <1>5, <1>7, <1>10, <1>11 DEF SameReady, SamePrio, SameClock
<1>13. Asleep(r) = Asleep(s) \cup {t}
  BY <1>10 DEF Asleep
<1>14. s.uxPriority \in [AllTasks -> Prios] /\ s.ready \in [Prios -> SUBSET AllTasks] /\ t \in AllTasks
  BY Constants DEF KRec
<1>19. /\ r.delayed \cup r.overflow = Asleep(s) \cup {t}
       /\ r.delayed \subseteq s.delayed \cup {t} /\ r.overflow \subseteq s.overflow \cup {t}
       /\ r.delayed \subseteq s.delayed \/ r.overflow \subseteq s.overflow
  BY <1>10 DEF Asleep
<1>15. ASSUME Placed(s), t \notin Asleep(s) PROVE Placed(r)
  <2> SUFFICES ASSUME NEW u \in AllTasks
               PROVE  /\ \A x \in Prios : u \in r.ready[x] => x = s.uxPriority[u]
                      /\ u \in r.ready[s.uxPriority[u]] <=> u \notin Asleep(r)
                      /\ u \notin r.delayed \/ u \notin r.overflow
    BY <1>12 DEF Placed
  <2>1. /\ \A x \in Prios : u \in s.ready[x] => x = s.uxPriority[u]
        /\ u \in s.ready[s.uxPriority[u]] <=> u \notin Asleep(s)
        /\ u \notin s.delayed \/ u \notin s.overflow
    BY <1>15 DEF Placed
  <2>2. \A x \in Prios : u \in r.ready[x] <=> u \in s.ready[x] /\ ~(x = p /\ u = t)
    BY <1>12
  <2>3. s.uxPriority[u] \in Prios
    BY <1>14
  <2>4. u \in r.ready[s.uxPriority[u]] <=> u \notin Asleep(r)
    BY <1>2, <1>13, <2>1, <2>2, <2>3
  <2>5. u \notin r.delayed \/ u \notin r.overflow
    BY <1>15, <1>19, <2>1 DEF Asleep
  <2> QED BY <2>1, <2>2, <2>4, <2>5
<1>16. ASSUME Timely(s), t \notin Asleep(s) PROVE Timely(r)
  <2>1. s.wake \in [AllTasks -> 0 .. portMAX_DELAY] /\ s.delayed \subseteq AllTasks /\ s.overflow \subseteq AllTasks
    BY Constants DEF KRec
  <2>2. s.xTickCount \in Nat /\ s.xNextTaskUnblockTime \in Nat /\ portMAX_DELAY \in Nat
    BY Constants DEF KRec
  <2>3. b.xNextTaskUnblockTime = s.xNextTaskUnblockTime
    BY <1>7 DEF SameNext
  <2>4. CASE w < s.xTickCount
    <3>1. \A u \in s.delayed \cup s.overflow : u # t /\ r.wake[u] = s.wake[u]
      BY <1>12, <1>16, <2>1 DEF Asleep
    <3>2. r.wake[t] = w /\ w \in Nat
      BY <1>12, <1>14, <2>1, <2>2
    <3> QED BY <1>10, <1>12, <1>16, <2>2, <2>4, <3>1, <3>2 DEF Timely
  <2>5. CASE ~(w < s.xTickCount)
    <3>1. \A u \in s.delayed \cup s.overflow : u # t /\ r.wake[u] = s.wake[u] /\ s.wake[u] \in Nat
      BY <1>12, <1>16, <2>1, <2>2 DEF Asleep
    <3>2. r.wake[t] = w /\ w \in Nat /\ w > s.xTickCount
      BY <1>3, <1>12, <1>14, <2>1, <2>2, <2>5
    <3>3. m \in Nat /\ m <= s.xNextTaskUnblockTime /\ m <= w
      BY <1>9, <2>2, <2>3
    <3> QED BY <1>10, <1>12, <1>16, <2>2, <2>5, <3>1, <3>2, <3>3 DEF Timely
  <2> QED BY <2>4, <2>5
<1>17. ASSUME Exact(s) PROVE Exact(r)
  BY <1>12, <1>14, <1>17 DEF Exact
<1>18. ASSUME Raised(s) PROVE Raised(r)
  <2>1. p >= Base[t] /\ Base[t] > 0 /\ p \in Nat /\ Base[t] \in Nat
    BY <1>2, <1>18, Constants DEF Raised
  <2> QED BY <1>12, <1>18, <2>1 DEF Raised
<1>20. SetsAlarm(s, r, n)
  BY <1>1, <1>3, <1>12 DEF SetsAlarm
<1> QED BY <1>1, <1>2, <1>10, <1>11, <1>12, <1>13, <1>15, <1>16, <1>17, <1>18, <1>20

EventList(s, q, side) == IF side = "send" THEN s.waitSend[q] ELSE s.waitRecv[q]

\* The current task sleeps in the event list of one side of queue q, for n ticks.
Queued(s, r, q, side, n) ==
    /\ \A x \in Queues : \A y \in {"send", "recv"} :
          EventList(r, x, y) = IF x = q /\ y = side
                               THEN InsertByPriority(s, EventList(s, q, side), s.pxCurrentTCB)
                               ELSE EventList(s, x, y)
    /\ Asleep(r) = Asleep(s) \cup {s.pxCurrentTCB}
    /\ SetsAlarm(s, r, n)

\* vTaskPlaceOnEventList() also puts the current task into an event list.
LEMMA PlaceIs ==
    ASSUME NEW s \in KRec, NEW q \in Queues, NEW side \in {"send", "recv"},
           s.pxCurrentTCB \in Tasks, loc[s.pxCurrentTCB].xTicksToWait \in 1 .. portMAX_DELAY,
           NEW r, r = vTaskPlaceOnEventList(s, q, side)
    PROVE  /\ r \in KRec
           /\ SamePending(s, r) /\ SameClock(s, r) /\ SameTask(s, r) /\ SameYield(s, r)
           /\ SamePrio(s, r) /\ SameHeld(s, r)
           /\ Raised(s) => Raised(r)
           /\ Sound(s) /\ s.pxCurrentTCB \notin Asleep(s) => Sound(r)
           /\ Queued(s, r, q, side, loc[s.pxCurrentTCB].xTicksToWait)
<1>1. PICK t \in Tasks : t = s.pxCurrentTCB
  OBVIOUS
<1>2. PICK e : e = IF side = "send"
                   THEN [s EXCEPT !.waitSend[q] = InsertByPriority(s, s.waitSend[q], t)]
                   ELSE [s EXCEPT !.waitRecv[q] = InsertByPriority(s, s.waitRecv[q], t)]
  OBVIOUS
<1>3. r = prvAddCurrentTaskToDelayedList(e, loc[t].xTicksToWait)
  BY <1>1, <1>2, Zenon DEF vTaskPlaceOnEventList
<1>4. /\ e \in KRec
      /\ \A x \in Queues : /\ Range(e.waitSend[x]) \subseteq Range(s.waitSend[x]) \cup {t}
                           /\ Range(e.waitRecv[x]) \subseteq Range(s.waitRecv[x]) \cup {t}
      /\ \A x \in Queues : \A y \in {"send", "recv"} :
            EventList(e, x, y) = IF x = q /\ y = side THEN InsertByPriority(s, EventList(s, q, side), t)
                                 ELSE EventList(s, x, y)
      /\ SameReady(s, e) /\ SameSleep(s, e) /\ SamePending(s, e) /\ SameClock(s, e)
      /\ SameNext(s, e) /\ SameTask(s, e) /\ SameYield(s, e) /\ SamePrio(s, e)
      /\ SameHeld(s, e)
  <2>1. s.waitSend \in [Queues -> Seq(Tasks)] /\ s.waitRecv \in [Queues -> Seq(Tasks)]
    BY DEF KRec
  <2>2. CASE side = "send"
    <3>1. PICK l \in Seq(Tasks) : l = InsertByPriority(s, s.waitSend[q], t)
                                  /\ Range(l) = Range(s.waitSend[q]) \cup {t}
      <4>1. PICK m \in Seq(Tasks) : m = s.waitSend[q]
        BY <2>1
      <4>2. InsertByPriority(s, m, t) \in Seq(Tasks)
        BY InsertRange, Zenon
      <4>3. \A u : u \in Range(InsertByPriority(s, m, t)) <=> u \in Range(m) \/ u = t
        BY InsertRange, Zenon
      <4> QED BY <4>1, <4>2, <4>3
    <3>2. e = [s EXCEPT !.waitSend[q] = l]
      BY <1>2, <2>2, <3>1
    <3>3. /\ e \in KRec /\ e.waitRecv = s.waitRecv
          /\ \A x \in Queues : e.waitSend[x] = IF x = q THEN l ELSE s.waitSend[x]
      BY <3>2 DEF KRec
    <3>4. /\ SameReady(s, e) /\ SameSleep(s, e) /\ SamePending(s, e) /\ SameClock(s, e)
          /\ SameNext(s, e) /\ SameTask(s, e) /\ SameYield(s, e) /\ SamePrio(s, e)
          /\ SameHeld(s, e)
      BY <3>2 DEF KRec, SameReady, SameSleep, SamePending, SameClock, SameNext, SameTask,
                  SameYield, SamePrio, SameHeld
    <3>5. ASSUME NEW x \in Queues, NEW y \in {"send", "recv"}
          PROVE  EventList(e, x, y) = IF x = q /\ y = side THEN InsertByPriority(s, EventList(s, q, side), t)
                                      ELSE EventList(s, x, y)
      BY <2>2, <3>1, <3>3 DEF EventList
    <3> QED BY <3>1, <3>3, <3>4, <3>5
  <2>3. CASE side # "send"
    <3>1. PICK l \in Seq(Tasks) : l = InsertByPriority(s, s.waitRecv[q], t)
                                  /\ Range(l) = Range(s.waitRecv[q]) \cup {t}
      <4>1. PICK m \in Seq(Tasks) : m = s.waitRecv[q]
        BY <2>1
      <4>2. InsertByPriority(s, m, t) \in Seq(Tasks)
        BY InsertRange, Zenon
      <4>3. \A u : u \in Range(InsertByPriority(s, m, t)) <=> u \in Range(m) \/ u = t
        BY InsertRange, Zenon
      <4> QED BY <4>1, <4>2, <4>3
    <3>2. e = [s EXCEPT !.waitRecv[q] = l]
      BY <1>2, <2>3, <3>1
    <3>3. /\ e \in KRec /\ e.waitSend = s.waitSend
          /\ \A x \in Queues : e.waitRecv[x] = IF x = q THEN l ELSE s.waitRecv[x]
      BY <3>2 DEF KRec
    <3>4. /\ SameReady(s, e) /\ SameSleep(s, e) /\ SamePending(s, e) /\ SameClock(s, e)
          /\ SameNext(s, e) /\ SameTask(s, e) /\ SameYield(s, e) /\ SamePrio(s, e)
          /\ SameHeld(s, e)
      BY <3>2 DEF KRec, SameReady, SameSleep, SamePending, SameClock, SameNext, SameTask,
                  SameYield, SamePrio, SameHeld
    <3>5. ASSUME NEW x \in Queues, NEW y \in {"send", "recv"}
          PROVE  EventList(e, x, y) = IF x = q /\ y = side THEN InsertByPriority(s, EventList(s, q, side), t)
                                      ELSE EventList(s, x, y)
      BY <2>3, <3>1, <3>3 DEF EventList
    <3> QED BY <3>1, <3>3, <3>4, <3>5
  <2> QED BY <2>2, <2>3
<1>5. e.pxCurrentTCB = t /\ loc[t].xTicksToWait \in 1 .. portMAX_DELAY
  BY <1>1, <1>4 DEF SameTask
<1>6. /\ r \in KRec
      /\ Asleep(r) = Asleep(e) \cup {t}
      /\ SameEvents(e, r) /\ SamePending(e, r) /\ SameClock(e, r)
      /\ SameTask(e, r) /\ SameYield(e, r) /\ SamePrio(e, r) /\ SameHeld(e, r)
  BY <1>3, <1>4, <1>5, GoToSleep
<1>7. /\ Placed(e) /\ t \notin Asleep(e) => Placed(r)
      /\ Timely(e) /\ t \notin Asleep(e) => Timely(r)
      /\ Exact(e) => Exact(r)
      /\ Raised(e) => Raised(r)
  BY <1>3, <1>4, <1>5, GoToSleep
<1>8. /\ SamePending(s, r) /\ SameClock(s, r) /\ SameTask(s, r) /\ SameYield(s, r)
      /\ SamePrio(s, r) /\ SameHeld(s, r)
  BY <1>4, <1>6 DEF SamePending, SameClock, SameTask, SameYield, SamePrio, SameHeld
<1>9. ASSUME Raised(s) PROVE Raised(r)
  BY <1>4, <1>7, <1>9 DEF Raised, SamePrio, SameReady
<1>10. ASSUME Sound(s), t \notin Asleep(s) PROVE Sound(r)
  <2>1. Asleep(e) = Asleep(s) /\ e.xPendingReadyList = s.xPendingReadyList
    BY <1>4 DEF Asleep, SameSleep, SamePending
  <2>2. Placed(e) /\ Timely(e) /\ Exact(e)
    BY <1>4, <1>10 DEF Sound, Placed, Timely, Exact, Asleep, SameReady, SameSleep, SameClock, SameNext, SamePrio
  <2>3. Listed(r)
    <3>1. r.waitSend = e.waitSend /\ r.waitRecv = e.waitRecv /\ r.xPendingReadyList = s.xPendingReadyList
      BY <1>6, <1>8 DEF SameEvents, SamePending
    <3>2. t \notin Range(s.xPendingReadyList)
      BY <1>10 DEF Sound, Listed
    <3> QED BY <1>4, <1>6, <1>10, <2>1, <3>1, <3>2 DEF Sound, Listed
  <2> QED BY <1>7, <1>10, <2>1, <2>2, <2>3 DEF Sound
<1>11. Queued(s, r, q, side, loc[t].xTicksToWait)
  <2>1. SetsAlarm(e, r, loc[t].xTicksToWait)
    BY <1>3, <1>4, <1>5, GoToSleep
  <2>2. e.wake = s.wake /\ e.xTickCount = s.xTickCount /\ e.pxCurrentTCB = s.pxCurrentTCB /\ Asleep(e) = Asleep(s)
    BY <1>4 DEF SameSleep, SameClock, SameTask, Asleep
  <2>3. SetsAlarm(s, r, loc[t].xTicksToWait)
    BY <2>1, <2>2 DEF SetsAlarm
  <2>4. \A x \in Queues : \A y \in {"send", "recv"} : EventList(r, x, y) = EventList(e, x, y)
    BY <1>6 DEF SameEvents, EventList
  <2> QED BY <1>1, <1>4, <1>6, <2>2, <2>3, <2>4 DEF Queued
<1> QED BY <1>1, <1>6, <1>8, <1>9, <1>10, <1>11

\* The tasks of W leave the event lists; the lists keep their order, the tasks
\* that still sleep their wake times, and all tasks their priorities.
Freed(s, r, W) ==
    /\ \A q \in Queues : \A u :
          /\ u \in Range(r.waitSend[q]) <=> u \in Range(s.waitSend[q]) /\ u \notin W
          /\ u \in Range(r.waitRecv[q]) <=> u \in Range(s.waitRecv[q]) /\ u \notin W
    /\ \A q \in Queues : Thins(s.waitRecv[q], r.waitRecv[q])
    /\ \A u \in Asleep(r) : r.wake[u] = s.wake[u]
    /\ r.uxPriority = s.uxPriority

\* No task that is not asleep outranks the current one.
Leads(s) == \A u \in AllTasks : u \notin Asleep(s) => s.uxPriority[u] <= s.uxPriority[s.pxCurrentTCB]

\* Task t is woken, and remembered if it outranks the current task.
WokenUp(s, r, t) ==
    /\ Freed(s, r, {t})
    /\ Asleep(r) = IF s.uxSchedulerSuspended THEN Asleep(s) ELSE Asleep(s) \ {t}
    /\ r.xYieldPending = (s.xYieldPending \/ Outranks(s, t))

\* Who is freed, and who leads, depends on the lists and the priorities only.
LEMMA FreedSame ==
    ASSUME NEW s, NEW a, NEW r, NEW W, Freed(s, a, W),
           SameEvents(a, r), SameSleep(a, r), SamePrio(a, r)
    PROVE  Freed(s, r, W)
BY DEF Freed, SameEvents, SameSleep, SamePrio, Asleep

\* Nobody is freed.
LEMMA FreedNobody ==
    ASSUME NEW s, NEW r, SameEvents(s, r), SameSleep(s, r), SamePrio(s, r)
    PROVE  Freed(s, r, {})
BY DEF Freed, Thins, SameEvents, SameSleep, SamePrio, Asleep

\* The same task leads.
LEMMA LeadsSame ==
    ASSUME NEW s, NEW r, SameSleep(s, r), SamePrio(s, r), r.pxCurrentTCB = s.pxCurrentTCB, Leads(s)
    PROVE  Leads(r)
BY DEF Leads, SameSleep, SamePrio, Asleep

\* xTaskRemoveFromEventList() wakes a task: it becomes ready, or pending if the
\* scheduler is suspended.
LEMMA WakeIs ==
    ASSUME NEW s \in KRec, NEW q \in Queues, NEW side \in {"send", "recv"},
           EventList(s, q, side) # << >>,
           NEW r, r = xTaskRemoveFromEventList(s, q, side)
    PROVE  /\ r \in KRec
           /\ SameClock(s, r) /\ SameTask(s, r) /\ SamePrio(s, r) /\ SameHeld(s, r)
           /\ r.pendsv = s.pendsv /\ r.switch = s.switch
           /\ \A p \in Prios : \A u : u \in s.ready[p] => u \in r.ready[p]
           /\ \A u : u \in Asleep(r) => u \in Asleep(s)
           /\ Raised(s) => Raised(r)
           /\ Flushed(s) => Flushed(r)
           /\ Sound(s) => Sound(r)
           /\ WokenUp(s, r, Woken(s, q, side))
           /\ Woken(s, q, side) \in Tasks /\ Woken(s, q, side) \in Range(EventList(s, q, side))
<1>1. PICK t \in Tasks : t = Woken(s, q, side) /\ t \in Range(EventList(s, q, side))
  <2>1. PICK l \in Seq(Tasks) : l = EventList(s, q, side)
    BY DEF EventList, KRec
  <2>2. Head(l) \in Tasks /\ Head(l) \in Range(l)
    BY <2>1 DEF Range
  <2>3. Woken(s, q, side) = Head(l)
    BY <2>1 DEF Woken, EventList
  <2> QED BY <2>1, <2>2, <2>3
<1>0. PICK ts : ts = {t}
  OBVIOUS
<1>2. PICK e : e = RemoveFromEvents(s, ts)
  OBVIOUS
<1>3. PICK b : b = IF s.uxSchedulerSuspended
                   THEN [e EXCEPT !.xPendingReadyList = Append(e.xPendingReadyList, t)]
                   ELSE AddToReady(RemoveFromDelayed(e, ts), ts)
  OBVIOUS
<1>4. r = [b EXCEPT !.xYieldPending = b.xYieldPending \/ Outranks(s, t)]
  BY <1>0, <1>1, <1>2, <1>3, Zenon DEF xTaskRemoveFromEventList
<1>5. /\ e \in KRec
      /\ \A x \in Queues : \A u :
            /\ u \in Range(e.waitSend[x]) <=> u \in Range(s.waitSend[x]) /\ u \notin ts
            /\ u \in Range(e.waitRecv[x]) <=> u \in Range(s.waitRecv[x]) /\ u \notin ts
      /\ \A x \in Queues : Thins(s.waitRecv[x], e.waitRecv[x])
      /\ SameReady(s, e) /\ SameSleep(s, e) /\ SamePending(s, e) /\ SameClock(s, e)
      /\ SameNext(s, e) /\ SameTask(s, e) /\ SameYield(s, e) /\ SamePrio(s, e)
      /\ SameHeld(s, e)
  BY <1>2, RemoveFromEventsIs
<1>6. /\ Sound(s) => Placed(e) /\ Timely(e) /\ Exact(e)
      /\ Raised(s) => Raised(e)
      /\ Asleep(e) = Asleep(s)
  <2>1. /\ e.ready = s.ready /\ e.uxTopReadyPriority = s.uxTopReadyPriority
        /\ e.delayed = s.delayed /\ e.overflow = s.overflow /\ e.wake = s.wake
        /\ e.xTickCount = s.xTickCount /\ e.xNextTaskUnblockTime = s.xNextTaskUnblockTime
        /\ e.uxPriority = s.uxPriority
    BY <1>5 DEF SameReady, SameSleep, SameClock, SameNext, SamePrio
  <2> QED BY <2>1 DEF Sound, Placed, Timely, Exact, Raised, Asleep
<1>7. /\ b \in KRec
      /\ b.waitSend = e.waitSend /\ b.waitRecv = e.waitRecv
      /\ SameClock(e, b) /\ SameNext(e, b) /\ SameTask(e, b) /\ SameYield(e, b) /\ SamePrio(e, b)
      /\ SameHeld(e, b)
      /\ \A p \in Prios : \A u : u \in s.ready[p] => u \in b.ready[p]
      /\ Sound(s) => Placed(b) /\ Timely(b) /\ Exact(b) /\ Listed(b)
      /\ \A u : u \in Asleep(b) => u \in Asleep(s)
      /\ Raised(s) => Raised(b)
      /\ Flushed(s) => Flushed(b)
      /\ Asleep(b) = IF s.uxSchedulerSuspended THEN Asleep(s) ELSE Asleep(s) \ {t}
      /\ \A u \in Asleep(b) : b.wake[u] = s.wake[u]
  <2>1. CASE s.uxSchedulerSuspended
    <3>1. PICK l \in Seq(Tasks) : l = Append(e.xPendingReadyList, t) /\ Range(l) = Range(s.xPendingReadyList) \cup {t}
      <4>1. PICK m \in Seq(Tasks) : m = e.xPendingReadyList /\ m = s.xPendingReadyList
        BY <1>5 DEF KRec, SamePending
      <4>2. PICK x \in Seq(Tasks) : x = <<t>> /\ Range(x) = {t}
        <5>1. <<t>> \in Seq(Tasks) /\ Range(<<t>>) = {t}
          BY DEF Range
        <5> QED BY <5>1
      <4>3. Append(m, t) = m \o x /\ Append(m, t) \in Seq(Tasks)
        BY <4>2
      <4>4. Range(m \o x) = Range(m) \cup Range(x)
        BY RangeConcatenation
      <4> QED BY <4>1, <4>2, <4>3, <4>4
    <3>2. b = [e EXCEPT !.xPendingReadyList = l]
      BY <1>3, <2>1, <3>1
    <3>3. b \in KRec /\ b.xPendingReadyList = l
      BY <1>5, <3>2 DEF KRec
    <3>4. /\ SameEvents(e, b) /\ SameReady(e, b) /\ SameSleep(e, b)
          /\ SameClock(e, b) /\ SameNext(e, b) /\ SameTask(e, b) /\ SameYield(e, b)
          /\ SamePrio(e, b) /\ SameHeld(e, b)
      BY <1>5, <3>2 DEF KRec, SameEvents, SameReady, SameSleep, SameClock, SameNext, SameTask,
                        SameYield, SamePrio, SameHeld
    <3>5. /\ Sound(s) => Placed(b) /\ Timely(b) /\ Exact(b)
          /\ Raised(s) => Raised(b)
          /\ Asleep(b) = Asleep(s)
      BY <1>6, <3>4 DEF Placed, Timely, Exact, Raised, Asleep, SameReady, SameSleep, SameClock, SameNext, SamePrio
    <3>6. ASSUME Sound(s) PROVE Listed(b)
      <4>1. t \in Asleep(s)
        BY <1>1, <3>6 DEF Sound, Listed, EventList
      <4>2. b.waitSend = e.waitSend /\ b.waitRecv = e.waitRecv
        BY <3>4 DEF SameEvents
      <4> QED BY <1>0, <1>5, <3>1, <3>3, <3>5, <3>6, <4>1, <4>2 DEF Sound, Listed
    <3>7. Flushed(b)
      BY <1>5, <2>1, <3>4 DEF Flushed, SameTask
    <3>8. \A p \in Prios : \A u : u \in s.ready[p] => u \in b.ready[p]
      BY <1>5, <3>4 DEF SameReady
    <3>9. /\ Asleep(b) = IF s.uxSchedulerSuspended THEN Asleep(s) ELSE Asleep(s) \ {t}
          /\ \A u \in Asleep(b) : b.wake[u] = s.wake[u]
      BY <1>5, <2>1, <3>4, <3>5 DEF SameSleep
    <3> QED BY <3>3, <3>4, <3>5, <3>6, <3>7, <3>8, <3>9 DEF SameEvents
  <2>2. CASE ~s.uxSchedulerSuspended
    <3>1. ts \in SUBSET AllTasks /\ b = AddToReady(RemoveFromDelayed(e, ts), ts)
      BY <1>0, <1>3, <2>2, Constants
    <3>2. /\ b \in KRec
          /\ \A u : /\ u \in b.delayed <=> u \in e.delayed /\ u \notin ts
                    /\ u \in b.overflow <=> u \in e.overflow /\ u \notin ts
          /\ \A p \in Prios : \A u : u \in b.ready[p] <=> u \in e.ready[p] \/ (u \in ts /\ e.uxPriority[u] = p)
      BY <1>5, <3>1, MakeReady
    <3>3. /\ SameEvents(e, b) /\ SamePending(e, b) /\ SameClock(e, b)
          /\ SameNext(e, b) /\ SameTask(e, b) /\ SameYield(e, b) /\ SamePrio(e, b)
          /\ SameHeld(e, b)
      BY <1>5, <3>1, MakeReady
    <3>4. /\ Placed(e) => Placed(b)
          /\ Timely(e) => Timely(b)
          /\ Exact(e) => Exact(b)
          /\ Raised(e) => Raised(b)
      BY <1>5, <3>1, MakeReady
    <3>5. \A p \in Prios : \A u : u \in s.ready[p] => u \in b.ready[p]
      BY <1>5, <3>2 DEF SameReady
    <3>6. Asleep(b) = Asleep(s) \ ts /\ b.xPendingReadyList = s.xPendingReadyList
      <4>1. e.delayed = s.delayed /\ e.overflow = s.overflow
        BY <1>5 DEF SameSleep
      <4>2. \A u : u \in Asleep(b) <=> u \in Asleep(s) /\ u \notin ts
        <5>1. \A u : /\ u \in b.delayed <=> u \in s.delayed /\ u \notin ts
                     /\ u \in b.overflow <=> u \in s.overflow /\ u \notin ts
          BY <3>2, <4>1
        <5> QED BY <5>1 DEF Asleep
      <4>3. b.xPendingReadyList = s.xPendingReadyList
        BY <1>5, <3>3 DEF SamePending
      <4> QED BY <4>2, <4>3
    <3>7. b.waitSend = e.waitSend /\ b.waitRecv = e.waitRecv
      BY <3>3 DEF SameEvents
    <3>8. ASSUME Sound(s) PROVE Listed(b)
      <4>1. t \notin Range(s.xPendingReadyList)
        BY <1>1, <3>8 DEF Sound, Listed, EventList
      <4> QED BY <1>0, <1>5, <3>6, <3>7, <3>8, <4>1 DEF Sound, Listed
    <3>9. ASSUME Flushed(s) PROVE Flushed(b)
      BY <1>5, <3>3, <3>6, <3>9 DEF Flushed, SameTask, SameClock
    <3>10. Asleep(b) = IF s.uxSchedulerSuspended THEN Asleep(s) ELSE Asleep(s) \ {t}
      BY <1>0, <2>2, <3>6
    <3>11. \A u \in Asleep(b) : b.wake[u] = e.wake[u]
      BY <1>5, <3>1, MakeReady
    <3>12. \A u \in Asleep(b) : b.wake[u] = s.wake[u]
      BY <1>5, <3>11 DEF SameSleep
    <3> QED BY <1>6, <3>2, <3>3, <3>4, <3>5, <3>6, <3>7, <3>8, <3>9, <3>10, <3>12
  <2>3. s.uxSchedulerSuspended \in BOOLEAN
    BY DEF KRec
  <2> QED BY <2>1, <2>2, <2>3
<1>8. Outranks(s, t) \in BOOLEAN
  BY DEF Outranks
<1>9. r \in KRec
  BY <1>4, <1>7, <1>8 DEF KRec
<1>10. /\ SameReady(b, r) /\ SameSleep(b, r) /\ SameEvents(b, r) /\ SamePending(b, r)
       /\ SameClock(b, r) /\ SameNext(b, r) /\ SameTask(b, r) /\ SamePrio(b, r) /\ SameHeld(b, r)
       /\ r.pendsv = b.pendsv /\ r.switch = b.switch
  BY <1>4, <1>7 DEF KRec, SameReady, SameSleep, SameEvents, SamePending, SameClock, SameNext, SameTask,
                    SamePrio, SameHeld
<1>11. /\ SameClock(s, r) /\ SameTask(s, r) /\ SamePrio(s, r) /\ SameHeld(s, r)
       /\ r.pendsv = s.pendsv /\ r.switch = s.switch
  BY <1>5, <1>7, <1>10 DEF SameClock, SameTask, SamePrio, SameHeld, SameYield
<1>12. /\ Placed(b) => Placed(r)
       /\ Timely(b) => Timely(r)
       /\ Exact(b) => Exact(r)
       /\ Listed(b) => Listed(r)
       /\ Raised(b) => Raised(r)
       /\ Flushed(b) => Flushed(r)
       /\ Asleep(r) = Asleep(b)
  BY <1>10 DEF Placed, Timely, Exact, Listed, Raised, Flushed, Asleep, SameReady, SameSleep, SameEvents,
               SamePending, SameClock, SameNext, SameTask, SamePrio
<1>13. \A p \in Prios : \A u : u \in s.ready[p] => u \in r.ready[p]
  BY <1>7, <1>10 DEF SameReady
<1>14. WokenUp(s, r, t)
  <2>1. r.waitSend = e.waitSend /\ r.waitRecv = e.waitRecv /\ r.wake = b.wake /\ r.uxPriority = s.uxPriority
    BY <1>7, <1>10, <1>11 DEF SameEvents, SameSleep, SamePrio
  <2>2. Freed(s, r, {t})
    BY <1>0, <1>5, <1>7, <1>12, <2>1 DEF Freed
  <2>3. r.xYieldPending = (s.xYieldPending \/ Outranks(s, t))
    <3>1. r.xYieldPending = (b.xYieldPending \/ Outranks(s, t))
      BY <1>4, <1>7, <1>8 DEF KRec
    <3> QED BY <1>5, <1>7, <3>1 DEF SameYield
  <2> QED BY <1>7, <1>12, <2>2, <2>3 DEF WokenUp
<1>15. WokenUp(s, r, Woken(s, q, side)) /\ Woken(s, q, side) \in Tasks /\ Woken(s, q, side) \in Range(EventList(s, q, side))
  BY <1>1, <1>14
<1> QED BY <1>7, <1>9, <1>11, <1>12, <1>13, <1>15 DEF Sound

\* What waking a task never changes: a sound state stays sound, nobody falls
\* asleep, and the clock, the running task and the mutexes stay.
Keeps(s, r) ==
    /\ Sane(r) /\ (Sound(s) => Sound(r))
    /\ \A u : u \in Asleep(r) => u \in Asleep(s)
    /\ SameClock(s, r) /\ SameTask(s, r) /\ SameHeld(s, r)
    /\ r.switch = s.switch /\ (s.pendsv => r.pendsv)

\* Two steps that keep the lists.
LEMMA KeepsTwice ==
    ASSUME NEW s, NEW a, NEW r, Keeps(s, a), Keeps(a, r)
    PROVE  Keeps(s, r)
BY DEF Keeps, SameClock, SameTask, SameHeld

\* No step at all.
LEMMA KeepsNothing ==
    ASSUME NEW s, Sane(s)
    PROVE  Keeps(s, s)
BY DEF Keeps, SameClock, SameTask, SameHeld

\* xTaskRemoveFromEventList() keeps the lists in order.
LEMMA WakeKeeps ==
    ASSUME NEW s, Sane(s), NEW q \in Queues, NEW side \in {"send", "recv"},
           EventList(s, q, side) # << >>
    PROVE  Keeps(s, xTaskRemoveFromEventList(s, q, side))
<1>1. s \in KRec /\ Raised(s) /\ Flushed(s)
  BY DEF Sane
<1>2. PICK r : r = xTaskRemoveFromEventList(s, q, side)
  OBVIOUS
<1>3. r \in KRec /\ Raised(r) /\ Flushed(r) /\ (Sound(s) => Sound(r))
  BY <1>1, <1>2, WakeIs
<1>4. /\ SameClock(s, r) /\ SameTask(s, r) /\ SameHeld(s, r)
      /\ r.pendsv = s.pendsv /\ r.switch = s.switch
      /\ \A u : u \in Asleep(r) => u \in Asleep(s)
  BY <1>1, <1>2, WakeIs
<1> QED BY <1>2, <1>3, <1>4 DEF Keeps, Sane

\* The field pendsv is set.
LEMMA PendIs ==
    ASSUME NEW s \in KRec, NEW x \in BOOLEAN, NEW r, r = [s EXCEPT !.pendsv = s.pendsv \/ x]
    PROVE  /\ r \in KRec
           /\ SameReady(s, r) /\ SameSleep(s, r) /\ SameEvents(s, r) /\ SamePending(s, r)
           /\ SameClock(s, r) /\ SameNext(s, r) /\ SameTask(s, r) /\ SamePrio(s, r) /\ SameHeld(s, r)
           /\ r.switch = s.switch /\ r.xYieldPending = s.xYieldPending /\ r.pendsv = (s.pendsv \/ x)
<1>1. r \in KRec
  BY DEF KRec
<1> QED BY <1>1, ZenonT(60) DEF KRec, SameReady, SameSleep, SameEvents, SamePending, SameClock, SameNext, SameTask,
                    SamePrio, SameHeld

\* The field pendsv is set, whatever else happens.
LEMMA PendKeeps ==
    ASSUME NEW s, Sane(s), NEW x \in BOOLEAN
    PROVE  Keeps(s, [s EXCEPT !.pendsv = s.pendsv \/ x])
<1>1. PICK r : r = [s EXCEPT !.pendsv = s.pendsv \/ x]
  OBVIOUS
<1>2. s \in KRec /\ Raised(s) /\ Flushed(s)
  BY DEF Sane
<1>3. /\ r \in KRec
      /\ SameReady(s, r) /\ SameSleep(s, r) /\ SameEvents(s, r) /\ SamePending(s, r)
      /\ SameClock(s, r) /\ SameNext(s, r) /\ SameTask(s, r) /\ SamePrio(s, r) /\ SameHeld(s, r)
      /\ r.switch = s.switch /\ r.pendsv = (s.pendsv \/ x)
  BY <1>1, <1>2, PendIs
<1>4. /\ Raised(r) /\ Flushed(r) /\ (Sound(s) => Sound(r))
      /\ Asleep(r) = Asleep(s)
  BY <1>2, <1>3 DEF Sound, Placed, Timely, Exact, Listed, Raised, Flushed, Asleep, SameReady, SameSleep, SameEvents,
                    SamePending, SameClock, SameNext, SameTask, SamePrio
<1> QED BY <1>1, <1>3, <1>4 DEF Keeps, Sane

\* So does waking the first receiver or sender, if any.
LEMMA WakeOneKeeps ==
    ASSUME NEW s, Sane(s), NEW q \in Queues, NEW side \in {"send", "recv"}
    PROVE  Keeps(s, WakeOne(s, q, side))
<1>1. CASE EventList(s, q, side) = << >>
  <2>1. WakeOne(s, q, side) = s
    BY <1>1, Zenon DEF WakeOne, EventList
  <2> QED BY <2>1, KeepsNothing
<1>2. CASE EventList(s, q, side) # << >>
  <2>1. PICK a : a = xTaskRemoveFromEventList(s, q, side)
    OBVIOUS
  <2>2. Keeps(s, a)
    BY <1>2, <2>1, WakeKeeps
  <2>3. Outranks(s, Woken(s, q, side)) \in BOOLEAN
    BY DEF Outranks
  <2>4. WakeOne(s, q, side) = [a EXCEPT !.pendsv = a.pendsv \/ Outranks(s, Woken(s, q, side))]
    BY <1>2, <2>1, Zenon DEF WakeOne, EventList
  <2>5. Keeps(a, WakeOne(s, q, side))
    <3>1. Sane(a)
      BY <2>2 DEF Keeps
    <3>2. Keeps(a, [a EXCEPT !.pendsv = a.pendsv \/ Outranks(s, Woken(s, q, side))])
      BY <2>3, <3>1, PendKeeps, Zenon
    <3> QED BY <2>4, <3>2
  <2> QED BY <2>2, <2>5, KeepsTwice
<1> QED BY <1>1, <1>2

\* One receiver of queue q is woken, if any.
WakeStep(x, q) == IF x.waitRecv[q] = << >> THEN x ELSE xTaskRemoveFromEventList(x, q, "recv")

\* It keeps the lists in order.
LEMMA WakeStepKeeps ==
    ASSUME NEW x, Sane(x), NEW q \in Queues
    PROVE  Keeps(x, WakeStep(x, q))
<1>1. CASE x.waitRecv[q] = << >>
  BY <1>1, KeepsNothing DEF WakeStep
<1>2. CASE x.waitRecv[q] # << >>
  <2>1. EventList(x, q, "recv") # << >>
    BY <1>2 DEF EventList
  <2>2. Keeps(x, xTaskRemoveFromEventList(x, q, "recv"))
    BY <2>1, WakeKeeps
  <2> QED BY <1>2, <2>2 DEF WakeStep
<1> QED BY <1>1, <1>2

\* prvUnlockQueue() wakes receivers one by one.
LEMMA WakeReceiversAre ==
    ASSUME NEW s, Sane(s), NEW q \in Queues
    PROVE  /\ WakeReceivers(s, q)[0] = s
           /\ \A i \in 1 .. MBOX_SIZE : WakeReceivers(s, q)[i] = WakeStep(WakeReceivers(s, q)[i - 1], q)
<1> DEFINE S == {x \in KRec : Sane(x)}
           step(x) == WakeStep(x, q)
           g == [i \in 1 .. MBOX_SIZE |-> [x \in S |-> step(x)]]
<1>1. ASSUME NEW x, Sane(x) PROVE Keeps(x, step(x))
  BY <1>1, WakeStepKeeps
<1>2. ASSUME NEW x \in S PROVE step(x) \in S
  <2> HIDE DEF step
  <2>1. Sane(x)
    OBVIOUS
  <2>2. Keeps(x, step(x))
    BY <1>1, <2>1
  <2> QED BY <2>2 DEF Keeps, Sane
<1>3. s \in S /\ MBOX_SIZE \in Nat
  BY Constants DEF Sane
<1> HIDE DEF S, step
<1>4. g \in [1 .. MBOX_SIZE -> [S -> S]]
  BY <1>2
<1>5. PICK f \in [0 .. MBOX_SIZE -> S] : Follows(f, MBOX_SIZE, s, g)
  <2> HIDE DEF g
  <2> QED BY <1>3, <1>4, Recursion
<1>6. f[0] = s
  BY <1>5 DEF Follows
<1>7. ASSUME NEW i \in 1 .. MBOX_SIZE PROVE f[i] = step(f[i - 1])
  <2>1. i - 1 \in 0 .. MBOX_SIZE
    BY <1>3
  <2>2. f[i] = g[i][f[i - 1]] /\ f[i - 1] \in S
    BY <1>5, <2>1 DEF Follows
  <2> QED BY <2>2
<1> HIDE DEF g
<1>8. f = [n \in 0 .. MBOX_SIZE |-> IF n = 0 THEN s ELSE step(f[n - 1])]
  <2>1. \A i \in 0 .. MBOX_SIZE : i = 0 \/ i \in 1 .. MBOX_SIZE
    BY <1>3
  <2> QED BY <1>6, <1>7, <2>1
<1>9. PICK W : W = WakeReceivers(s, q)
  OBVIOUS
<1>10. W = [n \in 0 .. MBOX_SIZE |-> IF n = 0 THEN s ELSE step(W[n - 1])]
  BY <1>8, <1>9, Zenon DEF WakeReceivers, step, WakeStep
<1>11. W[0] = s /\ \A i \in 1 .. MBOX_SIZE : W[i] = step(W[i - 1])
  <2>1. 0 \in 0 .. MBOX_SIZE /\ \A i \in 1 .. MBOX_SIZE : i \in 0 .. MBOX_SIZE /\ i # 0
    BY <1>3
  <2> QED BY <1>10, <2>1
<1> QED BY <1>9, <1>11 DEF step

\* So any number of wakeups keeps the lists in order.
LEMMA WakeReceiversKeeps ==
    ASSUME NEW s, Sane(s), NEW q \in Queues
    PROVE  \A n \in 0 .. MBOX_SIZE : Keeps(s, WakeReceivers(s, q)[n])
<1>3. MBOX_SIZE \in Nat
  BY Constants
<1>9. PICK W : W = WakeReceivers(s, q)
  OBVIOUS
<1>11. W[0] = s /\ \A i \in 1 .. MBOX_SIZE : W[i] = WakeStep(W[i - 1], q)
  BY <1>9, WakeReceiversAre
<1> DEFINE P == {i \in 0 .. MBOX_SIZE : Keeps(s, W[i])}
<1>12. 0 \in P
  BY <1>3, <1>11, KeepsNothing
<1>13. ASSUME NEW i \in 1 .. MBOX_SIZE, i - 1 \in P PROVE i \in P
  <2>1. Keeps(s, W[i - 1]) /\ i \in 0 .. MBOX_SIZE
    BY <1>3, <1>13
  <2>2. Sane(W[i - 1])
    BY <2>1 DEF Keeps
  <2>3. Keeps(W[i - 1], W[i])
    BY <1>11, <2>2, WakeStepKeeps
  <2>4. Keeps(s, W[i])
    BY <2>1, <2>3, KeepsTwice
  <2> QED BY <2>1, <2>4
<1> HIDE DEF P
<1>14. \A i \in 0 .. MBOX_SIZE : i \in P
  BY <1>3, <1>12, <1>13, UpTo
<1> QED BY <1>9, <1>14 DEF P

\* taskSWITCH_DELAYED_LISTS() when the tick count wraps.
LEMMA SwitchIs ==
    ASSUME NEW s \in KRec, NEW r, r = taskSWITCH_DELAYED_LISTS(s)
    PROVE  /\ r \in KRec
           /\ r.delayed = s.overflow /\ r.overflow = s.delayed /\ r.wake = s.wake
           /\ r.xNumOfOverflows = (s.xNumOfOverflows + 1) % OVERFLOWS
           /\ r.xTickCount = s.xTickCount /\ r.uxPendedTicks = s.uxPendedTicks
           /\ \A t \in r.delayed : r.xNextTaskUnblockTime <= r.wake[t]
           /\ SameReady(s, r) /\ SameEvents(s, r) /\ SamePending(s, r)
           /\ SameTask(s, r) /\ SameYield(s, r) /\ SamePrio(s, r) /\ SameHeld(s, r)
<1>1. PICK n \in 0 .. OVERFLOWS - 1 : n = (s.xNumOfOverflows + 1) % OVERFLOWS
  <2>1. s.xNumOfOverflows + 1 \in Int /\ OVERFLOWS \in Nat \ {0}
    BY Constants DEF KRec
  <2> QED BY <2>1, ModRange
<1>2. PICK d \in SUBSET Tasks : d = s.delayed
  BY DEF KRec
<1>3. PICK o \in SUBSET Tasks : o = s.overflow
  BY DEF KRec
<1>4. PICK a : a = [s EXCEPT !.delayed = o, !.overflow = d, !.xNumOfOverflows = n]
  OBVIOUS
<1>5. r = prvResetNextTaskUnblockTime(a)
  BY <1>1, <1>2, <1>3, <1>4, Zenon DEF taskSWITCH_DELAYED_LISTS
<1>6. a \in KRec
  BY <1>4 DEF KRec
<1>7. /\ a.delayed = o /\ a.overflow = d /\ a.wake = s.wake /\ a.xNumOfOverflows = n
      /\ a.xTickCount = s.xTickCount /\ a.uxPendedTicks = s.uxPendedTicks
      /\ SameReady(s, a) /\ SameEvents(s, a) /\ SamePending(s, a)
      /\ SameTask(s, a) /\ SameYield(s, a) /\ SamePrio(s, a) /\ SameHeld(s, a)
  BY <1>4 DEF KRec, SameReady, SameEvents, SamePending, SameTask, SameYield, SamePrio, SameHeld
<1>8. r \in KRec /\ \A t \in a.delayed : r.xNextTaskUnblockTime <= a.wake[t]
  BY <1>5, <1>6, ResetNextIs
<1>9. /\ SameReady(a, r) /\ SameSleep(a, r) /\ SameEvents(a, r) /\ SamePending(a, r)
      /\ SameClock(a, r) /\ SameTask(a, r) /\ SameYield(a, r) /\ SamePrio(a, r)
      /\ SameHeld(a, r)
  BY <1>5, <1>6, ResetNextIs
<1> QED BY <1>1, <1>2, <1>3, <1>7, <1>8, <1>9
        DEF SameReady, SameSleep, SameClock, SameEvents, SamePending, SameTask, SameYield, SamePrio, SameHeld

\* The wait of locals l has not expired, nor will it in m ticks.
Fresh(s, l, m) ==
    /\ ((s.xTickCount - l.xTimeOnEntering) % TICKS) + m < l.xTicksToWait
    /\ s.xNumOfOverflows = l.xOverflowCount \/ s.xTickCount < l.xTimeOnEntering

\* One tick of the clock.
NextTick(s) == IF s.xTickCount + 1 < TICKS THEN s.xTickCount + 1 ELSE 0

\* A wait that the next tick does not end is still fresh after it.
LEMMA FreshTick ==
    ASSUME NEW s \in KRec, NEW r \in KRec, r.xTickCount = NextTick(s),
           r.xTickCount # 0 => r.xNumOfOverflows = s.xNumOfOverflows,
           NEW l \in Locals, NEW m \in Nat, Fresh(s, l, m + 1)
    PROVE  Fresh(r, l, m)
<1>1. PICK x \in 0 .. TICKS - 1 : x = s.xTickCount
  BY Constants DEF KRec
<1>2. PICK y \in 0 .. TICKS - 1 : y = l.xTimeOnEntering
  BY Constants DEF Locals
<1>3. PICK w \in 0 .. TICKS - 1 : w = l.xTicksToWait
  BY Constants DEF Locals
<1>4. PICK z : z = r.xTickCount
  OBVIOUS
<1>5. z = IF x + 1 < TICKS THEN x + 1 ELSE 0
  BY <1>1, <1>4 DEF NextTick
<1>6. TICKS \in Nat \ {0}
  BY Constants
<1>7. z \in 0 .. TICKS - 1 /\ x \in Nat /\ y \in Nat /\ w \in Nat /\ z \in Nat
  BY <1>5, <1>6
<1>8. (x - y) % TICKS = IF x - y < 0 THEN x - y + TICKS ELSE x - y
  <2>1. x - y \in Int /\ -TICKS <= x - y /\ x - y < TICKS + TICKS /\ x - y < TICKS
    BY <1>6, <1>7
  <2> QED BY <1>6, <2>1, Wrap
<1>9. (z - y) % TICKS = IF z - y < 0 THEN z - y + TICKS ELSE z - y
  <2>1. z - y \in Int /\ -TICKS <= z - y /\ z - y < TICKS + TICKS /\ z - y < TICKS
    BY <1>6, <1>7
  <2> QED BY <1>6, <2>1, Wrap
<1>10. ((x - y) % TICKS) + (m + 1) < w
  BY <1>1, <1>2, <1>3 DEF Fresh
<1>11. PICK c : c = (x - y) % TICKS
  OBVIOUS
<1>12. PICK d : d = (z - y) % TICKS
  OBVIOUS
<1>13. c \in Int /\ c = (IF x - y < 0 THEN x - y + TICKS ELSE x - y) /\ c + m + 1 < w
  BY <1>6, <1>7, <1>8, <1>10, <1>11
<1>14. d = IF z - y < 0 THEN z - y + TICKS ELSE z - y
  BY <1>9, <1>12
<1>15. d = c + 1
  BY <1>5, <1>6, <1>7, <1>13, <1>14
<1>16. d + m < w
  BY <1>7, <1>13, <1>15
<1>17. s.xNumOfOverflows = l.xOverflowCount \/ x < y
  BY <1>1, <1>2 DEF Fresh
<1>18. r.xNumOfOverflows = l.xOverflowCount \/ z < y
  <2>1. z = 0 => y > 0
    BY <1>5, <1>6, <1>7, <1>13
  <2>2. x < y => z < y
    BY <1>5, <1>6, <1>7, <1>13
  <2> QED BY <1>4, <1>7, <1>17, <2>1, <2>2
<1> QED BY <1>2, <1>3, <1>4, <1>12, <1>16, <1>18 DEF Fresh

\* Task t wakes when the wait of locals l ends.
Alarm(s, t, l) == s.wake[t] = (l.xTimeOnEntering + l.xTicksToWait) % TICKS

\* A wait whose end is the next tick is not fresh for one tick more.
LEMMA AlarmRings ==
    ASSUME NEW s \in KRec, NEW t, NEW l \in Locals, Alarm(s, t, l), s.wake[t] = NextTick(s)
    PROVE  ~Fresh(s, l, 1)
<1>1. PICK x \in 0 .. TICKS - 1 : x = s.xTickCount
  BY Constants DEF KRec
<1>2. PICK y \in 0 .. TICKS - 1 : y = l.xTimeOnEntering
  BY Constants DEF Locals
<1>3. PICK w \in 0 .. TICKS - 1 : w = l.xTicksToWait
  BY Constants DEF Locals
<1>4. TICKS \in Nat \ {0} /\ x \in Nat /\ y \in Nat /\ w \in Nat
  BY Constants
<1>5. (x - y) % TICKS = IF x - y < 0 THEN x - y + TICKS ELSE x - y
  <2>1. x - y \in Int /\ -TICKS <= x - y /\ x - y < TICKS + TICKS /\ x - y < TICKS
    BY <1>4
  <2> QED BY <1>4, <2>1, Wrap
<1>6. PICK z \in Int : z = y + w /\ -TICKS <= z /\ z < TICKS + TICKS /\ ~(z < 0)
  BY <1>4
<1>7. PICK c : c = (x - y) % TICKS
  OBVIOUS
<1>8. PICK d : d = z % TICKS
  OBVIOUS
<1>9. c = (IF x - y < 0 THEN x - y + TICKS ELSE x - y) /\ d = IF z < TICKS THEN z ELSE z - TICKS
  <2>1. z % TICKS = IF z < TICKS THEN z ELSE z - TICKS
    BY <1>4, <1>6, Wrap
  <2> QED BY <1>5, <1>7, <1>8, <2>1
<1>10. d = IF x + 1 < TICKS THEN x + 1 ELSE 0
  <2>1. z = l.xTimeOnEntering + l.xTicksToWait
    BY <1>2, <1>3, <1>6
  <2>2. s.wake[t] = d
    BY <1>8, <2>1 DEF Alarm
  <2> QED BY <1>1, <2>2 DEF NextTick
<1>11. ~(c + 1 < w)
  BY <1>4, <1>6, <1>9, <1>10
<1> QED BY <1>1, <1>2, <1>3, <1>7, <1>11 DEF Fresh

\* What n ticks do to who waits and who leads: a task leaves an event list
\* because its wait ended, and a switch is due to a task that now outranks the
\* current one.
Rung(s, r, n) ==
    /\ \E W \in SUBSET Asleep(s) :
          /\ Freed(s, r, W)
          /\ Sound(s) /\ s.xPendingReadyList = << >> =>
                \A t \in W : \A l \in Locals : Alarm(s, t, l) => ~Fresh(s, l, n)
    /\ r.xYieldPending = s.xYieldPending /\ (s.switch => r.switch)
    /\ Leads(s) => r.switch \/ Leads(r)

\* What a tick does: the clock advances and tasks wake.
Ticked(s, r) ==
    /\ r \in KRec /\ Raised(r) /\ (Sound(s) /\ s.xPendingReadyList = << >> => Sound(r))
    /\ \A u : u \in Asleep(r) => u \in Asleep(s)
    /\ SameTask(s, r) /\ SameHeld(s, r) /\ SamePending(s, r)
    /\ r.uxPendedTicks = s.uxPendedTicks /\ r.pendsv = s.pendsv

\* xTaskIncrementTick(): who is due becomes ready, the rest sleeps on.
LEMMA IncrementIs ==
    ASSUME NEW s \in KRec, Raised(s), NEW r, r = xTaskIncrementTick(s)
    PROVE  /\ Ticked(s, r)
           /\ r.xTickCount = NextTick(s)
           /\ r.xTickCount # 0 => r.xNumOfOverflows = s.xNumOfOverflows
           /\ Rung(s, r, 1)
<1>0. s \in KRec /\ Raised(s)
  OBVIOUS
<1> DEFINE now0 == (s.xTickCount + 1) % TICKS
           a0 == [s EXCEPT !.xTickCount = now0]
           b0 == IF now0 = 0 THEN taskSWITCH_DELAYED_LISTS(a0) ELSE a0
           due0 == IF now0 >= b0.xNextTaskUnblockTime
                   THEN {t \in b0.delayed : b0.wake[t] <= now0} ELSE {}
           c0 == AddToReady(RemoveFromEvents(RemoveFromDelayed(b0, due0), due0), due0)
           e0 == IF now0 >= b0.xNextTaskUnblockTime THEN prvResetNextTaskUnblockTime(c0) ELSE c0
           x0 == e0.switch \/ (\E t \in due0 : e0.uxPriority[t] >= s.uxPriority[s.pxCurrentTCB])
                           \/ Cardinality(e0.ready[s.uxPriority[s.pxCurrentTCB]]) > 1
                           \/ e0.xYieldPending
<1>a. r = [e0 EXCEPT !.switch = x0]
  BY Zenon DEF xTaskIncrementTick
<1>b. /\ x0 \in BOOLEAN
      /\ e0.switch \/ (\E t \in due0 : e0.uxPriority[t] >= s.uxPriority[s.pxCurrentTCB]) => x0
  BY Zenon
<1> HIDE DEF x0
<1>c. e0 = IF now0 >= b0.xNextTaskUnblockTime THEN prvResetNextTaskUnblockTime(c0) ELSE c0
  BY Zenon
<1> HIDE DEF e0
<1>d. c0 = AddToReady(RemoveFromEvents(RemoveFromDelayed(b0, due0), due0), due0)
  BY Zenon
<1> HIDE DEF c0
<1>e. due0 = IF now0 >= b0.xNextTaskUnblockTime THEN {t \in b0.delayed : b0.wake[t] <= now0} ELSE {}
  BY Zenon
<1> HIDE DEF due0
<1>f. b0 = IF now0 = 0 THEN taskSWITCH_DELAYED_LISTS(a0) ELSE a0
  BY Zenon
<1> HIDE DEF b0
<1>g. a0 = [s EXCEPT !.xTickCount = now0]
  BY Zenon
<1> HIDE DEF a0
<1>1. PICK now \in 0 .. portMAX_DELAY : now = (s.xTickCount + 1) % TICKS /\ now = NextTick(s)
  <2>1. PICK x \in 0 .. TICKS - 1 : x = s.xTickCount
    BY <1>0, Constants DEF KRec
  <2>2. PICK y \in Int : y = x + 1 /\ -TICKS <= y /\ y < TICKS + TICKS
    BY <2>1, Constants
  <2>3. y % TICKS = IF y < 0 THEN y + TICKS ELSE IF y < TICKS THEN y ELSE y - TICKS
    BY <2>2, Constants, Wrap
  <2>4. y % TICKS = IF x + 1 < TICKS THEN x + 1 ELSE 0
    BY <2>1, <2>2, <2>3, Constants
  <2>5. y % TICKS \in 0 .. TICKS - 1
    BY <2>2, Constants, ModRange
  <2> QED BY <2>1, <2>2, <2>4, <2>5, Constants DEF NextTick
<1> HIDE DEF now0
<1>2. PICK a : a = a0 /\ a = [s EXCEPT !.xTickCount = now]
  BY <1>1, <1>g DEF now0
<1>3. PICK b : b = b0 /\ b = IF now = 0 THEN taskSWITCH_DELAYED_LISTS(a) ELSE a
  BY <1>1, <1>2, <1>f, Zenon DEF now0
<1>4. PICK due : /\ due = due0
                 /\ due = IF now >= b.xNextTaskUnblockTime THEN {t \in b.delayed : b.wake[t] <= now} ELSE {}
  BY <1>1, <1>3, <1>e, Zenon DEF now0
<1>5. PICK c1 : c1 = RemoveFromDelayed(b, due)
  OBVIOUS
<1>6. PICK c2 : c2 = RemoveFromEvents(c1, due)
  OBVIOUS
<1>7. PICK c : c = c0 /\ c = AddToReady(c2, due)
  BY <1>3, <1>4, <1>5, <1>6, <1>d, Zenon
<1>8. PICK e : e = e0 /\ e = IF now >= b.xNextTaskUnblockTime THEN prvResetNextTaskUnblockTime(c) ELSE c
  BY <1>1, <1>3, <1>7, <1>c, Zenon DEF now0
<1>9. PICK x : x = x0 /\ r = [e EXCEPT !.switch = x]
  BY <1>8, <1>a
<1>10. /\ x \in BOOLEAN
       /\ e.switch \/ (\E t \in due : e.uxPriority[t] >= s.uxPriority[s.pxCurrentTCB]) => x
  BY <1>4, <1>8, <1>9, <1>b, Zenon
<1>11. /\ a \in KRec /\ a.xTickCount = now /\ a.uxPendedTicks = s.uxPendedTicks
       /\ a.xNumOfOverflows = s.xNumOfOverflows
       /\ SameReady(s, a) /\ SameSleep(s, a) /\ SameEvents(s, a) /\ SamePending(s, a)
       /\ SameNext(s, a) /\ SameTask(s, a) /\ SameYield(s, a) /\ SamePrio(s, a) /\ SameHeld(s, a)
  <2>1. a \in KRec
    BY <1>0, <1>2 DEF KRec
  <2> QED BY <1>0, <1>2, <2>1 DEF KRec, SameReady, SameSleep, SameEvents, SamePending, SameNext, SameTask,
                                  SameYield, SamePrio, SameHeld
<1>12. /\ b \in KRec /\ b.xTickCount = now /\ b.uxPendedTicks = s.uxPendedTicks /\ b.wake = s.wake
       /\ now # 0 => b.xNumOfOverflows = s.xNumOfOverflows
       /\ SameReady(s, b) /\ SameEvents(s, b) /\ SamePending(s, b)
       /\ SameTask(s, b) /\ SameYield(s, b) /\ SamePrio(s, b) /\ SameHeld(s, b)
       /\ now = 0 => b.delayed = s.overflow /\ b.overflow = s.delayed
       /\ now # 0 => b.delayed = s.delayed /\ b.overflow = s.overflow
       /\ now = 0 => \A t \in b.delayed : b.xNextTaskUnblockTime <= b.wake[t]
       /\ now # 0 => b.xNextTaskUnblockTime = s.xNextTaskUnblockTime
  <2>1. CASE now = 0
    <3>1. b = taskSWITCH_DELAYED_LISTS(a)
      BY <1>3, <2>1
    <3>2. /\ b \in KRec /\ b.delayed = a.overflow /\ b.overflow = a.delayed /\ b.wake = a.wake
          /\ b.xTickCount = a.xTickCount /\ b.uxPendedTicks = a.uxPendedTicks
          /\ \A t \in b.delayed : b.xNextTaskUnblockTime <= b.wake[t]
      BY <1>11, <3>1, SwitchIs
    <3>3. /\ SameReady(a, b) /\ SameEvents(a, b) /\ SamePending(a, b)
          /\ SameTask(a, b) /\ SameYield(a, b) /\ SamePrio(a, b) /\ SameHeld(a, b)
      BY <1>11, <3>1, SwitchIs
    <3> QED BY <1>11, <2>1, <3>2, <3>3 DEF SameReady, SameSleep, SameEvents, SamePending, SameTask, SameYield,
                                           SamePrio, SameHeld
  <2>2. CASE now # 0
    BY <1>3, <1>11, <2>2 DEF SameSleep, SameNext
  <2> QED BY <2>1, <2>2
<1>13. due \in SUBSET AllTasks /\ \A t : t \in due => t \in b.delayed /\ now >= b.xNextTaskUnblockTime /\ b.wake[t] <= now
  <2>1. b.delayed \subseteq AllTasks
    BY <1>12, Constants DEF KRec
  <2> QED BY <1>4, <2>1
<1>14. /\ c1 \in KRec
       /\ c1.delayed = b.delayed \ due /\ c1.overflow = b.overflow \ due
       /\ c1.wake = [t \in AllTasks |-> IF t \in due THEN 0 ELSE b.wake[t]]
       /\ SameReady(b, c1) /\ SameEvents(b, c1) /\ SamePending(b, c1) /\ SameClock(b, c1)
       /\ SameNext(b, c1) /\ SameTask(b, c1) /\ SameYield(b, c1) /\ SamePrio(b, c1)
       /\ SameHeld(b, c1)
  BY <1>5, <1>12, <1>13, RemoveFromDelayedIs
<1>15. /\ c2 \in KRec
       /\ \A q \in Queues : \A u :
             /\ u \in Range(c2.waitSend[q]) <=> u \in Range(c1.waitSend[q]) /\ u \notin due
             /\ u \in Range(c2.waitRecv[q]) <=> u \in Range(c1.waitRecv[q]) /\ u \notin due
       /\ \A q \in Queues : Thins(c1.waitRecv[q], c2.waitRecv[q])
       /\ SameReady(c1, c2) /\ SameSleep(c1, c2) /\ SamePending(c1, c2) /\ SameClock(c1, c2)
       /\ SameNext(c1, c2) /\ SameTask(c1, c2) /\ SameYield(c1, c2) /\ SamePrio(c1, c2)
       /\ SameHeld(c1, c2)
  BY <1>6, <1>14, RemoveFromEventsIs
<1>16. /\ c \in KRec
       /\ c.ready = [p \in Prios |-> c2.ready[p] \cup {t \in due : c2.uxPriority[t] = p}]
       /\ c.uxTopReadyPriority = c2.uxTopReadyPriority \cup {c2.uxPriority[t] : t \in due}
       /\ SameSleep(c2, c) /\ SameEvents(c2, c) /\ SamePending(c2, c) /\ SameClock(c2, c)
       /\ SameNext(c2, c) /\ SameTask(c2, c) /\ SameYield(c2, c) /\ SamePrio(c2, c)
       /\ SameHeld(c2, c)
  BY <1>7, <1>13, <1>15, AddToReadyIs
<1>17. /\ SamePending(s, c) /\ SameTask(s, c) /\ SameYield(s, c) /\ SamePrio(s, c) /\ SameHeld(s, c)
       /\ c.xTickCount = now /\ c.uxPendedTicks = s.uxPendedTicks
       /\ now # 0 => c.xNumOfOverflows = s.xNumOfOverflows
  BY <1>12, <1>14, <1>15, <1>16 DEF SamePending, SameTask, SameYield, SamePrio, SameHeld, SameClock
<1>18. /\ e \in KRec
       /\ SameReady(c, e) /\ SameSleep(c, e) /\ SameEvents(c, e) /\ SamePending(c, e)
       /\ SameClock(c, e) /\ SameTask(c, e) /\ SameYield(c, e) /\ SamePrio(c, e)
       /\ SameHeld(c, e)
       /\ now >= b.xNextTaskUnblockTime => \A t \in c.delayed : e.xNextTaskUnblockTime <= c.wake[t]
       /\ ~(now >= b.xNextTaskUnblockTime) => e.xNextTaskUnblockTime = c.xNextTaskUnblockTime
  <2>1. CASE now >= b.xNextTaskUnblockTime
    <3>1. e = prvResetNextTaskUnblockTime(c)
      BY <1>8, <2>1
    <3>2. e \in KRec /\ \A t \in c.delayed : e.xNextTaskUnblockTime <= c.wake[t]
      BY <1>16, <3>1, ResetNextIs
    <3>3. /\ SameReady(c, e) /\ SameSleep(c, e) /\ SameEvents(c, e) /\ SamePending(c, e)
          /\ SameClock(c, e) /\ SameTask(c, e) /\ SameYield(c, e) /\ SamePrio(c, e)
          /\ SameHeld(c, e)
      BY <1>16, <3>1, ResetNextIs
    <3> QED BY <2>1, <3>2, <3>3
  <2>2. CASE ~(now >= b.xNextTaskUnblockTime)
    <3>1. e = c
      BY <1>8, <2>2
    <3> QED BY <1>16, <2>2, <3>1 DEF SameReady, SameSleep, SameEvents, SamePending, SameClock, SameTask,
                              SameYield, SamePrio, SameHeld
  <2> QED BY <2>1, <2>2
<1>19. r \in KRec
  BY <1>9, <1>10, <1>18 DEF KRec
<1>20. /\ SameReady(e, r) /\ SameSleep(e, r) /\ SameEvents(e, r) /\ SamePending(e, r)
       /\ SameClock(e, r) /\ SameNext(e, r) /\ SameTask(e, r) /\ SamePrio(e, r) /\ SameHeld(e, r)
       /\ r.pendsv = e.pendsv /\ r.xYieldPending = e.xYieldPending /\ r.switch = x
  BY <1>9, <1>10, <1>18 DEF KRec, SameReady, SameSleep, SameEvents, SamePending, SameClock, SameNext,
                            SameTask, SamePrio, SameHeld
<1>21. /\ SamePending(s, r) /\ SameTask(s, r) /\ SamePrio(s, r) /\ SameHeld(s, r)
       /\ r.xTickCount = now /\ r.uxPendedTicks = s.uxPendedTicks
       /\ now # 0 => r.xNumOfOverflows = s.xNumOfOverflows
       /\ r.pendsv = s.pendsv
  BY <1>17, <1>18, <1>20 DEF SamePending, SameTask, SameYield, SamePrio, SameHeld, SameClock
<1>22. /\ \A u : u \in r.delayed <=> u \in b.delayed /\ u \notin due
       /\ \A u : u \in r.overflow <=> u \in b.overflow /\ u \notin due
       /\ \A u \in AllTasks : r.wake[u] = IF u \in due THEN 0 ELSE s.wake[u]
       /\ \A p \in Prios : \A u : u \in r.ready[p] <=> u \in s.ready[p] \/ (u \in due /\ s.uxPriority[u] = p)
       /\ \A p : p \in r.uxTopReadyPriority <=> p \in s.uxTopReadyPriority \/ \E t \in due : s.uxPriority[t] = p
  <2>1. r.delayed = b.delayed \ due /\ r.overflow = b.overflow \ due
    BY <1>14, <1>15, <1>16, <1>18, <1>20 DEF SameSleep
  <2>2. r.wake = [t \in AllTasks |-> IF t \in due THEN 0 ELSE s.wake[t]]
    BY <1>12, <1>14, <1>15, <1>16, <1>18, <1>20 DEF SameSleep
  <2>3. c2.uxPriority = s.uxPriority /\ c2.ready = s.ready /\ c2.uxTopReadyPriority = s.uxTopReadyPriority
    BY <1>12, <1>14, <1>15 DEF SamePrio, SameReady
  <2>4. r.ready = [p \in Prios |-> s.ready[p] \cup {t \in due : s.uxPriority[t] = p}]
    BY <1>16, <1>18, <1>20, <2>3 DEF SameReady
  <2>5. r.uxTopReadyPriority = s.uxTopReadyPriority \cup {s.uxPriority[t] : t \in due}
    BY <1>16, <1>18, <1>20, <2>3 DEF SameReady
  <2> QED BY <2>1, <2>2, <2>4, <2>5
<1>23. \A q \in Queues : \A u :
          /\ u \in Range(r.waitSend[q]) <=> u \in Range(s.waitSend[q]) /\ u \notin due
          /\ u \in Range(r.waitRecv[q]) <=> u \in Range(s.waitRecv[q]) /\ u \notin due
          /\ Thins(s.waitRecv[q], r.waitRecv[q])
  <2>1. c1.waitSend = s.waitSend /\ c1.waitRecv = s.waitRecv
    BY <1>12, <1>14 DEF SameEvents
  <2>2. r.waitSend = c2.waitSend /\ r.waitRecv = c2.waitRecv
    BY <1>16, <1>18, <1>20 DEF SameEvents
  <2> QED BY <1>15, <2>1, <2>2
<1>24. \A u : u \in Asleep(r) <=> u \in Asleep(s) /\ u \notin due
  BY <1>12, <1>22 DEF Asleep
<1>25. Raised(r)
  BY <1>0, <1>21, <1>22 DEF Raised, SamePrio
<1>27. ASSUME Sound(s), s.xPendingReadyList = << >> PROVE Sound(r)
  <2>1. Placed(r)
    <3> SUFFICES ASSUME NEW u \in AllTasks
                 PROVE  /\ \A p \in Prios : u \in r.ready[p] => p = s.uxPriority[u]
                        /\ u \in r.ready[s.uxPriority[u]] <=> u \notin Asleep(r)
                        /\ u \notin r.delayed \/ u \notin r.overflow
      BY <1>21 DEF Placed, SamePrio
    <3>1. /\ \A p \in Prios : u \in s.ready[p] => p = s.uxPriority[u]
          /\ u \in s.ready[s.uxPriority[u]] <=> u \notin Asleep(s)
          /\ u \notin s.delayed \/ u \notin s.overflow
      BY <1>27 DEF Sound, Placed
    <3>2. s.uxPriority[u] \in Prios
      BY <1>0 DEF KRec
    <3>3. \A p \in Prios : u \in r.ready[p] <=> u \in s.ready[p] \/ (u \in due /\ s.uxPriority[u] = p)
      BY <1>22
    <3>4. u \notin r.delayed \/ u \notin r.overflow
      BY <1>12, <1>22, <3>1
    <3>5. u \in Asleep(r) <=> u \in Asleep(s) /\ u \notin due
      BY <1>24
    <3> QED BY <3>1, <3>2, <3>3, <3>4, <3>5
  <2>2. Exact(r)
    <3> SUFFICES ASSUME NEW p \in Prios PROVE p \in r.uxTopReadyPriority <=> \E u : u \in r.ready[p]
      BY DEF Exact
    <3>1. p \in s.uxTopReadyPriority <=> \E u : u \in s.ready[p]
      BY <1>27 DEF Sound, Exact
    <3> QED BY <1>22, <3>1
  <2>3. Listed(r)
    <3>1. r.xPendingReadyList = << >> /\ Range(<< >>) = {}
      BY <1>21, <1>27 DEF SamePending, Range
    <3>2. ASSUME NEW q \in Queues, NEW u
          PROVE  u \in Range(r.waitSend[q]) \/ u \in Range(r.waitRecv[q]) => u \in Asleep(r)
      BY <1>23, <1>24, <1>27 DEF Sound, Listed
    <3> QED BY <3>1, <3>2 DEF Listed
  <2>4. Timely(r)
    <3>1. /\ b.delayed \subseteq AllTasks /\ b.overflow \subseteq AllTasks /\ s.delayed \subseteq AllTasks
          /\ s.overflow \subseteq AllTasks
      BY <1>0, <1>12, Constants DEF KRec
    <3>2. \A t \in AllTasks : s.wake[t] \in 0 .. TICKS - 1
      BY <1>0, Constants DEF KRec
    <3>3. s.xTickCount \in 0 .. TICKS - 1 /\ TICKS \in Nat \ {0} /\ now \in Nat
      BY <1>0, Constants DEF KRec
    <3>4. /\ \A t \in s.delayed : s.wake[t] > s.xTickCount /\ s.xNextTaskUnblockTime <= s.wake[t]
          /\ \A t \in s.overflow : s.wake[t] <= s.xTickCount
      BY <1>27 DEF Sound, Timely
    <3>5. b.xNextTaskUnblockTime \in Nat /\ e.xNextTaskUnblockTime \in Nat
      BY <1>12, <1>18, Constants DEF KRec
    <3>6. ASSUME NEW t \in b.delayed PROVE s.wake[t] >= now /\ b.xNextTaskUnblockTime <= s.wake[t]
      <4>1. CASE now = 0
        BY <1>12, <3>1, <3>2, <3>6, <4>1
      <4>2. CASE now # 0
        <5>1. now = s.xTickCount + 1 /\ t \in s.delayed /\ b.xNextTaskUnblockTime = s.xNextTaskUnblockTime
          BY <1>1, <1>12, <3>6, <4>2 DEF NextTick
        <5>2. s.wake[t] \in Nat
          BY <3>1, <3>2, <5>1
        <5> QED BY <3>3, <3>4, <5>1, <5>2
      <4> QED BY <4>1, <4>2
    <3>7. ASSUME NEW t \in b.overflow PROVE s.wake[t] <= now
      <4>1. CASE now = 0
        <5>1. t \in s.delayed /\ s.xTickCount = TICKS - 1
          BY <1>1, <1>12, <3>3, <3>7, <4>1 DEF NextTick
        <5>2. s.wake[t] \in 0 .. TICKS - 1 /\ s.wake[t] > s.xTickCount
          BY <3>1, <3>2, <3>4, <5>1
        <5> QED BY <3>3, <5>1, <5>2
      <4>2. CASE now # 0
        <5>1. now = s.xTickCount + 1 /\ t \in s.overflow
          BY <1>1, <1>12, <3>7, <4>2 DEF NextTick
        <5>2. s.wake[t] \in Nat
          BY <3>1, <3>2, <5>1
        <5> QED BY <3>3, <3>4, <5>1, <5>2
      <4> QED BY <4>1, <4>2
    <3>8. ASSUME NEW t \in r.delayed PROVE r.wake[t] > now /\ r.xNextTaskUnblockTime <= r.wake[t]
      <4>1. t \in b.delayed /\ t \notin due /\ t \in AllTasks
        BY <1>22, <3>1
      <4>2. r.wake[t] = s.wake[t] /\ s.wake[t] \in Nat /\ b.wake[t] = s.wake[t]
        BY <1>12, <1>22, <3>2, <4>1
      <4>3. s.wake[t] >= now /\ b.xNextTaskUnblockTime <= s.wake[t]
        BY <3>6, <4>1
      <4>4. r.xNextTaskUnblockTime = e.xNextTaskUnblockTime /\ r.delayed = c.delayed /\ r.wake = c.wake
        BY <1>18, <1>20 DEF SameNext, SameSleep
      <4>5. CASE now >= b.xNextTaskUnblockTime
        <5>1. ~(b.wake[t] <= now)
          BY <1>4, <4>1, <4>5
        <5>2. e.xNextTaskUnblockTime <= r.wake[t]
          BY <1>18, <4>4, <4>5
        <5> QED BY <3>3, <4>2, <4>4, <5>1, <5>2
      <4>6. CASE ~(now >= b.xNextTaskUnblockTime)
        <5>1. e.xNextTaskUnblockTime = b.xNextTaskUnblockTime
          BY <1>14, <1>15, <1>16, <1>18, <4>6 DEF SameNext
        <5> QED BY <3>3, <3>5, <4>2, <4>3, <4>4, <4>6, <5>1
      <4> QED BY <4>5, <4>6
    <3>9. ASSUME NEW t \in r.overflow PROVE r.wake[t] <= now
      <4>1. t \in b.overflow /\ t \notin due /\ t \in AllTasks
        BY <1>22, <3>1
      <4>2. r.wake[t] = s.wake[t]
        BY <1>22, <4>1
      <4> QED BY <3>7, <4>1, <4>2
    <3> QED BY <1>21, <3>8, <3>9 DEF Timely
  <2> QED BY <2>1, <2>2, <2>3, <2>4 DEF Sound
<1>28. Ticked(s, r)
  BY <1>19, <1>21, <1>24, <1>25, <1>27 DEF Ticked
<1>29. due \in SUBSET Asleep(s)
  BY <1>12, <1>13 DEF Asleep
<1>30. Freed(s, r, due)
  <2>1. \A u \in Asleep(r) : r.wake[u] = s.wake[u]
    <3>1. \A u \in Asleep(r) : u \in AllTasks /\ u \notin due
      BY <1>19, <1>24, Constants DEF Asleep, KRec
    <3> QED BY <1>22, <3>1
  <2> QED BY <1>21, <1>23, <2>1 DEF Freed, SamePrio
<1>31. ASSUME Sound(s), NEW t \in due, NEW l \in Locals, Alarm(s, t, l) PROVE ~Fresh(s, l, 1)
  <2>1. t \in b.delayed /\ s.wake[t] <= now /\ t \in AllTasks
    BY <1>12, <1>13
  <2>2. s.wake[t] \in Nat /\ s.xTickCount \in Nat /\ now \in Nat
    BY <1>0, <2>1, Constants DEF KRec
  <2>3. s.wake[t] = now
    <3>1. CASE now = 0
      BY <2>1, <2>2, <3>1
    <3>2. CASE now # 0
      <4>1. now = s.xTickCount + 1 /\ t \in s.delayed
        BY <1>1, <1>12, <2>1, <3>2 DEF NextTick
      <4>2. s.wake[t] > s.xTickCount
        BY <1>31, <4>1 DEF Sound, Timely
      <4> QED BY <2>1, <2>2, <4>1, <4>2
    <3> QED BY <3>1, <3>2
  <2> QED BY <1>0, <1>1, <1>31, <2>3, AlarmRings
<1>32. r.xYieldPending = s.xYieldPending /\ (s.switch => r.switch)
  BY <1>10, <1>17, <1>18, <1>20 DEF SameYield
<1>33. ASSUME Leads(s), ~r.switch PROVE Leads(r)
  <2> SUFFICES ASSUME NEW u \in AllTasks, u \notin Asleep(r)
               PROVE  s.uxPriority[u] <= s.uxPriority[s.pxCurrentTCB]
    BY <1>21 DEF Leads, SamePrio, SameTask
  <2>1. s.uxPriority[u] \in Nat /\ s.uxPriority[s.pxCurrentTCB] \in Nat
    BY <1>0, Constants DEF KRec
  <2>2. CASE u \notin Asleep(s)
    BY <1>33, <2>2 DEF Leads
  <2>3. CASE u \in due
    <3>1. ~(e.uxPriority[u] >= s.uxPriority[s.pxCurrentTCB])
      BY <1>10, <1>20, <1>33, <2>3
    <3>2. e.uxPriority = s.uxPriority
      BY <1>17, <1>18 DEF SamePrio
    <3> QED BY <2>1, <3>1, <3>2
  <2> QED BY <1>24, <2>2, <2>3
<1>34. Rung(s, r, 1)
  BY <1>20, <1>10, <1>29, <1>30, <1>31, <1>32, <1>33 DEF Rung
<1> QED BY <1>1, <1>21, <1>28, <1>34

\* Ticks after ticks.
LEMMA RungTwice ==
    ASSUME NEW s \in KRec, NEW a, NEW r, NEW n \in Nat, Ticked(s, a), Rung(s, a, n), Rung(a, r, 1),
           \A l \in Locals : Fresh(s, l, n + 1) => Fresh(a, l, 1),
           \A u : u \in Asleep(r) => u \in Asleep(a)
    PROVE  Rung(s, r, n + 1)
<1>1. /\ Sound(s) /\ s.xPendingReadyList = << >> => Sound(a) /\ a.xPendingReadyList = << >>
      /\ \A u : u \in Asleep(a) => u \in Asleep(s)
  BY DEF Ticked, SamePending
<1>2. PICK V \in SUBSET Asleep(s) :
        /\ Freed(s, a, V)
        /\ Sound(s) /\ s.xPendingReadyList = << >> =>
              \A t \in V : \A l \in Locals : Alarm(s, t, l) => ~Fresh(s, l, n)
  BY DEF Rung
<1>3. PICK W \in SUBSET Asleep(a) :
        /\ Freed(a, r, W)
        /\ Sound(a) /\ a.xPendingReadyList = << >> =>
              \A t \in W : \A l \in Locals : Alarm(a, t, l) => ~Fresh(a, l, 1)
  BY DEF Rung
<1>4. ASSUME NEW l \in Locals, Fresh(s, l, n + 1) PROVE Fresh(s, l, n)
  <2>1. PICK c \in Int : c = (s.xTickCount - l.xTimeOnEntering) % TICKS
    <3>1. PICK x \in Int : x = s.xTickCount - l.xTimeOnEntering
      BY Constants DEF KRec, Locals
    <3>2. x % TICKS \in 0 .. TICKS - 1
      BY Constants, ModRange
    <3> QED BY <3>1, <3>2
  <2>2. PICK w \in Int : w = l.xTicksToWait
    BY Constants DEF Locals
  <2>3. c + (n + 1) < w
    BY <1>4, <2>1, <2>2 DEF Fresh
  <2>4. c + n < w
    BY <2>3
  <2> QED BY <1>4, <2>1, <2>2, <2>4 DEF Fresh
<1>5. PICK X \in SUBSET Asleep(s) : X = V \cup W
  BY <1>1
<1>6. \A u \in Asleep(r) : u \in Asleep(a) => r.wake[u] = s.wake[u]
  BY <1>2, <1>3 DEF Freed
<1>7. ASSUME Sound(s), s.xPendingReadyList = << >>, NEW t \in X, NEW l \in Locals, Alarm(s, t, l)
      PROVE  ~Fresh(s, l, n + 1)
  <2>1. CASE t \in V
    BY <1>2, <1>4, <1>7, <2>1
  <2>2. CASE t \in W
    <3>1. a.wake[t] = s.wake[t]
      BY <1>2, <1>3, <2>2 DEF Freed
    <3>2. ~Fresh(a, l, 1)
      BY <1>1, <1>3, <1>7, <2>2, <3>1 DEF Alarm
    <3> QED BY <3>2
  <2> QED BY <1>5, <2>1, <2>2
<1>8. Freed(s, r, X)
  <2>1. \A u \in Asleep(r) : r.wake[u] = s.wake[u]
    BY <1>6
  <2>2. \A q \in Queues : Thins(s.waitRecv[q], r.waitRecv[q])
    BY <1>2, <1>3 DEF Freed, Thins
  <2> QED BY <1>2, <1>3, <1>5, <2>1, <2>2 DEF Freed
<1>9. r.xYieldPending = s.xYieldPending /\ (s.switch => r.switch) /\ (Leads(s) => r.switch \/ Leads(r))
  BY DEF Rung
<1> QED BY <1>7, <1>8, <1>9 DEF Rung

\* n ticks.
CaughtUp(s, r, n) ==
    /\ Ticked(s, r) /\ Rung(s, r, n)
    /\ \A l \in Locals, m \in Nat : Fresh(s, l, m + n) => Fresh(r, l, m)

\* One pended tick more.
LEMMA CaughtUpOneMore ==
    ASSUME NEW s \in KRec, NEW a, NEW n \in Nat, CaughtUp(s, a, n)
    PROVE  CaughtUp(s, xTaskIncrementTick(a), n + 1)
<1>1. PICK r : r = xTaskIncrementTick(a)
  OBVIOUS
<1>2. Ticked(s, a) /\ a \in KRec /\ Raised(a)
  BY DEF CaughtUp, Ticked
<1>3. /\ Ticked(a, r) /\ r.xTickCount = NextTick(a) /\ Rung(a, r, 1)
      /\ r.xTickCount # 0 => r.xNumOfOverflows = a.xNumOfOverflows
  BY <1>1, <1>2, IncrementIs
<1>4. Ticked(s, r)
  BY <1>2, <1>3 DEF Ticked, SameTask, SameHeld, SamePending
<1>5. ASSUME NEW l \in Locals, NEW m \in Nat, Fresh(s, l, m + (n + 1)) PROVE Fresh(r, l, m)
  <2>1. m + 1 \in Nat /\ m + (n + 1) = (m + 1) + n
    OBVIOUS
  <2>2. Fresh(s, l, (m + 1) + n)
    BY <1>5, <2>1
  <2>3. Fresh(a, l, m + 1)
    BY <2>1, <2>2 DEF CaughtUp
  <2>4. r \in KRec
    BY <1>3 DEF Ticked
  <2> QED BY <1>2, <1>3, <2>3, <2>4, FreshTick
<1>6. Rung(s, r, n + 1)
  <2>1. \A l \in Locals : Fresh(s, l, n + 1) => Fresh(a, l, 1)
    <3>1. n + 1 = 1 + n /\ 1 \in Nat
      OBVIOUS
    <3> QED BY <3>1 DEF CaughtUp
  <2>2. \A u : u \in Asleep(r) => u \in Asleep(a)
    BY <1>3 DEF Ticked
  <2>3. Rung(s, a, n)
    BY DEF CaughtUp
  <2> QED BY <1>2, <1>3, <2>1, <2>2, <2>3, RungTwice
<1> QED BY <1>1, <1>4, <1>5, <1>6 DEF CaughtUp

\* All pended ticks, by induction over their number.
LEMMA CatchUpIs ==
    ASSUME NEW s \in KRec, Raised(s)
    PROVE  \A n \in 0 .. PENDED : CaughtUp(s, CatchUp(s)[n], n)
<1> DEFINE S == {x \in KRec : Raised(x)}
           g == [i \in 1 .. PENDED |-> [x \in S |-> xTaskIncrementTick(x)]]
<1>1. ASSUME NEW x \in S PROVE xTaskIncrementTick(x) \in S
  <2>1. PICK y : y = xTaskIncrementTick(x)
    OBVIOUS
  <2>2. Ticked(x, y)
    BY <2>1, IncrementIs
  <2> QED BY <2>1, <2>2 DEF Ticked
<1>2. s \in S /\ PENDED \in Nat
  BY Constants
<1> HIDE DEF S
<1>3. g \in [1 .. PENDED -> [S -> S]]
  BY <1>1
<1>4. PICK f \in [0 .. PENDED -> S] : Follows(f, PENDED, s, g)
  <2> HIDE DEF g
  <2> QED BY <1>2, <1>3, Recursion
<1>5. f[0] = s
  BY <1>4 DEF Follows
<1>6. ASSUME NEW i \in 1 .. PENDED PROVE f[i] = xTaskIncrementTick(f[i - 1])
  <2>1. i - 1 \in 0 .. PENDED
    BY <1>2
  <2>2. f[i] = g[i][f[i - 1]] /\ f[i - 1] \in S
    BY <1>4, <2>1 DEF Follows
  <2> QED BY <2>2
<1> HIDE DEF g
<1>7. f = [n \in 0 .. PENDED |-> IF n = 0 THEN s ELSE xTaskIncrementTick(f[n - 1])]
  <2>1. \A i \in 0 .. PENDED : i = 0 \/ i \in 1 .. PENDED
    BY <1>2
  <2> QED BY <1>5, <1>6, <2>1
<1>8. PICK W : W = CatchUp(s)
  OBVIOUS
<1>9. W = [n \in 0 .. PENDED |-> IF n = 0 THEN s ELSE xTaskIncrementTick(W[n - 1])]
  BY <1>7, <1>8, Zenon DEF CatchUp
<1>10. W[0] = s /\ \A i \in 1 .. PENDED : W[i] = xTaskIncrementTick(W[i - 1])
  <2>1. 0 \in 0 .. PENDED /\ \A i \in 1 .. PENDED : i \in 0 .. PENDED /\ i # 0
    BY <1>2
  <2> QED BY <1>9, <2>1
<1> DEFINE P == {i \in 0 .. PENDED : CaughtUp(s, W[i], i)}
<1>11. 0 \in P
  <2>1. Ticked(s, s)
    BY DEF Ticked, SameTask, SameHeld, SamePending
  <2>2. \A m \in Nat : m + 0 = m
    OBVIOUS
  <2>4. Rung(s, s, 0)
    <3>1. Freed(s, s, {}) /\ {} \in SUBSET Asleep(s)
      BY DEF Freed, Thins
    <3> QED BY <3>1 DEF Rung
  <2>3. CaughtUp(s, s, 0)
    BY <2>1, <2>2, <2>4 DEF CaughtUp
  <2> QED BY <1>2, <1>10, <2>3
<1>12. ASSUME NEW i \in 1 .. PENDED, i - 1 \in P PROVE i \in P
  <2>1. CaughtUp(s, W[i - 1], i - 1) /\ i \in 0 .. PENDED /\ i - 1 \in Nat /\ (i - 1) + 1 = i
    BY <1>2, <1>12
  <2>2. CaughtUp(s, xTaskIncrementTick(W[i - 1]), (i - 1) + 1)
    BY <2>1, CaughtUpOneMore
  <2> QED BY <1>10, <2>1, <2>2
<1> HIDE DEF P
<1>13. \A i \in 0 .. PENDED : i \in P
  BY <1>2, <1>11, <1>12, UpTo
<1> QED BY <1>8, <1>13 DEF P

\* After xTaskResumeAll() a switch is pending to any task that outranks the
\* current one; a task left an event list because its wait ended.
Rested(s, r) ==
    /\ \E W \in SUBSET Asleep(s) :
          /\ Freed(s, r, W)
          /\ Sound(s) => \A t \in W : \A l \in Locals : Alarm(s, t, l) => ~Fresh(s, l, s.uxPendedTicks)
    /\ s.xYieldPending \/ Leads(s) => r.pendsv \/ Leads(r)

\* xTaskResumeAll(): the scheduler runs again and the clock has caught up.
Resumed(s, r) ==
    /\ Rested(s, r)
    /\ Sane(r) /\ (Sound(s) => Sound(r))
    /\ \A u : u \in Asleep(r) => u \in Asleep(s)
    /\ r.pxCurrentTCB = s.pxCurrentTCB /\ ~r.uxSchedulerSuspended /\ SameHeld(s, r)
    /\ r.uxPendedTicks = 0 /\ ~r.switch /\ (s.pendsv => r.pendsv)
    /\ \A l \in Locals, m \in Nat : Fresh(s, l, m + s.uxPendedTicks) => Fresh(r, l, m)

\* xTaskResumeAll(): the pending tasks, then the pended ticks.
LEMMA ResumeIs ==
    ASSUME NEW s \in KRec, Raised(s)
    PROVE  Resumed(s, xTaskResumeAll(s))
<1> DEFINE moved0 == Range(s.xPendingReadyList)
           d0 == AddToReady(RemoveFromDelayed(s, moved0), moved0)
           y0 == d0.xYieldPending \/ \E t \in moved0 : s.uxPriority[t] >= s.uxPriority[s.pxCurrentTCB]
           a0 == [d0 EXCEPT !.uxSchedulerSuspended = FALSE, !.xPendingReadyList = << >>,
                            !.xYieldPending = y0]
           b0 == IF moved0 = {} THEN a0 ELSE prvResetNextTaskUnblockTime(a0)
           c0 == CatchUp(b0)[s.uxPendedTicks]
           r0 == xTaskResumeAll(s)
<1>1. r0 = [c0 EXCEPT !.uxPendedTicks = 0, !.xYieldPending = c0.xYieldPending \/ c0.switch,
                      !.pendsv = c0.pendsv \/ c0.xYieldPending \/ c0.switch, !.switch = FALSE]
  BY Zenon DEF xTaskResumeAll
<1> HIDE DEF r0
<1>2. c0 = CatchUp(b0)[s.uxPendedTicks]
  BY Zenon
<1> HIDE DEF c0
<1>3. b0 = IF moved0 = {} THEN a0 ELSE prvResetNextTaskUnblockTime(a0)
  BY Zenon
<1> HIDE DEF b0
<1>4. a0 = [d0 EXCEPT !.uxSchedulerSuspended = FALSE, !.xPendingReadyList = << >>, !.xYieldPending = y0]
  BY Zenon
<1> HIDE DEF a0
<1>5. /\ y0 \in BOOLEAN
      /\ d0.xYieldPending \/ (\E t \in moved0 : s.uxPriority[t] >= s.uxPriority[s.pxCurrentTCB]) => y0
  BY Zenon
<1> HIDE DEF y0
<1>6. d0 = AddToReady(RemoveFromDelayed(s, moved0), moved0)
  BY Zenon
<1> HIDE DEF d0
<1>7. PICK moved \in SUBSET AllTasks : moved = moved0 /\ moved = Range(s.xPendingReadyList)
  <2>1. PICK l \in Seq(Tasks) : l = s.xPendingReadyList
    BY DEF KRec
  <2>2. Range(l) \subseteq Tasks
    BY DEF Range
  <2> QED BY <2>1, <2>2, Constants
<1> HIDE DEF moved0
<1>8. PICK d : d = d0 /\ d = AddToReady(RemoveFromDelayed(s, moved), moved)
  BY <1>6, <1>7
<1>9. PICK y \in BOOLEAN :
         /\ y = y0
         /\ d.xYieldPending \/ (\E t \in moved : s.uxPriority[t] >= s.uxPriority[s.pxCurrentTCB]) => y
  BY <1>5, <1>7, <1>8, Zenon
<1>10. PICK e \in Seq(Tasks) : e = << >> /\ Range(e) = {}
  <2>1. << >> \in Seq(Tasks) /\ Range(<< >>) = {}
    BY DEF Range
  <2> QED BY <2>1
<1>11. PICK a : a = a0 /\ a = [d EXCEPT !.uxSchedulerSuspended = FALSE, !.xPendingReadyList = e, !.xYieldPending = y]
  BY <1>4, <1>8, <1>9, <1>10
<1>12. PICK b : b = b0 /\ b = IF moved = {} THEN a ELSE prvResetNextTaskUnblockTime(a)
  BY <1>3, <1>7, <1>11, Zenon
<1>13. PICK c : c = c0 /\ c = CatchUp(b)[s.uxPendedTicks]
  BY <1>2, <1>12, Zenon
<1>14. PICK r : r = r0
  OBVIOUS
<1>15. r = [c EXCEPT !.uxPendedTicks = 0, !.xYieldPending = c.xYieldPending \/ c.switch,
                     !.pendsv = c.pendsv \/ c.xYieldPending \/ c.switch, !.switch = FALSE]
  BY <1>1, <1>13, <1>14, Zenon
<1>16. /\ d \in KRec
       /\ \A u : /\ u \in d.delayed <=> u \in s.delayed /\ u \notin moved
                 /\ u \in d.overflow <=> u \in s.overflow /\ u \notin moved
       /\ \A u \in Asleep(d) : d.wake[u] = s.wake[u]
  BY <1>8, MakeReady
<1>17. /\ SameEvents(s, d) /\ SamePending(s, d) /\ SameClock(s, d)
       /\ SameNext(s, d) /\ SameTask(s, d) /\ SameYield(s, d) /\ SamePrio(s, d)
       /\ SameHeld(s, d)
  BY <1>8, MakeReady
<1>18. Raised(d) /\ (Sound(s) => Placed(d) /\ Timely(d) /\ Exact(d))
  BY <1>8, MakeReady DEF Sound
<1>19. a \in KRec /\ ~a.uxSchedulerSuspended /\ a.xPendingReadyList = e /\ a.xYieldPending = y
  BY <1>11, <1>16 DEF KRec
<1>20. /\ SameReady(d, a) /\ SameSleep(d, a) /\ SameEvents(d, a) /\ SameClock(d, a) /\ SameNext(d, a)
       /\ SamePrio(d, a) /\ SameHeld(d, a)
       /\ a.pxCurrentTCB = d.pxCurrentTCB /\ a.pendsv = d.pendsv
  BY <1>11, <1>16 DEF KRec, SameReady, SameSleep, SameEvents, SameClock, SameNext, SamePrio, SameHeld
<1>21. Raised(a) /\ (Sound(s) => Placed(a) /\ Timely(a) /\ Exact(a)) /\ Asleep(a) = Asleep(d)
  <2>1. /\ a.ready = d.ready /\ a.uxTopReadyPriority = d.uxTopReadyPriority
        /\ a.delayed = d.delayed /\ a.overflow = d.overflow /\ a.wake = d.wake
        /\ a.xTickCount = d.xTickCount /\ a.xNextTaskUnblockTime = d.xNextTaskUnblockTime
        /\ a.uxPriority = d.uxPriority
    BY <1>20 DEF SameReady, SameSleep, SameClock, SameNext, SamePrio
  <2> QED BY <1>18, <2>1 DEF Placed, Timely, Exact, Raised, Asleep
<1>22. \A u : u \in Asleep(a) <=> u \in Asleep(s) /\ u \notin moved
  BY <1>16, <1>21 DEF Asleep
<1>23. ASSUME Sound(s) PROVE Listed(a)
  <2>1. a.waitSend = s.waitSend /\ a.waitRecv = s.waitRecv
    BY <1>17, <1>20 DEF SameEvents
  <2>2. \A q \in Queues : \A u : u \in Range(s.waitSend[q]) \/ u \in Range(s.waitRecv[q]) =>
                                 u \in Asleep(s) /\ u \notin moved
    BY <1>7, <1>23 DEF Sound, Listed
  <2> QED BY <1>10, <1>19, <1>22, <2>1, <2>2 DEF Listed
<1>24. /\ b \in KRec /\ Raised(b) /\ (Sound(s) => Sound(b)) /\ Asleep(b) = Asleep(a)
       /\ SamePending(a, b) /\ SameClock(a, b) /\ SameTask(a, b) /\ SameHeld(a, b) /\ b.pendsv = a.pendsv
       /\ SameEvents(a, b) /\ SamePrio(a, b) /\ b.wake = a.wake /\ b.xYieldPending = a.xYieldPending
  <2>1. CASE moved = {}
    <3>1. b = a
      BY <1>12, <2>1
    <3> QED BY <1>19, <1>21, <1>23, <3>1 DEF Sound, SamePending, SameClock, SameTask, SameHeld, SameEvents, SamePrio
  <2>2. CASE moved # {}
    <3>1. b = prvResetNextTaskUnblockTime(a)
      BY <1>12, <2>2
    <3>2. b \in KRec /\ \A t \in a.delayed : b.xNextTaskUnblockTime <= a.wake[t]
      BY <1>19, <3>1, ResetNextIs
    <3>3. /\ SameReady(a, b) /\ SameSleep(a, b) /\ SameEvents(a, b) /\ SamePending(a, b)
          /\ SameClock(a, b) /\ SameTask(a, b) /\ SameYield(a, b) /\ SamePrio(a, b)
          /\ SameHeld(a, b)
      BY <1>19, <3>1, ResetNextIs
    <3>4. /\ b.ready = a.ready /\ b.uxTopReadyPriority = a.uxTopReadyPriority
          /\ b.delayed = a.delayed /\ b.overflow = a.overflow /\ b.wake = a.wake
          /\ b.xTickCount = a.xTickCount /\ b.uxPriority = a.uxPriority
          /\ b.waitSend = a.waitSend /\ b.waitRecv = a.waitRecv /\ b.xPendingReadyList = a.xPendingReadyList
      BY <3>3 DEF SameReady, SameSleep, SameClock, SamePrio, SameEvents, SamePending
    <3>5. Raised(b) /\ Asleep(b) = Asleep(a) /\ (Sound(s) => Placed(b) /\ Exact(b))
      BY <1>21, <3>4 DEF Placed, Exact, Raised, Asleep
    <3>6. Sound(s) => Timely(b)
      BY <1>21, <3>2, <3>4 DEF Timely
    <3>7. Sound(s) => Listed(b)
      BY <1>23, <3>4 DEF Listed, Asleep
    <3> QED BY <3>2, <3>3, <3>4, <3>5, <3>6, <3>7 DEF Sound, SameYield
  <2> QED BY <2>1, <2>2
<1>25. PICK n \in 0 .. PENDED : n = s.uxPendedTicks
  BY DEF KRec
<1>26. CaughtUp(b, c, n)
  BY <1>13, <1>24, <1>25, CatchUpIs
<1>27. /\ c \in KRec /\ Raised(c) /\ (Sound(b) /\ b.xPendingReadyList = << >> => Sound(c))
       /\ \A u : u \in Asleep(c) => u \in Asleep(b)
       /\ SameTask(b, c) /\ SameHeld(b, c) /\ SamePending(b, c) /\ c.pendsv = b.pendsv
  BY <1>26 DEF CaughtUp, Ticked
<1>28. r \in KRec /\ r.uxPendedTicks = 0 /\ ~r.switch /\ (c.pendsv => r.pendsv)
  <2>1. 0 \in 0 .. PENDED
    BY Constants
  <2> QED BY <1>15, <1>27, <2>1, ZenonT(60) DEF KRec
<1>29. /\ SameReady(c, r) /\ SameSleep(c, r) /\ SameEvents(c, r) /\ SamePending(c, r)
       /\ SameNext(c, r) /\ SameTask(c, r) /\ SamePrio(c, r) /\ SameHeld(c, r)
       /\ r.xTickCount = c.xTickCount /\ r.xNumOfOverflows = c.xNumOfOverflows
  BY <1>15, <1>27 DEF KRec, SameReady, SameSleep, SameEvents, SamePending, SameNext, SameTask, SamePrio, SameHeld
<1>30. Raised(r) /\ (Sound(c) => Sound(r)) /\ Asleep(r) = Asleep(c)
  <2>1. /\ r.ready = c.ready /\ r.uxTopReadyPriority = c.uxTopReadyPriority
        /\ r.delayed = c.delayed /\ r.overflow = c.overflow /\ r.wake = c.wake
        /\ r.xTickCount = c.xTickCount /\ r.uxPriority = c.uxPriority
        /\ r.waitSend = c.waitSend /\ r.waitRecv = c.waitRecv /\ r.xPendingReadyList = c.xPendingReadyList
        /\ r.xNextTaskUnblockTime = c.xNextTaskUnblockTime
    BY <1>29 DEF SameReady, SameSleep, SamePrio, SameEvents, SamePending, SameNext
  <2> QED BY <1>27, <2>1 DEF Sound, Placed, Exact, Timely, Listed, Raised, Asleep
<1>31. r.xPendingReadyList = << >> /\ b.xPendingReadyList = << >>
  BY <1>10, <1>19, <1>24, <1>27, <1>29 DEF SamePending
<1>32. Sane(r)
  BY <1>28, <1>30, <1>31 DEF Sane, Flushed
<1>33. Sound(s) => Sound(r)
  BY <1>24, <1>27, <1>30, <1>31
<1>34. \A u : u \in Asleep(r) => u \in Asleep(s)
  BY <1>22, <1>24, <1>27, <1>30
<1>35. /\ r.pxCurrentTCB = s.pxCurrentTCB /\ ~r.uxSchedulerSuspended /\ SameHeld(s, r)
       /\ s.pendsv => r.pendsv
  BY <1>17, <1>19, <1>20, <1>24, <1>27, <1>28, <1>29 DEF SameTask, SameHeld, SameYield
<1>36. ASSUME NEW l \in Locals, NEW m \in Nat, Fresh(s, l, m + n) PROVE Fresh(r, l, m)
  <2>1. Fresh(b, l, m + n)
    BY <1>17, <1>20, <1>24, <1>36 DEF Fresh, SameClock
  <2>2. Fresh(c, l, m)
    BY <1>26, <2>1 DEF CaughtUp
  <2> QED BY <1>29, <2>2 DEF Fresh
<1>37. /\ \A u \in Asleep(b) : u \in Asleep(s) /\ u \notin moved /\ b.wake[u] = s.wake[u]
       /\ b.waitSend = s.waitSend /\ b.waitRecv = s.waitRecv /\ b.uxPriority = s.uxPriority
       /\ b.pxCurrentTCB = s.pxCurrentTCB
  <2>1. b.waitSend = s.waitSend /\ b.waitRecv = s.waitRecv /\ b.uxPriority = s.uxPriority
    BY <1>17, <1>20, <1>24 DEF SameEvents, SamePrio
  <2>2. b.pxCurrentTCB = s.pxCurrentTCB
    BY <1>17, <1>20, <1>24 DEF SameTask
  <2>3. \A u \in Asleep(b) : u \in Asleep(s) /\ u \notin moved /\ b.wake[u] = s.wake[u]
    BY <1>16, <1>20, <1>21, <1>22, <1>24 DEF SameSleep
  <2> QED BY <2>1, <2>2, <2>3
<1>38. PICK W \in SUBSET Asleep(b) :
         /\ Freed(b, c, W)
         /\ Sound(b) /\ b.xPendingReadyList = << >> =>
               \A t \in W : \A l \in Locals : Alarm(b, t, l) => ~Fresh(b, l, n)
  BY <1>26 DEF CaughtUp, Rung
<1>39. Freed(s, r, W) /\ W \in SUBSET Asleep(s)
  <2>1. r.waitSend = c.waitSend /\ r.waitRecv = c.waitRecv /\ r.uxPriority = c.uxPriority /\ r.wake = c.wake
    BY <1>29 DEF SameEvents, SamePrio, SameSleep
  <2>2. \A u \in Asleep(r) : r.wake[u] = s.wake[u]
    BY <1>27, <1>30, <1>37, <1>38, <2>1 DEF Freed
  <2> QED BY <1>37, <1>38, <2>1, <2>2 DEF Freed
<1>40. ASSUME Sound(s), NEW t \in W, NEW l \in Locals, Alarm(s, t, l) PROVE ~Fresh(s, l, n)
  <2>1. Alarm(b, t, l)
    BY <1>37, <1>38, <1>40 DEF Alarm
  <2>2. ~Fresh(b, l, n)
    BY <1>24, <1>31, <1>38, <1>40, <2>1
  <2> QED BY <1>17, <1>20, <1>24, <2>2 DEF Fresh, SameClock
<1>41. ASSUME s.xYieldPending \/ Leads(s), ~r.pendsv PROVE Leads(r)
  <2>1. ~c.xYieldPending /\ ~c.switch
    BY <1>15, <1>27, <1>41 DEF KRec
  <2>2. ~y /\ (Leads(b) => Leads(c))
    BY <1>19, <1>24, <1>26, <2>1 DEF CaughtUp, Rung
  <2>3. Leads(s)
    BY <1>9, <1>17, <1>41, <2>2 DEF SameYield
  <2>4. ASSUME NEW u \in AllTasks, u \notin Asleep(b) PROVE s.uxPriority[u] <= s.uxPriority[s.pxCurrentTCB]
    <3>1. s.uxPriority[u] \in Nat /\ s.uxPriority[s.pxCurrentTCB] \in Nat
      BY Constants DEF KRec
    <3>2. CASE u \in moved
      BY <1>9, <2>2, <3>1, <3>2
    <3>3. CASE u \notin Asleep(s)
      BY <2>3, <3>3 DEF Leads
    <3> QED BY <1>22, <1>24, <2>4, <3>2, <3>3
  <2>5. Leads(b)
    BY <1>37, <2>4 DEF Leads
  <2>6. r.uxPriority = c.uxPriority /\ r.pxCurrentTCB = c.pxCurrentTCB
    BY <1>29 DEF SamePrio, SameTask
  <2> QED BY <1>30, <2>2, <2>5, <2>6 DEF Leads
<1>42. Rested(s, r)
  BY <1>25, <1>28, <1>39, <1>40, <1>41 DEF Rested
<1> QED BY <1>14, <1>25, <1>28, <1>32, <1>33, <1>34, <1>35, <1>36, <1>42 DEF Resumed, r0

\* A task gets another priority: in a ready list it moves, elsewhere it does not.
Prioritised(s, r, h, new) ==
    /\ r.uxPriority = [s.uxPriority EXCEPT ![h] = new]
    /\ SameSleep(s, r) /\ SameEvents(s, r) /\ SamePending(s, r) /\ SameClock(s, r)
    /\ SameNext(s, r) /\ SameTask(s, r) /\ SameYield(s, r) /\ SameHeld(s, r)

\* Does the removal of h clear the bit?
Emptied(s, h, old, bit) == s.ready[old] \subseteq {h} /\ (bit = old \/ s.ready[bit] = {})

MoveTo(s, h, old, bit, new) ==
    AddToReady([RemoveFromReady(s, h, old, bit) EXCEPT !.uxPriority[h] = new], {h})

\* Task h leaves the ready list of priority old for that of priority new.
ReadyMoved(s, r, h, old, new) ==
    \A x \in Prios : \A u :
        u \in r.ready[x] <=> (u \in s.ready[x] /\ ~(x = old /\ u = h)) \/ (u = h /\ x = new)

\* A ready task moves to the list of another priority.
LEMMA MoveIs ==
    ASSUME NEW s \in KRec, NEW h \in Tasks, NEW old \in Prios, NEW bit \in Prios, NEW new \in Prios,
           NEW r, r = MoveTo(s, h, old, bit, new)
    PROVE  /\ r \in KRec /\ Prioritised(s, r, h, new)
           /\ ReadyMoved(s, r, h, old, new)
           /\ \A x : x \in r.uxTopReadyPriority <=>
                     \/ x = new
                     \/ x \in s.uxTopReadyPriority
                        /\ ~(x = bit /\ Emptied(s, h, old, bit))
<1>0. h \in AllTasks
  BY Constants
<1>1. PICK a : a = RemoveFromReady(s, h, old, bit)
  OBVIOUS
<1>2. a \in KRec
  BY <1>0, <1>1, RemoveFromReadyIs
<1>3. \A x \in Prios : \A u : u \in a.ready[x] <=> u \in s.ready[x] /\ ~(x = old /\ u = h)
  BY <1>0, <1>1, RemoveFromReadyIs
<1>4. \A x : x \in a.uxTopReadyPriority <=>
                  x \in s.uxTopReadyPriority
                  /\ ~(x = bit /\ Emptied(s, h, old, bit))
  BY <1>0, <1>1, RemoveFromReadyIs DEF Emptied
<1>5. /\ SameSleep(s, a) /\ SameEvents(s, a) /\ SamePending(s, a) /\ SameClock(s, a)
      /\ SameNext(s, a) /\ SameTask(s, a) /\ SameYield(s, a) /\ SamePrio(s, a)
      /\ SameHeld(s, a)
  BY <1>0, <1>1, RemoveFromReadyIs
<1>6. PICK ts \in SUBSET AllTasks : ts = {h}
  BY <1>0
<1>7. PICK b : b = [a EXCEPT !.uxPriority[h] = new]
  OBVIOUS
<1>8. r = AddToReady(b, ts)
  BY <1>1, <1>6, <1>7 DEF MoveTo
<1>9. b \in KRec /\ b.uxPriority = [a.uxPriority EXCEPT ![h] = new]
  BY <1>0, <1>2, <1>7 DEF KRec
<1>10. /\ SameReady(a, b) /\ SameSleep(a, b) /\ SameEvents(a, b) /\ SamePending(a, b) /\ SameClock(a, b)
       /\ SameNext(a, b) /\ SameTask(a, b) /\ SameYield(a, b) /\ SameHeld(a, b)
  BY <1>2, <1>7 DEF KRec, SameReady, SameSleep, SameEvents, SamePending, SameClock, SameNext, SameTask,
                    SameYield, SameHeld
<1>11. /\ r \in KRec
       /\ r.ready = [p \in Prios |-> b.ready[p] \cup {t \in ts : b.uxPriority[t] = p}]
       /\ r.uxTopReadyPriority = b.uxTopReadyPriority \cup {b.uxPriority[t] : t \in ts}
       /\ SameSleep(b, r) /\ SameEvents(b, r) /\ SamePending(b, r) /\ SameClock(b, r)
       /\ SameNext(b, r) /\ SameTask(b, r) /\ SameYield(b, r) /\ SamePrio(b, r)
       /\ SameHeld(b, r)
  BY <1>8, <1>9, AddToReadyIs
<1>12. Prioritised(s, r, h, new)
  <2>1. r.uxPriority = [s.uxPriority EXCEPT ![h] = new]
    BY <1>5, <1>9, <1>11 DEF SamePrio
  <2>2. /\ SameSleep(s, r) /\ SameEvents(s, r) /\ SamePending(s, r) /\ SameClock(s, r)
        /\ SameNext(s, r) /\ SameTask(s, r) /\ SameYield(s, r) /\ SameHeld(s, r)
    BY <1>5, <1>10, <1>11 DEF SameSleep, SameEvents, SamePending, SameClock, SameNext, SameTask, SameYield, SameHeld
  <2> QED BY <2>1, <2>2 DEF Prioritised
<1>13. b.uxPriority[h] = new /\ b.ready = a.ready /\ b.uxTopReadyPriority = a.uxTopReadyPriority
  <2>1. a.uxPriority \in [AllTasks -> Prios]
    BY <1>2 DEF KRec
  <2> QED BY <1>0, <1>9, <1>10, <2>1 DEF SameReady
<1>14. ASSUME NEW x \in Prios, NEW u
       PROVE u \in r.ready[x] <=> (u \in s.ready[x] /\ ~(x = old /\ u = h)) \/ (u = h /\ x = new)
  <2>1. u \in r.ready[x] <=> u \in a.ready[x] \/ (u = h /\ x = new)
    BY <1>6, <1>11, <1>13
  <2>2. u \in a.ready[x] <=> u \in s.ready[x] /\ ~(x = old /\ u = h)
    BY <1>3
  <2> QED BY <2>1, <2>2
<1>15. \A x : x \in r.uxTopReadyPriority <=> x = new \/ x \in a.uxTopReadyPriority
  BY <1>6, <1>11, <1>13
<1>16. ASSUME NEW x
       PROVE  x \in r.uxTopReadyPriority <=>
                     \/ x = new
                     \/ x \in s.uxTopReadyPriority
                        /\ ~(x = bit /\ Emptied(s, h, old, bit))
  BY <1>4, <1>15
<1> QED BY <1>11, <1>12, <1>14, <1>16 DEF ReadyMoved

\* A ready task moves to another ready list.
LEMMA MoveKeeps ==
    ASSUME NEW s, Sane(s), NEW h \in Tasks, NEW new \in Prios, new >= Base[h],
           NEW bit \in Prios, bit > 0,
           NEW r, r = MoveTo(s, h, s.uxPriority[h], bit, new)
    PROVE  /\ Sane(r) /\ Prioritised(s, r, h, new)
           /\ Sound(s) /\ h \notin Asleep(s) /\ bit = s.uxPriority[h] => Sound(r)
<1>1. s \in KRec /\ Raised(s) /\ Flushed(s) /\ h \in AllTasks
  BY Constants DEF Sane
<1>2. PICK old \in Prios : old = s.uxPriority[h]
  BY <1>1 DEF KRec
<1>2a. r = MoveTo(s, h, old, bit, new)
  BY <1>2, Zenon
<1>3. r \in KRec /\ Prioritised(s, r, h, new)
  BY <1>1, <1>2a, MoveIs
<1>4. \A x \in Prios : \A u :
          u \in r.ready[x] <=> (u \in s.ready[x] /\ ~(x = old /\ u = h)) \/ (u = h /\ x = new)
  <2>1. ReadyMoved(s, r, h, old, new)
    BY <1>1, <1>2a, MoveIs
  <2> QED BY <2>1 DEF ReadyMoved
<1>5. \A x : x \in r.uxTopReadyPriority <=>
                     \/ x = new
                     \/ x \in s.uxTopReadyPriority
                        /\ ~(x = bit /\ Emptied(s, h, old, bit))
  BY <1>1, <1>2a, MoveIs
<1>6. /\ r.delayed = s.delayed /\ r.overflow = s.overflow /\ r.wake = s.wake
      /\ r.xTickCount = s.xTickCount /\ r.xNextTaskUnblockTime = s.xNextTaskUnblockTime
      /\ r.waitSend = s.waitSend /\ r.waitRecv = s.waitRecv /\ r.xPendingReadyList = s.xPendingReadyList
      /\ r.uxSchedulerSuspended = s.uxSchedulerSuspended /\ r.uxPendedTicks = s.uxPendedTicks
  BY <1>3 DEF Prioritised, SameSleep, SameEvents, SamePending, SameClock, SameNext, SameTask
<1>7. \A t \in AllTasks : r.uxPriority[t] = IF t = h THEN new ELSE s.uxPriority[t]
  <2>1. s.uxPriority \in [AllTasks -> Prios]
    BY <1>1 DEF KRec
  <2> QED BY <1>1, <1>3, <2>1 DEF Prioritised
<1>8. Raised(r)
  <2>1. 0 \in r.uxTopReadyPriority
    <3>1. bit # 0
      BY Constants
    <3> QED BY <1>1, <1>5, <3>1 DEF Raised
  <2>2. Idle # h /\ Idle \in AllTasks
    BY Constants
  <2> QED BY <1>1, <1>7, <2>1, <2>2 DEF Raised
<1>9. Flushed(r)
  BY <1>1, <1>6 DEF Flushed
<1>10. ASSUME Sound(s), h \notin Asleep(s), bit = s.uxPriority[h] PROVE Sound(r)
  <2>1. Asleep(r) = Asleep(s)
    BY <1>6 DEF Asleep
  <2>2. Timely(r)
    BY <1>6, <1>10 DEF Sound, Timely
  <2>3. Listed(r)
    BY <1>6, <1>10, <2>1 DEF Sound, Listed
  <2>4. Placed(r)
    <3> SUFFICES ASSUME NEW u \in AllTasks
                 PROVE  /\ \A p \in Prios : u \in r.ready[p] => p = r.uxPriority[u]
                        /\ u \in r.ready[r.uxPriority[u]] <=> u \notin Asleep(r)
                        /\ u \notin r.delayed \/ u \notin r.overflow
      BY DEF Placed
    <3>1. /\ \A p \in Prios : u \in s.ready[p] => p = s.uxPriority[u]
          /\ u \in s.ready[s.uxPriority[u]] <=> u \notin Asleep(s)
          /\ u \notin s.delayed \/ u \notin s.overflow
      BY <1>10 DEF Sound, Placed
    <3>2. s.uxPriority[u] \in Prios /\ r.uxPriority[u] = IF u = h THEN new ELSE s.uxPriority[u]
      BY <1>1, <1>7 DEF KRec
    <3>3. CASE u = h
      BY <1>2, <1>4, <1>6, <1>10, <2>1, <3>1, <3>2, <3>3
    <3>4. CASE u # h
      BY <1>4, <1>6, <2>1, <3>1, <3>2, <3>4
    <3> QED BY <3>3, <3>4
  <2>5. Exact(r)
    <3> SUFFICES ASSUME NEW p \in Prios PROVE p \in r.uxTopReadyPriority <=> \E u : u \in r.ready[p]
      BY DEF Exact
    <3>1. p \in s.uxTopReadyPriority <=> \E u : u \in s.ready[p]
      BY <1>10 DEF Sound, Exact
    <3>2. \A u : u \in r.ready[p] <=> (u \in s.ready[p] /\ ~(p = old /\ u = h)) \/ (u = h /\ p = new)
      BY <1>4
    <3>3. p \in r.uxTopReadyPriority <=> p = new \/ (p \in s.uxTopReadyPriority /\ ~(p = old /\ s.ready[old] \subseteq {h}))
      BY <1>2, <1>5, <1>10 DEF Emptied
    <3> QED BY <3>1, <3>2, <3>3
  <2> QED BY <2>2, <2>3, <2>4, <2>5 DEF Sound
<1> QED BY <1>3, <1>8, <1>9, <1>10 DEF Sane

\* The priority of a sleeping task changes.
LEMMA RaiseKeeps ==
    ASSUME NEW s, Sane(s), NEW h \in Tasks, NEW new \in Prios, new >= Base[h],
           NEW r, r = [s EXCEPT !.uxPriority[h] = new]
    PROVE  /\ Sane(r) /\ Prioritised(s, r, h, new)
           /\ Sound(s) /\ h \notin s.ready[s.uxPriority[h]] => Sound(r)
<1>1. s \in KRec /\ Raised(s) /\ Flushed(s) /\ h \in AllTasks
  BY Constants DEF Sane
<1>2. r \in KRec /\ r.uxPriority = [s.uxPriority EXCEPT ![h] = new]
  BY <1>1 DEF KRec
<1>3. /\ SameReady(s, r) /\ SameSleep(s, r) /\ SameEvents(s, r) /\ SamePending(s, r) /\ SameClock(s, r)
      /\ SameNext(s, r) /\ SameTask(s, r) /\ SameYield(s, r) /\ SameHeld(s, r)
  BY <1>1 DEF KRec, SameReady, SameSleep, SameEvents, SamePending, SameClock, SameNext, SameTask,
              SameYield, SameHeld
<1>6. /\ r.delayed = s.delayed /\ r.overflow = s.overflow /\ r.wake = s.wake
      /\ r.ready = s.ready /\ r.uxTopReadyPriority = s.uxTopReadyPriority
      /\ r.xTickCount = s.xTickCount /\ r.xNextTaskUnblockTime = s.xNextTaskUnblockTime
      /\ r.waitSend = s.waitSend /\ r.waitRecv = s.waitRecv /\ r.xPendingReadyList = s.xPendingReadyList
      /\ r.uxSchedulerSuspended = s.uxSchedulerSuspended /\ r.uxPendedTicks = s.uxPendedTicks
  BY <1>3 DEF SameReady, SameSleep, SameEvents, SamePending, SameClock, SameNext, SameTask
<1>7. \A t \in AllTasks : r.uxPriority[t] = IF t = h THEN new ELSE s.uxPriority[t]
  <2>1. s.uxPriority \in [AllTasks -> Prios]
    BY <1>1 DEF KRec
  <2> QED BY <1>1, <1>2, <2>1
<1>8. Raised(r)
  <2>2. Idle # h /\ Idle \in AllTasks
    BY Constants
  <2> QED BY <1>1, <1>6, <1>7, <2>2 DEF Raised
<1>9. Flushed(r)
  BY <1>1, <1>6 DEF Flushed
<1>10. ASSUME Sound(s), h \notin s.ready[s.uxPriority[h]] PROVE Sound(r)
  <2>1. Asleep(r) = Asleep(s)
    BY <1>6 DEF Asleep
  <2>2. Timely(r) /\ Exact(r)
    BY <1>6, <1>10 DEF Sound, Timely, Exact
  <2>3. Listed(r)
    BY <1>6, <1>10, <2>1 DEF Sound, Listed
  <2>4. Placed(r)
    <3> SUFFICES ASSUME NEW u \in AllTasks
                 PROVE  /\ \A p \in Prios : u \in s.ready[p] => p = r.uxPriority[u]
                        /\ u \in s.ready[r.uxPriority[u]] <=> u \notin Asleep(s)
                        /\ u \notin s.delayed \/ u \notin s.overflow
      BY <1>6, <2>1 DEF Placed
    <3>1. /\ \A p \in Prios : u \in s.ready[p] => p = s.uxPriority[u]
          /\ u \in s.ready[s.uxPriority[u]] <=> u \notin Asleep(s)
          /\ u \notin s.delayed \/ u \notin s.overflow
      BY <1>10 DEF Sound, Placed
    <3>2. s.uxPriority[u] \in Prios /\ r.uxPriority[u] = IF u = h THEN new ELSE s.uxPriority[u]
      BY <1>1, <1>7 DEF KRec
    <3>3. CASE u = h
      BY <1>10, <3>1, <3>2, <3>3
    <3>4. CASE u # h
      BY <3>1, <3>2, <3>4
    <3> QED BY <3>3, <3>4
  <2> QED BY <2>2, <2>3, <2>4 DEF Sound
<1> QED BY <1>2, <1>3, <1>8, <1>9, <1>10 DEF Sane, Prioritised

\* xTaskPriorityInherit() raises the holder h to the current task's priority,
\* or leaves everything alone.
LEMMA InheritIs ==
    ASSUME NEW s, Sane(s), NEW h \in Tasks \cup {NULL}, NEW r, r = xTaskPriorityInherit(s, h)
    PROVE  \/ r = s /\ (h = NULL \/ s.uxPriority[h] >= s.uxPriority[s.pxCurrentTCB])
           \/ /\ Sane(r) /\ (Sound(s) => Sound(r))
              /\ h \in Tasks /\ ~(s.uxPriority[h] >= s.uxPriority[s.pxCurrentTCB])
              /\ Prioritised(s, r, h, s.uxPriority[s.pxCurrentTCB])
<1>1. CASE h = NULL \/ s.uxPriority[h] >= s.uxPriority[s.pxCurrentTCB]
  <2>1. r = s
    BY <1>1, Zenon DEF xTaskPriorityInherit
  <2> QED BY <1>1, <2>1
<1>2. CASE ~(h = NULL \/ s.uxPriority[h] >= s.uxPriority[s.pxCurrentTCB])
  <2>1. s \in KRec /\ Raised(s)
    BY DEF Sane
  <2>2. PICK p \in Prios : p = s.uxPriority[s.pxCurrentTCB]
    BY <2>1 DEF KRec
  <2>3. h # NULL /\ ~(s.uxPriority[h] >= p)
    BY <1>2, <2>2
  <2>4. h \in Tasks /\ h \in AllTasks
    BY <2>3, Constants
  <2>5. PICK old \in Prios : old = s.uxPriority[h]
    BY <2>1, <2>4 DEF KRec
  <2>6. old > 0 /\ p >= Base[h]
    <3>1. old >= Base[h] /\ Base[h] > 0 /\ Base[h] \in Nat /\ old \in Nat /\ p \in Nat
      BY <2>1, <2>4, <2>5, Constants DEF Raised
    <3> QED BY <2>3, <2>5, <3>1
  <2>7. /\ Sane(r) /\ Prioritised(s, r, h, p) /\ (Sound(s) => Sound(r))
    <3>1. CASE h \in s.ready[s.uxPriority[h]]
      <4>1. r = MoveTo(s, h, s.uxPriority[h], s.uxPriority[h], p)
        BY <2>2, <2>3, <3>1, Zenon DEF xTaskPriorityInherit, MoveTo
      <4>2. r = MoveTo(s, h, s.uxPriority[h], old, p)
        BY <2>5, <4>1
      <4>3. /\ Sane(r) /\ Prioritised(s, r, h, p)
            /\ Sound(s) /\ h \notin Asleep(s) /\ old = s.uxPriority[h] => Sound(r)
        BY <2>4, <2>6, <4>2, MoveKeeps
      <4>4. Sound(s) => h \notin Asleep(s)
        BY <2>4, <3>1 DEF Sound, Placed
      <4> QED BY <2>5, <4>3, <4>4
    <3>2. CASE h \notin s.ready[s.uxPriority[h]]
      <4>1. r = [s EXCEPT !.uxPriority[h] = p]
        BY <2>2, <2>3, <3>2, Zenon DEF xTaskPriorityInherit
      <4> QED BY <2>4, <2>6, <3>2, <4>1, RaiseKeeps
    <3> QED BY <3>1, <3>2
  <2> QED BY <2>2, <2>3, <2>4, <2>7
<1> QED BY <1>1, <1>2

\* It keeps the lists in order.
LEMMA InheritKeeps ==
    ASSUME NEW s, Sane(s), NEW h \in Tasks \cup {NULL}
    PROVE  Keeps(s, xTaskPriorityInherit(s, h))
<1>1. PICK r : r = xTaskPriorityInherit(s, h)
  OBVIOUS
<1>2. PICK p : p = s.uxPriority[s.pxCurrentTCB]
  OBVIOUS
<1>3. r = s \/ (Sane(r) /\ (Sound(s) => Sound(r)) /\ Prioritised(s, r, h, p))
  BY <1>1, <1>2, InheritIs
<1>4. CASE r = s
  BY <1>1, <1>4, KeepsNothing
<1>5. CASE Sane(r) /\ (Sound(s) => Sound(r)) /\ Prioritised(s, r, h, p)
  BY <1>1, <1>5 DEF Keeps, Prioritised, SameSleep, SameYield, Asleep
<1> QED BY <1>3, <1>4, <1>5

\* xTaskPriorityDisinherit(): a running holder gives a mutex back.
Disinherited(s, r, h) ==
    /\ Sane(r) /\ (Sound(s) /\ h \notin Asleep(s) => Sound(r))
    /\ \A u : u \in Asleep(r) => u \in Asleep(s)
    /\ SameClock(s, r) /\ SameTask(s, r)
    /\ r.uxMutexesHeld = [s.uxMutexesHeld EXCEPT ![h] = @ - 1]
    /\ r.switch = s.switch /\ (s.pendsv => r.pendsv)

\* With its last mutex it gives its inherited priority back.
Lowered(s, r, h) ==
    /\ SameEvents(s, r) /\ SameYield(s, r)
    /\ h \notin Asleep(s) => Asleep(r) = Asleep(s) /\ \A u \in Asleep(s) : r.wake[u] = s.wake[u]
    /\ \/ r.uxPriority = s.uxPriority /\ (s.uxPriority[h] = Base[h] \/ r.uxMutexesHeld[h] > 0)
       \/ r.uxPriority = [s.uxPriority EXCEPT ![h] = Base[h]] /\ ~(r.uxMutexesHeld[h] > 0)

\* xTaskPriorityDisinherit() gives a mutex back.
LEMMA DisinheritIs ==
    ASSUME NEW s, Sane(s), NEW h \in Tasks
    PROVE  /\ Disinherited(s, xTaskPriorityDisinherit(s, h), h)
           /\ Lowered(s, xTaskPriorityDisinherit(s, h), h)
<1>1. PICK r : r = xTaskPriorityDisinherit(s, h)
  OBVIOUS
<1>2. s \in KRec /\ Raised(s) /\ Flushed(s) /\ h \in AllTasks /\ h # NULL
  BY Constants, KernelAssumption DEF Sane, NULL
<1>3. PICK d : d = [s EXCEPT !.uxMutexesHeld[h] = s.uxMutexesHeld[h] - 1]
  OBVIOUS
<1>4. d \in KRec /\ d.uxMutexesHeld = [s.uxMutexesHeld EXCEPT ![h] = @ - 1]
  <2>1. PICK n \in Int : n = s.uxMutexesHeld[h] - 1
    BY <1>2 DEF KRec
  <2>2. d = [s EXCEPT !.uxMutexesHeld[h] = n]
    BY <1>3, <2>1
  <2>3. d \in KRec /\ d.uxMutexesHeld = [s.uxMutexesHeld EXCEPT ![h] = n]
    BY <1>2, <2>2 DEF KRec
  <2> QED BY <2>1, <2>3
<1>5. /\ SameReady(s, d) /\ SameSleep(s, d) /\ SameEvents(s, d) /\ SamePending(s, d) /\ SameClock(s, d)
      /\ SameNext(s, d) /\ SameTask(s, d) /\ SameYield(s, d) /\ SamePrio(s, d)
  BY <1>2, <1>3 DEF KRec, SameReady, SameSleep, SameEvents, SamePending, SameClock, SameNext, SameTask,
              SameYield, SamePrio
<1>6. Sane(d) /\ (Sound(s) => Sound(d)) /\ Asleep(d) = Asleep(s)
  <2>1. /\ d.ready = s.ready /\ d.uxTopReadyPriority = s.uxTopReadyPriority
        /\ d.delayed = s.delayed /\ d.overflow = s.overflow /\ d.wake = s.wake
        /\ d.xTickCount = s.xTickCount /\ d.uxPriority = s.uxPriority
        /\ d.waitSend = s.waitSend /\ d.waitRecv = s.waitRecv /\ d.xPendingReadyList = s.xPendingReadyList
        /\ d.xNextTaskUnblockTime = s.xNextTaskUnblockTime
        /\ d.uxSchedulerSuspended = s.uxSchedulerSuspended /\ d.uxPendedTicks = s.uxPendedTicks
    BY <1>5 DEF SameReady, SameSleep, SamePrio, SameEvents, SamePending, SameNext, SameClock, SameTask
  <2> QED BY <1>2, <1>4, <2>1 DEF Sane, Sound, Placed, Exact, Timely, Listed, Raised, Flushed, Asleep
<1>7. CASE d.uxPriority[h] = Base[h] \/ d.uxMutexesHeld[h] > 0
  <2>1. r = d
    BY <1>1, <1>2, <1>3, <1>7, Zenon DEF xTaskPriorityDisinherit
  <2>2. Lowered(s, r, h)
    BY <1>5, <1>6, <1>7, <2>1 DEF Lowered, SamePrio, SameSleep
  <2> QED BY <1>1, <1>4, <1>5, <1>6, <2>1, <2>2 DEF Disinherited, SameYield
<1>8. CASE ~(d.uxPriority[h] = Base[h] \/ d.uxMutexesHeld[h] > 0)
  <2>1. PICK ts \in SUBSET AllTasks : ts = {h}
    BY <1>2
  <2>2. PICK e : e = RemoveFromDelayed(d, ts)
    OBVIOUS
  <2>3. /\ e \in KRec
        /\ e.delayed = d.delayed \ ts /\ e.overflow = d.overflow \ ts
        /\ e.wake = [t \in AllTasks |-> IF t \in ts THEN 0 ELSE d.wake[t]]
        /\ SameReady(d, e) /\ SameEvents(d, e) /\ SamePending(d, e) /\ SameClock(d, e)
        /\ SameNext(d, e) /\ SameTask(d, e) /\ SameYield(d, e) /\ SamePrio(d, e)
        /\ SameHeld(d, e)
    BY <1>4, <2>2, RemoveFromDelayedIs
  <2>4. Raised(e) /\ Flushed(e)
    BY <1>6, <2>3 DEF Sane, Raised, Flushed, SameReady, SamePrio, SamePending, SameTask, SameClock
  <2>5. \A u : u \in Asleep(e) => u \in Asleep(d)
    BY <2>3 DEF Asleep
  <2>6. ASSUME Sound(s), h \notin Asleep(s) PROVE Sound(e) /\ h \notin Asleep(e)
    <3>1. e.delayed = d.delayed /\ e.overflow = d.overflow
      BY <1>6, <2>1, <2>3, <2>6 DEF Asleep
    <3>2. /\ e.ready = d.ready /\ e.uxTopReadyPriority = d.uxTopReadyPriority
          /\ e.xTickCount = d.xTickCount /\ e.uxPriority = d.uxPriority
          /\ e.waitSend = d.waitSend /\ e.waitRecv = d.waitRecv /\ e.xPendingReadyList = d.xPendingReadyList
          /\ e.xNextTaskUnblockTime = d.xNextTaskUnblockTime
      BY <2>3 DEF SameReady, SameSleep, SamePrio, SameEvents, SamePending, SameNext, SameClock, SameTask
    <3>3. \A t : t \in d.delayed \/ t \in d.overflow => e.wake[t] = d.wake[t]
      <4>1. d.delayed \subseteq AllTasks /\ d.overflow \subseteq AllTasks
        BY <1>4, Constants DEF KRec
      <4> QED BY <1>6, <2>1, <2>3, <2>6, <4>1 DEF Asleep
    <3>4. Timely(e)
      BY <1>6, <2>6, <3>1, <3>2, <3>3 DEF Sound, Timely
    <3>5. Placed(e) /\ Exact(e) /\ Listed(e)
      BY <1>6, <2>6, <3>1, <3>2 DEF Sound, Placed, Exact, Listed, Asleep
    <3> QED BY <1>6, <2>5, <2>6, <3>4, <3>5 DEF Sound
  <2>7. PICK old \in Prios : old = d.uxPriority[h]
    BY <1>2, <1>4 DEF KRec
  <2>8. old = e.uxPriority[h] /\ old > 0
    <3>1. old >= Base[h] /\ Base[h] > 0 /\ Base[h] \in Nat /\ old \in Nat
      BY <1>2, <1>6, <2>7, Constants DEF Sane, Raised
    <3> QED BY <2>3, <2>7, <3>1 DEF SamePrio
  <2>9. PICK new \in Prios : new = Base[h] /\ new >= Base[h]
    <3>1. Base[h] \in Prios /\ Base[h] \in Nat
      BY <1>2, Constants
    <3> QED BY <3>1
  <2>10. r = MoveTo(e, h, old, old, new)
    BY <1>1, <1>2, <1>3, <1>8, <2>1, <2>2, <2>7, <2>9, Zenon DEF xTaskPriorityDisinherit, MoveTo
  <2>11. r = MoveTo(e, h, e.uxPriority[h], old, new) /\ Sane(e)
    BY <2>3, <2>4, <2>8, <2>10 DEF Sane
  <2>12. /\ Sane(r) /\ Prioritised(e, r, h, new)
         /\ Sound(e) /\ h \notin Asleep(e) /\ old = e.uxPriority[h] => Sound(r)
    BY <2>8, <2>9, <2>11, MoveKeeps
  <2>13. /\ Asleep(r) = Asleep(e) /\ SameClock(s, r) /\ SameTask(s, r)
         /\ r.uxMutexesHeld = d.uxMutexesHeld /\ r.switch = s.switch /\ r.pendsv = s.pendsv
    <3>1. /\ SameSleep(e, r) /\ SameClock(e, r) /\ SameTask(e, r) /\ SameHeld(e, r) /\ SameYield(e, r)
      BY <2>12 DEF Prioritised
    <3>2. Asleep(r) = Asleep(e)
      BY <3>1 DEF SameSleep, Asleep
    <3>3. SameClock(s, r) /\ SameTask(s, r)
      BY <1>5, <2>3, <3>1 DEF SameClock, SameTask
    <3>4. r.uxMutexesHeld = d.uxMutexesHeld /\ r.switch = s.switch /\ r.pendsv = s.pendsv
      BY <1>5, <2>3, <3>1 DEF SameHeld, SameYield
    <3> QED BY <3>2, <3>3, <3>4
  <2>14. Lowered(s, r, h)
    <3>1. SameEvents(s, r) /\ SameYield(s, r) /\ r.wake = e.wake
      BY <1>5, <2>3, <2>12 DEF Prioritised, SameEvents, SameYield, SameSleep
    <3>2. ASSUME h \notin Asleep(s)
          PROVE  Asleep(r) = Asleep(s) /\ \A u \in Asleep(s) : r.wake[u] = s.wake[u]
      <4>1. Asleep(e) = Asleep(s)
        BY <1>6, <2>1, <2>3, <3>2 DEF Asleep
      <4>2. s.delayed \subseteq AllTasks /\ s.overflow \subseteq AllTasks
        BY <1>2, Constants DEF KRec
      <4>3. \A u \in Asleep(s) : e.wake[u] = d.wake[u]
        BY <2>1, <2>3, <3>2, <4>2 DEF Asleep
      <4> QED BY <1>5, <2>13, <3>1, <4>1, <4>3 DEF SameSleep
    <3>3. r.uxPriority = [s.uxPriority EXCEPT ![h] = Base[h]] /\ ~(r.uxMutexesHeld[h] > 0)
      BY <1>5, <1>8, <2>3, <2>9, <2>12, <2>13 DEF Prioritised, SamePrio
    <3> QED BY <3>1, <3>2, <3>3 DEF Lowered
  <2> QED BY <1>1, <1>4, <1>6, <2>5, <2>6, <2>8, <2>12, <2>13, <2>14 DEF Disinherited
<1> QED BY <1>7, <1>8

\* vTaskPriorityDisinheritAfterTimeout() keeps the types; it may leave the bit
\* of an emptied ready list behind.
LEMMA AfterTimeoutIs ==
    ASSUME NEW s, Sane(s), NEW h \in Tasks \cup {NULL}, NEW q \in Queues,
           NEW r, r = vTaskPriorityDisinheritAfterTimeout(s, h, q)
    PROVE  Sane(r) /\ SameClock(s, r) /\ SameTask(s, r) /\ SameHeld(s, r) /\ SameYield(s, r)
<1>1. CASE r = s
  BY <1>1 DEF SameClock, SameTask, SameHeld, SameYield
<1>2. CASE r # s
  <2>1. s \in KRec /\ Raised(s)
    BY DEF Sane
  <2>2. h # NULL
    BY <1>2, Zenon DEF vTaskPriorityDisinheritAfterTimeout
  <2>3. h \in Tasks /\ h \in AllTasks
    BY <2>2, Constants
  <2>4. PICK w \in Prios : w = IF s.waitRecv[q] = << >> THEN 0 ELSE s.uxPriority[Head(s.waitRecv[q])]
    <3>1. CASE s.waitRecv[q] = << >>
      BY <3>1, Constants
    <3>2. CASE s.waitRecv[q] # << >>
      <4>1. PICK l \in Seq(Tasks) : l = s.waitRecv[q]
        BY <2>1 DEF KRec
      <4>2. Head(l) \in AllTasks
        BY <3>2, <4>1, Constants
      <4> QED BY <2>1, <3>2, <4>1, <4>2 DEF KRec
    <3> QED BY <3>1, <3>2
  <2>5. PICK new \in Prios : new = Max({Base[h], w}) /\ new >= Base[h]
    <3>1. PICK b \in Prios : b = Base[h]
      BY <2>3, Constants
    <3>2. b \in Nat /\ w \in Nat
      BY Constants
    <3>3. Max({b, w}) = IF b >= w THEN b ELSE w
      BY <3>2, MaxOfTwo
    <3> QED BY <3>1, <3>2, <3>3
  <2>6. new > 0
    <3>1. Base[h] > 0 /\ Base[h] \in Nat /\ new \in Nat
      BY <2>3, Constants
    <3> QED BY <2>5, <3>1
  <2>7. Sane(r) /\ Prioritised(s, r, h, new)
    <3>1. CASE h \in s.ready[s.uxPriority[h]]
      <4>1. r = MoveTo(s, h, s.uxPriority[h], new, new)
        BY <1>2, <2>2, <2>4, <2>5, <3>1, Zenon DEF vTaskPriorityDisinheritAfterTimeout, MoveTo
      <4> QED BY <2>3, <2>5, <2>6, <4>1, MoveKeeps
    <3>2. CASE h \notin s.ready[s.uxPriority[h]]
      <4>1. r = [s EXCEPT !.uxPriority[h] = new]
        BY <1>2, <2>2, <2>4, <2>5, <3>2, Zenon DEF vTaskPriorityDisinheritAfterTimeout
      <4> QED BY <2>3, <2>5, <4>1, RaiseKeeps
    <3> QED BY <3>1, <3>2
  <2> QED BY <2>7 DEF Prioritised
<1> QED BY <1>1, <1>2

-----------------------------------------------------------------------------
(* The invariant                                                           *)

Steps == {"idle", "try", "suspend", "lock", "check", "test", "place", "unlock", "resume",
          "recheck", "return"}
CallRecs ==
    [op : {"none", "delay", "fetch", "fetchT", "tryfetch"}]
    \cup [op : {"post", "trypost"}, msg : Msgs] \cup [op : {"lock", "unlock"}, mutex : Mutexes]

Returns == {Pending, Ok, Failed} \cup {Got(m) : m \in Msgs \cup {NULL}}

CallTypes ==
    /\ pc \in [AllTasks -> Steps] /\ call \in [AllTasks -> CallRecs]
    /\ ret \in [AllTasks -> Returns] /\ loc \in [AllTasks -> Locals]
    /\ owns \in [AllTasks -> SUBSET Mutexes]

\* What is known of a task at step p of call c with locals l and result r.
WalkAt(p, c, r, l) ==
    /\ p = "idle" <=> c = NoCall
    /\ p = "return" <=> r # Pending
    /\ p = "idle" => l = NoLoc
    /\ l.path # "none" <=> p \in {"unlock", "resume"}
    /\ c.op = "delay" => p \in {"resume", "return"}
    /\ c.op \in {"trypost", "tryfetch", "unlock"} => l.xTicksToWait = 0 /\ p \in {"try", "return"}
    /\ p \in {"suspend", "lock", "check", "test", "place"} => l.xTicksToWait > 0 /\ l.set
    /\ p = "recheck" => c.op # "post"
    /\ c.op = "post" /\ l.xTicksToWait = 0 => l.path = "expired"
    /\ l.xInheritanceOccurred => c.op = "lock"
Walk == \A t \in AllTasks : WalkAt(pc[t], call[t], ret[t], loc[t])

QueueTypes ==
    /\ ring \in [0 .. MBOX_SIZE - 1 -> Msgs \cup {NULL}]
    /\ pcWriteTo \in 0 .. MBOX_SIZE - 1 /\ pcReadFrom \in 0 .. MBOX_SIZE - 1
    /\ uxMessagesWaiting \in [Queues -> Nat]
    /\ \A q \in Queues : uxMessagesWaiting[q] <= uxLength(q)
    /\ cTxLock \in [Queues -> Int]
    /\ xMutexHolder \in [Mutexes -> Tasks \cup {NULL}]

\* The first free slot comes after the messages.
Ring == pcWriteTo = (pcReadFrom + 1 + uxMessagesWaiting[mbox]) % MBOX_SIZE

Suspending == {"lock", "check", "test", "place", "unlock", "resume"}
Locking == {"check", "test", "place", "unlock"}

\* Only the running task can have the scheduler suspended, or a queue locked.
Scheduler ==
    /\ k.uxSchedulerSuspended <=> pc[cur] \in Suspending
    /\ \A t \in AllTasks : t # cur => pc[t] \notin Suspending
    /\ pc[Idle] = "idle"
LocksQueue(q) == pc[cur] \in Locking /\ Target(cur) = q
Locks ==
    \A q \in Queues :
        /\ LocksQueue(q) => /\ 0 <= cTxLock[q] /\ cTxLock[q] <= uxMessagesWaiting[q]
                            /\ q # mbox => cTxLock[q] = 0
        /\ ~LocksQueue(q) => cTxLock[q] = queueUNLOCKED

\* A mutex without a holder is free, and the kernel counts the mutexes of a task.
Holders == \A m \in Mutexes : xMutexHolder[m] = NULL <=> uxMessagesWaiting[m] = 1
Held(t) == {m \in Mutexes : xMutexHolder[m] = t}
Counts ==
    /\ \A t \in Tasks : IsFiniteSet(Held(t)) /\ k.uxMutexesHeld[t] = Cardinality(Held(t))
    /\ k.uxMutexesHeld[Idle] = 0

QueueInv == QueueTypes /\ Ring /\ Holders
TaskInv == Sane(k) /\ ~k.switch /\ Counts
KernelInv == TaskInv /\ CallTypes /\ Walk /\ QueueInv /\ Scheduler /\ Locks

\* The running task is ready, unless it went to sleep and has not yet yielded.
Running ==
    \/ cur \notin Asleep(k)
    \/ k.uxSchedulerSuspended /\ loc[cur].path = "blocked"
    \/ ~k.uxSchedulerSuspended /\ k.pendsv

\* A wait for a mutex does not expire: of a task at step p of call c with result
\* r and locals l, when tasks.c is in state s.
PatientAt(s, p, c, r, l) ==
    c.op = "lock" => /\ l.xTicksToWait > 0
                     /\ l.set => Fresh(s, l, s.uxPendedTicks)
                     /\ l.path # "expired" /\ p # "recheck" /\ r \in {Pending, Ok}
Patient == \A t \in Tasks : PatientAt(k, pc[t], call[t], ret[t], loc[t])

\* Who holds a mutex, and who thinks so: of a task t in call c with result r that
\* thinks it owns the mutexes o, when the holders are H.
OwnersAt(t, H, c, r, o) ==
    /\ \A m \in o : H[m] = t \/ c = [op |-> "unlock", mutex |-> m]
    /\ c.op = "lock" /\ r # Pending => H[c.mutex] = t
    /\ c.op = "unlock" /\ r = Pending => H[c.mutex] = t
Owners == \A t \in Tasks : OwnersAt(t, xMutexHolder, call[t], ret[t], owns[t])

ListInv == Sound(k) /\ Running /\ Patient /\ Owners

\* The calls and results that a task can be in.
LEMMA CallRec ==
    ASSUME NEW c \in CallRecs
    PROVE  /\ c.op \in {"none", "delay", "fetch", "fetchT", "tryfetch", "post", "trypost", "lock", "unlock"}
           /\ c.op \in {"post", "trypost"} => c.msg \in Msgs
           /\ c.op \in {"lock", "unlock"} => c.mutex \in Mutexes
           /\ c = NoCall <=> c.op = "none"
           /\ c.op = "unlock" => c = [op |-> "unlock", mutex |-> c.mutex]
BY DEF CallRecs, NoCall

\* The calls that can begin.
LEMMA NewCall ==
    /\ NoCall \in CallRecs /\ NoCall.op = "none"
    /\ [op |-> "delay"] \in CallRecs
    /\ \A o \in {"fetch", "fetchT", "tryfetch"} : [op |-> o] \in CallRecs
    /\ \A o \in {"post", "trypost"}, m \in Msgs : [op |-> o, msg |-> m] \in CallRecs
    /\ \A o \in {"lock", "unlock"}, m \in Mutexes : [op |-> o, mutex |-> m] \in CallRecs
BY DEF CallRecs, NoCall

\* The results that calls have.
LEMMA Results ==
    /\ Ok \in Returns /\ Failed \in Returns /\ Pending \in Returns
    /\ \A m \in Msgs \cup {NULL} : Got(m) \in Returns
    /\ Ok # Pending /\ Failed # Pending /\ Ok # Failed /\ \A m : Got(m) # Pending
BY DEF Ok, Failed, Pending, Got, Returns

\* The block time of a call.
LEMMA BlockTimeIs ==
    ASSUME NEW o
    PROVE  /\ o \in {"post", "fetch", "lock"} => BlockTime(o) = portMAX_DELAY
           /\ o = "fetchT" => BlockTime(o) = TIMEOUT
           /\ o \in {"trypost", "tryfetch", "unlock"} => BlockTime(o) = 0
BY Zenon DEF BlockTime

\* The locals of a call that begins.
LEMMA NoLocIs == /\ NoLoc \in Locals /\ NoLoc.xTicksToWait = 0 /\ ~NoLoc.set
                 /\ ~NoLoc.xInheritanceOccurred /\ NoLoc.path = "none"
BY Constants DEF NoLoc, Locals

\* The current task t moves to step p of call c with result r and locals l.
Moves(t, p, c, r, l) ==
    /\ p \in Steps /\ c \in CallRecs /\ r \in Returns /\ l \in Locals /\ WalkAt(p, c, r, l)
    /\ pc' = [pc EXCEPT ![t] = p] /\ call' = [call EXCEPT ![t] = c]
    /\ ret' = [ret EXCEPT ![t] = r] /\ loc' = [loc EXCEPT ![t] = l]

\* A move keeps types and walks.
LEMMA MovesKeeps ==
    ASSUME CallTypes, Walk, NEW t \in Tasks, NEW p, NEW c, NEW r, NEW l, Moves(t, p, c, r, l),
           owns' \in [AllTasks -> SUBSET Mutexes]
    PROVE  CallTypes' /\ Walk'
<1>1. t \in AllTasks
  BY Constants
<1>2. CallTypes'
  BY <1>1 DEF CallTypes, Moves
<1>3. ASSUME NEW u \in AllTasks PROVE WalkAt(pc'[u], call'[u], ret'[u], loc'[u])
  <2>1. CASE u = t
    BY <1>1, <2>1 DEF CallTypes, Moves
  <2>2. CASE u # t
    BY <1>1, <2>2 DEF CallTypes, Moves, Walk
  <2> QED BY <2>1, <2>2
<1>4. Walk'
  BY <1>3 DEF Walk
<1> QED BY <1>2, <1>4

\* The facts about the task that steps.
LEMMA Here ==
    ASSUME CallTypes, Walk, NEW t \in Tasks
    PROVE  /\ t \in AllTasks /\ pc[t] \in Steps /\ call[t] \in CallRecs /\ loc[t] \in Locals
           /\ WalkAt(pc[t], call[t], ret[t], loc[t])
           /\ loc[t].xTicksToWait \in Int /\ loc[t].xTicksToWait >= 0
           /\ loc[t].set \in BOOLEAN /\ loc[t].xInheritanceOccurred \in BOOLEAN
           /\ ret[t] \in Returns
           /\ pc = [pc EXCEPT ![t] = pc[t]] /\ call = [call EXCEPT ![t] = call[t]]
           /\ ret = [ret EXCEPT ![t] = ret[t]] /\ loc = [loc EXCEPT ![t] = loc[t]]
BY Constants DEF CallTypes, Walk, Locals

\* The begin of a call: where the task is afterwards.
LEMMA BeginMoves ==
    ASSUME CallTypes, Walk, NEW t \in Tasks, Begin(t)
    PROVE  \E c, l : /\ Moves(t, "try", c, Pending, l)
                     /\ c.op \notin {"none", "delay"} /\ (c.op = "unlock" => c.mutex \in owns[t])
                     /\ l = [NoLoc EXCEPT !.xTicksToWait = BlockTime(c.op)]
<1> USE Here
<1>1. pc[t] = "idle" /\ call[t] = NoCall /\ ret[t] = Pending /\ loc[t] = NoLoc
  BY DEF Begin, At, WalkAt
<1>2. PICK c \in CallRecs : /\ call' = [call EXCEPT ![t] = c] /\ c.op \notin {"none", "delay"}
                            /\ c.op = "unlock" => c.mutex \in owns[t]
  <2>1. owns[t] \in SUBSET Mutexes
    BY DEF CallTypes
  <2>2. PICK op \in Ops[t] :
         \/ /\ op \in {"post", "trypost"}
            /\ \E m \in Msgs : call' = [call EXCEPT ![t] = [op |-> op, msg |-> m]]
         \/ /\ op \in {"fetch", "fetchT", "tryfetch"}
            /\ call' = [call EXCEPT ![t] = [op |-> op]]
         \/ /\ op = "lock"
            /\ \E m \in Mutexes : call' = [call EXCEPT ![t] = [op |-> op, mutex |-> m]]
         \/ /\ op = "unlock"
            /\ \E m \in owns[t] : call' = [call EXCEPT ![t] = [op |-> op, mutex |-> m]]
    BY Zenon DEF Begin
  <2>3. CASE op \in {"post", "trypost"} /\ \E m \in Msgs : call' = [call EXCEPT ![t] = [op |-> op, msg |-> m]]
    <3>1. PICK m \in Msgs : call' = [call EXCEPT ![t] = [op |-> op, msg |-> m]]
      BY <2>3
    <3>2. PICK c \in CallRecs : c = [op |-> op, msg |-> m]
      BY <2>1, <2>3, NewCall
    <3> QED BY <2>3, <3>1, <3>2
  <2>4. CASE op \in {"fetch", "fetchT", "tryfetch"} /\ call' = [call EXCEPT ![t] = [op |-> op]]
    BY <2>4, NewCall
  <2>5. CASE op = "lock" /\ \E m \in Mutexes : call' = [call EXCEPT ![t] = [op |-> op, mutex |-> m]]
    <3>1. PICK m \in Mutexes : call' = [call EXCEPT ![t] = [op |-> op, mutex |-> m]]
      BY <2>5
    <3>2. PICK c \in CallRecs : c = [op |-> op, mutex |-> m]
      BY <2>1, <2>5, NewCall
    <3> QED BY <2>5, <3>1, <3>2
  <2>6. CASE op = "unlock" /\ \E m \in owns[t] : call' = [call EXCEPT ![t] = [op |-> op, mutex |-> m]]
    <3>1. PICK m \in owns[t] : call' = [call EXCEPT ![t] = [op |-> op, mutex |-> m]]
      BY <2>6
    <3>2. PICK c \in CallRecs : c = [op |-> op, mutex |-> m]
      BY <2>1, <2>6, NewCall
    <3> QED BY <2>6, <3>1, <3>2
  <2> QED BY <2>2, <2>3, <2>4, <2>5, <2>6
<1>3. call'[t] = c
  BY <1>2 DEF CallTypes
<1>4. PICK n \in 0 .. portMAX_DELAY : n = BlockTime(c.op)
  BY <1>2, BlockTimeIs, CallRec, Constants
<1>5. /\ c.op \in {"post", "fetch", "fetchT", "lock"} => n > 0
      /\ c.op \in {"trypost", "tryfetch", "unlock"} => n = 0
  BY <1>4, BlockTimeIs, Constants
<1>6. PICK l : l = [NoLoc EXCEPT !.xTicksToWait = n]
  OBVIOUS
<1>7. l \in Locals /\ l.xTicksToWait = n /\ ~l.set /\ l.path = "none" /\ ~l.xInheritanceOccurred
  <2>1. PICK z \in Locals : z = NoLoc /\ ~z.set /\ z.path = "none" /\ ~z.xInheritanceOccurred
    BY NoLocIs
  <2> QED BY <1>6, <2>1 DEF Locals
<1>8. pc' = [pc EXCEPT ![t] = "try"] /\ ret' = [ret EXCEPT ![t] = Pending] /\ loc' = [loc EXCEPT ![t] = l]
  BY <1>1, <1>3, <1>4, <1>6 DEF Begin, Goto
<1>9. WalkAt("try", c, Pending, l)
  BY <1>2, <1>5, <1>7, CallRec DEF WalkAt
<1>10. Moves(t, "try", c, Pending, l)
  BY <1>2, <1>7, <1>8, <1>9, Results DEF Moves, Steps
<1> QED BY <1>2, <1>4, <1>6, <1>10

\* vTaskDelay(): where the task is afterwards.
LEMMA DelayMoves ==
    ASSUME CallTypes, Walk, NEW t \in Tasks, Delay(t)
    PROVE  Moves(t, "resume", [op |-> "delay"], Pending, [NoLoc EXCEPT !.path = "blocked"])
<1> USE Here
<1>1. pc[t] = "idle" /\ call[t] = NoCall /\ ret[t] = Pending /\ loc[t] = NoLoc
  BY DEF Delay, At, WalkAt
<1>2. PICK l : l = [NoLoc EXCEPT !.path = "blocked"]
  OBVIOUS
<1>3. l \in Locals /\ l.xTicksToWait = 0 /\ ~l.set /\ l.path = "blocked" /\ ~l.xInheritanceOccurred
  <2>1. PICK z \in Locals : z = NoLoc /\ z.xTicksToWait = 0 /\ ~z.set /\ ~z.xInheritanceOccurred
    BY NoLocIs
  <2> QED BY <1>2, <2>1 DEF Locals
<1>4. PICK c \in CallRecs : c = [op |-> "delay"]
  BY NewCall
<1>5. /\ pc' = [pc EXCEPT ![t] = "resume"] /\ ret' = [ret EXCEPT ![t] = Pending]
      /\ loc' = [loc EXCEPT ![t] = l] /\ call' = [call EXCEPT ![t] = c]
  BY <1>1, <1>2, <1>4 DEF Delay, Goto
<1>6. WalkAt("resume", c, Pending, l)
  BY <1>3, <1>4, CallRec DEF WalkAt
<1>7. Moves(t, "resume", c, Pending, l)
  BY <1>3, <1>5, <1>6, Results DEF Moves, Steps
<1> QED BY <1>2, <1>4, <1>7

\* A call that is served, or given up.
LEMMA FinishMoves ==
    ASSUME CallTypes, Walk, NEW t \in Tasks, NEW r \in Returns \ {Pending}, Finish(t, r),
           pc[t] = "try" \/ pc[t] = "recheck", UNCHANGED <<call, loc>>
    PROVE  Moves(t, "return", call[t], r, loc[t])
<1> USE Here
<1>1. WalkAt("return", call[t], r, loc[t])
  BY DEF WalkAt
<1>2. /\ pc' = [pc EXCEPT ![t] = "return"] /\ ret' = [ret EXCEPT ![t] = r]
      /\ call' = [call EXCEPT ![t] = call[t]] /\ loc' = [loc EXCEPT ![t] = loc[t]]
  BY Zenon DEF Finish, Goto
<1> QED BY <1>1, <1>2 DEF Moves, Steps

\* vTaskInternalSetTimeOutState()
LEMMA SetTimeOutIs ==
    ASSUME Sane(k), NEW l \in Locals, NEW n \in 0 .. portMAX_DELAY, NEW x, x = SetTimeOut(l, n)
    PROVE  /\ x \in Locals /\ x.xTicksToWait = n /\ x.set /\ x.path = l.path
           /\ x.xInheritanceOccurred = l.xInheritanceOccurred
           /\ x.xOverflowCount = k.xNumOfOverflows /\ x.xTimeOnEntering = k.xTickCount
<1>1. k.xNumOfOverflows \in 0 .. OVERFLOWS - 1 /\ k.xTickCount \in 0 .. portMAX_DELAY
  BY DEF Sane, KRec
<1> QED BY <1>1 DEF SetTimeOut, Locals

\* A call that the queue cannot serve fails, or prepares to block.
LEMMA RefuseMoves ==
    ASSUME Sane(k), CallTypes, Walk, NEW t \in Tasks, Refuse(t), pc[t] = "try", call' = call
    PROVE  \/ /\ Moves(t, "return", call[t], Failed, loc[t])
              /\ call[t].op \notin {"post"} /\ loc[t].xTicksToWait = 0
           \/ \E l : /\ Moves(t, "suspend", call[t], Pending, l)
                     /\ loc[t].xTicksToWait > 0
                     /\ l.xTicksToWait = loc[t].xTicksToWait
                     /\ loc[t].set => l = loc[t]
                     /\ ~loc[t].set => l = SetTimeOut(loc[t], loc[t].xTicksToWait)
<1> USE Here
<1>1. CASE loc[t].xTicksToWait = 0
  <2>1. Finish(t, Failed) /\ UNCHANGED loc
    BY <1>1, Zenon DEF Refuse
  <2>2. Moves(t, "return", call[t], Failed, loc[t])
    BY <2>1, Results, FinishMoves
  <2>3. call[t].op # "post"
    BY <1>1 DEF WalkAt
  <2> QED BY <1>1, <2>2, <2>3
<1>2. CASE loc[t].xTicksToWait # 0
  <2>1. PICK l : l = IF loc[t].set THEN loc[t] ELSE SetTimeOut(loc[t], loc[t].xTicksToWait)
    OBVIOUS
  <2>2. loc[t].xTicksToWait \in 0 .. portMAX_DELAY
    BY DEF Locals
  <2>3. /\ l \in Locals /\ l.xTicksToWait = loc[t].xTicksToWait /\ l.set /\ l.path = loc[t].path
        /\ l.xInheritanceOccurred = loc[t].xInheritanceOccurred
    BY <2>1, <2>2, SetTimeOutIs
  <2>4. ret[t] = Pending
    BY DEF WalkAt
  <2>5. /\ pc' = [pc EXCEPT ![t] = "suspend"] /\ ret' = [ret EXCEPT ![t] = Pending]
        /\ loc' = [loc EXCEPT ![t] = l] /\ call' = [call EXCEPT ![t] = call[t]]
    <3>1. /\ Goto(t, "suspend") /\ UNCHANGED ret
          /\ loc' = IF loc[t].set THEN loc ELSE [loc EXCEPT ![t] = SetTimeOut(loc[t], loc[t].xTicksToWait)]
      BY <1>2 DEF Refuse
    <3> QED BY <2>1, <2>4, <3>1 DEF Goto
  <2>6. WalkAt("suspend", call[t], Pending, l)
    BY <1>2, <2>3 DEF WalkAt
  <2>7. Moves(t, "suspend", call[t], Pending, l)
    BY <2>3, <2>5, <2>6, Results DEF Moves, Steps
  <2> QED BY <1>2, <2>1, <2>3, <2>7
<1> QED BY <1>1, <1>2

\* A step inside a call.
LEMMA GoMoves ==
    ASSUME CallTypes, Walk, NEW t \in Tasks, NEW p \in Steps, NEW l \in Locals,
           WalkAt(p, call[t], ret[t], l),
           Goto(t, p), loc' = [loc EXCEPT ![t] = l], UNCHANGED <<call, ret>>
    PROVE  Moves(t, p, call[t], ret[t], l)
BY Here DEF Moves, Goto

\* vTaskSuspendAll(): where the task is afterwards.
LEMMA SuspendMoves ==
    ASSUME CallTypes, Walk, NEW t \in Tasks, Suspend(t)
    PROVE  Moves(t, "lock", call[t], ret[t], loc[t])
<1> USE Here
<1>1. WalkAt("lock", call[t], ret[t], loc[t])
  BY DEF WalkAt, Suspend, At
<1> QED BY <1>1, GoMoves DEF Suspend, Steps

\* prvLockQueue(): where the task is afterwards.
LEMMA LockMoves ==
    ASSUME CallTypes, Walk, NEW t \in Tasks, prvLockQueue(t)
    PROVE  Moves(t, "check", call[t], ret[t], loc[t])
<1> USE Here
<1>1. WalkAt("check", call[t], ret[t], loc[t])
  BY DEF WalkAt, prvLockQueue, At
<1> QED BY <1>1, GoMoves DEF prvLockQueue, Steps

\* The ticks since a task began to wait.
LEMMA ElapsedIs ==
    ASSUME Sane(k), CallTypes, Walk, NEW t \in Tasks
    PROVE  Elapsed(t) \in 0 .. portMAX_DELAY
<1>1. k.xTickCount \in Int /\ loc[t].xTimeOnEntering \in Int
  BY Here DEF Sane, KRec, Locals
<1>2. PICK d \in Int : d = k.xTickCount - loc[t].xTimeOnEntering
  BY <1>1
<1>3. d % TICKS \in 0 .. TICKS - 1
  BY Constants, ModRange
<1> QED BY <1>2, <1>3, Constants DEF Elapsed

\* xTaskCheckForTimeOut(): where the task is afterwards.
LEMMA CheckMoves ==
    ASSUME Sane(k), CallTypes, Walk, NEW t \in Tasks, xTaskCheckForTimeOut(t)
    PROVE  \/ \E l : /\ Moves(t, "unlock", call[t], ret[t], l)
                     /\ l.path = "expired" /\ Expired(t)
           \/ \E l : /\ Moves(t, "test", call[t], ret[t], l) /\ ~Expired(t)
                     /\ l = SetTimeOut(loc[t], loc[t].xTicksToWait - Elapsed(t))
                     /\ loc[t].xTicksToWait - Elapsed(t) \in 1 .. portMAX_DELAY
<1> USE Here
<1>1. pc[t] = "check"
  BY DEF xTaskCheckForTimeOut, At
<1>2. CASE Expired(t)
  <2>1. PICK n \in 0 .. portMAX_DELAY : n = IF Wrapped(t) THEN loc[t].xTicksToWait ELSE 0
    BY Constants DEF Locals
  <2>2. PICK l : l = [loc[t] EXCEPT !.path = "expired", !.xTicksToWait = n]
    OBVIOUS
  <2>3. /\ l \in Locals /\ l.path = "expired" /\ l.xTicksToWait = n
        /\ l.xInheritanceOccurred = loc[t].xInheritanceOccurred
    BY <2>2 DEF Locals
  <2>4. loc' = [loc EXCEPT ![t] = l] /\ Goto(t, "unlock") /\ UNCHANGED <<call, ret>>
    BY <1>2, <2>1, <2>2 DEF xTaskCheckForTimeOut, CallTypes
  <2>5. WalkAt("unlock", call[t], ret[t], l)
    BY <1>1, <2>3 DEF WalkAt
  <2>6. Moves(t, "unlock", call[t], ret[t], l)
    BY <2>3, <2>4, <2>5, GoMoves DEF Steps
  <2> QED BY <1>2, <2>3, <2>6
<1>3. CASE ~Expired(t)
  <2>1. PICK n \in 1 .. portMAX_DELAY : n = loc[t].xTicksToWait - Elapsed(t)
    <3>1. loc[t].xTicksToWait \in 0 .. portMAX_DELAY
      BY DEF Locals
    <3>2. ~(Elapsed(t) >= loc[t].xTicksToWait)
      BY <1>3 DEF Expired
    <3> QED BY <3>1, <3>2, ElapsedIs, Constants
  <2>2. PICK l : l = SetTimeOut(loc[t], n)
    OBVIOUS
  <2>3. /\ l \in Locals /\ l.path = loc[t].path /\ l.xTicksToWait = n /\ l.set
        /\ l.xInheritanceOccurred = loc[t].xInheritanceOccurred
    BY <2>2, SetTimeOutIs
  <2>4. loc' = [loc EXCEPT ![t] = l] /\ Goto(t, "test") /\ UNCHANGED <<call, ret>>
    BY <1>3, <2>1, <2>2 DEF xTaskCheckForTimeOut, CallTypes
  <2>5. WalkAt("test", call[t], ret[t], l)
    BY <1>1, <2>3 DEF WalkAt
  <2>6. Moves(t, "test", call[t], ret[t], l)
    BY <2>3, <2>4, <2>5, GoMoves DEF Steps
  <2> QED BY <1>3, <2>1, <2>2, <2>6
<1> QED BY <1>2, <1>3

\* The test of the queue: where the task is afterwards.
LEMMA TestMoves ==
    ASSUME CallTypes, Walk, NEW t \in Tasks, TestQueue(t)
    PROVE  \/ Moves(t, "place", call[t], ret[t], loc[t])
           \/ \E l : /\ Moves(t, "unlock", call[t], ret[t], l)
                     /\ l = [loc[t] EXCEPT !.path = "again"] /\ l.path = "again"
<1> USE Here
<1>1. pc[t] = "test"
  BY DEF TestQueue, At
<1>2. CASE Goto(t, "place") /\ UNCHANGED loc
  <2>1. WalkAt("place", call[t], ret[t], loc[t])
    BY <1>1 DEF WalkAt
  <2> QED BY <1>2, <2>1, GoMoves DEF Steps, TestQueue
<1>3. CASE Leave(t, "again")
  <2>1. PICK l : l = [loc[t] EXCEPT !.path = "again"]
    OBVIOUS
  <2>2. /\ l \in Locals /\ l.path = "again" /\ l.xTicksToWait = loc[t].xTicksToWait
        /\ l.xInheritanceOccurred = loc[t].xInheritanceOccurred
    BY <2>1 DEF Locals
  <2>3. loc' = [loc EXCEPT ![t] = l] /\ Goto(t, "unlock") /\ UNCHANGED <<call, ret>>
    BY <1>3, <2>1 DEF TestQueue, Leave, CallTypes
  <2>4. WalkAt("unlock", call[t], ret[t], l)
    BY <1>1, <2>2 DEF WalkAt
  <2> QED BY <2>1, <2>2, <2>3, <2>4, GoMoves DEF Steps
<1> QED BY <1>2, <1>3 DEF TestQueue

\* The queue of a call.
LEMMA TargetIs ==
    ASSUME CallTypes, Walk, NEW t \in Tasks
    PROVE  /\ Target(t) \in Queues
           /\ Target(t) # mbox <=> call[t].op \in {"lock", "unlock"}
           /\ call[t].op \in {"lock", "unlock"} => Target(t) = call[t].mutex /\ Target(t) \in Mutexes
           /\ Side(t) \in {"send", "recv"}
<1>1. call[t] \in CallRecs
  BY Here
<1>2. call[t].op \in {"lock", "unlock"} => call[t].mutex \in Mutexes
  BY <1>1, CallRec
<1> QED BY <1>2, Constants DEF Target, Side

\* The task whose priority is raised.
HolderOf(t) == IF Target(t) = mbox THEN NULL ELSE xMutexHolder[Target(t)]

\* Going to sleep: where the task is afterwards.
LEMMA PlaceMoves ==
    ASSUME CallTypes, Walk, NEW t \in Tasks, Place(t)
    PROVE  \E l : /\ Moves(t, "unlock", call[t], ret[t], l) /\ l.path = "blocked"
                  /\ l.xTicksToWait = loc[t].xTicksToWait /\ l.set = loc[t].set
                  /\ l.xOverflowCount = loc[t].xOverflowCount
                  /\ l.xTimeOnEntering = loc[t].xTimeOnEntering
<1> USE Here
<1>1. pc[t] = "place"
  BY DEF Place, At
<1>2. /\ loc' = [loc EXCEPT ![t].path = "blocked", ![t].xInheritanceOccurred = Inherited(k, HolderOf(t))]
      /\ Goto(t, "unlock") /\ UNCHANGED <<call, ret>>
  BY Zenon DEF Place, HolderOf
<1>3. Inherited(k, HolderOf(t)) \in BOOLEAN /\ (Inherited(k, HolderOf(t)) => call[t].op = "lock")
  <2>1. Inherited(k, HolderOf(t)) \in BOOLEAN
    BY DEF Inherited
  <2>2. Inherited(k, HolderOf(t)) => HolderOf(t) # NULL
    BY DEF Inherited
  <2>3. HolderOf(t) # NULL => call[t].op \in {"lock", "unlock"}
    BY TargetIs DEF HolderOf
  <2>4. call[t].op # "unlock"
    BY <1>1 DEF WalkAt
  <2> QED BY <2>1, <2>2, <2>3, <2>4
<1>4. PICK l : l = [loc[t] EXCEPT !.path = "blocked", !.xInheritanceOccurred = Inherited(k, HolderOf(t))]
  OBVIOUS
<1>5. /\ l \in Locals /\ l.path = "blocked" /\ l.xTicksToWait = loc[t].xTicksToWait
      /\ l.xInheritanceOccurred = Inherited(k, HolderOf(t)) /\ l.set = loc[t].set
      /\ l.xOverflowCount = loc[t].xOverflowCount /\ l.xTimeOnEntering = loc[t].xTimeOnEntering
  BY <1>3, <1>4 DEF Locals
<1>6. loc' = [loc EXCEPT ![t] = l]
  BY <1>2, <1>4 DEF CallTypes
<1>7. WalkAt("unlock", call[t], ret[t], l)
  BY <1>1, <1>3, <1>5 DEF WalkAt
<1>8. Moves(t, "unlock", call[t], ret[t], l)
  BY <1>2, <1>5, <1>6, <1>7, GoMoves DEF Steps
<1> QED BY <1>5, <1>8

\* prvUnlockQueue(): where the task is afterwards.
LEMMA UnlockMoves ==
    ASSUME CallTypes, Walk, NEW t \in Tasks, prvUnlockQueue(t)
    PROVE  Moves(t, "resume", call[t], ret[t], loc[t])
<1> USE Here
<1>1. WalkAt("resume", call[t], ret[t], loc[t])
  BY DEF WalkAt, prvUnlockQueue, At
<1> QED BY <1>1, GoMoves DEF prvUnlockQueue, Steps

\* After xTaskResumeAll(): return from a delay, start over, look again or retry.
LEMMA ResumeMoves ==
    ASSUME CallTypes, Walk, NEW t \in Tasks, Resume(t)
    PROVE  \/ call[t].op = "delay" /\ \E l : Moves(t, "return", call[t], Ok, l)
           \/ /\ call[t].op = "post" /\ loc[t].path = "expired"
              /\ \E l : Moves(t, "try", call[t], ret[t], l)
           \/ /\ call[t].op \notin {"delay", "post"} /\ loc[t].path = "expired"
              /\ \E l : Moves(t, "recheck", call[t], ret[t], l)
           \/ /\ call[t].op # "delay" /\ loc[t].path # "expired"
              /\ \E l : /\ Moves(t, "try", call[t], ret[t], l)
                        /\ l.xTicksToWait = loc[t].xTicksToWait /\ l.set = loc[t].set
                        /\ l.xOverflowCount = loc[t].xOverflowCount
                        /\ l.xTimeOnEntering = loc[t].xTimeOnEntering
<1> USE Here
<1>1. pc[t] = "resume" /\ ret[t] = Pending
  BY DEF Resume, At, WalkAt
<1>2. call[t].op \notin {"trypost", "tryfetch", "unlock", "none"}
  BY <1>1, CallRec DEF WalkAt
<1>3. Posting(t) <=> call[t].op = "post"
  BY <1>2 DEF Posting
<1>4. PICK z : z = [loc[t] EXCEPT !.path = "none"]
  OBVIOUS
<1>5. /\ z \in Locals /\ z.path = "none" /\ z.xTicksToWait = loc[t].xTicksToWait
      /\ z.xInheritanceOccurred = loc[t].xInheritanceOccurred /\ z.set = loc[t].set
      /\ z.xOverflowCount = loc[t].xOverflowCount /\ z.xTimeOnEntering = loc[t].xTimeOnEntering
  BY <1>4 DEF Locals
<1>6. ~(loc[t].path = "expired" /\ Posting(t)) => loc' = [loc EXCEPT ![t] = z]
  <2>1. loc' = [loc EXCEPT ![t] = IF loc[t].path = "expired" /\ Posting(t)
                                  THEN [NoLoc EXCEPT !.xTicksToWait = portMAX_DELAY]
                                  ELSE [loc[t] EXCEPT !.path = "none"]]
    BY Zenon DEF Resume
  <2> QED BY <1>4, <2>1
<1>7. CASE call[t].op = "delay"
  <2>1. Goto(t, "return") /\ ret' = [ret EXCEPT ![t] = Ok] /\ UNCHANGED call
    BY <1>7, Zenon DEF Resume
  <2>2. loc' = [loc EXCEPT ![t] = z]
    BY <1>3, <1>6, <1>7
  <2>3. WalkAt("return", call[t], Ok, z)
    BY <1>1, <1>5, <1>7, Results DEF WalkAt
  <2>4. Moves(t, "return", call[t], Ok, z)
    BY <1>5, <2>1, <2>2, <2>3, Results DEF Moves, Goto, Steps
  <2> QED BY <1>7, <2>4
<1>8. CASE call[t].op = "post" /\ loc[t].path = "expired"
  <2>1. Goto(t, "try") /\ ret' = ret /\ UNCHANGED call
    BY <1>3, <1>8, Zenon DEF Resume
  <2>2. PICK l : l = [NoLoc EXCEPT !.xTicksToWait = portMAX_DELAY]
    OBVIOUS
  <2>3. /\ l \in Locals /\ l.path = "none" /\ l.xTicksToWait = portMAX_DELAY
        /\ ~l.xInheritanceOccurred
    <3>1. PICK y \in Locals : y = NoLoc /\ ~y.xInheritanceOccurred /\ y.path = "none"
      BY NoLocIs
    <3>2. portMAX_DELAY \in 0 .. portMAX_DELAY
      BY Constants
    <3> QED BY <2>2, <3>1, <3>2 DEF Locals
  <2>4. loc' = [loc EXCEPT ![t] = l]
    <3>1. loc' = [loc EXCEPT ![t] = IF loc[t].path = "expired" /\ Posting(t)
                                    THEN [NoLoc EXCEPT !.xTicksToWait = portMAX_DELAY]
                                    ELSE [loc[t] EXCEPT !.path = "none"]]
      BY Zenon DEF Resume
    <3> QED BY <1>3, <1>8, <2>2, <3>1
  <2>5. WalkAt("try", call[t], ret[t], l)
    BY <1>1, <1>8, <2>3, Constants DEF WalkAt
  <2>6. Moves(t, "try", call[t], ret[t], l)
    BY <2>1, <2>3, <2>4, <2>5, GoMoves DEF Steps
  <2> QED BY <1>8, <2>6
<1>9. CASE call[t].op \notin {"delay", "post"} /\ loc[t].path = "expired"
  <2>1. Goto(t, "recheck") /\ ret' = ret /\ UNCHANGED call
    BY <1>3, <1>9, Zenon DEF Resume
  <2>2. loc' = [loc EXCEPT ![t] = z]
    BY <1>3, <1>6, <1>9
  <2>3. WalkAt("recheck", call[t], ret[t], z)
    BY <1>1, <1>2, <1>5, <1>9 DEF WalkAt
  <2>4. Moves(t, "recheck", call[t], ret[t], z)
    BY <1>5, <2>1, <2>2, <2>3, GoMoves DEF Steps
  <2> QED BY <1>9, <2>4
<1>10. CASE call[t].op # "delay" /\ loc[t].path # "expired"
  <2>1. Goto(t, "try") /\ ret' = ret /\ UNCHANGED call
    BY <1>10, Zenon DEF Resume
  <2>2. loc' = [loc EXCEPT ![t] = z]
    BY <1>6, <1>10
  <2>3. WalkAt("try", call[t], ret[t], z)
    BY <1>1, <1>2, <1>5, <1>10 DEF WalkAt
  <2>4. Moves(t, "try", call[t], ret[t], z)
    BY <1>5, <2>1, <2>2, <2>3, GoMoves DEF Steps
  <2> QED BY <1>5, <1>10, <2>4
<1> QED BY <1>7, <1>8, <1>9, <1>10

\* The last look after a timeout: where the task is afterwards.
LEMMA RecheckMoves ==
    ASSUME CallTypes, Walk, NEW t \in Tasks, Recheck(t)
    PROVE  \/ Moves(t, "try", call[t], ret[t], loc[t]) /\ uxMessagesWaiting[Target(t)] > 0
           \/ Moves(t, "return", call[t], Failed, loc[t]) /\ ~(uxMessagesWaiting[Target(t)] > 0)
<1> USE Here
<1>1. pc[t] = "recheck"
  BY DEF Recheck, At
<1>2. CASE uxMessagesWaiting[Target(t)] > 0
  <2>1. Goto(t, "try") /\ UNCHANGED <<call, ret, loc>>
    BY <1>2, Zenon DEF Recheck
  <2>2. WalkAt("try", call[t], ret[t], loc[t])
    BY <1>1 DEF WalkAt
  <2> QED BY <1>2, <2>1, <2>2, GoMoves DEF Steps
<1>3. CASE ~(uxMessagesWaiting[Target(t)] > 0)
  <2>1. Finish(t, Failed) /\ UNCHANGED <<call, loc>>
    BY <1>3, Zenon DEF Recheck
  <2> QED BY <1>1, <1>3, <2>1, Results, FinishMoves
<1> QED BY <1>2, <1>3

\* The return of a call: where the task is afterwards.
LEMMA ReturnMoves ==
    ASSUME CallTypes, Walk, NEW t \in Tasks, Return(t)
    PROVE  /\ Moves(t, "idle", NoCall, Pending, NoLoc)
           /\ owns' \in [AllTasks -> SUBSET Mutexes]
           /\ \A u \in AllTasks \ {t} : owns'[u] = owns[u]
           /\ call[t].op = "lock" => owns'[t] = owns[t] \cup {call[t].mutex}
           /\ call[t].op = "unlock" => owns'[t] = owns[t] \ {call[t].mutex}
           /\ call[t].op \notin {"lock", "unlock"} => owns'[t] = owns[t]
<1> USE Here
<1>1. WalkAt("idle", NoCall, Pending, NoLoc)
  BY NewCall, NoLocIs DEF WalkAt
<1>2. Moves(t, "idle", NoCall, Pending, NoLoc)
  BY <1>1, NewCall, NoLocIs, Results DEF Moves, Steps, Return, Goto
<1>3. PICK o : o = CASE call[t].op = "lock"   -> owns[t] \cup {call[t].mutex}
                     [] call[t].op = "unlock" -> owns[t] \ {call[t].mutex}
                     [] OTHER -> owns[t]
  OBVIOUS
<1>4. owns' = [owns EXCEPT ![t] = o]
  BY <1>3, Zenon DEF Return
<1>5. /\ call[t].op = "lock" => o = owns[t] \cup {call[t].mutex}
      /\ call[t].op = "unlock" => o = owns[t] \ {call[t].mutex}
      /\ call[t].op \notin {"lock", "unlock"} => o = owns[t]
  BY <1>3, Zenon
<1>6. owns[t] \in SUBSET Mutexes /\ owns \in [AllTasks -> SUBSET Mutexes]
  BY DEF CallTypes
<1>7. o \in SUBSET Mutexes
  BY <1>5, <1>6, CallRec
<1> QED BY <1>2, <1>4, <1>5, <1>6, <1>7

\* A call is served or refused in one step.
LEMMA SendMoves ==
    ASSUME CallTypes, Walk, NEW t \in Tasks, TrySend(t)
    PROVE  \/ /\ Refuse(t) /\ call' = call /\ pc[t] = "try"
              /\ uxMessagesWaiting[Target(t)] >= uxLength(Target(t))
           \/ /\ Moves(t, "return", call[t], Ok, loc[t])
              /\ ~(uxMessagesWaiting[Target(t)] >= uxLength(Target(t)))
<1>1. pc[t] = "try" /\ call' = call
  BY DEF TrySend, At
<1>2. CASE uxMessagesWaiting[Target(t)] >= uxLength(Target(t))
  BY <1>1, <1>2, Zenon DEF TrySend
<1>3. CASE ~(uxMessagesWaiting[Target(t)] >= uxLength(Target(t)))
  <2>1. Finish(t, Ok) /\ UNCHANGED loc
    BY <1>3, Zenon DEF TrySend
  <2> QED BY <1>1, <1>3, <2>1, Results, FinishMoves
<1> QED BY <1>2, <1>3

\* TryReceive: where the task is afterwards.
LEMMA ReceiveMoves ==
    ASSUME CallTypes, Walk, QueueTypes, NEW t \in Tasks, TryReceive(t)
    PROVE  \/ Refuse(t) /\ call' = call /\ pc[t] = "try" /\ uxMessagesWaiting[mbox] = 0
           \/ /\ Moves(t, "return", call[t], Got(ring[NextSlot(pcReadFrom)]), loc[t])
              /\ uxMessagesWaiting[mbox] # 0
<1>1. pc[t] = "try" /\ call' = call
  BY DEF TryReceive, At
<1>2. CASE uxMessagesWaiting[mbox] = 0
  BY <1>1, <1>2, Zenon DEF TryReceive
<1>3. CASE uxMessagesWaiting[mbox] # 0
  <2>1. Finish(t, Got(ring[NextSlot(pcReadFrom)])) /\ UNCHANGED loc
    BY <1>3, Zenon DEF TryReceive
  <2>2. NextSlot(pcReadFrom) \in 0 .. MBOX_SIZE - 1
    BY ModRange, Constants DEF NextSlot, QueueTypes
  <2>3. ring[NextSlot(pcReadFrom)] \in Msgs \cup {NULL}
    BY <2>2 DEF QueueTypes
  <2> QED BY <1>1, <1>3, <2>1, <2>3, Results, FinishMoves
<1> QED BY <1>2, <1>3

\* TryTake: where the task is afterwards.
LEMMA TakeMoves ==
    ASSUME CallTypes, Walk, NEW t \in Tasks, TryTake(t)
    PROVE  \/ Refuse(t) /\ call' = call /\ pc[t] = "try" /\ uxMessagesWaiting[Target(t)] = 0
           \/ Moves(t, "return", call[t], Ok, loc[t]) /\ uxMessagesWaiting[Target(t)] # 0
<1>1. pc[t] = "try" /\ call' = call
  BY DEF TryTake, At
<1>2. CASE uxMessagesWaiting[Target(t)] = 0
  BY <1>1, <1>2, Zenon DEF TryTake
<1>3. CASE uxMessagesWaiting[Target(t)] # 0
  <2>1. Finish(t, Ok) /\ UNCHANGED loc
    BY <1>3, Zenon DEF TryTake
  <2> QED BY <1>1, <1>3, <2>1, Results, FinishMoves
<1> QED BY <1>2, <1>3

\* A step that leaves the queues alone.
LEMMA QueueSame ==
    ASSUME QueueInv, UNCHANGED <<ring, pcWriteTo, pcReadFrom, uxMessagesWaiting, xMutexHolder>>,
           cTxLock' \in [Queues -> Int]
    PROVE  QueueInv'
BY DEF QueueInv, QueueTypes, Ring, Holders, uxLength

\* prvCopyDataToQueue() of a message, by a task or by the interrupt.
LEMMA StoreKeeps ==
    ASSUME QueueInv, NEW m \in Msgs, Store(m), uxMessagesWaiting[mbox] < MBOX_SIZE,
           uxMessagesWaiting' = [uxMessagesWaiting EXCEPT ![mbox] = @ + 1],
           UNCHANGED <<pcReadFrom, xMutexHolder>>, cTxLock' \in [Queues -> Int]
    PROVE  QueueInv'
<1>1. PICK w \in Nat : w = uxMessagesWaiting[mbox] /\ w < MBOX_SIZE
  BY Constants DEF QueueInv, QueueTypes
<1>2. PICK n \in Nat \ {0} : n = MBOX_SIZE
  BY Constants
<1>3. PICK i \in 0 .. n - 1 : i = pcReadFrom
  BY <1>2 DEF QueueInv, QueueTypes
<1>4. uxMessagesWaiting'[mbox] = w + 1 /\ \A q \in Queues \ {mbox} : uxMessagesWaiting'[q] = uxMessagesWaiting[q]
  BY <1>1, Constants DEF QueueInv, QueueTypes
<1>5. pcWriteTo' = (i + 1 + (w + 1)) % n
  <2>1. pcWriteTo = (i + 1 + w) % n /\ pcWriteTo' = (pcWriteTo + 1) % n
    BY <1>1, <1>2, <1>3 DEF QueueInv, Ring, Store, NextSlot
  <2>2. PICK a \in Int : a = i + 1 + w
    OBVIOUS
  <2>3. 0 <= a /\ a < n + n
    BY <1>1, <1>2, <1>3, <2>2
  <2>4. ((a % n) + 1) % n = (a + 1) % n
    BY <2>3, ModNext
  <2>5. i + 1 + (w + 1) = a + 1
    BY <1>3, <2>2
  <2> QED BY <2>1, <2>2, <2>4, <2>5
<1>6. Ring'
  BY <1>2, <1>3, <1>4, <1>5 DEF Ring
<1>7. /\ ring' \in [0 .. MBOX_SIZE - 1 -> Msgs \cup {NULL}]
      /\ pcWriteTo' \in 0 .. MBOX_SIZE - 1 /\ pcReadFrom' \in 0 .. MBOX_SIZE - 1
  <2>1. i + 1 + (w + 1) \in Int
    BY <1>3
  <2>2. (i + 1 + (w + 1)) % n \in 0 .. n - 1
    BY <2>1, ModRange
  <2> QED BY <1>2, <1>3, <1>5, <2>2 DEF QueueInv, QueueTypes, Store
<1>8. uxMessagesWaiting' \in [Queues -> Nat] /\ \A q \in Queues : uxMessagesWaiting'[q] <= uxLength(q)
  <2>1. uxLength(mbox) = n
    BY <1>2 DEF uxLength
  <2>2. uxMessagesWaiting' \in [Queues -> Nat]
    BY <1>1, Constants DEF QueueInv, QueueTypes
  <2> QED BY <1>1, <1>2, <1>4, <2>1, <2>2 DEF QueueInv, QueueTypes
<1>9. QueueTypes'
  BY <1>7, <1>8 DEF QueueInv, QueueTypes, uxLength
<1>10. Holders'
  BY <1>4, Constants DEF QueueInv, Holders
<1> QED BY <1>6, <1>9, <1>10 DEF QueueInv

\* A mutex is given back or taken.
LEMMA MutexKeeps ==
    ASSUME QueueInv, NEW q \in Mutexes, NEW h \in Tasks \cup {NULL}, NEW n \in 0 .. 1,
           h = NULL <=> n = 1,
           uxMessagesWaiting' = [uxMessagesWaiting EXCEPT ![q] = n],
           xMutexHolder' = [xMutexHolder EXCEPT ![q] = h],
           UNCHANGED <<ring, pcWriteTo, pcReadFrom>>, cTxLock' \in [Queues -> Int]
    PROVE  QueueInv'
<1>1. /\ uxMessagesWaiting' \in [Queues -> Nat]
      /\ uxMessagesWaiting'[q] = n /\ \A x \in Queues \ {q} : uxMessagesWaiting'[x] = uxMessagesWaiting[x]
  BY Constants DEF QueueInv, QueueTypes
<1>2. /\ xMutexHolder' \in [Mutexes -> Tasks \cup {NULL}]
      /\ xMutexHolder'[q] = h /\ \A x \in Mutexes \ {q} : xMutexHolder'[x] = xMutexHolder[x]
  BY DEF QueueInv, QueueTypes
<1>3. uxMessagesWaiting'[mbox] = uxMessagesWaiting[mbox] /\ uxLength(q) = 1
  BY <1>1, Constants DEF uxLength
<1>4. \A x \in Queues : uxMessagesWaiting'[x] <= uxLength(x)
  BY <1>1, <1>3 DEF QueueInv, QueueTypes
<1>5. QueueTypes'
  BY <1>1, <1>2, <1>4 DEF QueueInv, QueueTypes, uxLength
<1>6. Holders'
  BY <1>1, <1>2, Constants DEF QueueInv, Holders
<1>7. Ring'
  BY <1>3 DEF QueueInv, Ring
<1> QED BY <1>5, <1>6, <1>7 DEF QueueInv

\* prvCopyDataFromQueue()
LEMMA FetchKeeps ==
    ASSUME QueueInv, uxMessagesWaiting[mbox] # 0, pcReadFrom' = NextSlot(pcReadFrom),
           uxMessagesWaiting' = [uxMessagesWaiting EXCEPT ![mbox] = @ - 1],
           UNCHANGED <<ring, pcWriteTo, cTxLock, xMutexHolder>>
    PROVE  QueueInv'
<1>1. PICK w \in Nat : w = uxMessagesWaiting[mbox] /\ w > 0
  BY Constants DEF QueueInv, QueueTypes
<1>2. PICK n \in Nat \ {0} : n = MBOX_SIZE
  BY Constants
<1>3. PICK i \in 0 .. n - 1 : i = pcReadFrom
  BY <1>2 DEF QueueInv, QueueTypes
<1>4. uxMessagesWaiting'[mbox] = w - 1 /\ \A q \in Queues \ {mbox} : uxMessagesWaiting'[q] = uxMessagesWaiting[q]
  BY <1>1, Constants DEF QueueInv, QueueTypes
<1>5. w <= n
  BY <1>1, <1>2, Constants DEF QueueInv, QueueTypes, uxLength
<1>6. PICK j \in 0 .. n - 1 : /\ j = pcReadFrom'
                              /\ j = IF i + 1 < n THEN i + 1 ELSE 0
  <2>1. pcReadFrom' = (i + 1) % n
    BY <1>2, <1>3 DEF NextSlot
  <2>2. (i + 1) % n = IF i + 1 < n THEN i + 1 ELSE 0
    <3>1. i + 1 \in Int /\ -n <= i + 1 /\ ~(i + 1 < 0) /\ i + 1 <= n
      BY <1>3
    <3>2. CASE i + 1 < n + n
      <4>1. (i + 1) % n = IF i + 1 < n THEN i + 1 ELSE i + 1 - n
        BY <3>1, <3>2, WrapOne
      <4> QED BY <3>1, <4>1
    <3> QED BY <3>1, <3>2
  <2> QED BY <1>3, <2>1, <2>2
<1>7. (i + 1 + w) % n = (j + 1 + (w - 1)) % n
  <2>1. CASE i + 1 < n
    BY <1>1, <1>3, <1>6, <2>1
  <2>2. CASE i + 1 = n
    <3>1. j + 1 + (w - 1) = w /\ i + 1 + w = n + w
      BY <1>1, <1>6, <2>2
    <3>2. (n + w) % n = w % n
      <4>1. CASE w < n
        <5>1. n + w \in Int /\ -n <= n + w /\ n + w < n + n /\ ~(n + w < 0) /\ ~(n + w < n)
          BY <4>1
        <5>2. (n + w) % n = w
          BY <5>1, Wrap
        <5>3. w % n = w
          BY <4>1
        <5> QED BY <5>2, <5>3
      <4>2. CASE w = n
        <5>1. (n + n) % n = 0 /\ n % n = 0
          OBVIOUS
        <5> QED BY <4>2, <5>1
      <4> QED BY <1>5, <4>1, <4>2
    <3> QED BY <3>1, <3>2
  <2> QED BY <1>3, <2>1, <2>2
<1>8. Ring'
  BY <1>1, <1>2, <1>3, <1>4, <1>6, <1>7 DEF QueueInv, Ring
<1>9. uxMessagesWaiting' \in [Queues -> Nat] /\ \A q \in Queues : uxMessagesWaiting'[q] <= uxLength(q)
  <2>1. uxLength(mbox) = n
    BY <1>2 DEF uxLength
  <2>2. uxMessagesWaiting' \in [Queues -> Nat]
    BY <1>1, Constants DEF QueueInv, QueueTypes
  <2> QED BY <1>1, <1>4, <1>5, <2>1, <2>2 DEF QueueInv, QueueTypes
<1>10. QueueTypes'
  BY <1>2, <1>6, <1>9 DEF QueueInv, QueueTypes, uxLength
<1>11. Holders'
  BY <1>4, Constants DEF QueueInv, Holders
<1> QED BY <1>8, <1>10, <1>11 DEF QueueInv

\* A step of the running task keeps track of who suspended the scheduler.
LEMMA SchedulerStep ==
    ASSUME Scheduler, CallTypes, NEW t \in Tasks, t = cur, cur' = cur, NEW p,
           pc' = [pc EXCEPT ![t] = p], k'.uxSchedulerSuspended <=> p \in Suspending
    PROVE  Scheduler'
BY Constants DEF Scheduler, CallTypes

\* Locks, as long as nobody holds one.
LEMMA LocksFree ==
    ASSUME Locks, pc[cur] \notin Locking, (pc[cur] \notin Locking)', cTxLock' = cTxLock
    PROVE  Locks'
BY DEF Locks, LocksQueue

\* The current task keeps its lock.
LEMMA LocksHeld ==
    ASSUME Locks, pc[cur] \in Locking, (pc[cur] \in Locking)', (call[cur])' = call[cur],
           UNCHANGED <<cTxLock, uxMessagesWaiting>>
    PROVE  Locks'
BY DEF Locks, LocksQueue, Target

\* Whoever steps was at a step of his call, and nowhere else than the current task.
LEMMA StepKeeps ==
    ASSUME KernelInv, NEW t \in Tasks, t = cur, cur' = cur,
           NEW p, NEW c, NEW r, NEW l, Moves(t, p, c, r, l),
           owns' \in [AllTasks -> SUBSET Mutexes],
           k'.uxSchedulerSuspended <=> p \in Suspending,
           QueueInv', TaskInv', Locks'
    PROVE  KernelInv'
<1>1. CallTypes' /\ Walk'
  BY MovesKeeps DEF KernelInv
<1>2. Scheduler'
  BY SchedulerStep DEF KernelInv, Moves
<1> QED BY <1>1, <1>2 DEF KernelInv

\* Steps that change neither the queues nor tasks.c.
LEMMA QuietStep ==
    ASSUME KernelInv, NEW t \in Tasks, t = cur, k' = k, UNCHANGED <<queueVars, owns>>,
           NEW p, NEW c, NEW r, NEW l, Moves(t, p, c, r, l),
           p \in Suspending <=> pc[t] \in Suspending,
           p \in Locking <=> pc[t] \in Locking,
           p \in Locking => c = call[t]
    PROVE  KernelInv'
<1>1. t \in AllTasks /\ pc'[t] = p /\ call'[t] = c
  BY Constants DEF Moves, KernelInv, CallTypes
<1>2. cur' = cur /\ (k'.uxSchedulerSuspended <=> p \in Suspending)
  BY DEF KernelInv, Scheduler, cur
<1>3. Locks'
  <2>1. CASE p \in Locking
    BY <1>1, <1>2, <2>1, LocksHeld DEF KernelInv, queueVars
  <2>2. CASE p \notin Locking
    BY <1>1, <1>2, <2>2, LocksFree DEF KernelInv, queueVars
  <2> QED BY <2>1, <2>2
<1>4. QueueInv' /\ TaskInv'
  <2>1. QueueInv'
    BY QueueSame DEF KernelInv, QueueInv, QueueTypes, queueVars
  <2>2. TaskInv'
    BY DEF KernelInv, TaskInv, Counts, Held, queueVars
  <2> QED BY <2>1, <2>2
<1>5. owns' \in [AllTasks -> SUBSET Mutexes]
  BY DEF KernelInv, CallTypes
<1> QED BY <1>2, <1>3, <1>4, <1>5, StepKeeps

\* The begin of a call keeps the invariant of the first layer.
LEMMA BeginKeeps ==
    ASSUME KernelInv, NEW t \in Tasks, Begin(t)
    PROVE  KernelInv'
<1>1. t = cur /\ pc[t] = "idle" /\ k' = k /\ UNCHANGED <<queueVars, owns>>
  BY DEF Begin, At
<1>2. PICK c, l : Moves(t, "try", c, Pending, l)
  BY BeginMoves DEF KernelInv
<1> QED BY <1>1, <1>2, QuietStep DEF Suspending, Locking

\* Refuse keeps the invariant of the first layer.
LEMMA RefuseKeeps ==
    ASSUME KernelInv, NEW t \in Tasks, t = cur, pc[t] = "try", call' = call, owns' = owns, Refuse(t)
    PROVE  KernelInv'
<1>1. k' = k /\ UNCHANGED queueVars
  BY DEF Refuse
<1>2. \E p \in {"return", "suspend"} : \E r, l : Moves(t, p, call[t], r, l)
  BY RefuseMoves DEF KernelInv, TaskInv
<1> QED BY <1>1, <1>2, QuietStep DEF Suspending, Locking

\* xTaskCheckForTimeOut() keeps the invariant of the first layer.
LEMMA CheckKeeps ==
    ASSUME KernelInv, NEW t \in Tasks, xTaskCheckForTimeOut(t)
    PROVE  KernelInv'
<1>1. t = cur /\ pc[t] = "check" /\ k' = k /\ UNCHANGED <<queueVars, owns>>
  BY DEF xTaskCheckForTimeOut, At
<1>2. \E p \in {"unlock", "test"} : \E l : Moves(t, p, call[t], ret[t], l)
  BY CheckMoves DEF KernelInv, TaskInv
<1> QED BY <1>1, <1>2, QuietStep DEF Suspending, Locking

\* The test of the queue keeps the invariant of the first layer.
LEMMA TestKeeps ==
    ASSUME KernelInv, NEW t \in Tasks, TestQueue(t)
    PROVE  KernelInv'
<1>1. t = cur /\ pc[t] = "test" /\ k' = k /\ UNCHANGED <<queueVars, owns>>
  BY DEF TestQueue, At
<1>2. \E p \in {"unlock", "place"} : \E l : Moves(t, p, call[t], ret[t], l)
  BY TestMoves DEF KernelInv
<1> QED BY <1>1, <1>2, QuietStep DEF Suspending, Locking

\* The return of a call keeps the invariant of the first layer.
LEMMA ReturnKeeps ==
    ASSUME KernelInv, NEW t \in Tasks, Return(t)
    PROVE  KernelInv'
<1>1. t = cur /\ pc[t] = "return" /\ k' = k /\ UNCHANGED queueVars
  BY DEF Return, At
<1>2. Moves(t, "idle", NoCall, Pending, NoLoc) /\ owns' \in [AllTasks -> SUBSET Mutexes]
  BY ReturnMoves DEF KernelInv
<1>3. t \in AllTasks /\ pc'[t] = "idle"
  BY <1>2, Constants DEF Moves, KernelInv, CallTypes
<1>4. cur' = cur /\ (k'.uxSchedulerSuspended <=> "idle" \in Suspending)
  BY <1>1 DEF KernelInv, Scheduler, cur, Suspending
<1>5. Locks'
  BY <1>1, <1>3, <1>4, LocksFree DEF KernelInv, queueVars, Locking
<1>6. QueueInv' /\ TaskInv'
  <2>1. QueueInv'
    BY <1>1, QueueSame DEF KernelInv, QueueInv, QueueTypes, queueVars
  <2>2. TaskInv'
    BY <1>1 DEF KernelInv, TaskInv, Counts, Held, queueVars
  <2> QED BY <2>1, <2>2
<1> QED BY <1>1, <1>2, <1>4, <1>5, <1>6, StepKeeps

\* vTaskSuspendAll()
LEMMA SuspendIs ==
    ASSUME NEW s, Sane(s), NEW r, r = [s EXCEPT !.uxSchedulerSuspended = TRUE]
    PROVE  /\ Sane(r) /\ r.uxSchedulerSuspended /\ r.pxCurrentTCB = s.pxCurrentTCB
           /\ SameClock(s, r) /\ SameHeld(s, r) /\ SameYield(s, r)
           /\ Asleep(r) = Asleep(s) /\ (Sound(s) => Sound(r))
<1>1. s \in KRec /\ Raised(s)
  BY DEF Sane
<1>2. r \in KRec /\ r.uxSchedulerSuspended /\ r.pxCurrentTCB = s.pxCurrentTCB
  BY <1>1 DEF KRec
<1>3. /\ SameReady(s, r) /\ SameSleep(s, r) /\ SameEvents(s, r) /\ SamePending(s, r)
      /\ SameClock(s, r) /\ SameNext(s, r) /\ SameYield(s, r) /\ SamePrio(s, r) /\ SameHeld(s, r)
  BY <1>1 DEF KRec, SameReady, SameSleep, SameEvents, SamePending, SameClock, SameNext, SameYield,
              SamePrio, SameHeld
<1>4. Asleep(r) = Asleep(s) /\ (Sound(s) => Sound(r))
  BY <1>3 DEF Sound, Placed, Timely, Exact, Listed, Asleep, SameReady, SameSleep, SameEvents,
              SamePending, SameClock, SameNext, SamePrio
<1>5. Sane(r)
  BY <1>1, <1>2, <1>3 DEF Sane, Raised, Flushed, SameReady, SamePrio
<1> QED BY <1>2, <1>3, <1>4, <1>5

\* vTaskDelay(1), with the scheduler suspended.
LEMMA DelayIs ==
    ASSUME NEW s, Sane(s), s.pxCurrentTCB \in Tasks,
           NEW r, r = [prvAddCurrentTaskToDelayedList(s, 1) EXCEPT !.uxSchedulerSuspended = TRUE]
    PROVE  /\ Sane(r) /\ r.uxSchedulerSuspended /\ r.pxCurrentTCB = s.pxCurrentTCB
           /\ SameClock(s, r) /\ SameHeld(s, r) /\ SameYield(s, r)
           /\ Sound(s) /\ s.pxCurrentTCB \notin Asleep(s) => Sound(r)
<1>1. s \in KRec /\ Raised(s) /\ Flushed(s) /\ 1 \in 1 .. portMAX_DELAY
  BY Constants DEF Sane
<1>2. PICK a : a = prvAddCurrentTaskToDelayedList(s, 1)
  OBVIOUS
<1>3. /\ a \in KRec /\ Raised(a) /\ SameEvents(s, a) /\ SamePending(s, a) /\ SameClock(s, a)
      /\ SameTask(s, a) /\ SameYield(s, a) /\ SameHeld(s, a)
  BY <1>1, <1>2, GoToSleep
<1>4. /\ Asleep(a) = Asleep(s) \cup {s.pxCurrentTCB}
      /\ Placed(s) /\ s.pxCurrentTCB \notin Asleep(s) => Placed(a)
      /\ Timely(s) /\ s.pxCurrentTCB \notin Asleep(s) => Timely(a)
      /\ Exact(s) => Exact(a)
  BY <1>1, <1>2, GoToSleep
<1>5. Sane(a)
  BY <1>1, <1>3 DEF Sane, Flushed, SamePending, SameClock, SameTask
<1>6. Listed(s) => Listed(a)
  BY <1>3, <1>4 DEF Listed, SameEvents, SamePending
<1>7. /\ Sane(r) /\ r.uxSchedulerSuspended /\ r.pxCurrentTCB = a.pxCurrentTCB
      /\ SameClock(a, r) /\ SameHeld(a, r) /\ SameYield(a, r) /\ (Sound(a) => Sound(r))
  BY <1>2, <1>5, SuspendIs
<1> QED BY <1>3, <1>4, <1>6, <1>7 DEF Sound, SameClock, SameHeld, SameYield, SameTask

\* The current task blocks on a queue, for a mutex after its holder inherited
\* the priority.
LEMMA BlockIs ==
    ASSUME NEW s, Sane(s), NEW h \in Tasks \cup {NULL}, NEW q \in Queues, NEW side \in {"send", "recv"},
           s.pxCurrentTCB \in Tasks, loc[s.pxCurrentTCB].xTicksToWait \in 1 .. portMAX_DELAY,
           NEW r, r = vTaskPlaceOnEventList(xTaskPriorityInherit(s, h), q, side)
    PROVE  /\ Sane(r) /\ SameClock(s, r) /\ SameTask(s, r) /\ SameHeld(s, r)
           /\ r.switch = s.switch /\ (s.pendsv => r.pendsv)
           /\ Sound(s) /\ s.pxCurrentTCB \notin Asleep(s) => Sound(r)
<1>1. PICK a : a = xTaskPriorityInherit(s, h)
  OBVIOUS
<1>2. Keeps(s, a)
  BY <1>1, InheritKeeps
<1>3. /\ Sane(a) /\ a \in KRec /\ Raised(a) /\ Flushed(a) /\ (Sound(s) => Sound(a))
      /\ a.pxCurrentTCB = s.pxCurrentTCB /\ (\A u : u \in Asleep(a) => u \in Asleep(s))
      /\ SameClock(s, a) /\ SameTask(s, a) /\ SameHeld(s, a)
      /\ a.switch = s.switch /\ (s.pendsv => a.pendsv)
  BY <1>2 DEF Keeps, Sane, SameTask
<1>4. /\ r \in KRec /\ Raised(r) /\ SamePending(a, r) /\ SameClock(a, r) /\ SameTask(a, r)
      /\ SameYield(a, r) /\ SameHeld(a, r)
      /\ Sound(a) /\ a.pxCurrentTCB \notin Asleep(a) => Sound(r)
  <2>1. r = vTaskPlaceOnEventList(a, q, side)
    BY <1>1
  <2>2. a.pxCurrentTCB \in Tasks /\ loc[a.pxCurrentTCB].xTicksToWait \in 1 .. portMAX_DELAY
    BY <1>3
  <2> QED BY <1>3, <2>1, <2>2, PlaceIs
<1>5. Sane(r)
  BY <1>3, <1>4 DEF Sane, Flushed, SamePending, SameClock, SameTask
<1> QED BY <1>3, <1>4, <1>5 DEF SameClock, SameTask, SameHeld, SameYield

\* A tick while the scheduler is suspended.
PendedTick(s) ==
    [s EXCEPT !.uxPendedTicks = s.uxPendedTicks + 1, !.pendsv = s.pendsv \/ s.xYieldPending]

\* A tick while the scheduler is suspended.
LEMMA PendTickIs ==
    ASSUME NEW s, Sane(s), s.uxSchedulerSuspended, s.uxPendedTicks < PENDED,
           NEW r, r = PendedTick(s)
    PROVE  /\ Sane(r) /\ SameTask(s, r) /\ SameHeld(s, r) /\ r.switch = s.switch
           /\ r.uxPendedTicks = s.uxPendedTicks + 1 /\ r.xTickCount = s.xTickCount
           /\ r.xNumOfOverflows = s.xNumOfOverflows
           /\ Asleep(r) = Asleep(s) /\ (Sound(s) => Sound(r)) /\ (s.pendsv => r.pendsv)
<1>1. s \in KRec /\ Raised(s)
  BY DEF Sane
<1>2. PICK n \in 0 .. PENDED : n = s.uxPendedTicks + 1
  <2>1. PICK m \in 0 .. PENDED : m = s.uxPendedTicks
    BY <1>1 DEF KRec
  <2>2. m < PENDED /\ m \in Nat /\ PENDED \in Nat
    BY <2>1, Constants
  <2> QED BY <2>1, <2>2
<1>3. r = [s EXCEPT !.uxPendedTicks = n, !.pendsv = s.pendsv \/ s.xYieldPending]
  BY <1>2 DEF PendedTick
<1>4. r \in KRec /\ r.uxPendedTicks = n /\ (s.pendsv => r.pendsv)
  BY <1>1, <1>3 DEF KRec
<1>5. /\ SameReady(s, r) /\ SameSleep(s, r) /\ SameEvents(s, r) /\ SamePending(s, r)
      /\ SameNext(s, r) /\ SameTask(s, r) /\ SamePrio(s, r) /\ SameHeld(s, r)
      /\ r.switch = s.switch /\ r.xTickCount = s.xTickCount /\ r.xNumOfOverflows = s.xNumOfOverflows
  BY <1>1, <1>3 DEF KRec, SameReady, SameSleep, SameEvents, SamePending, SameNext, SameTask,
                    SamePrio, SameHeld
<1>6. Asleep(r) = Asleep(s) /\ (Sound(s) => Sound(r))
  BY <1>5 DEF Sound, Placed, Timely, Exact, Listed, Asleep, SameReady, SameSleep, SameEvents,
              SamePending, SameNext, SamePrio
<1>7. Sane(r)
  BY <1>1, <1>4, <1>5 DEF Sane, Raised, Flushed, SameReady, SamePrio, SameTask
<1> QED BY <1>2, <1>4, <1>5, <1>6, <1>7

\* A tick while the scheduler runs.
WholeTick(s) ==
    LET a == xTaskIncrementTick(s)
    IN  [a EXCEPT !.pendsv = @ \/ a.switch, !.switch = FALSE]

\* A tick while it runs.
LEMMA TickIs ==
    ASSUME NEW s, Sane(s), ~s.uxSchedulerSuspended,
           NEW r, r = WholeTick(s)
    PROVE  /\ Sane(r) /\ SameTask(s, r) /\ SameHeld(s, r) /\ ~r.switch
           /\ r.uxPendedTicks = 0 /\ s.uxPendedTicks = 0
           /\ r.xTickCount = NextTick(s)
           /\ r.xTickCount # 0 => r.xNumOfOverflows = s.xNumOfOverflows
           /\ (\A u : u \in Asleep(r) => u \in Asleep(s)) /\ (Sound(s) => Sound(r))
           /\ (s.pendsv => r.pendsv)
<1>1. s \in KRec /\ Raised(s) /\ s.xPendingReadyList = << >> /\ s.uxPendedTicks = 0
  BY DEF Sane, Flushed
<1>2. PICK a : a = xTaskIncrementTick(s)
  OBVIOUS
<1>3. /\ Ticked(s, a) /\ a.xTickCount = NextTick(s)
      /\ a.xTickCount # 0 => a.xNumOfOverflows = s.xNumOfOverflows
  BY <1>1, <1>2, IncrementIs
<1>4. /\ a \in KRec /\ Raised(a) /\ (Sound(s) => Sound(a)) /\ SameTask(s, a) /\ SameHeld(s, a)
      /\ SamePending(s, a) /\ a.uxPendedTicks = s.uxPendedTicks /\ a.pendsv = s.pendsv
      /\ \A u : u \in Asleep(a) => u \in Asleep(s)
  BY <1>1, <1>3 DEF Ticked
<1>5. r = [a EXCEPT !.pendsv = a.pendsv \/ a.switch, !.switch = FALSE]
  BY <1>2 DEF WholeTick
<1>6. r \in KRec /\ ~r.switch /\ (a.pendsv => r.pendsv)
  BY <1>4, <1>5 DEF KRec
<1>7. /\ SameReady(a, r) /\ SameSleep(a, r) /\ SameEvents(a, r) /\ SamePending(a, r)
      /\ SameClock(a, r) /\ SameNext(a, r) /\ SameTask(a, r) /\ SamePrio(a, r) /\ SameHeld(a, r)
  BY <1>4, <1>5 DEF KRec, SameReady, SameSleep, SameEvents, SamePending, SameClock, SameNext, SameTask,
                    SamePrio, SameHeld
<1>8. Asleep(r) = Asleep(a) /\ (Sound(a) => Sound(r))
  BY <1>7 DEF Sound, Placed, Timely, Exact, Listed, Asleep, SameReady, SameSleep, SameEvents,
              SamePending, SameClock, SameNext, SamePrio
<1>9. Sane(r)
  BY <1>1, <1>4, <1>6, <1>7 DEF Sane, Raised, Flushed, SameReady, SamePrio, SameTask, SamePending, SameClock
<1> QED BY <1>1, <1>3, <1>4, <1>6, <1>7, <1>8, <1>9 DEF SameTask, SameHeld, SameClock

\* PendSV makes another task the current one.
Chosen(s, t, y) == [s EXCEPT !.pendsv = FALSE, !.xYieldPending = y, !.pxCurrentTCB = t]

\* A switch to a task of the highest ready priority.
LEMMA SwitchTaskIs ==
    ASSUME NEW s, Sane(s), NEW t \in AllTasks, NEW y \in BOOLEAN,
           NEW r, r = Chosen(s, t, y)
    PROVE  /\ Sane(r) /\ SameHeld(s, r) /\ SameClock(s, r) /\ r.switch = s.switch
           /\ r.pxCurrentTCB = t /\ r.uxSchedulerSuspended = s.uxSchedulerSuspended /\ ~r.pendsv
           /\ Asleep(r) = Asleep(s) /\ (Sound(s) => Sound(r)) /\ SameReady(s, r)
<1>1. s \in KRec /\ Raised(s) /\ Flushed(s)
  BY DEF Sane
<1>2. r \in KRec /\ r.pxCurrentTCB = t /\ ~r.pendsv
  BY <1>1 DEF Chosen, KRec
<1>3. /\ SameReady(s, r) /\ SameSleep(s, r) /\ SameEvents(s, r) /\ SamePending(s, r)
      /\ SameClock(s, r) /\ SameNext(s, r) /\ SamePrio(s, r) /\ SameHeld(s, r)
      /\ r.switch = s.switch /\ r.uxSchedulerSuspended = s.uxSchedulerSuspended
  BY <1>1 DEF Chosen, KRec, SameReady, SameSleep, SameEvents, SamePending, SameClock, SameNext,
              SamePrio, SameHeld
<1>4. Asleep(r) = Asleep(s) /\ (Sound(s) => Sound(r))
  BY <1>3 DEF Sound, Placed, Timely, Exact, Listed, Asleep, SameReady, SameSleep, SameEvents,
              SamePending, SameClock, SameNext, SamePrio
<1>5. Sane(r)
  BY <1>1, <1>2, <1>3 DEF Sane, Raised, Flushed, SameReady, SamePrio, SamePending, SameClock
<1> QED BY <1>2, <1>3, <1>4, <1>5

\* A task takes a mutex: pvTaskIncrementMutexHeldCount().
Takes(s, t, r) == r = [s EXCEPT !.uxMutexesHeld[t] = s.uxMutexesHeld[t] + 1]

\* Taking a mutex changes the count of the task and nothing else.
LEMMA TakeIs ==
    ASSUME NEW s, Sane(s), NEW t \in Tasks, NEW r, Takes(s, t, r)
    PROVE  /\ Sane(r) /\ SameClock(s, r) /\ SameTask(s, r) /\ SameYield(s, r)
           /\ r.uxMutexesHeld = [s.uxMutexesHeld EXCEPT ![t] = @ + 1]
           /\ Asleep(r) = Asleep(s) /\ (Sound(s) => Sound(r))
<1>1. s \in KRec /\ Raised(s) /\ Flushed(s) /\ t \in AllTasks
  BY Constants DEF Sane
<1>2. PICK n \in Int : n = s.uxMutexesHeld[t] + 1
  BY <1>1 DEF KRec
<1>3. r = [s EXCEPT !.uxMutexesHeld[t] = n]
  BY <1>2 DEF Takes
<1>4. r \in KRec /\ r.uxMutexesHeld = [s.uxMutexesHeld EXCEPT ![t] = n]
  <2>1. PICK f : f = [s.uxMutexesHeld EXCEPT ![t] = n]
    OBVIOUS
  <2>2. f \in [AllTasks -> Int]
    BY <1>1, <2>1 DEF KRec
  <2>3. r = [s EXCEPT !.uxMutexesHeld = f]
    BY <1>3, <2>1
  <2> QED BY <1>1, <2>1, <2>2, <2>3 DEF KRec
<1>5. /\ SameReady(s, r) /\ SameSleep(s, r) /\ SameEvents(s, r) /\ SamePending(s, r)
      /\ SameClock(s, r) /\ SameNext(s, r) /\ SamePrio(s, r) /\ SameTask(s, r) /\ SameYield(s, r)
  BY <1>1, <1>3 DEF KRec, SameReady, SameSleep, SameEvents, SamePending, SameClock, SameNext,
              SamePrio, SameTask, SameYield
<1>6. Asleep(r) = Asleep(s) /\ (Sound(s) => Sound(r))
  BY <1>5 DEF Sound, Placed, Timely, Exact, Listed, Asleep, SameReady, SameSleep, SameEvents,
              SamePending, SameClock, SameNext, SamePrio
<1>7. Sane(r)
  BY <1>1, <1>4, <1>5 DEF Sane, Raised, Flushed, SameReady, SamePrio, SamePending, SameClock, SameTask
<1> QED BY <1>2, <1>4, <1>5, <1>6, <1>7

\* A change of tasks.c that keeps the count of mutexes.
LEMMA TaskKeeps ==
    ASSUME TaskInv, Sane(k'), ~k'.switch, k'.uxMutexesHeld = k.uxMutexesHeld, xMutexHolder' = xMutexHolder
    PROVE  TaskInv'
BY DEF TaskInv, Counts, Held

\* A step to p changes at most the state of tasks.c.
LEMMA TaskStep ==
    ASSUME KernelInv, NEW t \in Tasks, t = cur, UNCHANGED <<queueVars, owns>>,
           Sane(k'), ~k'.switch, k'.uxMutexesHeld = k.uxMutexesHeld, k'.pxCurrentTCB = k.pxCurrentTCB,
           NEW p, NEW c, NEW r, NEW l, Moves(t, p, c, r, l),
           k'.uxSchedulerSuspended <=> p \in Suspending,
           p \in Locking <=> pc[t] \in Locking,
           p \in Locking => c = call[t]
    PROVE  KernelInv'
<1>1. t \in AllTasks /\ pc'[t] = p /\ call'[t] = c /\ cur' = cur
  BY Constants DEF Moves, KernelInv, CallTypes, cur
<1>2. Locks'
  <2>1. CASE p \in Locking
    BY <1>1, <2>1, LocksHeld DEF KernelInv, queueVars
  <2>2. CASE p \notin Locking
    BY <1>1, <2>2, LocksFree DEF KernelInv, queueVars
  <2> QED BY <2>1, <2>2
<1>3. QueueInv'
  BY QueueSame DEF KernelInv, QueueInv, QueueTypes, queueVars
<1>4. TaskInv'
  BY TaskKeeps DEF KernelInv, queueVars
<1>5. owns' \in [AllTasks -> SUBSET Mutexes]
  BY DEF KernelInv, CallTypes
<1> QED BY <1>1, <1>2, <1>3, <1>4, <1>5, StepKeeps

\* vTaskSuspendAll() keeps the invariant of the first layer.
LEMMA SuspendKeeps ==
    ASSUME KernelInv, NEW t \in Tasks, Suspend(t)
    PROVE  KernelInv'
<1>1. t = cur /\ pc[t] = "suspend" /\ UNCHANGED <<queueVars, owns>>
  BY DEF Suspend, At
<1>2. Moves(t, "lock", call[t], ret[t], loc[t])
  BY SuspendMoves DEF KernelInv
<1>3. /\ Sane(k') /\ k'.uxSchedulerSuspended /\ k'.pxCurrentTCB = k.pxCurrentTCB
      /\ SameHeld(k, k') /\ SameYield(k, k')
  BY SuspendIs DEF KernelInv, TaskInv, Suspend
<1> QED BY <1>1, <1>2, <1>3, TaskStep DEF Suspending, Locking, SameHeld, SameYield, KernelInv, TaskInv

\* vTaskDelay() keeps the invariant of the first layer.
LEMMA DelayKeeps ==
    ASSUME KernelInv, NEW t \in Tasks, Delay(t)
    PROVE  KernelInv'
<1>1. t = cur /\ pc[t] = "idle" /\ UNCHANGED <<queueVars, owns>>
  BY DEF Delay, At
<1>2. \E c, r, l : Moves(t, "resume", c, r, l)
  BY DelayMoves DEF KernelInv
<1>3. /\ Sane(k') /\ k'.uxSchedulerSuspended /\ k'.pxCurrentTCB = k.pxCurrentTCB
      /\ SameHeld(k, k') /\ SameYield(k, k')
  <2>1. Sane(k) /\ k.pxCurrentTCB \in Tasks
    BY <1>1 DEF KernelInv, TaskInv, cur
  <2>2. k' = [prvAddCurrentTaskToDelayedList(k, 1) EXCEPT !.uxSchedulerSuspended = TRUE]
    BY DEF Delay
  <2> QED BY <2>1, <2>2, DelayIs
<1> QED BY <1>1, <1>2, <1>3, TaskStep DEF Suspending, Locking, SameHeld, SameYield, KernelInv, TaskInv

\* Going to sleep keeps the invariant of the first layer.
LEMMA PlaceKeeps ==
    ASSUME KernelInv, NEW t \in Tasks, Place(t)
    PROVE  /\ KernelInv'
           /\ SameClock(k, k') /\ SameTask(k, k')
           /\ Sound(k) /\ cur \notin Asleep(k) => Sound(k')
<1>1. t = cur /\ pc[t] = "place" /\ UNCHANGED <<queueVars, owns>>
  BY DEF Place, At
<1>2. \E l : Moves(t, "unlock", call[t], ret[t], l)
  BY PlaceMoves DEF KernelInv
<1>3. Target(t) \in Queues /\ Side(t) \in {"send", "recv"}
  BY TargetIs DEF KernelInv
<1>4. HolderOf(t) \in Tasks \cup {NULL}
  BY <1>3 DEF HolderOf, KernelInv, QueueInv, QueueTypes, Queues
<1>5. k.pxCurrentTCB \in Tasks /\ loc[k.pxCurrentTCB].xTicksToWait \in 1 .. portMAX_DELAY
  <2>1. loc[t].xTicksToWait \in 0 .. portMAX_DELAY
    BY Here DEF KernelInv, Locals
  <2>2. loc[t].xTicksToWait > 0
    BY <1>1, Here DEF KernelInv, WalkAt
  <2> QED BY <1>1, <2>1, <2>2, Constants DEF cur
<1>6. Sane(k) /\ ~k.switch
  BY DEF KernelInv, TaskInv
<1>7. k' = vTaskPlaceOnEventList(xTaskPriorityInherit(k, HolderOf(t)), Target(t), Side(t))
  BY Zenon DEF Place, HolderOf
<1>8. /\ Sane(k') /\ SameClock(k, k') /\ SameTask(k, k') /\ SameHeld(k, k') /\ k'.switch = k.switch
      /\ Sound(k) /\ cur \notin Asleep(k) => Sound(k')
  BY <1>3, <1>4, <1>5, <1>6, <1>7, BlockIs DEF cur
<1>9. k'.uxSchedulerSuspended
  BY <1>1, <1>8 DEF SameTask, KernelInv, Scheduler, Suspending
<1>10. KernelInv'
  BY <1>1, <1>2, <1>6, <1>8, <1>9, TaskStep DEF Suspending, Locking, SameHeld, SameTask
<1> QED BY <1>8, <1>10

\* What xTaskResumeAll() and the yield after it do.
LEMMA ResumeEffect ==
    ASSUME KernelInv, NEW t \in Tasks, Resume(t)
    PROVE  Resumed(k, k') /\ (loc[t].path = "blocked" => k'.pendsv)
<1>1. Sane(k) /\ k \in KRec /\ Raised(k)
  BY DEF KernelInv, TaskInv, Sane
<1>2. PICK a : a = xTaskResumeAll(k)
  OBVIOUS
<1>3. Resumed(k, a)
  BY <1>1, <1>2, ResumeIs
<1>4. PICK x \in BOOLEAN : x = (loc[t].path = "blocked")
  OBVIOUS
<1>5. k' = [a EXCEPT !.pendsv = a.pendsv \/ x]
  BY <1>2, <1>4, Zenon DEF Resume
<1>6. Sane(a)
  BY <1>3 DEF Resumed
<1>7. Keeps(a, k')
  BY <1>5, <1>6, PendKeeps
<1>8. x => k'.pendsv
  BY <1>5, <1>6 DEF Sane, KRec
<1>9. /\ k'.xTickCount = a.xTickCount /\ k'.xNumOfOverflows = a.xNumOfOverflows
  BY <1>7 DEF Keeps, SameClock
<1>10. \A l \in Locals, m \in Nat : Fresh(a, l, m) => Fresh(k', l, m)
  BY <1>9 DEF Fresh
<1>11. \A l \in Locals, m \in Nat : Fresh(k, l, m + k.uxPendedTicks) => Fresh(k', l, m)
  BY <1>3, <1>10 DEF Resumed
<1>12. /\ Sane(k') /\ (Sound(k) => Sound(k')) /\ (\A u : u \in Asleep(k') => u \in Asleep(k))
       /\ k'.pxCurrentTCB = k.pxCurrentTCB /\ ~k'.uxSchedulerSuspended /\ SameHeld(k, k')
       /\ k'.uxPendedTicks = 0 /\ ~k'.switch /\ (k.pendsv => k'.pendsv)
  BY <1>3, <1>7 DEF Keeps, Resumed, SameTask, SameHeld, SameClock
<1>13. /\ SameEvents(a, k') /\ SameSleep(a, k') /\ SamePrio(a, k') /\ SameTask(a, k')
       /\ k'.pendsv = (a.pendsv \/ x)
  BY <1>5, <1>6, PendIs DEF Sane
<1>14. Rested(k, k')
  <2>1. Rested(k, a)
    BY <1>3 DEF Resumed
  <2>2. PICK W \in SUBSET Asleep(k) :
           /\ Freed(k, a, W)
           /\ Sound(k) => \A u \in W : \A l \in Locals : Alarm(k, u, l) => ~Fresh(k, l, k.uxPendedTicks)
    BY <2>1 DEF Rested
  <2>3. Freed(k, k', W)
    BY <1>13, <2>2, FreedSame
  <2>4. Leads(a) => Leads(k')
    BY <1>13, LeadsSame DEF SameTask
  <2> QED BY <1>13, <2>1, <2>2, <2>3, <2>4 DEF Rested
<1> QED BY <1>4, <1>8, <1>11, <1>12, <1>14 DEF Resumed

\* xTaskResumeAll() and what follows keeps the invariant of the first layer.
LEMMA ResumeKeeps ==
    ASSUME KernelInv, NEW t \in Tasks, Resume(t)
    PROVE  KernelInv'
<1>1. t = cur /\ pc[t] = "resume" /\ UNCHANGED <<queueVars, owns>>
  BY DEF Resume, At
<1>2. \E p \in {"return", "try", "recheck"} : \E r, l : Moves(t, p, call[t], r, l)
  BY ResumeMoves DEF KernelInv
<1>3. /\ Sane(k') /\ ~k'.uxSchedulerSuspended /\ k'.pxCurrentTCB = k.pxCurrentTCB
      /\ SameHeld(k, k') /\ ~k'.switch
  BY ResumeEffect DEF Resumed
<1> QED BY <1>1, <1>2, <1>3, TaskStep DEF Suspending, Locking, SameHeld

\* The last look after a timeout keeps the invariant of the first layer.
LEMMA RecheckKeeps ==
    ASSUME KernelInv, NEW t \in Tasks, Recheck(t)
    PROVE  KernelInv'
<1>1. t = cur /\ pc[t] = "recheck" /\ UNCHANGED <<queueVars, owns>>
  BY DEF Recheck, At
<1>2. \E p \in {"return", "try"} : \E r, l : Moves(t, p, call[t], r, l)
  BY RecheckMoves DEF KernelInv
<1>3. Sane(k) /\ ~k.switch /\ ~k.uxSchedulerSuspended
  BY <1>1 DEF KernelInv, TaskInv, Scheduler, Suspending
<1>4. Sane(k') /\ SameTask(k, k') /\ SameHeld(k, k') /\ SameYield(k, k')
  <2>1. CASE k' = k
    BY <1>3, <2>1 DEF SameTask, SameHeld, SameYield
  <2>2. CASE k' # k
    <3>1. /\ loc[t].xInheritanceOccurred
          /\ k' = vTaskPriorityDisinheritAfterTimeout(k, xMutexHolder[Target(t)], Target(t))
      BY <2>2, Zenon DEF Recheck
    <3>2. call[t].op = "lock"
      BY <3>1, Here DEF KernelInv, WalkAt
    <3>3. Target(t) \in Mutexes /\ Target(t) \in Queues
      BY <3>2, TargetIs DEF KernelInv
    <3>4. xMutexHolder[Target(t)] \in Tasks \cup {NULL}
      BY <3>3 DEF KernelInv, QueueInv, QueueTypes
    <3> QED BY <1>3, <3>1, <3>3, <3>4, AfterTimeoutIs
  <2> QED BY <2>1, <2>2
<1> QED BY <1>1, <1>2, <1>3, <1>4, TaskStep DEF Suspending, Locking, SameHeld, SameTask, SameYield

\* prvLockQueue() keeps the invariant of the first layer.
LEMMA LockKeeps ==
    ASSUME KernelInv, NEW t \in Tasks, prvLockQueue(t)
    PROVE  KernelInv'
<1>1. /\ t = cur /\ pc[t] = "lock" /\ k' = k /\ owns' = owns /\ call' = call
      /\ UNCHANGED <<ring, pcWriteTo, pcReadFrom, uxMessagesWaiting, xMutexHolder>>
  BY DEF prvLockQueue, At
<1>2. Moves(t, "check", call[t], ret[t], loc[t])
  BY LockMoves DEF KernelInv
<1>3. Target(t) \in Queues
  BY TargetIs DEF KernelInv
<1>4. cTxLock[Target(t)] = queueUNLOCKED
  BY <1>1, <1>3 DEF KernelInv, Locks, LocksQueue, Locking
<1>5. cTxLock' = [cTxLock EXCEPT ![Target(t)] = 0]
  BY <1>4 DEF prvLockQueue, queueLOCKED_UNMODIFIED
<1>6. cTxLock \in [Queues -> Int] /\ \A q \in Queues : uxMessagesWaiting[q] \in Nat
  BY DEF KernelInv, QueueInv, QueueTypes
<1>7. QueueInv'
  <2>1. cTxLock' \in [Queues -> Int]
    BY <1>3, <1>5, <1>6
  <2> QED BY <1>1, <2>1, QueueSame DEF KernelInv
<1>8. TaskInv'
  BY <1>1 DEF KernelInv, TaskInv, Counts, Held
<1>9. cur' = cur /\ t \in AllTasks /\ pc'[t] = "check" /\ Target(t)' = Target(t)
  BY <1>1, <1>2, Constants DEF Moves, KernelInv, CallTypes, cur, Target
<1>10. Locks'
  <2>1. ASSUME NEW q \in Queues PROVE LocksQueue(q)' <=> q = Target(t)
    BY <1>1, <1>9 DEF LocksQueue, Locking
  <2>2. ASSUME NEW q \in Queues
        PROVE  /\ q = Target(t) => cTxLock'[q] = 0
               /\ q # Target(t) => cTxLock'[q] = queueUNLOCKED
    BY <1>1, <1>5, <1>6, <2>2 DEF KernelInv, Locks, LocksQueue, Locking
  <2> QED BY <1>1, <1>6, <2>1, <2>2 DEF Locks
<1>11. k'.uxSchedulerSuspended /\ owns' \in [AllTasks -> SUBSET Mutexes]
  BY <1>1 DEF KernelInv, Scheduler, Suspending, CallTypes
<1> QED BY <1>1, <1>2, <1>7, <1>8, <1>9, <1>10, <1>11, StepKeeps DEF Suspending

\* What prvUnlockQueue() does to the tasks.
LEMMA UnlockEffect ==
    ASSUME KernelInv, NEW t \in Tasks, prvUnlockQueue(t)
    PROVE  Keeps(k, k')
<1>1. t = cur /\ pc[t] = "unlock"
  BY DEF prvUnlockQueue, At
<1>2. Target(t) \in Queues
  BY TargetIs DEF KernelInv
<1>3. cTxLock[Target(t)] \in 0 .. MBOX_SIZE
  <2>1. /\ 0 <= cTxLock[Target(t)] /\ cTxLock[Target(t)] <= uxMessagesWaiting[Target(t)]
        /\ Target(t) # mbox => cTxLock[Target(t)] = 0
    BY <1>1, <1>2 DEF KernelInv, Locks, LocksQueue, Locking
  <2>2. /\ cTxLock[Target(t)] \in Int /\ uxMessagesWaiting[Target(t)] \in Int
        /\ uxMessagesWaiting[Target(t)] <= uxLength(Target(t))
    BY <1>2 DEF KernelInv, QueueInv, QueueTypes
  <2>3. Target(t) = mbox => uxLength(Target(t)) = MBOX_SIZE
    BY DEF uxLength
  <2> QED BY <2>1, <2>2, <2>3, Constants
<1>4. k' = WakeReceivers(k, Target(t))[cTxLock[Target(t)]]
  BY DEF prvUnlockQueue
<1>5. Sane(k)
  BY DEF KernelInv, TaskInv
<1> QED BY <1>2, <1>3, <1>4, <1>5, WakeReceiversKeeps

\* prvUnlockQueue() keeps the invariant of the first layer.
LEMMA UnlockKeeps ==
    ASSUME KernelInv, NEW t \in Tasks, prvUnlockQueue(t)
    PROVE  KernelInv'
<1>1. /\ t = cur /\ pc[t] = "unlock" /\ owns' = owns /\ call' = call
      /\ UNCHANGED <<ring, pcWriteTo, pcReadFrom, uxMessagesWaiting, xMutexHolder>>
      /\ cTxLock' = [cTxLock EXCEPT ![Target(t)] = queueUNLOCKED]
  BY DEF prvUnlockQueue, At
<1>2. Moves(t, "resume", call[t], ret[t], loc[t])
  BY UnlockMoves DEF KernelInv
<1>3. Target(t) \in Queues
  BY TargetIs DEF KernelInv
<1>4. Keeps(k, k')
  BY UnlockEffect
<1>5. cTxLock \in [Queues -> Int] /\ queueUNLOCKED \in Int
  BY DEF KernelInv, QueueInv, QueueTypes, queueUNLOCKED
<1>6. QueueInv'
  BY <1>1, <1>5, QueueSame DEF KernelInv
<1>7. TaskInv'
  BY <1>1, <1>4, TaskKeeps DEF KernelInv, TaskInv, Keeps, SameHeld
<1>8. cur' = cur /\ t \in AllTasks /\ pc'[t] = "resume"
  BY <1>1, <1>2, <1>4, Constants DEF Moves, KernelInv, CallTypes, cur, Keeps, SameTask
<1>9. Locks'
  <2>1. ASSUME NEW q \in Queues PROVE ~LocksQueue(q)'
    BY <1>1, <1>8 DEF LocksQueue, Locking
  <2>2. ASSUME NEW q \in Queues PROVE cTxLock'[q] = queueUNLOCKED
    <3>1. CASE q = Target(t)
      BY <1>1, <1>5, <3>1
    <3>2. CASE q # Target(t)
      BY <1>1, <1>5, <3>2 DEF KernelInv, Locks, LocksQueue
    <3> QED BY <3>1, <3>2
  <2> QED BY <2>1, <2>2 DEF Locks
<1>10. k'.uxSchedulerSuspended /\ owns' \in [AllTasks -> SUBSET Mutexes]
  BY <1>1, <1>4 DEF KernelInv, Scheduler, Suspending, CallTypes, Keeps, SameTask
<1> QED BY <1>1, <1>2, <1>6, <1>7, <1>8, <1>9, <1>10, StepKeeps DEF Suspending

\* A call is served: nobody is suspended or locks before or after.
LEMMA ServeKeeps ==
    ASSUME KernelInv, NEW t \in Tasks, t = cur, pc[t] = "try", owns' = owns, cTxLock' = cTxLock,
           NEW r, Moves(t, "return", call[t], r, loc[t]), SameTask(k, k'), QueueInv', TaskInv'
    PROVE  KernelInv'
<1>1. cur' = cur /\ t \in AllTasks /\ pc'[t] = "return"
  BY Constants DEF Moves, KernelInv, CallTypes, cur, SameTask
<1>2. Locks'
  BY <1>1, LocksFree DEF KernelInv, Locking
<1>3. ~k'.uxSchedulerSuspended /\ owns' \in [AllTasks -> SUBSET Mutexes]
  BY DEF KernelInv, Scheduler, Suspending, CallTypes, SameTask
<1> QED BY <1>1, <1>2, <1>3, StepKeeps DEF Suspending

\* TryReceive keeps the invariant of the first layer.
LEMMA ReceiveKeeps ==
    ASSUME KernelInv, NEW t \in Tasks, TryReceive(t)
    PROVE  KernelInv'
<1>1. t = cur /\ pc[t] = "try" /\ owns' = owns /\ call' = call
  BY DEF TryReceive, At
<1>2. CASE uxMessagesWaiting[mbox] = 0
  <2>1. Refuse(t)
    BY <1>2, Zenon DEF TryReceive
  <2> QED BY <1>1, <2>1, RefuseKeeps
<1>3. CASE uxMessagesWaiting[mbox] # 0
  <2>1. /\ pcReadFrom' = NextSlot(pcReadFrom)
        /\ uxMessagesWaiting' = [uxMessagesWaiting EXCEPT ![mbox] = @ - 1]
        /\ k' = WakeOne(k, mbox, "send")
        /\ UNCHANGED <<ring, pcWriteTo, cTxLock, xMutexHolder>>
    BY <1>3, Zenon DEF TryReceive
  <2>2. \E r : Moves(t, "return", call[t], r, loc[t])
    BY <1>3, ReceiveMoves DEF KernelInv, QueueInv
  <2>3. QueueInv'
    BY <1>3, <2>1, FetchKeeps DEF KernelInv
  <2>4. Keeps(k, k')
    BY <2>1, WakeOneKeeps, Constants DEF KernelInv, TaskInv
  <2>5. TaskInv' /\ SameTask(k, k')
    BY <2>1, <2>4, TaskKeeps DEF KernelInv, TaskInv, Keeps, SameHeld
  <2> QED BY <1>1, <2>1, <2>2, <2>3, <2>5, ServeKeeps
<1> QED BY <1>2, <1>3

\* The kernel's count of a task's mutexes goes with the holders.
LEMMA TakeCounts ==
    ASSUME Counts, QueueTypes, Sane(k), NEW t \in Tasks, NEW q \in Mutexes, xMutexHolder[q] = NULL,
           xMutexHolder' = [xMutexHolder EXCEPT ![q] = t],
           k'.uxMutexesHeld = [k.uxMutexesHeld EXCEPT ![t] = @ + 1]
    PROVE  Counts'
<1>1. xMutexHolder \in [Mutexes -> Tasks \cup {NULL}] /\ k.uxMutexesHeld \in [AllTasks -> Int]
  BY DEF QueueTypes, Sane, KRec
<1>2. NULL \notin Tasks /\ t \in AllTasks /\ Idle \in AllTasks /\ Idle # t
  BY Constants, KernelAssumption DEF NULL
<1>3. ASSUME NEW u \in Tasks PROVE IsFiniteSet(Held(u)') /\ k'.uxMutexesHeld[u] = Cardinality(Held(u)')
  <2>1. CASE u = t
    <3>1. Held(u)' = Held(u) \cup {q} /\ q \notin Held(u)
      BY <1>1, <1>2, <2>1 DEF Held
    <3>2. IsFiniteSet(Held(u)) /\ k.uxMutexesHeld[u] = Cardinality(Held(u))
      BY DEF Counts
    <3>3. IsFiniteSet(Held(u) \cup {q}) /\ Cardinality(Held(u) \cup {q}) = Cardinality(Held(u)) + 1
      BY <3>1, <3>2, FS_AddElement
    <3>4. k'.uxMutexesHeld[u] = k.uxMutexesHeld[u] + 1
      BY <1>1, <1>2, <2>1
    <3> QED BY <3>1, <3>2, <3>3, <3>4
  <2>2. CASE u # t
    <3>1. Held(u)' = Held(u)
      BY <1>1, <1>2, <2>2 DEF Held
    <3>2. k'.uxMutexesHeld[u] = k.uxMutexesHeld[u]
      BY <1>1, <2>2, Constants
    <3> QED BY <3>1, <3>2 DEF Counts
  <2> QED BY <2>1, <2>2
<1>4. k'.uxMutexesHeld[Idle] = 0
  BY <1>1, <1>2 DEF Counts
<1> QED BY <1>3, <1>4 DEF Counts

\* The count of mutexes after one was given back.
LEMMA GiveCounts ==
    ASSUME Counts, QueueTypes, Sane(k), NEW h \in Tasks, NEW q \in Mutexes, xMutexHolder[q] = h,
           xMutexHolder' = [xMutexHolder EXCEPT ![q] = NULL],
           k'.uxMutexesHeld = [k.uxMutexesHeld EXCEPT ![h] = @ - 1]
    PROVE  Counts'
<1>1. xMutexHolder \in [Mutexes -> Tasks \cup {NULL}] /\ k.uxMutexesHeld \in [AllTasks -> Int]
  BY DEF QueueTypes, Sane, KRec
<1>2. NULL \notin Tasks /\ h \in AllTasks /\ Idle \in AllTasks /\ Idle # h
  BY Constants, KernelAssumption DEF NULL
<1>3. ASSUME NEW u \in Tasks PROVE IsFiniteSet(Held(u)') /\ k'.uxMutexesHeld[u] = Cardinality(Held(u)')
  <2>1. CASE u = h
    <3>1. Held(u)' = Held(u) \ {q} /\ q \in Held(u)
      BY <1>1, <1>2, <2>1 DEF Held
    <3>2. IsFiniteSet(Held(u)) /\ k.uxMutexesHeld[u] = Cardinality(Held(u))
      BY DEF Counts
    <3>3. IsFiniteSet(Held(u) \ {q}) /\ Cardinality(Held(u) \ {q}) = Cardinality(Held(u)) - 1
      BY <3>1, <3>2, FS_RemoveElement
    <3>4. k'.uxMutexesHeld[u] = k.uxMutexesHeld[u] - 1
      BY <1>1, <1>2, <2>1
    <3> QED BY <3>1, <3>2, <3>3, <3>4
  <2>2. CASE u # h
    <3>1. Held(u)' = Held(u)
      BY <1>1, <1>2, <2>2 DEF Held
    <3>2. k'.uxMutexesHeld[u] = k.uxMutexesHeld[u]
      BY <1>1, <2>2, Constants
    <3> QED BY <3>1, <3>2 DEF Counts
  <2> QED BY <2>1, <2>2
<1>4. k'.uxMutexesHeld[Idle] = 0
  BY <1>1, <1>2 DEF Counts
<1> QED BY <1>3, <1>4 DEF Counts

\* TryTake keeps the invariant of the first layer.
LEMMA TakeKeeps ==
    ASSUME KernelInv, NEW t \in Tasks, TryTake(t)
    PROVE  KernelInv'
<1>1. t = cur /\ pc[t] = "try" /\ owns' = owns /\ call' = call /\ call[t].op = "lock"
  BY DEF TryTake, At
<1>2. PICK q \in Mutexes : q = Target(t)
  BY <1>1, TargetIs DEF KernelInv
<1>3. CASE uxMessagesWaiting[q] = 0
  <2>1. Refuse(t)
    BY <1>2, <1>3, Zenon DEF TryTake
  <2> QED BY <1>1, <2>1, RefuseKeeps
<1>4. CASE uxMessagesWaiting[q] # 0
  <2>1. /\ uxMessagesWaiting' = [uxMessagesWaiting EXCEPT ![q] = @ - 1]
        /\ xMutexHolder' = [xMutexHolder EXCEPT ![q] = t]
        /\ k' = [k EXCEPT !.uxMutexesHeld[t] = k.uxMutexesHeld[t] + 1]
        /\ UNCHANGED <<ring, pcWriteTo, pcReadFrom, cTxLock>>
    BY <1>2, <1>4, Zenon DEF TryTake
  <2>2. \E r : Moves(t, "return", call[t], r, loc[t])
    BY <1>2, <1>4, TakeMoves DEF KernelInv
  <2>3. uxMessagesWaiting[q] = 1
    <3>1. q \in Queues /\ q # mbox
      BY Constants
    <3>2. uxMessagesWaiting[q] \in Nat /\ uxMessagesWaiting[q] <= 1
      BY <3>1 DEF KernelInv, QueueInv, QueueTypes, uxLength
    <3> QED BY <1>4, <3>2
  <2>4. xMutexHolder[q] = NULL
    BY <2>3 DEF KernelInv, QueueInv, Holders
  <2>5. uxMessagesWaiting' = [uxMessagesWaiting EXCEPT ![q] = 0]
    BY <2>1, <2>3
  <2>6. t # NULL /\ cTxLock \in [Queues -> Int]
    BY KernelAssumption DEF NULL, KernelInv, QueueInv, QueueTypes
  <2>7. QueueInv'
    <3>1. cTxLock' \in [Queues -> Int] /\ t \in Tasks \cup {NULL} /\ (t = NULL <=> 0 = 1) /\ 0 \in 0 .. 1
      BY <2>1, <2>6
    <3>2. QueueInv /\ UNCHANGED <<ring, pcWriteTo, pcReadFrom>>
      BY <2>1 DEF KernelInv
    <3> QED BY <2>1, <2>5, <3>1, <3>2, MutexKeeps
  <2>8. /\ Sane(k') /\ SameTask(k, k') /\ SameYield(k, k')
        /\ k'.uxMutexesHeld = [k.uxMutexesHeld EXCEPT ![t] = @ + 1]
    <3>1. Sane(k) /\ Takes(k, t, k')
      BY <2>1 DEF KernelInv, TaskInv, Takes
    <3> QED BY <3>1, TakeIs
  <2>9. Counts'
    BY <2>1, <2>4, <2>8, TakeCounts DEF KernelInv, TaskInv, QueueInv
  <2>10. TaskInv'
    BY <2>8, <2>9 DEF KernelInv, TaskInv, SameYield
  <2> QED BY <1>1, <2>1, <2>2, <2>7, <2>8, <2>10, ServeKeeps
<1> QED BY <1>3, <1>4

\* The holder gives a mutex back, and perhaps wakes a task that waits for it.
LEMMA GiveEffect ==
    ASSUME KernelInv, NEW t \in Tasks, TrySend(t), call[t].op = "unlock",
           ~(uxMessagesWaiting[Target(t)] >= uxLength(Target(t)))
    PROVE  \E h \in Tasks : xMutexHolder[Target(t)] = h /\ Disinherited(k, k', h)
<1>1. Sane(k)
  BY DEF KernelInv, TaskInv
<1>2. PICK q \in Mutexes : q = Target(t) /\ q \in Queues /\ q # mbox
  BY TargetIs, Constants DEF KernelInv
<1>3. PICK h \in Tasks : h = xMutexHolder[q]
  <2>1. uxMessagesWaiting[q] # 1
    BY <1>2 DEF uxLength
  <2>2. xMutexHolder[q] # NULL
    BY <2>1 DEF KernelInv, QueueInv, Holders
  <2> QED BY <2>2 DEF KernelInv, QueueInv, QueueTypes
<1>4. PICK d : d = xTaskPriorityDisinherit(k, h)
  OBVIOUS
<1>5. Disinherited(k, d, h)
  BY <1>1, <1>4, DisinheritIs
<1>6. Sane(d)
  BY <1>5 DEF Disinherited
<1>7. k' = IF k.waitRecv[q] # << >> THEN WakeOne(d, q, "recv")
           ELSE [d EXCEPT !.pendsv = d.pendsv \/ d.uxPriority # k.uxPriority]
  BY <1>2, <1>3, <1>4, Zenon DEF TrySend
<1>8. Keeps(d, k')
  <2>1. CASE k.waitRecv[q] # << >>
    BY <1>2, <1>6, <1>7, <2>1, WakeOneKeeps
  <2>2. CASE k.waitRecv[q] = << >>
    <3>1. PICK x \in BOOLEAN : x = (d.uxPriority # k.uxPriority)
      OBVIOUS
    <3>2. k' = [d EXCEPT !.pendsv = d.pendsv \/ x]
      BY <1>7, <2>2, <3>1
    <3> QED BY <1>6, <3>2, PendKeeps
  <2> QED BY <2>1, <2>2
<1>9. Disinherited(k, k', h)
  BY <1>5, <1>8 DEF Disinherited, Keeps, SameClock, SameTask, SameHeld
<1> QED BY <1>2, <1>3, <1>9

\* A message is posted, and perhaps wakes a task that waits for it.
LEMMA PostEffect ==
    ASSUME KernelInv, NEW t \in Tasks, TrySend(t), call[t].op # "unlock",
           ~(uxMessagesWaiting[Target(t)] >= uxLength(Target(t)))
    PROVE  /\ Keeps(k, k') /\ Target(t) = mbox /\ uxMessagesWaiting[mbox] < MBOX_SIZE
           /\ call[t].msg \in Msgs /\ Store(call[t].msg) /\ UNCHANGED xMutexHolder
<1>1. Sane(k) /\ mbox \in Queues
  BY Constants DEF KernelInv, TaskInv
<1>2. call[t].op \in {"post", "trypost"} /\ call[t] \in CallRecs
  BY Here DEF TrySend, Posting, KernelInv
<1>3. Target(t) = mbox /\ call[t].msg \in Msgs
  BY <1>2, CallRec DEF Target
<1>4. Store(call[t].msg) /\ k' = WakeOne(k, mbox, "recv") /\ UNCHANGED xMutexHolder
  BY <1>3, Zenon DEF TrySend
<1>5. uxMessagesWaiting[mbox] < MBOX_SIZE
  <2>1. uxMessagesWaiting[mbox] \in Nat /\ MBOX_SIZE \in Nat
    BY <1>1, Constants DEF KernelInv, QueueInv, QueueTypes
  <2>2. ~(uxMessagesWaiting[mbox] >= MBOX_SIZE)
    BY <1>3 DEF uxLength
  <2> QED BY <2>1, <2>2
<1> QED BY <1>1, <1>3, <1>4, <1>5, WakeOneKeeps

\* TrySend keeps the invariant of the first layer.
LEMMA SendKeeps ==
    ASSUME KernelInv, NEW t \in Tasks, TrySend(t)
    PROVE  KernelInv'
<1>1. t = cur /\ pc[t] = "try" /\ owns' = owns /\ call' = call
  BY DEF TrySend, At
<1>2. CASE uxMessagesWaiting[Target(t)] >= uxLength(Target(t))
  <2>1. Refuse(t)
    BY <1>2, Zenon DEF TrySend
  <2> QED BY <1>1, <2>1, RefuseKeeps
<1>3. CASE ~(uxMessagesWaiting[Target(t)] >= uxLength(Target(t)))
  <2>1. /\ uxMessagesWaiting' = [uxMessagesWaiting EXCEPT ![Target(t)] = @ + 1]
        /\ UNCHANGED <<pcReadFrom, cTxLock>>
    BY <1>3, Zenon DEF TrySend
  <2>2. \E r : Moves(t, "return", call[t], r, loc[t])
    BY <1>3, SendMoves DEF KernelInv
  <2>3. cTxLock' \in [Queues -> Int] /\ QueueInv /\ TaskInv /\ Sane(k)
    BY <2>1 DEF KernelInv, QueueInv, QueueTypes, TaskInv
  <2>4. CASE call[t].op # "unlock"
    <3>1. /\ Keeps(k, k') /\ Target(t) = mbox /\ uxMessagesWaiting[mbox] < MBOX_SIZE
          /\ call[t].msg \in Msgs /\ Store(call[t].msg) /\ UNCHANGED xMutexHolder
      BY <1>3, <2>4, PostEffect
    <3>2. QueueInv'
      BY <2>1, <2>3, <3>1, StoreKeeps
    <3>3. TaskInv' /\ SameTask(k, k')
      BY <2>3, <3>1, TaskKeeps DEF TaskInv, Keeps, SameHeld
    <3> QED BY <1>1, <2>1, <2>2, <3>2, <3>3, ServeKeeps
  <2>5. CASE call[t].op = "unlock"
    <3>1. PICK q \in Mutexes : q = Target(t) /\ q \in Queues /\ q # mbox
      BY <2>5, TargetIs, Constants DEF KernelInv
    <3>2. PICK h \in Tasks : xMutexHolder[q] = h /\ Disinherited(k, k', h)
      BY <1>3, <2>5, <3>1, GiveEffect
    <3>3. xMutexHolder' = [xMutexHolder EXCEPT ![q] = NULL] /\ UNCHANGED <<ring, pcWriteTo>>
      BY <1>3, <3>1, Zenon DEF TrySend
    <3>4. uxMessagesWaiting' = [uxMessagesWaiting EXCEPT ![q] = 1]
      <4>1. uxMessagesWaiting[q] \in Nat /\ ~(uxMessagesWaiting[q] >= 1)
        BY <1>3, <2>3, <3>1 DEF QueueInv, QueueTypes, uxLength
      <4>2. uxMessagesWaiting[q] = 0
        BY <4>1
      <4> QED BY <2>1, <3>1, <4>2
    <3>5. QueueInv'
      <4>1. NULL \in Tasks \cup {NULL} /\ (NULL = NULL <=> 1 = 1) /\ 1 \in 0 .. 1
        OBVIOUS
      <4> QED BY <2>1, <2>3, <3>3, <3>4, <4>1, MutexKeeps
    <3>6. /\ Sane(k') /\ SameTask(k, k') /\ k'.switch = k.switch
          /\ k'.uxMutexesHeld = [k.uxMutexesHeld EXCEPT ![h] = @ - 1]
      BY <3>2 DEF Disinherited
    <3>7. Counts'
      BY <2>3, <3>2, <3>3, <3>6, GiveCounts DEF TaskInv, QueueInv
    <3>8. TaskInv'
      BY <2>3, <3>6, <3>7 DEF TaskInv
    <3> QED BY <1>1, <2>1, <2>2, <3>5, <3>6, <3>8, ServeKeeps
  <2> QED BY <2>4, <2>5
<1> QED BY <1>2, <1>3

\* Interrupts leave the calls alone.
LEMMA TickKeeps ==
    ASSUME KernelInv, Tick
    PROVE  /\ KernelInv' /\ SameTask(k, k') /\ (k.pendsv => k'.pendsv) /\ (Sound(k) => Sound(k'))
           /\ \A u : u \in Asleep(k') => u \in Asleep(k)
           /\ \A l \in Locals : Fresh(k, l, k.uxPendedTicks + 1) => Fresh(k', l, k'.uxPendedTicks)
<1>1. UNCHANGED <<queueVars, callVars>>
  BY DEF Tick
<1>2. /\ Sane(k') /\ SameTask(k, k') /\ SameHeld(k, k') /\ ~k'.switch
      /\ (k.pendsv => k'.pendsv) /\ (Sound(k) => Sound(k'))
      /\ \A u : u \in Asleep(k') => u \in Asleep(k)
      /\ \A l \in Locals : Fresh(k, l, k.uxPendedTicks + 1) => Fresh(k', l, k'.uxPendedTicks)
  <2>1. Sane(k) /\ ~k.switch /\ k \in KRec
    BY DEF KernelInv, TaskInv, Sane
  <2>2. CASE k.uxSchedulerSuspended
    <3>1. /\ k.uxPendedTicks < PENDED
          /\ k' = PendedTick(k)
      BY <2>2, Zenon DEF Tick, PendedTick
    <3>2. PICK r : r = k'
      OBVIOUS
    <3>3. r = PendedTick(k)
      BY <3>1, <3>2
    <3>4. /\ Sane(r) /\ SameTask(k, r) /\ SameHeld(k, r) /\ r.switch = k.switch
          /\ Asleep(r) = Asleep(k) /\ (Sound(k) => Sound(r)) /\ (k.pendsv => r.pendsv)
      BY <2>1, <2>2, <3>1, <3>3, PendTickIs
    <3>5. /\ r.uxPendedTicks = k.uxPendedTicks + 1 /\ r.xTickCount = k.xTickCount
          /\ r.xNumOfOverflows = k.xNumOfOverflows
      BY <2>1, <2>2, <3>1, <3>3, PendTickIs
    <3>6. \A l \in Locals : Fresh(k, l, k.uxPendedTicks + 1) => Fresh(r, l, r.uxPendedTicks)
      BY <3>5 DEF Fresh
    <3> QED BY <2>1, <3>2, <3>4, <3>6
  <2>3. CASE ~k.uxSchedulerSuspended
    <3>1. k' = WholeTick(k)
      BY <2>3, Zenon DEF Tick, WholeTick
    <3>2. PICK r : r = k'
      OBVIOUS
    <3>3. r = WholeTick(k)
      BY <3>1, <3>2
    <3>4. /\ Sane(r) /\ SameTask(k, r) /\ SameHeld(k, r) /\ ~r.switch
          /\ (\A u : u \in Asleep(r) => u \in Asleep(k)) /\ (Sound(k) => Sound(r)) /\ (k.pendsv => r.pendsv)
      BY <2>1, <2>3, <3>3, TickIs
    <3>5. /\ r.uxPendedTicks = 0 /\ k.uxPendedTicks = 0 /\ r.xTickCount = NextTick(k)
          /\ r.xTickCount # 0 => r.xNumOfOverflows = k.xNumOfOverflows
      BY <2>1, <2>3, <3>3, TickIs
    <3>6. ASSUME NEW l \in Locals, Fresh(k, l, k.uxPendedTicks + 1) PROVE Fresh(r, l, r.uxPendedTicks)
      <4>1. Fresh(k, l, 0 + 1) /\ 0 \in Nat /\ r \in KRec
        BY <3>4, <3>5, <3>6 DEF Sane
      <4> QED BY <2>1, <3>5, <4>1, FreshTick
    <3> QED BY <3>2, <3>4, <3>6
  <2> QED BY <2>2, <2>3
<1>3. TaskInv'
  BY <1>1, <1>2, TaskKeeps DEF KernelInv, queueVars, SameHeld
<1>4. CallTypes' /\ Walk'
  BY <1>1 DEF KernelInv, CallTypes, Walk, callVars
<1>5. QueueInv'
  BY <1>1, QueueSame DEF KernelInv, QueueInv, QueueTypes, queueVars
<1>6. Scheduler'
  BY <1>1, <1>2 DEF KernelInv, Scheduler, callVars, cur, SameTask
<1>7. Locks'
  BY <1>1, <1>2 DEF KernelInv, Locks, LocksQueue, Target, queueVars, callVars, cur, SameTask
<1> QED BY <1>2, <1>3, <1>4, <1>5, <1>6, <1>7 DEF KernelInv

\* A post by an interrupt keeps the invariant of the first layer.
LEMMA IsrPostKeeps ==
    ASSUME KernelInv, IsrPost
    PROVE  KernelInv' /\ Keeps(k, k')
<1>1. PICK m \in Msgs : Store(m)
  BY DEF IsrPost
<1>2. /\ uxMessagesWaiting[mbox] < MBOX_SIZE
      /\ uxMessagesWaiting' = [uxMessagesWaiting EXCEPT ![mbox] = @ + 1]
      /\ UNCHANGED <<pcReadFrom, xMutexHolder, callVars>>
  BY DEF IsrPost
<1>3. Sane(k) /\ mbox \in Queues /\ QueueInv /\ cTxLock \in [Queues -> Int] /\ TaskInv
  BY Constants DEF KernelInv, TaskInv, QueueInv, QueueTypes
<1>4. /\ Keeps(k, k') /\ cTxLock' \in [Queues -> Int]
      /\ cTxLock[mbox] = queueUNLOCKED => cTxLock' = cTxLock
      /\ cTxLock[mbox] # queueUNLOCKED => cTxLock' = [cTxLock EXCEPT ![mbox] = @ + 1]
  <2>1. CASE cTxLock[mbox] = queueUNLOCKED
    <3>1. k' = WakeOne(k, mbox, "recv") /\ UNCHANGED cTxLock
      BY <2>1, Zenon DEF IsrPost
    <3> QED BY <1>3, <2>1, <3>1, WakeOneKeeps
  <2>2. CASE cTxLock[mbox] # queueUNLOCKED
    <3>1. cTxLock' = [cTxLock EXCEPT ![mbox] = @ + 1] /\ UNCHANGED k
      BY <2>2, Zenon DEF IsrPost
    <3> QED BY <1>3, <2>2, <3>1, KeepsNothing
  <2> QED BY <2>1, <2>2
<1>5. QueueInv'
  BY <1>1, <1>2, <1>3, <1>4, StoreKeeps
<1>6. TaskInv'
  BY <1>2, <1>3, <1>4, TaskKeeps DEF Keeps, SameHeld, TaskInv
<1>7. CallTypes' /\ Walk'
  BY <1>2 DEF KernelInv, CallTypes, Walk, callVars
<1>8. cur' = cur /\ k'.uxSchedulerSuspended = k.uxSchedulerSuspended
  BY <1>4 DEF Keeps, SameTask, cur
<1>9. Scheduler'
  BY <1>2, <1>8 DEF KernelInv, Scheduler, callVars
<1>10. Locks'
  <2>1. ASSUME NEW q \in Queues PROVE LocksQueue(q)' <=> LocksQueue(q)
    BY <1>2, <1>8 DEF LocksQueue, Target, callVars
  <2>2. ASSUME NEW q \in Queues
        PROVE  /\ q # mbox => uxMessagesWaiting'[q] = uxMessagesWaiting[q] /\ cTxLock'[q] = cTxLock[q]
               /\ q = mbox => uxMessagesWaiting'[q] = uxMessagesWaiting[q] + 1
               /\ q = mbox /\ cTxLock[q] = queueUNLOCKED => cTxLock'[q] = queueUNLOCKED
               /\ q = mbox /\ cTxLock[q] # queueUNLOCKED => cTxLock'[q] = cTxLock[q] + 1
    BY <1>2, <1>3, <1>4 DEF QueueInv, QueueTypes
  <2>3. ASSUME NEW q \in Queues
        PROVE  cTxLock[q] \in Int /\ uxMessagesWaiting[q] \in Int /\ queueUNLOCKED = -1
    BY <1>3 DEF QueueInv, QueueTypes, queueUNLOCKED
  <2> QED BY <2>1, <2>2, <2>3 DEF KernelInv, Locks
<1> QED BY <1>4, <1>5, <1>6, <1>7, <1>9, <1>10 DEF KernelInv

\* The highest ready priority is one of the priorities.
LEMMA TopReady ==
    ASSUME NEW s, Sane(s)
    PROVE  /\ Max(s.uxTopReadyPriority) \in s.uxTopReadyPriority /\ Max(s.uxTopReadyPriority) \in Prios
           /\ \A p \in s.uxTopReadyPriority : p <= Max(s.uxTopReadyPriority)
<1>1. s.uxTopReadyPriority \subseteq Prios /\ 0 \in s.uxTopReadyPriority
  BY DEF Sane, KRec, Raised
<1>2. IsFiniteSet(AllTasks)
  BY KernelAssumption, FS_AddElement DEF AllTasks
<1>3. IsFiniteSet(Prios)
  <2>1. Base \in Surjection(AllTasks, Prios)
    BY Constants DEF Surjection, Prios
  <2> QED BY <1>2, <2>1, FS_Surjection
<1>4. IsFiniteSet(s.uxTopReadyPriority)
  BY <1>1, <1>3, FS_Subset
<1> QED BY <1>1, <1>4, MaxIn, Constants

\* vTaskSwitchContext() keeps the invariant of the first layer.
LEMMA SwitchKeeps ==
    ASSUME KernelInv, vTaskSwitchContext
    PROVE  /\ KernelInv' /\ Asleep(k') = Asleep(k) /\ (Sound(k) => Sound(k')) /\ SameClock(k, k')
           /\ k.uxSchedulerSuspended => cur' = cur /\ k'.uxSchedulerSuspended
           /\ ~k.uxSchedulerSuspended => \E p \in Prios : cur' \in k.ready[p]
<1>1. UNCHANGED <<queueVars, callVars>>
  BY DEF vTaskSwitchContext
<1>2. Sane(k) /\ ~k.switch /\ k.pxCurrentTCB \in AllTasks
  BY DEF KernelInv, TaskInv, Sane, KRec
<1>3. PICK t \in AllTasks, y \in BOOLEAN :
          /\ k' = Chosen(k, t, y)
          /\ k.uxSchedulerSuspended => t = k.pxCurrentTCB
          /\ ~k.uxSchedulerSuspended => \E p \in Prios : t \in k.ready[p]
  <2>1. CASE k.uxSchedulerSuspended
    <3>1. k' = [k EXCEPT !.pendsv = FALSE, !.xYieldPending = TRUE]
      BY <2>1, Zenon DEF vTaskSwitchContext
    <3>2. k' = Chosen(k, k.pxCurrentTCB, TRUE)
      BY <1>2, <3>1 DEF Chosen, Sane, KRec
    <3> QED BY <1>2, <2>1, <3>2
  <2>2. CASE ~k.uxSchedulerSuspended
    <3>1. PICK p \in Prios : p = Max(k.uxTopReadyPriority)
      BY <1>2, TopReady
    <3>2. PICK t \in k.ready[p] : k' = Chosen(k, t, FALSE)
      BY <2>2, <3>1, Zenon DEF vTaskSwitchContext, Chosen
    <3>3. t \in AllTasks
      BY <1>2, <3>2 DEF Sane, KRec
    <3> QED BY <2>2, <3>2, <3>3
  <2> QED BY <2>1, <2>2
<1>4. /\ Sane(k') /\ SameHeld(k, k') /\ SameClock(k, k') /\ k'.switch = k.switch
      /\ k'.pxCurrentTCB = t /\ k'.uxSchedulerSuspended = k.uxSchedulerSuspended
      /\ Asleep(k') = Asleep(k) /\ (Sound(k) => Sound(k'))
  <2>1. PICK r : r = k'
    OBVIOUS
  <2>2. r = Chosen(k, t, y)
    BY <1>3, <2>1
  <2>3. /\ Sane(r) /\ SameHeld(k, r) /\ SameClock(k, r) /\ r.switch = k.switch
        /\ r.pxCurrentTCB = t /\ r.uxSchedulerSuspended = k.uxSchedulerSuspended
        /\ Asleep(r) = Asleep(k) /\ (Sound(k) => Sound(r))
    BY <1>2, <2>2, SwitchTaskIs
  <2> QED BY <2>1, <2>3
<1>5. TaskInv'
  BY <1>1, <1>2, <1>4, TaskKeeps DEF KernelInv, queueVars, SameHeld
<1>6. CallTypes' /\ Walk'
  BY <1>1 DEF KernelInv, CallTypes, Walk, callVars
<1>7. QueueInv'
  BY <1>1, QueueSame DEF KernelInv, QueueInv, QueueTypes, queueVars
<1>8. cur' = t /\ (k.uxSchedulerSuspended => cur' = cur)
  BY <1>3, <1>4 DEF cur
<1>9. Scheduler'
  BY <1>1, <1>4, <1>8 DEF KernelInv, Scheduler, callVars
<1>10. Locks'
  <2>1. CASE k.uxSchedulerSuspended
    BY <1>1, <1>8, <2>1 DEF KernelInv, Locks, LocksQueue, Target, queueVars, callVars
  <2>2. CASE ~k.uxSchedulerSuspended
    <3>1. pc[cur] \notin Locking
      BY <2>2 DEF KernelInv, Scheduler, Suspending, Locking
    <3>2. (pc[cur] \notin Locking)'
      BY <1>4, <1>9, <2>2 DEF Scheduler, Suspending, Locking
    <3> QED BY <1>1, <3>1, <3>2, LocksFree DEF KernelInv, queueVars
  <2> QED BY <2>1, <2>2
<1> QED BY <1>3, <1>4, <1>5, <1>6, <1>7, <1>8, <1>9, <1>10 DEF KernelInv

\* The scheduler starts in a sound state.
LEMMA InitTasks ==
    ASSUME Init
    PROVE  /\ Sane(k) /\ ~k.switch /\ k.uxMutexesHeld = [u \in AllTasks |-> 0] /\ ~k.uxSchedulerSuspended
           /\ k.pxCurrentTCB \in Tasks /\ Asleep(k) = {} /\ Sound(k)
<1>1. PICK t \in Tasks :
        k = [pxCurrentTCB |-> t,
             ready |-> [p \in Prios |-> {u \in AllTasks : Base[u] = p}],
             uxTopReadyPriority |-> Prios, delayed |-> {}, overflow |-> {},
             wake |-> [u \in AllTasks |-> 0],
             waitSend |-> [q \in Queues |-> << >>], waitRecv |-> [q \in Queues |-> << >>],
             xPendingReadyList |-> << >>, uxSchedulerSuspended |-> FALSE,
             uxPendedTicks |-> 0, xTickCount |-> 0, xNumOfOverflows |-> 0,
             xNextTaskUnblockTime |-> portMAX_DELAY, xYieldPending |-> FALSE,
             pendsv |-> FALSE, switch |-> FALSE,
             uxPriority |-> Base, uxMutexesHeld |-> [u \in AllTasks |-> 0]]
  BY DEF Init
<1>2. /\ [p \in Prios |-> {u \in AllTasks : Base[u] = p}] \in [Prios -> SUBSET AllTasks]
      /\ [u \in AllTasks |-> 0] \in [AllTasks -> 0 .. portMAX_DELAY]
      /\ [u \in AllTasks |-> 0] \in [AllTasks -> Int]
      /\ [q \in Queues |-> << >>] \in [Queues -> Seq(Tasks)] /\ << >> \in Seq(Tasks)
      /\ portMAX_DELAY \in 0 .. portMAX_DELAY /\ 0 \in 0 .. portMAX_DELAY
      /\ 0 \in 0 .. OVERFLOWS - 1 /\ 0 \in 0 .. PENDED /\ t \in AllTasks
  BY Constants
<1>3. k \in KRec
  BY <1>1, <1>2, Constants DEF KRec
<1>4. /\ k.ready = [p \in Prios |-> {u \in AllTasks : Base[u] = p}] /\ k.uxTopReadyPriority = Prios
      /\ k.delayed = {} /\ k.overflow = {} /\ k.uxPriority = Base
      /\ k.waitSend = [q \in Queues |-> << >>] /\ k.waitRecv = [q \in Queues |-> << >>]
      /\ k.xPendingReadyList = << >> /\ k.uxPendedTicks = 0 /\ ~k.uxSchedulerSuspended
      /\ ~k.switch /\ k.uxMutexesHeld = [u \in AllTasks |-> 0] /\ k.pxCurrentTCB = t
  BY <1>1
<1>5. Flushed(k) /\ Asleep(k) = {}
  BY <1>4 DEF Flushed, Asleep
<1>6. Raised(k)
  <2>1. ASSUME NEW u \in AllTasks PROVE Base[u] >= Base[u]
    <3>1. PICK n \in Nat : n = Base[u]
      BY Constants
    <3>2. n >= n
      OBVIOUS
    <3> QED BY <3>1, <3>2
  <2> QED BY <1>4, <2>1, Constants DEF Raised
<1>7. Placed(k) /\ Timely(k)
  BY <1>4, <1>5, Constants DEF Placed, Timely
<1>8. Listed(k)
  <2>1. Range(<< >>) = {}
    BY DEF Range
  <2> QED BY <1>4, <1>5, <2>1 DEF Listed
<1>9. Exact(k)
  <2>1. ASSUME NEW p \in Prios PROVE k.ready[p] # {}
    <3>1. PICK u \in AllTasks : Base[u] = p
      BY <2>1 DEF Prios
    <3>2. k.ready[p] = {v \in AllTasks : Base[v] = p}
      BY <1>4, <2>1
    <3> QED BY <3>1, <3>2
  <2> QED BY <1>4, <2>1 DEF Exact
<1> QED BY <1>3, <1>4, <1>5, <1>6, <1>7, <1>8, <1>9 DEF Sane, Sound

\* The invariant of the first layer holds when the scheduler starts.
LEMMA KernelInit == Init => KernelInv
<1> SUFFICES ASSUME Init PROVE KernelInv
  OBVIOUS
<1>1. /\ Sane(k) /\ ~k.switch /\ k.uxMutexesHeld = [u \in AllTasks |-> 0] /\ ~k.uxSchedulerSuspended
      /\ k.pxCurrentTCB \in Tasks
  BY InitTasks
<1>2. /\ ring = [i \in 0 .. MBOX_SIZE - 1 |-> NULL]
      /\ pcWriteTo = 0 /\ pcReadFrom = MBOX_SIZE - 1
      /\ uxMessagesWaiting = [q \in Queues |-> IF q = mbox THEN 0 ELSE 1]
      /\ cTxLock = [q \in Queues |-> queueUNLOCKED]
      /\ xMutexHolder = [q \in Mutexes |-> NULL]
      /\ pc = [t \in AllTasks |-> "idle"] /\ call = [t \in AllTasks |-> NoCall]
      /\ ret = [t \in AllTasks |-> Pending] /\ loc = [t \in AllTasks |-> NoLoc]
      /\ owns = [t \in AllTasks |-> {}]
  BY DEF Init
<1>3. CallTypes
  BY <1>2, NewCall, NoLocIs, Results DEF CallTypes, Steps
<1>4. Walk
  <2>1. WalkAt("idle", NoCall, Pending, NoLoc)
    BY NewCall, NoLocIs DEF WalkAt
  <2> QED BY <1>2, <2>1 DEF Walk
<1>5. QueueTypes
  <2>1. /\ pcWriteTo \in 0 .. MBOX_SIZE - 1 /\ pcReadFrom \in 0 .. MBOX_SIZE - 1
        /\ ring \in [0 .. MBOX_SIZE - 1 -> Msgs \cup {NULL}]
    BY <1>2, Constants
  <2>2. uxMessagesWaiting \in [Queues -> Nat] /\ cTxLock \in [Queues -> Int]
    BY <1>2 DEF queueUNLOCKED
  <2>3. \A q \in Queues : uxMessagesWaiting[q] <= uxLength(q)
    BY <1>2, Constants DEF uxLength
  <2> QED BY <1>2, <2>1, <2>2, <2>3 DEF QueueTypes
<1>6. Ring
  <2>1. uxMessagesWaiting[mbox] = 0
    BY <1>2, Constants
  <2>2. PICK n \in Nat \ {0} : n = MBOX_SIZE
    BY Constants
  <2>3. n - 1 + 1 + 0 = n /\ n % n = 0
    OBVIOUS
  <2> QED BY <1>2, <2>1, <2>2, <2>3 DEF Ring
<1>7. Holders
  BY <1>2, Constants DEF Holders
<1>8. Scheduler
  BY <1>1, <1>2, Constants DEF Scheduler, Suspending, cur
<1>9. Locks
  BY <1>1, <1>2, Constants DEF Locks, LocksQueue, Locking, cur
<1>10. Counts
  <2>1. ASSUME NEW t \in Tasks PROVE Held(t) = {}
    BY <1>2, KernelAssumption DEF Held, NULL
  <2>2. IsFiniteSet({}) /\ Cardinality({}) = 0
    BY FS_EmptySet
  <2> QED BY <1>1, <2>1, <2>2, Constants DEF Counts
<1> QED BY <1>1, <1>3, <1>4, <1>5, <1>6, <1>7, <1>8, <1>9, <1>10 DEF KernelInv, QueueInv, TaskInv

\* Every step of queue.c, the tick, the interrupt and PendSV keep the invariant.
LEMMA KernelNext == KernelInv /\ [Next]_vars => KernelInv'
<1> SUFFICES ASSUME KernelInv, [Next]_vars PROVE KernelInv'
  OBVIOUS
<1>1. ASSUME NEW t \in Tasks, Step(t) PROVE KernelInv'
  BY <1>1, BeginKeeps, DelayKeeps, SendKeeps, ReceiveKeeps, TakeKeeps, SuspendKeeps, LockKeeps, CheckKeeps,
     TestKeeps, PlaceKeeps, UnlockKeeps, ResumeKeeps, RecheckKeeps, ReturnKeeps DEF Step
<1>2. CASE Tick
  BY <1>2, TickKeeps
<1>3. CASE IsrPost
  BY <1>3, IsrPostKeeps
<1>4. CASE vTaskSwitchContext
  BY <1>4, SwitchKeeps
<1>5. CASE UNCHANGED vars
  BY <1>5, SMTT(60) DEF vars, queueVars, callVars, KernelInv, TaskInv, Counts, Held, CallTypes, Walk, QueueInv,
              QueueTypes, Ring, Holders, Scheduler, Locks, LocksQueue, Target, cur, uxLength
<1> QED BY <1>1, <1>2, <1>3, <1>4, <1>5 DEF Next

\* It implies the types.
LEMMA KernelInvTypes == KernelInv => TypeOK
<1> SUFFICES ASSUME KernelInv PROVE TypeOK
  OBVIOUS
<1>1. k \in KRec /\ ~k.switch /\ Counts /\ QueueTypes /\ CallTypes /\ Locks
  BY DEF KernelInv, TaskInv, Sane, QueueInv
<1>2. /\ k.pxCurrentTCB \in AllTasks
      /\ k.ready \in [Prios -> SUBSET AllTasks] /\ k.uxTopReadyPriority \subseteq Prios
      /\ k.delayed \subseteq Tasks /\ k.overflow \subseteq Tasks
      /\ k.wake \in [AllTasks -> 0 .. portMAX_DELAY]
      /\ k.uxSchedulerSuspended \in BOOLEAN /\ k.uxPendedTicks \in 0 .. PENDED
      /\ k.xTickCount \in 0 .. portMAX_DELAY /\ k.xNumOfOverflows \in 0 .. OVERFLOWS - 1
      /\ k.xNextTaskUnblockTime \in 0 .. portMAX_DELAY
      /\ k.xYieldPending \in BOOLEAN /\ k.pendsv \in BOOLEAN /\ k.switch = FALSE
      /\ k.uxPriority \in [AllTasks -> Prios]
  BY <1>1 DEF KRec
<1>3. /\ \A q \in Queues : Range(k.waitSend[q]) \cup Range(k.waitRecv[q]) \subseteq Tasks
      /\ Range(k.xPendingReadyList) \subseteq Tasks
  <2>1. \A l \in Seq(Tasks) : Range(l) \subseteq Tasks
    BY DEF Range
  <2> QED BY <1>1, <2>1 DEF KRec
<1>4. k.uxMutexesHeld \in [AllTasks -> Nat]
  <2>1. ASSUME NEW t \in AllTasks PROVE k.uxMutexesHeld[t] \in Nat
    <3>1. CASE t \in Tasks
      BY <1>1, <3>1, FS_CardinalityType DEF Counts
    <3>2. CASE t = Idle
      BY <1>1, <3>2 DEF Counts
    <3> QED BY <3>1, <3>2 DEF AllTasks
  <2>2. k.uxMutexesHeld \in [AllTasks -> Int]
    BY <1>1 DEF KRec
  <2> QED BY <2>1, <2>2
<1>5. ASSUME NEW q \in Queues
      PROVE  uxMessagesWaiting[q] \in 0 .. uxLength(q) /\ cTxLock[q] \in queueUNLOCKED .. uxLength(q)
  <2>1. /\ uxMessagesWaiting[q] \in Nat /\ uxMessagesWaiting[q] <= uxLength(q) /\ cTxLock[q] \in Int
        /\ uxLength(q) \in Nat /\ queueUNLOCKED = -1
    BY <1>1, Constants DEF QueueTypes, uxLength, queueUNLOCKED
  <2>2. cTxLock[q] = -1 \/ (0 <= cTxLock[q] /\ cTxLock[q] <= uxMessagesWaiting[q])
    BY <1>1, <2>1 DEF Locks
  <2> QED BY <2>1, <2>2
<1>6. /\ ring \in [0 .. MBOX_SIZE - 1 -> Msgs \cup {NULL}]
      /\ pcWriteTo \in 0 .. MBOX_SIZE - 1 /\ pcReadFrom \in 0 .. MBOX_SIZE - 1
      /\ xMutexHolder \in [Mutexes -> Tasks \cup {NULL}]
      /\ owns \in [AllTasks -> SUBSET Mutexes]
  BY <1>1 DEF QueueTypes, CallTypes
<1>7. pc \in [AllTasks -> {"idle", "try", "suspend", "lock", "check", "test", "place",
                            "unlock", "resume", "recheck", "return"}]
  BY <1>1 DEF CallTypes, Steps
<1> QED BY <1>2, <1>3, <1>4, <1>5, <1>6, <1>7 DEF TypeOK

\* The invariant of the first layer: the types, the walk of every task through
\* queue.c, the ring buffer, the locks and the holders.
THEOREM KernelInvariant == Spec => []KernelInv
BY KernelInit, KernelNext, PTL DEF Spec

\* Type correctness: queues never over- or underflow, the lock counter of a
\* queue never exceeds its length, the kernel's counters stay in range.
THEOREM TypeCorrect == Spec => []TypeOK
BY KernelInvariant, KernelInvTypes, PTL

-----------------------------------------------------------------------------
(* The lists of tasks.c, if no wait for a mutex expires.                   *)

\* Fresh depends on the clock and on three locals.
LEMMA FreshSame ==
    ASSUME NEW s, NEW r, NEW l, NEW x, NEW m, Fresh(s, l, m),
           r.xTickCount = s.xTickCount, r.xNumOfOverflows = s.xNumOfOverflows,
           x.xTicksToWait = l.xTicksToWait, x.xOverflowCount = l.xOverflowCount,
           x.xTimeOnEntering = l.xTimeOnEntering
    PROVE  Fresh(r, x, m)
BY DEF Fresh

\* A wait that was just set does not expire at once.
LEMMA FreshSet ==
    ASSUME Sane(k), NEW l \in Locals, NEW n \in 1 .. portMAX_DELAY, NEW m \in Nat, m < n
    PROVE  Fresh(k, SetTimeOut(l, n), m)
<1>1. PICK x : x = SetTimeOut(l, n)
  OBVIOUS
<1>2. x.xTicksToWait = n /\ x.xOverflowCount = k.xNumOfOverflows /\ x.xTimeOnEntering = k.xTickCount
  BY <1>1, SetTimeOutIs, Constants
<1>3. k.xTickCount \in Int
  BY DEF Sane, KRec
<1>4. k.xTickCount - k.xTickCount = 0 /\ 0 % TICKS = 0
  BY <1>3, Constants
<1>5. ((k.xTickCount - x.xTimeOnEntering) % TICKS) + m < x.xTicksToWait
  BY <1>2, <1>4, Constants
<1> QED BY <1>1, <1>2, <1>5 DEF Fresh

\* The steps of a task: the others' waits stay as long as the clock does.
LEMMA PatientStep ==
    ASSUME Patient, CallTypes, NEW t \in Tasks, NEW p, NEW c, NEW r, NEW l, Moves(t, p, c, r, l),
           PatientAt(k', p, c, r, l),
           \A x \in Locals : Fresh(k, x, k.uxPendedTicks) => Fresh(k', x, k'.uxPendedTicks)
    PROVE  Patient'
<1>1. Tasks \subseteq AllTasks
  BY Constants
<1>2. ASSUME NEW u \in Tasks PROVE PatientAt(k', pc'[u], call'[u], ret'[u], loc'[u])
  <2>1. CASE u = t
    <3>1. pc'[u] = p /\ call'[u] = c /\ ret'[u] = r /\ loc'[u] = l
      BY <1>1, <2>1 DEF CallTypes, Moves
    <3> QED BY <3>1
  <2>2. CASE u # t
    <3>1. pc'[u] = pc[u] /\ call'[u] = call[u] /\ ret'[u] = ret[u] /\ loc'[u] = loc[u] /\ loc[u] \in Locals
      BY <1>1, <2>2 DEF CallTypes, Moves
    <3>2. PatientAt(k, pc[u], call[u], ret[u], loc[u])
      BY DEF Patient
    <3>3. PatientAt(k', pc[u], call[u], ret[u], loc[u])
      BY <3>1, <3>2 DEF PatientAt
    <3> QED BY <3>1, <3>3
  <2> QED BY <2>1, <2>2
<1> QED BY <1>2 DEF Patient

\* A step of t that takes no mutex from another task.
LEMMA OwnersStep ==
    ASSUME Owners, CallTypes, NEW t \in Tasks, NEW p, NEW c, NEW r, NEW l, Moves(t, p, c, r, l),
           OwnersAt(t, xMutexHolder', c, r, owns'[t]),
           \A u \in Tasks \ {t} : owns'[u] = owns[u],
           \A u \in Tasks \ {t}, m \in Mutexes : xMutexHolder[m] = u => xMutexHolder'[m] = u
    PROVE  Owners'
<1>1. Tasks \subseteq AllTasks
  BY Constants
<1>2. ASSUME NEW u \in Tasks PROVE OwnersAt(u, xMutexHolder', call'[u], ret'[u], owns'[u])
  <2>1. CASE u = t
    <3>1. call'[u] = c /\ ret'[u] = r
      BY <1>1, <2>1 DEF CallTypes, Moves
    <3> QED BY <2>1, <3>1
  <2>2. CASE u # t
    <3>1. call'[u] = call[u] /\ ret'[u] = ret[u] /\ owns'[u] = owns[u]
      BY <1>1, <2>2 DEF CallTypes, Moves
    <3>2. OwnersAt(u, xMutexHolder, call[u], ret[u], owns[u])
      BY DEF Owners
    <3>3. call[u] \in CallRecs /\ owns[u] \in SUBSET Mutexes
      BY <1>1 DEF CallTypes
    <3>4. call[u].op \in {"lock", "unlock"} => call[u].mutex \in Mutexes
      BY <3>3, CallRec
    <3>5. OwnersAt(u, xMutexHolder', call[u], ret[u], owns[u])
      BY <2>2, <3>2, <3>3, <3>4 DEF OwnersAt
    <3> QED BY <3>1, <3>5
  <2> QED BY <2>1, <2>2
<1> QED BY <1>2 DEF Owners

\* A step that changes neither the holders nor the result.
LEMMA OwnersStay ==
    ASSUME Owners, CallTypes, NEW t \in Tasks, NEW p, NEW l, Moves(t, p, call[t], ret[t], l),
           UNCHANGED <<xMutexHolder, owns>>
    PROVE  Owners'
<1>1. OwnersAt(t, xMutexHolder', call[t], ret[t], owns'[t])
  BY DEF Owners
<1> QED BY <1>1, OwnersStep

\* A task that steps is awake unless it blocks just now.
LEMMA AwakeNow ==
    ASSUME KernelInv, Running, NEW t \in Tasks, t = cur, ~k.pendsv, pc[t] \notin {"unlock", "resume"}
    PROVE  cur \notin Asleep(k)
<1>1. loc[t].path = "none"
  BY Here DEF KernelInv, WalkAt
<1> QED BY <1>1 DEF Running

\* The running task stays awake.
LEMMA StillAwake ==
    ASSUME cur \notin Asleep(k), cur' = cur, \A u : u \in Asleep(k') => u \in Asleep(k)
    PROVE  Running'
BY DEF Running

\* Steps that leave tasks.c and the holders alone.
LEMMA QuietLists ==
    ASSUME KernelInv, ListInv, NEW t \in Tasks, t = cur, ~k.pendsv, pc[t] \notin {"unlock", "resume"},
           k' = k, UNCHANGED <<xMutexHolder, owns>>,
           NEW p, NEW c, NEW r, NEW l, Moves(t, p, c, r, l),
           PatientAt(k, p, c, r, l), OwnersAt(t, xMutexHolder, c, r, owns[t])
    PROVE  ListInv'
<1>1. Sound(k') /\ Running'
  <2>1. cur \notin Asleep(k) /\ cur' = cur
    BY AwakeNow DEF ListInv, cur
  <2> QED BY <2>1, StillAwake DEF ListInv
<1>2. Patient'
  <2>1. PatientAt(k', p, c, r, l)
    OBVIOUS
  <2> QED BY <2>1, PatientStep DEF ListInv, KernelInv
<1>3. Owners'
  <2>1. OwnersAt(t, xMutexHolder', c, r, owns'[t])
    OBVIOUS
  <2> QED BY <2>1, OwnersStep DEF ListInv, KernelInv
<1> QED BY <1>1, <1>2, <1>3 DEF ListInv

\* The begin of a call keeps the lists in order.
LEMMA BeginLists ==
    ASSUME KernelInv, ListInv, NEW t \in Tasks, Begin(t)
    PROVE  ListInv'
<1>1. t = cur /\ ~k.pendsv /\ pc[t] = "idle" /\ k' = k /\ UNCHANGED <<queueVars, owns>>
  BY DEF Begin, At
<1>2. PICK c, l : /\ Moves(t, "try", c, Pending, l)
                  /\ c.op \notin {"none", "delay"} /\ (c.op = "unlock" => c.mutex \in owns[t])
                  /\ l = [NoLoc EXCEPT !.xTicksToWait = BlockTime(c.op)]
  BY BeginMoves DEF KernelInv
<1>3. PatientAt(k, "try", c, Pending, l)
  <2>1. ASSUME c.op = "lock" PROVE l.xTicksToWait > 0 /\ ~l.set /\ l.path = "none"
    <3>1. PICK z \in Locals : z = NoLoc /\ ~z.set /\ z.path = "none"
      BY NoLocIs
    <3>2. l = [z EXCEPT !.xTicksToWait = portMAX_DELAY]
      BY <1>2, <2>1, <3>1, BlockTimeIs
    <3> QED BY <3>1, <3>2, Constants DEF Locals
  <2> QED BY <2>1 DEF PatientAt
<1>4. OwnersAt(t, xMutexHolder, c, Pending, owns[t])
  <2>1. OwnersAt(t, xMutexHolder, call[t], ret[t], owns[t])
    BY DEF ListInv, Owners
  <2>2. call[t].op = "none"
    BY <1>1, Here, CallRec DEF KernelInv, WalkAt
  <2>3. \A m \in owns[t] : xMutexHolder[m] = t
    <3>1. \A m : [op |-> "unlock", mutex |-> m].op = "unlock"
      OBVIOUS
    <3>2. \A m \in owns[t] : xMutexHolder[m] = t \/ call[t] = [op |-> "unlock", mutex |-> m]
      BY <2>1 DEF OwnersAt
    <3>3. \A m \in owns[t] : call[t] # [op |-> "unlock", mutex |-> m]
      BY <2>2, <3>1
    <3> QED BY <3>2, <3>3
  <2> QED BY <1>2, <2>3 DEF OwnersAt
<1> QED BY <1>1, <1>2, <1>3, <1>4, QuietLists DEF queueVars

\* Refuse keeps the lists in order.
LEMMA RefuseLists ==
    ASSUME KernelInv, ListInv, NEW t \in Tasks, t = cur, ~k.pendsv, pc[t] = "try",
           call' = call, owns' = owns, Refuse(t)
    PROVE  ListInv'
<1>1. k' = k /\ UNCHANGED queueVars
  BY DEF Refuse
<1>2. /\ PatientAt(k, pc[t], call[t], ret[t], loc[t]) /\ OwnersAt(t, xMutexHolder, call[t], ret[t], owns[t])
      /\ Sane(k) /\ loc[t] \in Locals /\ ret[t] = Pending
  BY Here DEF ListInv, Patient, Owners, KernelInv, TaskInv, WalkAt
<1>3. CASE Moves(t, "return", call[t], Failed, loc[t]) /\ loc[t].xTicksToWait = 0
  <2>1. call[t].op # "lock"
    BY <1>2, <1>3 DEF PatientAt
  <2>2. PatientAt(k, "return", call[t], Failed, loc[t])
    BY <2>1 DEF PatientAt
  <2>3. OwnersAt(t, xMutexHolder, call[t], Failed, owns[t])
    BY <1>2, <2>1, Results DEF OwnersAt
  <2> QED BY <1>1, <1>3, <2>2, <2>3, QuietLists DEF queueVars
<1>4. ASSUME NEW l, Moves(t, "suspend", call[t], Pending, l), loc[t].xTicksToWait > 0,
             loc[t].set => l = loc[t],
             ~loc[t].set => l = SetTimeOut(loc[t], loc[t].xTicksToWait)
      PROVE  ListInv'
  <2>1. PatientAt(k, "suspend", call[t], Pending, l)
    <3>1. CASE loc[t].set
      BY <1>2, <1>4, <3>1 DEF PatientAt
    <3>2. CASE ~loc[t].set
      <4>1. PICK n \in 1 .. portMAX_DELAY : n = loc[t].xTicksToWait
        BY <1>2, <1>4, Constants DEF Locals
      <4>2. k.uxPendedTicks = 0
        BY <1>2 DEF Sane, Flushed, KernelInv, Scheduler, Suspending
      <4>3. Fresh(k, l, k.uxPendedTicks)
        BY <1>2, <1>4, <3>2, <4>1, <4>2, FreshSet
      <4>4. l.xTicksToWait = n /\ l.path = loc[t].path
        <5>1. n \in 0 .. portMAX_DELAY /\ l = SetTimeOut(loc[t], n)
          BY <1>4, <3>2, <4>1
        <5> QED BY <1>2, <5>1, SetTimeOutIs
      <4> QED BY <1>2, <4>1, <4>3, <4>4, Constants DEF PatientAt
    <3> QED BY <1>2, <3>1, <3>2 DEF Locals
  <2>2. OwnersAt(t, xMutexHolder, call[t], Pending, owns[t])
    BY <1>2
  <2> QED BY <1>1, <1>4, <2>1, <2>2, QuietLists DEF queueVars
<1> QED BY <1>2, <1>3, <1>4, RefuseMoves DEF KernelInv

\* xTaskCheckForTimeOut() keeps the lists in order.
LEMMA CheckLists ==
    ASSUME KernelInv, ListInv, NEW t \in Tasks, xTaskCheckForTimeOut(t)
    PROVE  ListInv'
<1>1. t = cur /\ ~k.pendsv /\ pc[t] = "check" /\ k' = k /\ UNCHANGED <<queueVars, owns>>
  BY DEF xTaskCheckForTimeOut, At
<1>2. /\ PatientAt(k, pc[t], call[t], ret[t], loc[t]) /\ OwnersAt(t, xMutexHolder, call[t], ret[t], owns[t])
      /\ Sane(k) /\ loc[t] \in Locals /\ ret[t] = Pending /\ loc[t].set /\ loc[t].path = "none"
  BY <1>1, Here DEF ListInv, Patient, Owners, KernelInv, TaskInv, WalkAt
<1>3. Elapsed(t) \in Nat /\ k.uxPendedTicks \in Nat /\ loc[t].xTicksToWait \in Nat
  <2>1. Elapsed(t) \in 0 .. portMAX_DELAY
    BY <1>2, ElapsedIs DEF KernelInv
  <2> QED BY <1>2, <2>1 DEF Sane, KRec, Locals
<1>4. ASSUME call[t].op = "lock"
      PROVE  ~Expired(t) /\ Elapsed(t) + k.uxPendedTicks < loc[t].xTicksToWait
  <2>1. Fresh(k, loc[t], k.uxPendedTicks)
    BY <1>2, <1>4 DEF PatientAt
  <2>2. Elapsed(t) + k.uxPendedTicks < loc[t].xTicksToWait
    BY <2>1 DEF Fresh, Elapsed
  <2>3. ~Wrapped(t)
    <3>1. k.xNumOfOverflows = loc[t].xOverflowCount \/ k.xTickCount < loc[t].xTimeOnEntering
      BY <2>1 DEF Fresh
    <3>2. k.xTickCount \in Int /\ loc[t].xTimeOnEntering \in Int
      BY <1>2 DEF Sane, KRec, Locals
    <3> QED BY <3>1, <3>2 DEF Wrapped
  <2> QED BY <1>3, <2>2, <2>3 DEF Expired
<1>5. ASSUME NEW l, Moves(t, "unlock", call[t], ret[t], l), Expired(t) PROVE ListInv'
  <2>1. PatientAt(k, "unlock", call[t], ret[t], l)
    BY <1>4, <1>5 DEF PatientAt
  <2> QED BY <1>1, <1>2, <1>5, <2>1, QuietLists DEF queueVars
<1>6. ASSUME NEW l, Moves(t, "test", call[t], ret[t], l),
             l = SetTimeOut(loc[t], loc[t].xTicksToWait - Elapsed(t)),
             loc[t].xTicksToWait - Elapsed(t) \in 1 .. portMAX_DELAY
      PROVE ListInv'
  <2>1. PICK n \in 1 .. portMAX_DELAY : n = loc[t].xTicksToWait - Elapsed(t)
    BY <1>6
  <2>2. l.xTicksToWait = n /\ l.path = loc[t].path
    <3>1. n \in 0 .. portMAX_DELAY /\ l = SetTimeOut(loc[t], n)
      BY <1>6, <2>1
    <3> QED BY <1>2, <3>1, SetTimeOutIs
  <2>3. ASSUME call[t].op = "lock" PROVE Fresh(k, l, k.uxPendedTicks)
    <3>1. k.uxPendedTicks < n
      BY <1>3, <1>4, <2>1, <2>3
    <3> QED BY <1>2, <1>3, <1>6, <2>1, <3>1, FreshSet
  <2>4. PatientAt(k, "test", call[t], ret[t], l)
    BY <1>2, <2>1, <2>2, <2>3, Constants DEF PatientAt
  <2> QED BY <1>1, <1>2, <1>6, <2>4, QuietLists DEF queueVars
<1> QED BY <1>2, <1>5, <1>6, CheckMoves DEF KernelInv

\* The test of the queue keeps the lists in order.
LEMMA TestLists ==
    ASSUME KernelInv, ListInv, NEW t \in Tasks, TestQueue(t)
    PROVE  ListInv'
<1>1. t = cur /\ ~k.pendsv /\ pc[t] = "test" /\ k' = k /\ UNCHANGED <<queueVars, owns>>
  BY DEF TestQueue, At
<1>2. /\ PatientAt(k, pc[t], call[t], ret[t], loc[t]) /\ OwnersAt(t, xMutexHolder, call[t], ret[t], owns[t])
      /\ loc[t] \in Locals
  BY Here DEF ListInv, Patient, Owners, KernelInv
<1>3. CASE Moves(t, "place", call[t], ret[t], loc[t])
  <2>1. PatientAt(k, "place", call[t], ret[t], loc[t])
    BY <1>2 DEF PatientAt
  <2> QED BY <1>1, <1>2, <1>3, <2>1, QuietLists DEF queueVars
<1>4. ASSUME NEW l, Moves(t, "unlock", call[t], ret[t], l), l = [loc[t] EXCEPT !.path = "again"]
      PROVE  ListInv'
  <2>1. /\ l.xTicksToWait = loc[t].xTicksToWait /\ l.xOverflowCount = loc[t].xOverflowCount
        /\ l.xTimeOnEntering = loc[t].xTimeOnEntering /\ l.set = loc[t].set /\ l.path = "again"
    BY <1>2, <1>4 DEF Locals
  <2>2. Fresh(k, loc[t], k.uxPendedTicks) => Fresh(k, l, k.uxPendedTicks)
    BY <2>1 DEF Fresh
  <2>3. PatientAt(k, "unlock", call[t], ret[t], l)
    BY <1>2, <2>1, <2>2 DEF PatientAt
  <2> QED BY <1>1, <1>2, <1>4, <2>3, QuietLists DEF queueVars
<1> QED BY <1>3, <1>4, TestMoves DEF KernelInv

\* An unlock call names one mutex.
LEMMA NotUnlocking ==
    ASSUME NEW c, NEW m, c.op # "unlock" \/ c.mutex # m
    PROVE  c # [op |-> "unlock", mutex |-> m]
<1>1. [op |-> "unlock", mutex |-> m].op = "unlock" /\ [op |-> "unlock", mutex |-> m].mutex = m
  OBVIOUS
<1> QED BY <1>1

\* The return of a call keeps the lists in order.
LEMMA ReturnLists ==
    ASSUME KernelInv, ListInv, NEW t \in Tasks, Return(t)
    PROVE  ListInv'
<1>1. t = cur /\ ~k.pendsv /\ pc[t] = "return" /\ k' = k /\ UNCHANGED queueVars
  BY DEF Return, At
<1>2. /\ Moves(t, "idle", NoCall, Pending, NoLoc)
      /\ \A u \in AllTasks \ {t} : owns'[u] = owns[u]
      /\ call[t].op = "lock" => owns'[t] = owns[t] \cup {call[t].mutex}
      /\ call[t].op = "unlock" => owns'[t] = owns[t] \ {call[t].mutex}
      /\ call[t].op \notin {"lock", "unlock"} => owns'[t] = owns[t]
  BY ReturnMoves DEF KernelInv
<1>3. OwnersAt(t, xMutexHolder, call[t], ret[t], owns[t]) /\ ret[t] # Pending
  BY <1>1, Here DEF ListInv, Owners, KernelInv, WalkAt
<1>4. Sound(k') /\ Running'
  <2>1. cur \notin Asleep(k) /\ cur' = cur
    BY <1>1, AwakeNow DEF ListInv, cur
  <2> QED BY <1>1, <2>1, StillAwake DEF ListInv
<1>5. Patient'
  <2>1. PatientAt(k', "idle", NoCall, Pending, NoLoc)
    BY NewCall DEF PatientAt
  <2> QED BY <1>1, <1>2, <2>1, PatientStep DEF ListInv, KernelInv
<1>6. OwnersAt(t, xMutexHolder', NoCall, Pending, owns'[t])
  <2>1. ASSUME NEW m \in owns'[t] PROVE xMutexHolder'[m] = t
    <3>1. m \in owns[t] => xMutexHolder[m] = t \/ call[t] = [op |-> "unlock", mutex |-> m]
      BY <1>3 DEF OwnersAt
    <3>2. CASE call[t].op = "lock"
      <4>1. call[t] # [op |-> "unlock", mutex |-> m]
        BY <3>2, NotUnlocking
      <4>2. m = call[t].mutex => xMutexHolder[m] = t
        BY <1>3, <3>2 DEF OwnersAt
      <4> QED BY <1>1, <1>2, <2>1, <3>1, <3>2, <4>1, <4>2 DEF queueVars
    <3>3. CASE call[t].op = "unlock"
      <4>1. m \in owns[t] /\ call[t].mutex # m
        BY <1>2, <2>1, <3>3
      <4>2. call[t] # [op |-> "unlock", mutex |-> m]
        BY <4>1, NotUnlocking
      <4> QED BY <1>1, <3>1, <4>1, <4>2 DEF queueVars
    <3>4. CASE call[t].op \notin {"lock", "unlock"}
      <4>1. m \in owns[t]
        BY <1>2, <2>1, <3>4
      <4>2. call[t] # [op |-> "unlock", mutex |-> m]
        BY <3>4, NotUnlocking
      <4> QED BY <1>1, <3>1, <4>1, <4>2 DEF queueVars
    <3> QED BY <3>2, <3>3, <3>4
  <2> QED BY <2>1, NewCall DEF OwnersAt
<1>7. Owners'
  <2>1. \A u \in Tasks \ {t} : owns'[u] = owns[u]
    BY <1>2, Constants
  <2> QED BY <1>1, <1>2, <1>6, <2>1, OwnersStep DEF ListInv, KernelInv, queueVars
<1> QED BY <1>4, <1>5, <1>7 DEF ListInv

\* The waits stay fresh while the clock stands still.
LEMMA FreshStays ==
    ASSUME SameClock(k, k')
    PROVE  \A x : Fresh(k, x, k.uxPendedTicks) => Fresh(k', x, k'.uxPendedTicks)
BY DEF SameClock, Fresh

\* Steps with the clock standing still that keep the call, its result and the holders.
LEMMA CallLists ==
    ASSUME KernelInv, ListInv, NEW t \in Tasks, t = cur, SameClock(k, k'), UNCHANGED <<xMutexHolder, owns>>,
           NEW p \in Steps \ {"recheck"}, NEW l, Moves(t, p, call[t], ret[t], l), l.path # "expired",
           l.xTicksToWait = loc[t].xTicksToWait, l.set = loc[t].set,
           l.xOverflowCount = loc[t].xOverflowCount, l.xTimeOnEntering = loc[t].xTimeOnEntering
    PROVE  Patient' /\ Owners'
<1>1. PatientAt(k, pc[t], call[t], ret[t], loc[t])
  BY DEF ListInv, Patient
<1>2. Fresh(k, loc[t], k.uxPendedTicks) => Fresh(k', l, k'.uxPendedTicks)
  BY DEF Fresh, SameClock
<1>3. PatientAt(k', p, call[t], ret[t], l)
  BY <1>1, <1>2 DEF PatientAt
<1>4. Patient'
  BY <1>3, FreshStays, PatientStep DEF ListInv, KernelInv
<1>5. Owners'
  BY OwnersStay DEF ListInv, KernelInv
<1> QED BY <1>4, <1>5

\* vTaskSuspendAll() keeps the lists in order.
LEMMA SuspendLists ==
    ASSUME KernelInv, ListInv, NEW t \in Tasks, Suspend(t)
    PROVE  ListInv'
<1>1. t = cur /\ ~k.pendsv /\ pc[t] = "suspend" /\ UNCHANGED <<queueVars, owns>>
  BY DEF Suspend, At
<1>2. Moves(t, "lock", call[t], ret[t], loc[t]) /\ loc[t].path = "none"
  BY <1>1, SuspendMoves, Here DEF KernelInv, WalkAt
<1>3. /\ k'.pxCurrentTCB = k.pxCurrentTCB /\ SameClock(k, k')
      /\ Asleep(k') = Asleep(k) /\ (Sound(k) => Sound(k'))
  BY SuspendIs DEF KernelInv, TaskInv, Suspend
<1>4. Running'
  <2>1. cur \notin Asleep(k) /\ cur' = cur
    BY <1>1, <1>3, AwakeNow DEF ListInv, cur
  <2> QED BY <1>3, <2>1, StillAwake
<1>5. Patient' /\ Owners'
  BY <1>1, <1>2, <1>3, CallLists DEF queueVars, Steps
<1> QED BY <1>3, <1>4, <1>5 DEF ListInv

\* prvLockQueue() keeps the lists in order.
LEMMA LockLists ==
    ASSUME KernelInv, ListInv, NEW t \in Tasks, prvLockQueue(t)
    PROVE  ListInv'
<1>1. t = cur /\ ~k.pendsv /\ pc[t] = "lock" /\ k' = k /\ UNCHANGED <<xMutexHolder, owns>>
  BY DEF prvLockQueue, At
<1>2. Moves(t, "check", call[t], ret[t], loc[t]) /\ loc[t].path = "none"
  BY <1>1, LockMoves, Here DEF KernelInv, WalkAt
<1>3. SameClock(k, k')
  BY <1>1 DEF SameClock
<1>4. Running'
  <2>1. cur \notin Asleep(k) /\ cur' = cur
    BY <1>1, AwakeNow DEF ListInv, cur
  <2> QED BY <1>1, <2>1, StillAwake
<1>5. Patient' /\ Owners'
  BY <1>1, <1>2, <1>3, CallLists DEF Steps
<1> QED BY <1>1, <1>4, <1>5 DEF ListInv

\* vTaskDelay() keeps the lists in order.
LEMMA DelayLists ==
    ASSUME KernelInv, ListInv, NEW t \in Tasks, Delay(t)
    PROVE  ListInv'
<1>1. t = cur /\ ~k.pendsv /\ pc[t] = "idle" /\ UNCHANGED <<queueVars, owns>>
  BY DEF Delay, At
<1>2. PICK c, l : /\ Moves(t, "resume", c, Pending, l) /\ c.op = "delay" /\ l.path = "blocked"
  <2>1. [op |-> "delay"].op = "delay" /\ [NoLoc EXCEPT !.path = "blocked"].path = "blocked"
    BY DEF NoLoc
  <2> QED BY <2>1, DelayMoves DEF KernelInv
<1>3. cur \notin Asleep(k)
  BY <1>1, AwakeNow DEF ListInv
<1>4. /\ k'.uxSchedulerSuspended /\ k'.pxCurrentTCB = k.pxCurrentTCB /\ SameClock(k, k')
      /\ Sound(k')
  <2>1. Sane(k) /\ k.pxCurrentTCB \in Tasks /\ k.pxCurrentTCB \notin Asleep(k) /\ Sound(k)
    BY <1>1, <1>3 DEF KernelInv, TaskInv, cur, ListInv
  <2>2. k' = [prvAddCurrentTaskToDelayedList(k, 1) EXCEPT !.uxSchedulerSuspended = TRUE]
    BY DEF Delay
  <2> QED BY <2>1, <2>2, DelayIs
<1>5. Running'
  <2>1. cur' = t /\ loc'[t] = l
    BY <1>1, <1>2, <1>4, Constants DEF cur, Moves, KernelInv, CallTypes
  <2> QED BY <1>2, <1>4, <2>1 DEF Running
<1>6. Patient'
  <2>1. PatientAt(k', "resume", c, Pending, l)
    BY <1>2 DEF PatientAt
  <2> QED BY <1>2, <1>4, <2>1, FreshStays, PatientStep DEF ListInv, KernelInv
<1>7. Owners'
  <2>1. OwnersAt(t, xMutexHolder, call[t], ret[t], owns[t])
    BY DEF ListInv, Owners
  <2>2. call[t].op = "none"
    BY <1>1, Here, CallRec DEF KernelInv, WalkAt
  <2>3. ASSUME NEW m \in owns[t] PROVE xMutexHolder[m] = t
    <3>1. call[t] # [op |-> "unlock", mutex |-> m]
      BY <2>2, NotUnlocking
    <3> QED BY <2>1, <3>1 DEF OwnersAt
  <2>4. OwnersAt(t, xMutexHolder', c, Pending, owns'[t])
    BY <1>1, <1>2, <2>3 DEF OwnersAt, queueVars
  <2> QED BY <1>1, <1>2, <2>4, OwnersStep DEF ListInv, KernelInv, queueVars
<1> QED BY <1>4, <1>5, <1>6, <1>7 DEF ListInv

\* Going to sleep keeps the lists in order.
LEMMA PlaceLists ==
    ASSUME KernelInv, ListInv, NEW t \in Tasks, Place(t)
    PROVE  ListInv'
<1>1. t = cur /\ ~k.pendsv /\ pc[t] = "place" /\ UNCHANGED <<queueVars, owns>>
  BY DEF Place, At
<1>2. PICK l : /\ Moves(t, "unlock", call[t], ret[t], l) /\ l.path = "blocked"
               /\ l.xTicksToWait = loc[t].xTicksToWait /\ l.set = loc[t].set
               /\ l.xOverflowCount = loc[t].xOverflowCount
               /\ l.xTimeOnEntering = loc[t].xTimeOnEntering
  BY PlaceMoves DEF KernelInv
<1>3. cur \notin Asleep(k)
  BY <1>1, AwakeNow DEF ListInv
<1>4. SameClock(k, k') /\ SameTask(k, k') /\ Sound(k')
  BY <1>3, PlaceKeeps DEF ListInv
<1>5. Running'
  <2>1. cur' = t /\ loc'[t] = l
    BY <1>1, <1>2, <1>4, Constants DEF cur, Moves, KernelInv, CallTypes, SameTask
  <2>2. k'.uxSchedulerSuspended
    BY <1>1, <1>4 DEF SameTask, KernelInv, Scheduler, Suspending
  <2> QED BY <1>2, <2>1, <2>2 DEF Running
<1>6. Patient' /\ Owners'
  BY <1>1, <1>2, <1>4, CallLists DEF queueVars, Steps
<1> QED BY <1>4, <1>5, <1>6 DEF ListInv

\* prvUnlockQueue() keeps the lists in order.
LEMMA UnlockLists ==
    ASSUME KernelInv, ListInv, NEW t \in Tasks, prvUnlockQueue(t)
    PROVE  ListInv'
<1>1. t = cur /\ ~k.pendsv /\ pc[t] = "unlock" /\ UNCHANGED <<xMutexHolder, owns, loc, call, ret>>
  BY DEF prvUnlockQueue, At
<1>2. Moves(t, "resume", call[t], ret[t], loc[t])
  BY UnlockMoves DEF KernelInv
<1>3. /\ SameClock(k, k') /\ SameTask(k, k') /\ (Sound(k) => Sound(k'))
      /\ \A u : u \in Asleep(k') => u \in Asleep(k)
  BY UnlockEffect DEF Keeps
<1>4. Running'
  <2>1. cur' = cur /\ k'.uxSchedulerSuspended = k.uxSchedulerSuspended
    BY <1>3 DEF cur, SameTask
  <2>2. cur \notin Asleep(k) \/ (k.uxSchedulerSuspended /\ loc[cur].path = "blocked")
    BY <1>1 DEF ListInv, Running
  <2> QED BY <1>1, <1>3, <2>1, <2>2 DEF Running
<1>5. Patient'
  <2>1. PatientAt(k, pc[t], call[t], ret[t], loc[t])
    BY DEF ListInv, Patient
  <2>2. PatientAt(k', "resume", call[t], ret[t], loc[t])
    BY <1>3, <2>1, FreshStays DEF PatientAt
  <2> QED BY <1>2, <1>3, <2>2, FreshStays, PatientStep DEF ListInv, KernelInv
<1>6. Owners'
  BY <1>1, <1>2, OwnersStay DEF ListInv, KernelInv
<1> QED BY <1>3, <1>4, <1>5, <1>6 DEF ListInv

\* xTaskResumeAll() and what follows keeps the lists in order.
LEMMA ResumeLists ==
    ASSUME KernelInv, ListInv, NEW t \in Tasks, Resume(t)
    PROVE  ListInv'
<1>1. t = cur /\ ~k.pendsv /\ pc[t] = "resume" /\ UNCHANGED <<queueVars, owns>>
  BY DEF Resume, At
<1>2. Resumed(k, k') /\ (loc[t].path = "blocked" => k'.pendsv)
  BY ResumeEffect
<1>3. /\ (Sound(k) => Sound(k')) /\ (\A u : u \in Asleep(k') => u \in Asleep(k))
      /\ k'.pxCurrentTCB = k.pxCurrentTCB /\ ~k'.uxSchedulerSuspended /\ k'.uxPendedTicks = 0
      /\ \A l \in Locals, m \in Nat : Fresh(k, l, m + k.uxPendedTicks) => Fresh(k', l, m)
  BY <1>2 DEF Resumed
<1>4. Running'
  <2>1. cur' = cur
    BY <1>3 DEF cur
  <2>2. cur \notin Asleep(k) \/ loc[cur].path = "blocked"
    BY <1>1 DEF ListInv, Running
  <2> QED BY <1>1, <1>2, <1>3, <2>1, <2>2 DEF Running
<1>5. \A x \in Locals : Fresh(k, x, k.uxPendedTicks) => Fresh(k', x, k'.uxPendedTicks)
  <2>1. k.uxPendedTicks \in Nat
    BY DEF KernelInv, TaskInv, Sane, KRec
  <2>2. 0 + k.uxPendedTicks = k.uxPendedTicks /\ 0 \in Nat
    BY <2>1
  <2> QED BY <1>3, <2>2
<1>6. /\ PatientAt(k, pc[t], call[t], ret[t], loc[t]) /\ OwnersAt(t, xMutexHolder, call[t], ret[t], owns[t])
      /\ loc[t] \in Locals
  BY Here DEF ListInv, Patient, Owners, KernelInv
<1>7. ASSUME NEW l, Moves(t, "return", call[t], Ok, l), call[t].op = "delay" PROVE Patient' /\ Owners'
  <2>1. PatientAt(k', "return", call[t], Ok, l)
    BY <1>7 DEF PatientAt
  <2>2. OwnersAt(t, xMutexHolder', call[t], Ok, owns'[t])
    BY <1>1, <1>6, <1>7 DEF OwnersAt, queueVars
  <2> QED BY <1>1, <1>5, <1>7, <2>1, <2>2, PatientStep, OwnersStep DEF ListInv, KernelInv, queueVars
<1>8. ASSUME NEW p, NEW l, Moves(t, p, call[t], ret[t], l), loc[t].path = "expired" PROVE Patient' /\ Owners'
  <2>1. call[t].op # "lock"
    BY <1>6, <1>8 DEF PatientAt
  <2>2. PatientAt(k', p, call[t], ret[t], l)
    BY <2>1 DEF PatientAt
  <2> QED BY <1>1, <1>5, <1>8, <2>2, PatientStep, OwnersStay DEF ListInv, KernelInv, queueVars
<1>9. ASSUME NEW l, Moves(t, "try", call[t], ret[t], l), loc[t].path # "expired",
             l.xTicksToWait = loc[t].xTicksToWait, l.set = loc[t].set,
             l.xOverflowCount = loc[t].xOverflowCount, l.xTimeOnEntering = loc[t].xTimeOnEntering
      PROVE  Patient' /\ Owners'
  <2>1. l.path = "none"
    BY <1>9 DEF Moves, WalkAt
  <2>2. Fresh(k', loc[t], k'.uxPendedTicks) => Fresh(k', l, k'.uxPendedTicks)
    BY <1>9 DEF Fresh
  <2>3. PatientAt(k', "try", call[t], ret[t], l)
    BY <1>5, <1>6, <1>9, <2>1, <2>2 DEF PatientAt
  <2> QED BY <1>1, <1>5, <1>9, <2>3, PatientStep, OwnersStay DEF ListInv, KernelInv, queueVars
<1>10. Patient' /\ Owners'
  BY <1>7, <1>8, <1>9, ResumeMoves DEF KernelInv
<1> QED BY <1>3, <1>4, <1>10 DEF ListInv

\* The last look after a timeout keeps the lists in order.
LEMMA RecheckLists ==
    ASSUME KernelInv, ListInv, NEW t \in Tasks, Recheck(t)
    PROVE  ListInv'
<1>1. t = cur /\ ~k.pendsv /\ pc[t] = "recheck" /\ UNCHANGED <<queueVars, owns>>
  BY DEF Recheck, At
<1>2. /\ PatientAt(k, pc[t], call[t], ret[t], loc[t]) /\ OwnersAt(t, xMutexHolder, call[t], ret[t], owns[t])
      /\ ret[t] = Pending /\ (loc[t].xInheritanceOccurred => call[t].op = "lock")
  BY <1>1, Here DEF ListInv, Patient, Owners, KernelInv, WalkAt
<1>3. call[t].op # "lock"
  BY <1>1, <1>2 DEF PatientAt
<1>4. k' = k
  BY <1>2, <1>3, Zenon DEF Recheck
<1>5. ASSUME NEW p, NEW r, NEW l, Moves(t, p, call[t], r, l), r = Pending \/ r = Failed PROVE ListInv'
  <2>1. PatientAt(k, p, call[t], r, l)
    BY <1>3 DEF PatientAt
  <2>2. OwnersAt(t, xMutexHolder, call[t], r, owns[t])
    BY <1>2, <1>3, <1>5 DEF OwnersAt
  <2> QED BY <1>1, <1>4, <1>5, <2>1, <2>2, QuietLists DEF queueVars
<1> QED BY <1>2, <1>5, RecheckMoves DEF KernelInv

\* A call is served: the clock stands still and the running task stays awake.
LEMMA ServeLists ==
    ASSUME KernelInv, ListInv, NEW t \in Tasks, t = cur, ~k.pendsv, pc[t] = "try", owns' = owns,
           NEW r, Moves(t, "return", call[t], r, loc[t]), call[t].op = "lock" => r = Ok,
           SameTask(k, k'), SameClock(k, k'), Sound(k'), \A u : u \in Asleep(k') => u \in Asleep(k),
           OwnersAt(t, xMutexHolder', call[t], r, owns[t]),
           \A u \in Tasks \ {t}, m \in Mutexes : xMutexHolder[m] = u => xMutexHolder'[m] = u
    PROVE  ListInv'
<1>1. Running'
  <2>1. cur \notin Asleep(k) /\ cur' = cur
    BY AwakeNow DEF ListInv, cur, SameTask
  <2> QED BY <2>1, StillAwake
<1>2. PatientAt(k, pc[t], call[t], ret[t], loc[t])
  BY DEF ListInv, Patient
<1>3. PatientAt(k', "return", call[t], r, loc[t])
  BY <1>2, FreshStays DEF PatientAt
<1>4. Patient'
  BY <1>3, FreshStays, PatientStep DEF ListInv, KernelInv
<1>5. Owners'
  BY OwnersStep DEF ListInv, KernelInv
<1> QED BY <1>1, <1>4, <1>5 DEF ListInv

\* TryReceive keeps the lists in order.
LEMMA ReceiveLists ==
    ASSUME KernelInv, ListInv, NEW t \in Tasks, TryReceive(t)
    PROVE  ListInv'
<1>1. t = cur /\ ~k.pendsv /\ pc[t] = "try" /\ owns' = owns /\ call' = call /\ Fetching(t)
  BY DEF TryReceive, At
<1>2. CASE uxMessagesWaiting[mbox] = 0
  <2>1. Refuse(t)
    BY <1>2, Zenon DEF TryReceive
  <2> QED BY <1>1, <2>1, RefuseLists
<1>3. CASE uxMessagesWaiting[mbox] # 0
  <2>1. k' = WakeOne(k, mbox, "send") /\ xMutexHolder' = xMutexHolder
    BY <1>3, Zenon DEF TryReceive
  <2>2. PICK r : Moves(t, "return", call[t], r, loc[t])
    BY <1>3, ReceiveMoves DEF KernelInv, QueueInv
  <2>3. Keeps(k, k')
    BY <2>1, WakeOneKeeps, Constants DEF KernelInv, TaskInv
  <2>4. SameTask(k, k') /\ SameClock(k, k') /\ Sound(k') /\ \A u : u \in Asleep(k') => u \in Asleep(k)
    BY <2>3 DEF Keeps, ListInv
  <2>5. call[t].op \notin {"lock", "unlock"}
    BY <1>1 DEF Fetching
  <2>6. OwnersAt(t, xMutexHolder', call[t], r, owns[t])
    BY <2>1, <2>5 DEF ListInv, Owners, OwnersAt
  <2> QED BY <1>1, <2>1, <2>2, <2>4, <2>5, <2>6, ServeLists
<1> QED BY <1>2, <1>3

\* TryTake keeps the lists in order.
LEMMA TakeLists ==
    ASSUME KernelInv, ListInv, NEW t \in Tasks, TryTake(t)
    PROVE  ListInv'
<1>1. t = cur /\ ~k.pendsv /\ pc[t] = "try" /\ owns' = owns /\ call' = call /\ call[t].op = "lock"
  BY DEF TryTake, At
<1>2. PICK q \in Mutexes : q = Target(t) /\ q = call[t].mutex
  BY <1>1, TargetIs DEF KernelInv
<1>3. CASE uxMessagesWaiting[q] = 0
  <2>1. Refuse(t)
    BY <1>2, <1>3, Zenon DEF TryTake
  <2> QED BY <1>1, <2>1, RefuseLists
<1>4. CASE uxMessagesWaiting[q] # 0
  <2>1. /\ xMutexHolder' = [xMutexHolder EXCEPT ![q] = t]
        /\ k' = [k EXCEPT !.uxMutexesHeld[t] = k.uxMutexesHeld[t] + 1]
        /\ Finish(t, Ok) /\ UNCHANGED loc
    BY <1>2, <1>4, Zenon DEF TryTake
  <2>2. Moves(t, "return", call[t], Ok, loc[t])
    BY <1>1, <2>1, Results, FinishMoves DEF KernelInv
  <2>3. xMutexHolder[q] = NULL
    <3>1. q \in Queues /\ q # mbox
      BY Constants
    <3>2. uxMessagesWaiting[q] \in Nat /\ uxMessagesWaiting[q] <= 1
      BY <3>1 DEF KernelInv, QueueInv, QueueTypes, uxLength
    <3>3. uxMessagesWaiting[q] = 1
      BY <1>4, <3>2
    <3> QED BY <3>3 DEF KernelInv, QueueInv, Holders
  <2>4. SameTask(k, k') /\ SameClock(k, k') /\ Sound(k') /\ Asleep(k') = Asleep(k)
    <3>1. Sane(k) /\ Sound(k)
      BY DEF KernelInv, TaskInv, ListInv
    <3>2. Takes(k, t, k')
      BY <2>1 DEF Takes
    <3> QED BY <3>1, <3>2, TakeIs
  <2>5. xMutexHolder \in [Mutexes -> Tasks \cup {NULL}] /\ NULL \notin Tasks
    BY KernelAssumption DEF KernelInv, QueueInv, QueueTypes, NULL
  <2>6. OwnersAt(t, xMutexHolder', call[t], Ok, owns[t])
    <3>1. OwnersAt(t, xMutexHolder, call[t], ret[t], owns[t]) /\ owns[t] \in SUBSET Mutexes
      BY Constants DEF ListInv, Owners, KernelInv, CallTypes
    <3>2. xMutexHolder'[q] = t /\ \A m \in Mutexes : xMutexHolder[m] = t => xMutexHolder'[m] = t
      BY <2>1, <2>5
    <3> QED BY <1>1, <1>2, <3>1, <3>2 DEF OwnersAt
  <2>7. \A u \in Tasks \ {t}, m \in Mutexes : xMutexHolder[m] = u => xMutexHolder'[m] = u
    BY <2>1, <2>3, <2>5
  <2> QED BY <1>1, <2>2, <2>4, <2>6, <2>7, ServeLists
<1> QED BY <1>3, <1>4

\* TrySend keeps the lists in order.
LEMMA SendLists ==
    ASSUME KernelInv, ListInv, NEW t \in Tasks, TrySend(t)
    PROVE  ListInv'
<1>1. t = cur /\ ~k.pendsv /\ pc[t] = "try" /\ owns' = owns /\ call' = call /\ Posting(t)
  BY DEF TrySend, At
<1>2. CASE uxMessagesWaiting[Target(t)] >= uxLength(Target(t))
  <2>1. Refuse(t)
    BY <1>2, Zenon DEF TrySend
  <2> QED BY <1>1, <2>1, RefuseLists
<1>3. CASE ~(uxMessagesWaiting[Target(t)] >= uxLength(Target(t)))
  <2>1. Moves(t, "return", call[t], Ok, loc[t])
    BY <1>3, SendMoves DEF KernelInv
  <2>2. /\ OwnersAt(t, xMutexHolder, call[t], ret[t], owns[t]) /\ owns[t] \in SUBSET Mutexes
        /\ ret[t] = Pending /\ call[t] \in CallRecs /\ call[t].op # "lock"
    BY <1>1, Here, Constants DEF ListInv, Owners, KernelInv, CallTypes, WalkAt, Posting
  <2>3. CASE call[t].op # "unlock"
    <3>1. Keeps(k, k') /\ UNCHANGED xMutexHolder
      BY <1>3, <2>3, PostEffect
    <3>2. SameTask(k, k') /\ SameClock(k, k') /\ Sound(k') /\ \A u : u \in Asleep(k') => u \in Asleep(k)
      BY <3>1 DEF Keeps, ListInv
    <3>3. OwnersAt(t, xMutexHolder', call[t], Ok, owns[t])
      BY <2>2, <2>3, <3>1 DEF OwnersAt
    <3> QED BY <1>1, <2>1, <2>2, <3>1, <3>2, <3>3, ServeLists
  <2>4. CASE call[t].op = "unlock"
    <3>1. PICK q \in Mutexes : q = Target(t) /\ q = call[t].mutex /\ q # mbox
      BY <2>4, TargetIs, Constants DEF KernelInv
    <3>2. PICK h \in Tasks : xMutexHolder[q] = h /\ Disinherited(k, k', h)
      BY <1>3, <2>4, <3>1, GiveEffect
    <3>3. h = t
      BY <2>2, <2>4, <3>1, <3>2 DEF OwnersAt
    <3>4. t \notin Asleep(k)
      BY <1>1, AwakeNow DEF ListInv
    <3>5. SameTask(k, k') /\ SameClock(k, k') /\ Sound(k') /\ \A u : u \in Asleep(k') => u \in Asleep(k)
      BY <3>2, <3>3, <3>4 DEF Disinherited, ListInv
    <3>6. xMutexHolder' = [xMutexHolder EXCEPT ![q] = NULL]
      BY <1>3, <3>1, Zenon DEF TrySend
    <3>7. xMutexHolder \in [Mutexes -> Tasks \cup {NULL}]
      BY DEF KernelInv, QueueInv, QueueTypes
    <3>8. OwnersAt(t, xMutexHolder', call[t], Ok, owns[t])
      <4>1. call[t] = [op |-> "unlock", mutex |-> q]
        BY <2>2, <2>4, <3>1, CallRec
      <4>2. ASSUME NEW m \in owns[t] PROVE xMutexHolder'[m] = t \/ call[t] = [op |-> "unlock", mutex |-> m]
        <5>1. CASE m = q
          BY <4>1, <5>1
        <5>2. CASE m # q
          <6>1. call[t] # [op |-> "unlock", mutex |-> m]
            BY <3>1, <5>2, NotUnlocking
          <6>2. xMutexHolder[m] = t
            BY <2>2, <6>1 DEF OwnersAt
          <6> QED BY <2>2, <3>6, <3>7, <5>2, <6>2
        <5> QED BY <5>1, <5>2
      <4> QED BY <2>4, <4>2, Results DEF OwnersAt
    <3>9. \A u \in Tasks \ {t}, m \in Mutexes : xMutexHolder[m] = u => xMutexHolder'[m] = u
      BY <3>2, <3>3, <3>6, <3>7
    <3> QED BY <1>1, <2>1, <2>2, <3>5, <3>8, <3>9, ServeLists
  <2> QED BY <2>3, <2>4
<1> QED BY <1>2, <1>3

\* A tick that comes before any wait for a mutex expires.
LEMMA TickLists ==
    ASSUME KernelInv, ListInv, MUTEX_EXPIRES = FALSE, Tick
    PROVE  ListInv'
<1>1. UNCHANGED <<queueVars, callVars>> /\ ~MutexAboutToExpire
  BY DEF Tick
<1>2. /\ SameTask(k, k') /\ (k.pendsv => k'.pendsv) /\ Sound(k')
      /\ \A u : u \in Asleep(k') => u \in Asleep(k)
      /\ \A l \in Locals : Fresh(k, l, k.uxPendedTicks + 1) => Fresh(k', l, k'.uxPendedTicks)
  BY TickKeeps DEF ListInv
<1>3. cur' = cur /\ k'.uxSchedulerSuspended = k.uxSchedulerSuspended /\ loc' = loc
  BY <1>1, <1>2 DEF cur, SameTask, callVars
<1>4. Running'
  BY <1>2, <1>3 DEF ListInv, Running
<1>5. ASSUME NEW t \in Tasks PROVE PatientAt(k', pc[t], call[t], ret[t], loc[t])
  <2>1. PatientAt(k, pc[t], call[t], ret[t], loc[t]) /\ loc[t] \in Locals
    BY Here DEF ListInv, Patient, KernelInv
  <2>2. ASSUME call[t].op = "lock", loc[t].set PROVE Fresh(k', loc[t], k'.uxPendedTicks)
    <3>1. Fresh(k, loc[t], k.uxPendedTicks)
      BY <2>1, <2>2 DEF PatientAt
    <3>2. ~(Elapsed(t) + k.uxPendedTicks + 1 >= loc[t].xTicksToWait)
      BY <1>1, <2>2 DEF MutexAboutToExpire
    <3>3. Elapsed(t) \in Int /\ k.uxPendedTicks \in Int /\ loc[t].xTicksToWait \in Int
      <4>1. Elapsed(t) \in 0 .. portMAX_DELAY
        BY ElapsedIs DEF KernelInv, TaskInv
      <4> QED BY <2>1, <4>1 DEF KernelInv, TaskInv, Sane, KRec, Locals
    <3>4. Elapsed(t) + (k.uxPendedTicks + 1) < loc[t].xTicksToWait
      BY <3>2, <3>3
    <3>5. Fresh(k, loc[t], k.uxPendedTicks + 1)
      BY <3>1, <3>4 DEF Fresh, Elapsed
    <3> QED BY <1>2, <2>1, <3>5
  <2> QED BY <2>1, <2>2 DEF PatientAt
<1>6. Patient'
  BY <1>1, <1>5 DEF Patient, callVars
<1>7. Owners'
  BY <1>1 DEF ListInv, Owners, callVars, queueVars
<1> QED BY <1>2, <1>4, <1>6, <1>7 DEF ListInv

\* A post by an interrupt keeps the lists in order.
LEMMA IsrPostLists ==
    ASSUME KernelInv, ListInv, IsrPost
    PROVE  ListInv'
<1>1. UNCHANGED <<xMutexHolder, callVars>>
  BY DEF IsrPost
<1>2. /\ SameTask(k, k') /\ SameClock(k, k') /\ (k.pendsv => k'.pendsv) /\ Sound(k')
      /\ \A u : u \in Asleep(k') => u \in Asleep(k)
  BY IsrPostKeeps DEF Keeps, ListInv
<1>3. cur' = cur /\ k'.uxSchedulerSuspended = k.uxSchedulerSuspended /\ loc' = loc
  BY <1>1, <1>2 DEF cur, SameTask, callVars
<1>4. Running'
  BY <1>2, <1>3 DEF ListInv, Running
<1>5. Patient'
  BY <1>1, <1>2, FreshStays DEF ListInv, Patient, PatientAt, callVars
<1>6. Owners'
  BY <1>1 DEF ListInv, Owners, callVars
<1> QED BY <1>2, <1>4, <1>5, <1>6 DEF ListInv

\* vTaskSwitchContext() keeps the lists in order.
LEMMA SwitchLists ==
    ASSUME KernelInv, ListInv, vTaskSwitchContext
    PROVE  ListInv'
<1>1. UNCHANGED <<queueVars, callVars>>
  BY DEF vTaskSwitchContext
<1>2. /\ Asleep(k') = Asleep(k) /\ Sound(k') /\ SameClock(k, k')
      /\ k.uxSchedulerSuspended => cur' = cur /\ k'.uxSchedulerSuspended
      /\ ~k.uxSchedulerSuspended => \E p \in Prios : cur' \in k.ready[p]
  BY SwitchKeeps DEF ListInv
<1>3. Running'
  <2>1. CASE k.uxSchedulerSuspended
    BY <1>1, <1>2, <2>1 DEF ListInv, Running, callVars
  <2>2. CASE ~k.uxSchedulerSuspended
    <3>1. PICK p \in Prios : cur' \in k.ready[p]
      BY <1>2, <2>2
    <3>2. cur' \in AllTasks
      BY <3>1 DEF KernelInv, TaskInv, Sane, KRec
    <3>3. cur' \notin Asleep(k)
      BY <3>1, <3>2 DEF ListInv, Sound, Placed
    <3> QED BY <1>2, <3>3 DEF Running
  <2> QED BY <2>1, <2>2
<1>4. Patient'
  BY <1>1, <1>2, FreshStays DEF ListInv, Patient, PatientAt, callVars
<1>5. Owners'
  BY <1>1 DEF ListInv, Owners, callVars, queueVars
<1> QED BY <1>2, <1>3, <1>4, <1>5 DEF ListInv

\* The lists are in order when the scheduler starts.
LEMMA ListInit == Init => ListInv
<1> SUFFICES ASSUME Init PROVE ListInv
  OBVIOUS
<1>1. Asleep(k) = {} /\ Sound(k)
  BY InitTasks
<1>2. \A t \in Tasks : call[t] = NoCall /\ ret[t] = Pending /\ owns[t] = {}
  BY Constants DEF Init
<1>3. Patient /\ Owners
  BY <1>2, NewCall DEF Patient, PatientAt, Owners, OwnersAt
<1> QED BY <1>1, <1>3 DEF ListInv, Running

\* Every step keeps the lists in order, as long as no wait for a mutex expires.
LEMMA ListNext ==
    ASSUME MUTEX_EXPIRES = FALSE
    PROVE  KernelInv /\ ListInv /\ [Next]_vars => ListInv'
<1> SUFFICES ASSUME KernelInv, ListInv, [Next]_vars PROVE ListInv'
  OBVIOUS
<1>1. ASSUME NEW t \in Tasks, Step(t) PROVE ListInv'
  BY <1>1, BeginLists, DelayLists, SendLists, ReceiveLists, TakeLists, SuspendLists, LockLists, CheckLists,
     TestLists, PlaceLists, UnlockLists, ResumeLists, RecheckLists, ReturnLists DEF Step
<1>2. CASE Tick
  BY <1>2, TickLists
<1>3. CASE IsrPost
  BY <1>3, IsrPostLists
<1>4. CASE vTaskSwitchContext
  BY <1>4, SwitchLists
<1>5. CASE UNCHANGED vars
  BY <1>5 DEF vars, queueVars, callVars, ListInv, Running, Patient, Owners, cur
<1> QED BY <1>1, <1>2, <1>3, <1>4, <1>5 DEF Next

\* A task that is placed is in one list.
LEMMA PlacedOnce == KernelInv /\ ListInv => OneStateList
<1> SUFFICES ASSUME KernelInv, ListInv, NEW t \in AllTasks,
                    NEW at, at = {p \in Prios : t \in k.ready[p]},
                    NEW asleep, asleep = (IF t \in k.delayed THEN 1 ELSE 0) + (IF t \in k.overflow THEN 1 ELSE 0)
             PROVE  at \subseteq {k.uxPriority[t]} /\ Cardinality(at) + asleep = 1
  BY DEF OneStateList
<1>1. k.uxPriority[t] \in Prios
  BY DEF KernelInv, TaskInv, Sane, KRec
<1>2. /\ \A p \in Prios : t \in k.ready[p] => p = k.uxPriority[t]
      /\ t \in k.ready[k.uxPriority[t]] <=> t \notin Asleep(k)
      /\ t \notin k.delayed \/ t \notin k.overflow
  BY DEF ListInv, Sound, Placed
<1>3. at \subseteq {k.uxPriority[t]}
  BY <1>2
<1>4. CASE t \in Asleep(k)
  <2>1. at = {}
    BY <1>2, <1>4
  <2>2. asleep = 1
    BY <1>2, <1>4 DEF Asleep
  <2>3. Cardinality(at) = 0
    BY <2>1, FS_EmptySet, Zenon
  <2> QED BY <1>3, <2>2, <2>3
<1>5. CASE t \notin Asleep(k)
  <2>1. at = {k.uxPriority[t]}
    BY <1>1, <1>2, <1>5
  <2>2. asleep = 0
    BY <1>5 DEF Asleep
  <2>3. Cardinality(at) = 1
    BY <2>1, FS_Singleton
  <2> QED BY <1>3, <2>2, <2>3
<1> QED BY <1>4, <1>5

\* What the second layer says.
LEMMA ListInvShows ==
    KernelInv /\ ListInv => OneStateList /\ NoOversleep /\ TopReadyExact /\ MutualExclusion
<1> SUFFICES ASSUME KernelInv, ListInv
             PROVE  OneStateList /\ NoOversleep /\ TopReadyExact /\ MutualExclusion
  OBVIOUS
<1>1. OneStateList
  BY PlacedOnce
<1>2. NoOversleep
  BY DEF ListInv, Sound, Timely, NoOversleep
<1>3. TopReadyExact
  <2>1. k.uxTopReadyPriority \subseteq Prios
    BY DEF KernelInv, TaskInv, Sane, KRec
  <2> QED BY <2>1 DEF ListInv, Sound, Exact, TopReadyExact
<1>4. MutualExclusion
  BY DEF ListInv, Owners, OwnersAt, MutualExclusion
<1> QED BY <1>1, <1>2, <1>3, <1>4

\* Both layers of the invariant, in every state of the kernel.
LEMMA BothLayers ==
    ASSUME MUTEX_EXPIRES = FALSE
    PROVE  Spec => [](KernelInv /\ ListInv)
<1>1. KernelInv /\ ListInv /\ [Next]_vars => ListInv'
  BY ListNext
<1> QED BY <1>1, KernelInit, KernelNext, ListInit, PTL DEF Spec

\* However the steps of queue.c, the ticks and the switches of tasks interleave,
\* every task is in exactly one state list, at its own priority: uxListRemove()
\* and vListInsert() never leave one in two lists or in none.
THEOREM OneStateListAlways ==
    ASSUME MUTEX_EXPIRES = FALSE
    PROVE  Spec => []OneStateList
<1>1. Spec => [](KernelInv /\ ListInv)
  BY BothLayers
<1> QED BY <1>1, ListInvShows, PTL

\* No sleeping task misses its wake time, across the wrap of the tick count, the
\* swap of the delayed lists and ticks pended while the scheduler is suspended.
THEOREM NoOversleepAlways ==
    ASSUME MUTEX_EXPIRES = FALSE
    PROVE  Spec => []NoOversleep
<1>1. Spec => [](KernelInv /\ ListInv)
  BY BothLayers
<1> QED BY <1>1, ListInvShows, PTL

\* The bitmap of ready priorities that taskSELECT_HIGHEST_PRIORITY_TASK() trusts
\* is exact, also while priorities are inherited and given back.
THEOREM TopReadyExactAlways ==
    ASSUME MUTEX_EXPIRES = FALSE
    PROVE  Spec => []TopReadyExact
<1>1. Spec => [](KernelInv /\ ListInv)
  BY BothLayers
<1> QED BY <1>1, ListInvShows, PTL

\* sys_mutex_lock() returns only to the holder of the mutex: two tasks never
\* believe that they hold it.
THEOREM MutualExclusionAlways ==
    ASSUME MUTEX_EXPIRES = FALSE
    PROVE  Spec => []MutualExclusion
<1>1. Spec => [](KernelInv /\ ListInv)
  BY BothLayers
<1> QED BY <1>1, ListInvShows, PTL

-----------------------------------------------------------------------------
(* The mailbox of the kernel implements Mailbox.                           *)

\* The n messages after slot rd of a ring buffer r, oldest first.
Slots(r, rd, n) == [i \in 1 .. n |-> r[(rd + i) % MBOX_SIZE]]

\* The slots of a ring buffer are numbered in a circle.
LEMMA SlotAt ==
    ASSUME NEW rd \in 0 .. MBOX_SIZE - 1, NEW i \in 0 .. MBOX_SIZE, NEW y \in Int, y = rd + i
    PROVE  (rd + i) % MBOX_SIZE = IF y < MBOX_SIZE THEN y ELSE y - MBOX_SIZE
<1>1. MBOX_SIZE \in Nat \ {0} /\ -MBOX_SIZE <= y /\ y < MBOX_SIZE + MBOX_SIZE /\ ~(y < 0)
  BY Constants
<1>2. y % MBOX_SIZE = IF y < MBOX_SIZE THEN y ELSE y - MBOX_SIZE
  BY <1>1, Wrap
<1> QED BY <1>2

\* A slot after a slot is a slot.
LEMMA SlotRange ==
    ASSUME NEW rd \in 0 .. MBOX_SIZE - 1, NEW i \in 0 .. MBOX_SIZE
    PROVE  (rd + i) % MBOX_SIZE \in 0 .. MBOX_SIZE - 1
<1>1. MBOX_SIZE \in Nat \ {0} /\ rd + i \in Int
  BY Constants
<1> QED BY <1>1, ModRange

\* The content of a ring buffer as a sequence.
Content(b, S, r, rd, n) ==
    b \in Seq(S) /\ Len(b) = n /\ \A i \in 1 .. n : b[i] = r[(rd + i) % MBOX_SIZE]

\* Slots is that sequence.
LEMMA SlotsSeq ==
    ASSUME NEW S, NEW r \in [0 .. MBOX_SIZE - 1 -> S], NEW rd \in 0 .. MBOX_SIZE - 1, NEW n \in 0 .. MBOX_SIZE
    PROVE  Content(Slots(r, rd, n), S, r, rd, n)
<1>1. n \in Nat /\ MBOX_SIZE \in Nat
  BY Constants
<1>2. ASSUME NEW i \in 1 .. n PROVE r[(rd + i) % MBOX_SIZE] \in S
  <2>1. i \in 0 .. MBOX_SIZE
    BY <1>1
  <2> QED BY <2>1, SlotRange
<1>3. Slots(r, rd, n) \in [1 .. n -> S]
  BY <1>2 DEF Slots
<1>4. Slots(r, rd, n) \in Seq(S)
  BY <1>1, <1>3, SeqDef
<1>5. Len(Slots(r, rd, n)) = n
  BY <1>1, <1>3, <1>4, LenProperties
<1> QED BY <1>4, <1>5 DEF Slots, Content

\* The first free slot behind n messages; the ring buffer with message m in slot w;
\* the content of a ring buffer after a post.
FreeSlot(rd, n) == (rd + 1 + n) % MBOX_SIZE
Stored(r, w, m) == [r EXCEPT ![w] = m]
StoredAfter(r, rd, n, m) == Slots(Stored(r, FreeSlot(rd, n), m), rd, n + 1) = Append(Slots(r, rd, n), m)

\* prvCopyDataToQueue() appends to the content.
LEMMA StoreAppends ==
    ASSUME NEW S, NEW r \in [0 .. MBOX_SIZE - 1 -> S], NEW rd \in 0 .. MBOX_SIZE - 1,
           NEW n \in 0 .. MBOX_SIZE - 1, NEW m \in S
    PROVE  StoredAfter(r, rd, n, m)
<1>0. PICK w, z : w = FreeSlot(rd, n) /\ z = Stored(r, w, m)
  OBVIOUS
<1>1. MBOX_SIZE \in Nat \ {0} /\ n \in 0 .. MBOX_SIZE /\ n \in Nat /\ rd \in Nat
  BY Constants
<1>2. PICK e \in 1 .. MBOX_SIZE : e = n + 1
  BY <1>1
<1>3. w = (rd + e) % MBOX_SIZE /\ e \in 0 .. MBOX_SIZE
  BY <1>0, <1>1, <1>2 DEF FreeSlot
<1>4. w \in 0 .. MBOX_SIZE - 1
  BY <1>3, SlotRange
<1>5. z \in [0 .. MBOX_SIZE - 1 -> S] /\ z[w] = m /\ \A j \in 0 .. MBOX_SIZE - 1 : j # w => z[j] = r[j]
  BY <1>0, <1>4 DEF Stored
<1>6. /\ Slots(z, rd, e) \in Seq(S) /\ Len(Slots(z, rd, e)) = e
      /\ \A i \in 1 .. e : Slots(z, rd, e)[i] = z[(rd + i) % MBOX_SIZE]
  <2>1. Content(Slots(z, rd, e), S, z, rd, e)
    BY <1>3, <1>5, SlotsSeq
  <2> QED BY <2>1 DEF Content
<1>7. /\ Slots(r, rd, n) \in Seq(S) /\ Len(Slots(r, rd, n)) = n
      /\ \A i \in 1 .. n : Slots(r, rd, n)[i] = r[(rd + i) % MBOX_SIZE]
  <2>1. Content(Slots(r, rd, n), S, r, rd, n)
    BY <1>1, SlotsSeq
  <2> QED BY <2>1 DEF Content
<1>8. ASSUME NEW i \in 1 .. n PROVE z[(rd + i) % MBOX_SIZE] = r[(rd + i) % MBOX_SIZE]
  <2>1. i \in 0 .. MBOX_SIZE /\ i < e
    BY <1>1, <1>2
  <2>2. PICK y \in Int, x \in Int : y = rd + i /\ x = rd + e
    BY <1>1, <1>2
  <2>3. (rd + i) % MBOX_SIZE = IF y < MBOX_SIZE THEN y ELSE y - MBOX_SIZE
    BY <2>1, <2>2, SlotAt
  <2>4. (rd + e) % MBOX_SIZE = IF x < MBOX_SIZE THEN x ELSE x - MBOX_SIZE
    BY <1>3, <2>2, SlotAt
  <2>5. y < x /\ x - y < MBOX_SIZE
    BY <1>1, <1>2, <2>1, <2>2
  <2>6. (rd + i) % MBOX_SIZE # w
    BY <1>1, <1>3, <2>3, <2>4, <2>5
  <2>7. (rd + i) % MBOX_SIZE \in 0 .. MBOX_SIZE - 1
    BY <2>1, SlotRange
  <2> QED BY <1>5, <2>6, <2>7
<1>9. PICK a : a = Append(Slots(r, rd, n), m)
  OBVIOUS
<1>10. a \in Seq(S) /\ Len(a) = e /\ a[e] = m /\ \A i \in 1 .. n : a[i] = r[(rd + i) % MBOX_SIZE]
  BY <1>1, <1>2, <1>7, <1>9
<1>11. ASSUME NEW i \in 1 .. e PROVE Slots(z, rd, e)[i] = a[i]
  <2>1. CASE i = e
    BY <1>3, <1>5, <1>6, <1>10, <2>1
  <2>2. CASE i # e
    <3>1. i \in 1 .. n
      BY <1>1, <1>2, <2>2
    <3> QED BY <1>6, <1>8, <1>10, <3>1
  <2> QED BY <2>1, <2>2
<1>12. Slots(z, rd, e) = a
  BY <1>6, <1>10, <1>11, SeqEqual
<1> QED BY <1>0, <1>2, <1>9, <1>12 DEF StoredAfter

\* prvCopyDataFromQueue() takes the first message.
LEMMA FetchTakes ==
    ASSUME NEW S, NEW r \in [0 .. MBOX_SIZE - 1 -> S], NEW rd \in 0 .. MBOX_SIZE - 1,
           NEW n \in 1 .. MBOX_SIZE, NEW x, x = (rd + 1) % MBOX_SIZE
    PROVE  /\ Slots(r, rd, n) # << >> /\ Head(Slots(r, rd, n)) = r[x]
           /\ Slots(r, x, n - 1) = Tail(Slots(r, rd, n))
<1>1. MBOX_SIZE \in Nat \ {0} /\ n \in 0 .. MBOX_SIZE /\ n \in Nat /\ rd \in Nat /\ 1 \in 0 .. MBOX_SIZE
  BY Constants
<1>2. x \in 0 .. MBOX_SIZE - 1
  BY <1>1, SlotRange
<1>3. PICK e \in 0 .. MBOX_SIZE : e = n - 1
  BY <1>1
<1>4. PICK b : b = Slots(r, rd, n)
  OBVIOUS
<1>5. b \in Seq(S) /\ Len(b) = n /\ \A i \in 1 .. n : b[i] = r[(rd + i) % MBOX_SIZE]
  <2>1. Content(Slots(r, rd, n), S, r, rd, n)
    BY <1>1, SlotsSeq
  <2> QED BY <1>4, <2>1 DEF Content
<1>6. b # << >> /\ Head(b) = b[1] /\ b[1] = r[x]
  BY <1>1, <1>5
<1>7. Tail(b) \in Seq(S) /\ Len(Tail(b)) = e /\ \A i \in 1 .. e : Tail(b)[i] = b[i + 1]
  BY <1>1, <1>3, <1>5, <1>6, HeadTailProperties
<1>8. /\ Slots(r, x, e) \in Seq(S) /\ Len(Slots(r, x, e)) = e
      /\ \A i \in 1 .. e : Slots(r, x, e)[i] = r[(x + i) % MBOX_SIZE]
  <2>1. Content(Slots(r, x, e), S, r, x, e)
    BY <1>2, <1>3, SlotsSeq
  <2> QED BY <2>1 DEF Content
<1>9. ASSUME NEW i \in 1 .. e PROVE Slots(r, x, e)[i] = Tail(b)[i]
  <2>1. PICK j \in 1 .. MBOX_SIZE : j = i + 1
    BY <1>1, <1>3
  <2>2. j \in 1 .. n /\ j \in 0 .. MBOX_SIZE /\ i \in 0 .. MBOX_SIZE
    BY <1>1, <1>3, <2>1
  <2>3. PICK y \in Int, z \in Int, f \in Int : y = rd + 1 /\ z = x + i /\ f = rd + j
    BY <1>1, <1>2, <2>2
  <2>4. x = IF y < MBOX_SIZE THEN y ELSE y - MBOX_SIZE
    BY <1>1, <2>3, SlotAt
  <2>5. (x + i) % MBOX_SIZE = IF z < MBOX_SIZE THEN z ELSE z - MBOX_SIZE
    BY <1>2, <2>2, <2>3, SlotAt, SMTT(60)
  <2>6. (rd + j) % MBOX_SIZE = IF f < MBOX_SIZE THEN f ELSE f - MBOX_SIZE
    BY <2>2, <2>3, SlotAt
  <2>7. rd \in Int /\ rd < MBOX_SIZE /\ i < MBOX_SIZE /\ i \in Int /\ 0 < i /\ 0 <= rd
    BY <1>1, <1>3
  <2>8. (x + i) % MBOX_SIZE = (rd + j) % MBOX_SIZE
    BY <1>1, <2>1, <2>3, <2>4, <2>5, <2>6, <2>7
  <2> QED BY <1>5, <1>7, <1>8, <2>1, <2>2, <2>8
<1>10. Slots(r, x, e) = Tail(b)
  BY <1>7, <1>8, <1>9, SeqEqual
<1> QED BY <1>3, <1>4, <1>6, <1>10

\* The state of Mailbox, as the kernel represents it.
mBox  == Slots(ring, pcReadFrom, uxMessagesWaiting[mbox])
mCall == [t \in Tasks |-> MboxCall(call[t])]
mRet  == [t \in Tasks |-> IF MboxCall(call[t]) = NoCall THEN Pending ELSE ret[t]]

\* The steps of Mailbox, in terms of that state.
LEMMA MapStutter ==
    ASSUME mBox' = mBox, mCall' = mCall, mRet' = mRet
    PROVE  UNCHANGED MB!vars
BY DEF MB!vars, mBox, mCall, mRet, Slots

\* The begin of a call.
LEMMA MapBegin ==
    ASSUME NEW t \in Tasks, NEW x \in MB!Calls, mCall[t] = NoCall, mCall' = [mCall EXCEPT ![t] = x],
           mBox' = mBox, mRet' = mRet
    PROVE  MB!Next
<1>1. MB!Begin(t)
  BY Zenon DEF MB!Begin, MB!NoCall, NoCall, mBox, mCall, mRet, Slots
<1> QED BY <1>1 DEF MB!Next

\* A post.
LEMMA MapPost ==
    ASSUME NEW t \in Tasks, mCall[t].op \in {"post", "trypost"}, mRet[t] = Pending, Len(mBox) < MBOX_SIZE,
           mBox' = Append(mBox, mCall[t].msg), mRet' = [mRet EXCEPT ![t] = Ok], mCall' = mCall
    PROVE  MB!Next
<1>1. MB!Post(t)
  BY Zenon DEF MB!Post, MB!Waiting, MB!Ok, Ok, MB!Pending, Pending, mBox, mCall, mRet, Slots
<1> QED BY <1>1 DEF MB!Next

\* A fetch.
LEMMA MapFetch ==
    ASSUME NEW t \in Tasks, mCall[t].op \in {"fetch", "tryfetch"}, mRet[t] = Pending, mBox # << >>,
           mBox' = Tail(mBox), mRet' = [mRet EXCEPT ![t] = Got(Head(mBox))], mCall' = mCall
    PROVE  MB!Next
<1>1. MB!Fetch(t)
  BY Zenon DEF MB!Fetch, MB!Waiting, MB!Got, Got, MB!Pending, Pending, mBox, mCall, mRet, Slots
<1> QED BY <1>1 DEF MB!Next

\* A call that fails.
LEMMA MapFail ==
    ASSUME NEW t \in Tasks, mRet[t] = Pending,
           \/ mCall[t].op = "trypost" /\ Len(mBox) = MBOX_SIZE
           \/ mCall[t].op \in {"fetch", "tryfetch"} /\ mBox = << >>,
           mBox' = mBox, mRet' = [mRet EXCEPT ![t] = Failed], mCall' = mCall
    PROVE  MB!Next
<1>1. MB!Fail(t)
  BY Zenon DEF MB!Fail, MB!Waiting, MB!Failed, Failed, MB!Pending, Pending, mBox, mCall, mRet, Slots
<1> QED BY <1>1 DEF MB!Next

\* The return of a call.
LEMMA MapReturn ==
    ASSUME NEW t \in Tasks, mRet[t] # Pending,
           mBox' = mBox, mRet' = [mRet EXCEPT ![t] = Pending], mCall' = [mCall EXCEPT ![t] = NoCall]
    PROVE  MB!Next
<1>1. MB!Return(t)
  BY Zenon DEF MB!Return, MB!NoCall, NoCall, MB!Pending, Pending, mBox, mCall, mRet, Slots
<1> QED BY <1>1 DEF MB!Next

\* A post by an interrupt.
LEMMA MapInterrupt ==
    ASSUME NEW m \in Msgs, Len(mBox) < MBOX_SIZE, mBox' = Append(mBox, m), mCall' = mCall, mRet' = mRet
    PROVE  MB!Next
<1>1. MB!Interrupt
  BY Zenon DEF MB!Interrupt, mBox, mCall, mRet, Slots
<1> QED BY <1>1 DEF MB!Next

\* What the steps of the kernel change of it.
LEMMA MailSame ==
    ASSUME ring' = ring, pcReadFrom' = pcReadFrom, uxMessagesWaiting'[mbox] = uxMessagesWaiting[mbox]
    PROVE  mBox' = mBox
BY DEF mBox, Slots, mbox

\* The same calls.
LEMMA CallsSame == ASSUME call' = call PROVE mCall' = mCall
BY DEF mCall

\* The same results.
LEMMA RetsSame == ASSUME call' = call, ret' = ret PROVE mRet' = mRet
BY DEF mRet

\* The result of a call that is not on the mailbox.
LEMMA RetOfOther ==
    ASSUME CallTypes, NEW t \in Tasks, NEW x, MboxCall(call[t]) = NoCall, call' = call, ret' = [ret EXCEPT ![t] = x]
    PROVE  mRet' = mRet
<1>1. ASSUME NEW u \in Tasks
      PROVE  (IF MboxCall(call[u]) = NoCall THEN Pending ELSE ret'[u])
             = (IF MboxCall(call[u]) = NoCall THEN Pending ELSE ret[u])
  <2>1. u \in AllTasks
    BY Constants
  <2> QED BY <2>1 DEF CallTypes
<1> QED BY <1>1 DEF mRet

\* The result of one that is.
LEMMA RetOfMailbox ==
    ASSUME CallTypes, NEW t \in Tasks, NEW x, MboxCall(call[t]) # NoCall, call' = call, ret' = [ret EXCEPT ![t] = x]
    PROVE  mRet' = [mRet EXCEPT ![t] = x] /\ mRet[t] = ret[t]
<1>1. ASSUME NEW u \in Tasks
      PROVE  (IF MboxCall(call[u]) = NoCall THEN Pending ELSE ret'[u])
             = (IF u = t THEN x ELSE IF MboxCall(call[u]) = NoCall THEN Pending ELSE ret[u])
  <2>1. u \in AllTasks
    BY Constants
  <2> QED BY <2>1 DEF CallTypes
<1> QED BY <1>1 DEF mRet

\* Another call.
LEMMA CallBecomes ==
    ASSUME CallTypes, NEW t \in Tasks, NEW c, call' = [call EXCEPT ![t] = c]
    PROVE  mCall' = [mCall EXCEPT ![t] = MboxCall(c)]
<1>1. ASSUME NEW u \in Tasks
      PROVE  MboxCall(call'[u]) = (IF u = t THEN MboxCall(c) ELSE MboxCall(call[u]))
  <2>1. u \in AllTasks /\ t \in AllTasks
    BY Constants
  <2> QED BY <2>1 DEF CallTypes
<1> QED BY <1>1 DEF mCall

\* The messages in the mailbox.
LEMMA MailContent ==
    ASSUME KernelInv
    PROVE  /\ mBox \in Seq(Msgs \cup {NULL}) /\ Len(mBox) = uxMessagesWaiting[mbox]
           /\ uxMessagesWaiting[mbox] \in Nat /\ uxMessagesWaiting[mbox] <= MBOX_SIZE
<1>1. /\ ring \in [0 .. MBOX_SIZE - 1 -> Msgs \cup {NULL}] /\ pcReadFrom \in 0 .. MBOX_SIZE - 1
      /\ uxMessagesWaiting[mbox] \in Nat /\ uxMessagesWaiting[mbox] <= uxLength(mbox)
      /\ uxLength(mbox) = MBOX_SIZE
  BY Constants DEF KernelInv, QueueInv, QueueTypes, uxLength
<1>2. PICK n \in 0 .. MBOX_SIZE : n = uxMessagesWaiting[mbox]
  BY <1>1, Constants
<1>3. Content(Slots(ring, pcReadFrom, n), Msgs \cup {NULL}, ring, pcReadFrom, n)
  BY <1>1, SlotsSeq
<1> QED BY <1>1, <1>2, <1>3 DEF Content, mBox

\* A step of the kernel is a step of Mailbox, or changes nothing of it.
MailStep == MB!Next \/ UNCHANGED MB!vars

\* The call that Mailbox sees.
LEMMA MboxCallIs ==
    ASSUME NEW c \in CallRecs
    PROVE  /\ MboxCall(c) = NoCall <=> c.op \in {"none", "lock", "unlock", "delay"}
           /\ c.op \in {"post", "trypost"} => MboxCall(c) = c
           /\ c.op \in {"fetch", "fetchT", "tryfetch"} => MboxCall(c).op \in {"fetch", "tryfetch"}
           /\ c.op \notin {"none", "lock", "unlock", "delay"} => MboxCall(c) \in MB!Calls
BY DEF CallRecs, MboxCall, NoCall, MB!Calls

\* A step that leaves calls, results and messages alone.
LEMMA QuietMail ==
    ASSUME UNCHANGED <<ring, pcReadFrom, uxMessagesWaiting, call, ret>>
    PROVE  MailStep
<1>1. mBox' = mBox
  BY MailSame
<1>2. mCall' = mCall
  BY CallsSame
<1>3. mRet' = mRet
  BY RetsSame
<1> QED BY <1>1, <1>2, <1>3, MapStutter DEF MailStep

\* A task finishes a call that is not one on the mailbox.
LEMMA OtherMail ==
    ASSUME KernelInv, NEW t \in Tasks, NEW x \in {Ok, Failed}, call[t].op \in {"lock", "unlock", "delay"},
           call' = call, ret' = [ret EXCEPT ![t] = x],
           ring' = ring, pcReadFrom' = pcReadFrom, uxMessagesWaiting'[mbox] = uxMessagesWaiting[mbox]
    PROVE  MailStep
<1>1. call[t] \in CallRecs /\ CallTypes
  BY Constants DEF KernelInv, CallTypes
<1>2. MboxCall(call[t]) = NoCall
  BY <1>1, MboxCallIs
<1>3. mRet' = mRet
  BY <1>1, <1>2, RetOfOther
<1>4. mBox' = mBox
  BY MailSame
<1>5. mCall' = mCall
  BY CallsSame
<1> QED BY <1>3, <1>4, <1>5, MapStutter DEF MailStep

\* A call on the mailbox fails.
LEMMA FailMail ==
    ASSUME KernelInv, NEW t \in Tasks, pc[t] # "return", call' = call, ret' = [ret EXCEPT ![t] = Failed],
           UNCHANGED <<ring, pcReadFrom, uxMessagesWaiting>>,
           \/ call[t].op = "trypost" /\ uxMessagesWaiting[mbox] >= MBOX_SIZE
           \/ call[t].op \in {"fetch", "fetchT", "tryfetch"} /\ uxMessagesWaiting[mbox] = 0
    PROVE  MailStep
<1>1. call[t] \in CallRecs /\ ret[t] = Pending
  BY Here DEF KernelInv, WalkAt
<1>2. MboxCall(call[t]) # NoCall
  BY <1>1, MboxCallIs
<1>3. mRet' = [mRet EXCEPT ![t] = Failed] /\ mRet[t] = Pending
  BY <1>1, <1>2, RetOfMailbox DEF KernelInv
<1>4. mBox' = mBox
  BY MailSame
<1>5. mCall' = mCall
  BY CallsSame
<1>6. mCall[t] = MboxCall(call[t])
  BY DEF mCall
<1>7. Len(mBox) = uxMessagesWaiting[mbox] /\ mBox \in Seq(Msgs \cup {NULL})
      /\ uxMessagesWaiting[mbox] <= MBOX_SIZE /\ uxMessagesWaiting[mbox] \in Nat
  BY MailContent
<1>8. CASE call[t].op = "trypost" /\ uxMessagesWaiting[mbox] >= MBOX_SIZE
  <2>1. mCall[t].op = "trypost"
    BY <1>1, <1>6, <1>8, MboxCallIs
  <2>2. Len(mBox) = MBOX_SIZE
    BY <1>7, <1>8, Constants
  <2> QED BY <1>3, <1>4, <1>5, <2>1, <2>2, MapFail DEF MailStep
<1>9. CASE call[t].op \in {"fetch", "fetchT", "tryfetch"} /\ uxMessagesWaiting[mbox] = 0
  <2>1. mCall[t].op \in {"fetch", "tryfetch"}
    BY <1>1, <1>6, <1>9, MboxCallIs
  <2>2. mBox = << >>
    BY <1>7, <1>9, EmptySeq
  <2> QED BY <1>3, <1>4, <1>5, <2>1, <2>2, MapFail DEF MailStep
<1> QED BY <1>8, <1>9

\* The begin of a call, as Mailbox sees it.
LEMMA BeginMail ==
    ASSUME KernelInv, NEW t \in Tasks, Begin(t)
    PROVE  MailStep
<1>1. PICK c, l : Moves(t, "try", c, Pending, l) /\ c.op \notin {"none", "delay"}
  BY BeginMoves DEF KernelInv
<1>2. c \in CallRecs /\ call' = [call EXCEPT ![t] = c]
  BY <1>1 DEF Moves
<1>3. ret' = ret /\ mBox' = mBox
  BY MailSame DEF Begin, queueVars
<1>4. call[t] = NoCall /\ ret[t] = Pending /\ t \in AllTasks
  BY Here DEF KernelInv, WalkAt, Begin, At
<1>5. mCall[t] = NoCall
  BY <1>4 DEF mCall, MboxCall, NoCall
<1>6. mCall' = [mCall EXCEPT ![t] = MboxCall(c)]
  BY <1>2, CallBecomes DEF KernelInv
<1>7. mRet' = mRet
  <2>1. ASSUME NEW u \in Tasks
        PROVE  (IF MboxCall(call'[u]) = NoCall THEN Pending ELSE ret'[u])
               = (IF MboxCall(call[u]) = NoCall THEN Pending ELSE ret[u])
    <3>1. CASE u = t
      BY <1>3, <1>4, <3>1
    <3>2. CASE u # t
      <4>1. call'[u] = call[u]
        BY <1>2, <3>2, Constants DEF KernelInv, CallTypes
      <4> QED BY <1>3, <4>1
    <3> QED BY <3>1, <3>2
  <2> QED BY <2>1 DEF mRet
<1>8. CASE MboxCall(c) = NoCall
  <2>1. mCall' = mCall
    <3>1. ASSUME NEW u \in Tasks PROVE mCall'[u] = mCall[u]
      BY <1>5, <1>6, <1>8 DEF mCall
    <3> QED BY <3>1 DEF mCall
  <2> QED BY <1>3, <1>7, <2>1, MapStutter DEF MailStep
<1>9. CASE MboxCall(c) # NoCall
  <2>1. PICK x \in MB!Calls : x = MboxCall(c)
    BY <1>2, <1>9, MboxCallIs
  <2> QED BY <1>3, <1>5, <1>6, <1>7, <2>1, MapBegin DEF MailStep
<1> QED BY <1>8, <1>9

\* The queue cannot serve the call of t.
LEMMA RefuseMail ==
    ASSUME KernelInv, NEW t \in Tasks, At(t, "try"), Refuse(t), call' = call,
           \/ Posting(t) /\ uxMessagesWaiting[Target(t)] >= uxLength(Target(t))
           \/ Fetching(t) /\ uxMessagesWaiting[mbox] = 0
           \/ call[t].op = "lock"
    PROVE  MailStep
<1>1. UNCHANGED <<ring, pcReadFrom, uxMessagesWaiting>>
  BY DEF Refuse, queueVars
<1>2. CASE loc[t].xTicksToWait # 0
  <2>1. ret' = ret
    BY <1>2 DEF Refuse
  <2> QED BY <1>1, <2>1, QuietMail
<1>3. CASE loc[t].xTicksToWait = 0
  <2>1. ret' = [ret EXCEPT ![t] = Failed] /\ pc[t] # "return"
    BY <1>3 DEF Refuse, Finish, At
  <2>2. call[t] \in CallRecs /\ call[t].op # "post"
    BY <1>3, Here DEF KernelInv, WalkAt, At
  <2>3. CASE call[t].op \in {"lock", "unlock"}
    BY <1>1, <2>1, <2>3, OtherMail
  <2>4. CASE call[t].op \notin {"lock", "unlock"}
    <3>1. Target(t) = mbox /\ uxLength(mbox) = MBOX_SIZE
      BY <2>4 DEF Target, uxLength
    <3>2. \/ call[t].op = "trypost" /\ uxMessagesWaiting[mbox] >= MBOX_SIZE
          \/ call[t].op \in {"fetch", "fetchT", "tryfetch"} /\ uxMessagesWaiting[mbox] = 0
      BY <2>2, <2>4, <3>1 DEF Posting, Fetching
    <3> QED BY <1>1, <2>1, <3>2, FailMail
  <2> QED BY <2>3, <2>4
<1> QED BY <1>2, <1>3

\* prvCopyDataToQueue(), as Mailbox sees it.
LEMMA StoreMail ==
    ASSUME KernelInv, NEW m \in Msgs, Store(m), uxMessagesWaiting[mbox] < MBOX_SIZE,
           uxMessagesWaiting' = [uxMessagesWaiting EXCEPT ![mbox] = @ + 1], pcReadFrom' = pcReadFrom
    PROVE  Len(mBox) < MBOX_SIZE /\ mBox' = Append(mBox, m)
<1>1. /\ ring \in [0 .. MBOX_SIZE - 1 -> Msgs \cup {NULL}] /\ pcReadFrom \in 0 .. MBOX_SIZE - 1
      /\ uxMessagesWaiting \in [Queues -> Nat] /\ mbox \in Queues
      /\ pcWriteTo = (pcReadFrom + 1 + uxMessagesWaiting[mbox]) % MBOX_SIZE
      /\ m \in Msgs \cup {NULL}
  BY Constants DEF KernelInv, QueueInv, QueueTypes, Ring
<1>2. PICK n \in 0 .. MBOX_SIZE - 1 : n = uxMessagesWaiting[mbox]
  BY <1>1, Constants
<1>3. ring' = [ring EXCEPT ![pcWriteTo] = m] /\ uxMessagesWaiting'[mbox] = n + 1
  BY <1>1, <1>2 DEF Store
<1>4. pcWriteTo = (pcReadFrom + 1 + n) % MBOX_SIZE
  BY <1>1, <1>2
<1>5. PICK r, rd, w, z : r = ring /\ rd = pcReadFrom /\ w = pcWriteTo /\ z = ring'
  OBVIOUS
<1>6. PICK e : e = n + 1
  OBVIOUS
<1>7. Slots(z, rd, e) = Append(Slots(r, rd, n), m)
  <2>1. /\ r \in [0 .. MBOX_SIZE - 1 -> Msgs \cup {NULL}] /\ rd \in 0 .. MBOX_SIZE - 1
        /\ w = FreeSlot(rd, n) /\ z = Stored(r, w, m)
    BY <1>1, <1>3, <1>4, <1>5 DEF FreeSlot, Stored
  <2>2. StoredAfter(r, rd, n, m)
    BY <1>1, <2>1, StoreAppends
  <2> QED BY <1>6, <2>1, <2>2 DEF StoredAfter
<1>8. mBox = Slots(r, rd, n) /\ mBox' = Slots(z, rd, e)
  BY <1>2, <1>3, <1>5, <1>6 DEF mBox, mbox
<1>9. Len(mBox) = n
  BY <1>2, MailContent
<1> QED BY <1>2, <1>7, <1>8, <1>9

\* TrySend, as Mailbox sees it.
LEMMA SendMail ==
    ASSUME KernelInv, NEW t \in Tasks, TrySend(t)
    PROVE  MailStep
<1>1. At(t, "try") /\ Posting(t) /\ call' = call
  BY DEF TrySend
<1>2. CASE uxMessagesWaiting[Target(t)] >= uxLength(Target(t))
  <2>1. Refuse(t)
    BY <1>2 DEF TrySend
  <2> QED BY <1>1, <1>2, <2>1, RefuseMail
<1>3. CASE ~(uxMessagesWaiting[Target(t)] >= uxLength(Target(t)))
  <2>1. /\ uxMessagesWaiting' = [uxMessagesWaiting EXCEPT ![Target(t)] = @ + 1]
        /\ ret' = [ret EXCEPT ![t] = Ok] /\ pcReadFrom' = pcReadFrom
    BY <1>3 DEF TrySend, Finish
  <2>2. call[t] \in CallRecs /\ ret[t] = Pending
    BY <1>1, Here DEF KernelInv, WalkAt, At
  <2>3. CASE call[t].op = "unlock"
    <3>1. Target(t) \in Mutexes /\ Target(t) # mbox
      BY <2>3, TargetIs DEF KernelInv
    <3>2. ring' = ring
      BY <1>3, <3>1 DEF TrySend
    <3>3. uxMessagesWaiting'[mbox] = uxMessagesWaiting[mbox]
      BY <2>1, <3>1, Constants DEF KernelInv, QueueInv, QueueTypes
    <3> QED BY <1>1, <2>1, <2>3, <3>2, <3>3, OtherMail
  <2>4. CASE call[t].op \in {"post", "trypost"}
    <3>1. Target(t) = mbox /\ uxLength(mbox) = MBOX_SIZE
      BY <2>4 DEF Target, uxLength
    <3>2. PICK m \in Msgs : m = call[t].msg
      BY <2>2, <2>4, CallRec
    <3>3. Store(m)
      BY <1>3, <3>1, <3>2 DEF TrySend
    <3>4. uxMessagesWaiting[mbox] < MBOX_SIZE
      BY <1>3, <3>1, Constants DEF KernelInv, QueueInv, QueueTypes
    <3>5. Len(mBox) < MBOX_SIZE /\ mBox' = Append(mBox, m)
      BY <2>1, <3>1, <3>3, <3>4, StoreMail
    <3>6. MboxCall(call[t]) = call[t] /\ MboxCall(call[t]) # NoCall
      BY <2>2, <2>4, MboxCallIs
    <3>7. mCall[t] = call[t] /\ mCall' = mCall
      BY <1>1, <3>6, CallsSame DEF mCall
    <3>8. mRet' = [mRet EXCEPT ![t] = Ok] /\ mRet[t] = Pending
      BY <1>1, <2>1, <2>2, <3>6, RetOfMailbox DEF KernelInv
    <3> QED BY <2>4, <3>2, <3>5, <3>7, <3>8, MapPost DEF MailStep
  <2> QED BY <1>1, <2>3, <2>4 DEF Posting
<1> QED BY <1>2, <1>3

\* TryReceive, as Mailbox sees it.
LEMMA ReceiveMail ==
    ASSUME KernelInv, NEW t \in Tasks, TryReceive(t)
    PROVE  MailStep
<1>1. At(t, "try") /\ Fetching(t) /\ call' = call
  BY DEF TryReceive
<1>2. CASE uxMessagesWaiting[mbox] = 0
  <2>1. Refuse(t)
    BY <1>2 DEF TryReceive
  <2> QED BY <1>1, <1>2, <2>1, RefuseMail
<1>3. CASE uxMessagesWaiting[mbox] # 0
  <2>1. /\ uxMessagesWaiting' = [uxMessagesWaiting EXCEPT ![mbox] = @ - 1]
        /\ pcReadFrom' = (pcReadFrom + 1) % MBOX_SIZE /\ ring' = ring
        /\ ret' = [ret EXCEPT ![t] = Got(ring[pcReadFrom'])]
    BY <1>3 DEF TryReceive, Finish, NextSlot
  <2>2. call[t] \in CallRecs /\ ret[t] = Pending
    BY <1>1, Here DEF KernelInv, WalkAt, At
  <2>3. /\ ring \in [0 .. MBOX_SIZE - 1 -> Msgs \cup {NULL}] /\ pcReadFrom \in 0 .. MBOX_SIZE - 1
        /\ uxMessagesWaiting \in [Queues -> Nat] /\ mbox \in Queues
        /\ uxMessagesWaiting[mbox] <= MBOX_SIZE
    BY MailContent, Constants DEF KernelInv, QueueInv, QueueTypes
  <2>4. PICK n \in 1 .. MBOX_SIZE : n = uxMessagesWaiting[mbox]
    BY <1>3, <2>3, Constants
  <2>5. uxMessagesWaiting'[mbox] = n - 1
    BY <2>1, <2>3, <2>4
  <2>6. PICK r, rd, x : r = ring /\ rd = pcReadFrom /\ x = pcReadFrom'
    OBVIOUS
  <2>7. /\ Slots(r, rd, n) # << >> /\ Head(Slots(r, rd, n)) = r[x]
        /\ Slots(r, x, n - 1) = Tail(Slots(r, rd, n))
    <3>1. /\ r \in [0 .. MBOX_SIZE - 1 -> Msgs \cup {NULL}] /\ rd \in 0 .. MBOX_SIZE - 1
          /\ x = (rd + 1) % MBOX_SIZE
      BY <2>1, <2>3, <2>6
    <3> QED BY <3>1, FetchTakes
  <2>8. mBox = Slots(r, rd, n) /\ mBox' = Slots(r, x, n - 1)
    BY <2>1, <2>4, <2>5, <2>6 DEF mBox, mbox
  <2>9. MboxCall(call[t]).op \in {"fetch", "tryfetch"} /\ MboxCall(call[t]) # NoCall
    BY <1>1, <2>2, MboxCallIs DEF Fetching
  <2>10. mCall[t] = MboxCall(call[t]) /\ mCall' = mCall
    BY <1>1, CallsSame DEF mCall
  <2>11. ret' = [ret EXCEPT ![t] = Got(Head(mBox))]
    BY <2>1, <2>6, <2>7, <2>8
  <2>12. mRet' = [mRet EXCEPT ![t] = Got(Head(mBox))] /\ mRet[t] = Pending
    BY <1>1, <2>2, <2>9, <2>11, RetOfMailbox DEF KernelInv
  <2> QED BY <2>7, <2>8, <2>9, <2>10, <2>12, MapFetch DEF MailStep
<1> QED BY <1>2, <1>3

\* TryTake, as Mailbox sees it.
LEMMA TakeMail ==
    ASSUME KernelInv, NEW t \in Tasks, TryTake(t)
    PROVE  MailStep
<1>1. At(t, "try") /\ call[t].op = "lock" /\ call' = call
  BY DEF TryTake
<1>2. CASE uxMessagesWaiting[Target(t)] = 0
  <2>1. Refuse(t)
    BY <1>2 DEF TryTake
  <2> QED BY <1>1, <2>1, RefuseMail
<1>3. CASE uxMessagesWaiting[Target(t)] # 0
  <2>1. /\ uxMessagesWaiting' = [uxMessagesWaiting EXCEPT ![Target(t)] = @ - 1]
        /\ ret' = [ret EXCEPT ![t] = Ok] /\ pcReadFrom' = pcReadFrom /\ ring' = ring
    BY <1>3 DEF TryTake, Finish
  <2>2. Target(t) \in Mutexes /\ Target(t) # mbox
    BY <1>1, TargetIs DEF KernelInv
  <2>3. uxMessagesWaiting'[mbox] = uxMessagesWaiting[mbox]
    BY <2>1, <2>2, Constants DEF KernelInv, QueueInv, QueueTypes
  <2> QED BY <1>1, <2>1, <2>3, OtherMail
<1> QED BY <1>2, <1>3

\* xTaskResumeAll() and what follows, as Mailbox sees it.
LEMMA ResumeMail ==
    ASSUME KernelInv, NEW t \in Tasks, Resume(t)
    PROVE  MailStep
<1>1. UNCHANGED <<ring, pcReadFrom, uxMessagesWaiting, call>>
  BY DEF Resume, queueVars
<1>2. CASE call[t].op = "delay"
  <2>1. ret' = [ret EXCEPT ![t] = Ok]
    BY <1>2 DEF Resume
  <2> QED BY <1>1, <1>2, <2>1, OtherMail
<1>3. CASE call[t].op # "delay"
  <2>1. ret' = ret
    BY <1>3 DEF Resume
  <2> QED BY <1>1, <2>1, QuietMail
<1> QED BY <1>2, <1>3

\* The last look after a timeout, as Mailbox sees it.
LEMMA RecheckMail ==
    ASSUME KernelInv, NEW t \in Tasks, Recheck(t)
    PROVE  MailStep
<1>1. UNCHANGED <<ring, pcReadFrom, uxMessagesWaiting, call>> /\ pc[t] = "recheck"
  BY DEF Recheck, queueVars, At
<1>2. CASE uxMessagesWaiting[Target(t)] > 0
  <2>1. ret' = ret
    BY <1>2 DEF Recheck
  <2> QED BY <1>1, <2>1, QuietMail
<1>3. CASE ~(uxMessagesWaiting[Target(t)] > 0)
  <2>1. ret' = [ret EXCEPT ![t] = Failed]
    BY <1>3 DEF Recheck, Finish
  <2>2. call[t] \in CallRecs /\ call[t].op \in {"fetch", "fetchT", "lock"}
    BY <1>1, Here, CallRec DEF KernelInv, WalkAt
  <2>3. CASE call[t].op = "lock"
    BY <1>1, <2>1, <2>3, OtherMail
  <2>4. CASE call[t].op \in {"fetch", "fetchT"}
    <3>1. Target(t) = mbox
      BY <2>4 DEF Target
    <3>2. uxMessagesWaiting[mbox] = 0
      BY <1>3, <3>1, MailContent
    <3> QED BY <1>1, <2>1, <2>4, <3>2, FailMail
  <2> QED BY <2>2, <2>3, <2>4
<1> QED BY <1>2, <1>3

\* vTaskDelay(), as Mailbox sees it.
LEMMA DelayMail ==
    ASSUME KernelInv, NEW t \in Tasks, Delay(t)
    PROVE  MailStep
<1>1. /\ call' = [call EXCEPT ![t] = [op |-> "delay"]] /\ ret' = ret
      /\ UNCHANGED <<ring, pcReadFrom, uxMessagesWaiting>>
  BY DEF Delay, queueVars
<1>2. call[t] = NoCall /\ t \in AllTasks
  BY Here DEF KernelInv, WalkAt, Delay, At
<1>3. MboxCall(NoCall) = NoCall /\ MboxCall([op |-> "delay"]) = NoCall
  BY DEF MboxCall, NoCall
<1>4. ASSUME NEW u \in Tasks PROVE MboxCall(call'[u]) = MboxCall(call[u])
  <2>1. call'[u] = IF u = t THEN [op |-> "delay"] ELSE call[u]
    BY <1>1, Constants DEF KernelInv, CallTypes
  <2> QED BY <1>2, <1>3, <2>1
<1>5. mCall' = mCall
  BY <1>4 DEF mCall
<1>6. mRet' = mRet
  BY <1>1, <1>4 DEF mRet
<1>7. mBox' = mBox
  BY <1>1, MailSame
<1> QED BY <1>5, <1>6, <1>7, MapStutter DEF MailStep

\* The return of a call, as Mailbox sees it.
LEMMA ReturnMail ==
    ASSUME KernelInv, NEW t \in Tasks, Return(t)
    PROVE  MailStep
<1>1. /\ call' = [call EXCEPT ![t] = NoCall] /\ ret' = [ret EXCEPT ![t] = Pending]
      /\ UNCHANGED <<ring, pcReadFrom, uxMessagesWaiting>>
  BY DEF Return, queueVars
<1>2. ret[t] # Pending /\ t \in AllTasks
  BY Here DEF KernelInv, WalkAt, Return, At
<1>3. MboxCall(NoCall) = NoCall
  BY DEF MboxCall, NoCall
<1>4. mCall' = [mCall EXCEPT ![t] = NoCall]
  BY <1>1, <1>3, CallBecomes DEF KernelInv
<1>5. ASSUME NEW u \in Tasks
      PROVE  (IF MboxCall(call'[u]) = NoCall THEN Pending ELSE ret'[u])
             = (IF u = t THEN Pending ELSE IF MboxCall(call[u]) = NoCall THEN Pending ELSE ret[u])
  <2>1. /\ call'[u] = IF u = t THEN NoCall ELSE call[u]
        /\ ret'[u] = IF u = t THEN Pending ELSE ret[u]
    BY <1>1, Constants DEF KernelInv, CallTypes
  <2> QED BY <1>3, <2>1
<1>6. mRet' = [mRet EXCEPT ![t] = Pending]
  BY <1>5 DEF mRet
<1>7. mBox' = mBox
  BY <1>1, MailSame
<1>8. CASE MboxCall(call[t]) = NoCall
  <2>1. mCall[t] = NoCall /\ mRet[t] = Pending
    BY <1>8 DEF mCall, mRet
  <2>2. mCall' = mCall
    BY <1>4, <2>1 DEF mCall
  <2>3. mRet' = mRet
    BY <1>6, <2>1 DEF mRet
  <2> QED BY <1>7, <2>2, <2>3, MapStutter DEF MailStep
<1>9. CASE MboxCall(call[t]) # NoCall
  <2>1. mRet[t] # Pending
    BY <1>2, <1>9 DEF mRet
  <2> QED BY <1>4, <1>6, <1>7, <2>1, MapReturn DEF MailStep
<1> QED BY <1>8, <1>9

\* A post by an interrupt, as Mailbox sees it.
LEMMA IsrPostMail ==
    ASSUME KernelInv, IsrPost
    PROVE  MailStep
<1>1. PICK m \in Msgs : Store(m)
  BY DEF IsrPost
<1>2. /\ uxMessagesWaiting[mbox] < MBOX_SIZE /\ pcReadFrom' = pcReadFrom
      /\ uxMessagesWaiting' = [uxMessagesWaiting EXCEPT ![mbox] = @ + 1]
      /\ call' = call /\ ret' = ret
  BY DEF IsrPost, callVars
<1>3. Len(mBox) < MBOX_SIZE /\ mBox' = Append(mBox, m)
  BY <1>1, <1>2, StoreMail
<1>4. mCall' = mCall /\ mRet' = mRet
  BY <1>2, CallsSame, RetsSame
<1> QED BY <1>3, <1>4, MapInterrupt DEF MailStep

\* The steps that only schedule, lock or test.
LEMMA OtherSteps ==
    ASSUME NEW t \in Tasks,
           \/ Suspend(t) \/ prvLockQueue(t) \/ xTaskCheckForTimeOut(t) \/ TestQueue(t) \/ Place(t)
           \/ prvUnlockQueue(t)
    PROVE  MailStep
<1>1. UNCHANGED <<ring, pcReadFrom, uxMessagesWaiting, call, ret>>
  BY DEF Suspend, prvLockQueue, xTaskCheckForTimeOut, TestQueue, Place, prvUnlockQueue,
         queueVars
<1> QED BY <1>1, QuietMail

\* A free mailbox is an empty one.
LEMMA MailInit == Init => MB!Init
<1> SUFFICES ASSUME Init PROVE MB!Init
  OBVIOUS
<1>1. uxMessagesWaiting[mbox] = 0
  BY Constants DEF Init
<1>2. mBox = << >>
  BY <1>1, KernelInit, MailContent, EmptySeq
<1>3. \A t \in Tasks : call[t] = NoCall /\ ret[t] = Pending
  BY Constants DEF Init
<1>4. MboxCall(NoCall) = NoCall
  BY DEF MboxCall, NoCall
<1>5. mCall = [t \in Tasks |-> NoCall]
  BY <1>3, <1>4 DEF mCall
<1>6. mRet = [t \in Tasks |-> Pending]
  BY <1>3, <1>4 DEF mRet
<1> QED BY <1>2, <1>5, <1>6, Zenon DEF MB!Init, MB!NoCall, NoCall, MB!Pending, Pending, mBox, mCall, mRet, Slots

\* Every step of the kernel is a step of Mailbox or a stuttering one.
LEMMA MailNext == KernelInv /\ [Next]_vars => [MB!Next]_(MB!vars)
<1> SUFFICES ASSUME KernelInv, [Next]_vars PROVE MailStep
  BY DEF MailStep
<1>1. ASSUME NEW t \in Tasks, Step(t) PROVE MailStep
  BY <1>1, BeginMail, DelayMail, SendMail, ReceiveMail, TakeMail, OtherSteps, ResumeMail, RecheckMail,
     ReturnMail DEF Step
<1>2. CASE Tick \/ vTaskSwitchContext \/ UNCHANGED vars
  <2>1. UNCHANGED <<ring, pcReadFrom, uxMessagesWaiting, call, ret>>
    BY <1>2 DEF Tick, vTaskSwitchContext, vars, queueVars, callVars
  <2> QED BY <2>1, QuietMail
<1>3. CASE IsrPost
  BY <1>3, IsrPostMail
<1> QED BY <1>1, <1>2, <1>3 DEF Next

\* Refinement: queue.c under sys_arch.c, with its critical sections, locked
\* queues, timeouts and interrupts, is the FIFO that sys_arch.h promises.  The
\* ring buffer from pcReadFrom on is the sequence of messages; a call takes
\* effect where its result is fixed.
THEOREM ImplementsMailboxAlways == Spec => ImplementsMailbox
BY KernelInvariant, MailInit, MailNext, PTL DEF Spec, ImplementsMailbox, MB!Spec

=============================================================================

---------------------------- MODULE RtListProofs ----------------------------
(***************************************************************************)
(* Lemmas about the operators on lists, cited by the proofs about every    *)
(* part of the kernel that links threads or timers; about indices that     *)
(* wrap; and about what is defined by recursion.                           *)
(***************************************************************************)
EXTENDS RtList, SequenceTheorems, WellFoundedInduction, TLAPS

(* Every nonempty set of naturals has a least element: the induction on    *)
(* naturals that the proofs use.                                           *)
LEMMA LeastNatural ==
  ASSUME NEW T \in SUBSET Nat, T # {}
  PROVE  \E x \in T : \A y \in T : x <= y
<1>1. \E x \in T : \A y \in T : ~(<<y, x>> \in OpToRel(<, Nat))
  BY WFMin, NatLessThanWellFounded
<1>2. PICK x \in T : \A y \in T : ~(<<y, x>> \in OpToRel(<, Nat))
  BY <1>1
<1>3. \A y \in T : x <= y
  <2>1. TAKE y \in T
  <2>2. x \in Nat /\ y \in Nat
    OBVIOUS
  <2>3. ASSUME y < x PROVE FALSE
    <3>1. <<y, x>> \in Nat \X Nat /\ <<y, x>>[1] < <<y, x>>[2]
      BY <2>2, <2>3
    <3>2. <<y, x>> \in OpToRel(<, Nat)
      BY <3>1 DEF OpToRel
    <3> QED
      BY <1>2, <3>2
  <2> QED
    BY <2>2, <2>3
<1> QED
  BY <1>3

-----------------------------------------------------------------------------
(* Inserting in front of any entry, or at the end, adds one element. *)
LEMMA InsertAtProperties ==
  ASSUME NEW S, NEW q \in Seq(S), NEW i \in 1..(Len(q) + 1), NEW t \in S
  PROVE  /\ InsertAt(q, i, t) \in Seq(S)
         /\ Len(InsertAt(q, i, t)) = Len(q) + 1
         /\ Elements(InsertAt(q, i, t)) = Elements(q) \cup {t}
         /\ NoRepeat(q) /\ t \notin Elements(q) => NoRepeat(InsertAt(q, i, t))
<1> DEFINE r == InsertAt(q, i, t)
<1>0. Len(q) \in Nat /\ \A k \in 1..Len(q) : q[k] \in S
  BY ElementOfSeq, LenProperties
<1>1. \A k \in 1..(Len(q) + 1) : r[k] \in S
  BY <1>0 DEF InsertAt
<1>2. r \in Seq(S) /\ Len(r) = Len(q) + 1
  <2>1. r = [k \in 1..(Len(q) + 1) |-> r[k]]
    BY DEF InsertAt
  <2> HIDE DEF r
  <2> QED
    BY <1>0, <1>1, <2>1, IsASeq, LenProperties
<1>3. Elements(r) = Elements(q) \cup {t}
  <2>1. \A k \in 1..Len(r) : r[k] \in Elements(q) \cup {t}
    BY <1>0, <1>2 DEF InsertAt, Elements
  <2>2. t \in Elements(r)
    BY <1>0, <1>2 DEF InsertAt, Elements
  <2>3. \A k \in 1..Len(q) : q[k] \in Elements(r)
    <3>1. TAKE k \in 1..Len(q)
    <3>2. q[k] = IF k < i THEN r[k] ELSE r[k + 1]
      BY <1>0 DEF InsertAt
    <3> QED
      BY <1>0, <1>2, <3>2 DEF Elements
  <2> QED
    BY <2>1, <2>2, <2>3 DEF Elements
<1>4. NoRepeat(q) /\ t \notin Elements(q) => NoRepeat(r)
  BY <1>0, <1>2 DEF InsertAt, Elements, NoRepeat
<1> QED
  BY <1>2, <1>3, <1>4

(* Unlinking removes exactly one element. *)
LEMMA UnlinkProperties ==
  ASSUME NEW S, NEW q \in Seq(S), NEW t, NoRepeat(q)
  PROVE  /\ Unlink(q, t) \in Seq(S)
         /\ Elements(Unlink(q, t)) = Elements(q) \ {t}
         /\ NoRepeat(Unlink(q, t))
<1>0. Len(q) \in Nat /\ \A k \in 1..Len(q) : q[k] \in S
  BY ElementOfSeq, LenProperties
<1>1. CASE t \notin Elements(q)
  BY <1>1 DEF Unlink, Elements
<1>2. CASE t \in Elements(q)
  <2> DEFINE i == CHOOSE j \in 1..Len(q) : q[j] = t
             r == [k \in 1..(Len(q) - 1) |-> IF k < i THEN q[k] ELSE q[k + 1]]
  <2>1. i \in 1..Len(q) /\ q[i] = t
    BY <1>2 DEF Elements
  <2>2. Unlink(q, t) = r
    BY <1>2 DEF Unlink
  <2> HIDE DEF i
  <2>3. \A k \in 1..(Len(q) - 1) : r[k] \in S
    BY <1>0, <2>1
  <2>4. r \in Seq(S) /\ Len(r) = Len(q) - 1
    BY <1>0, <2>1, <2>3, IsASeq, LenProperties
  <2>5. Elements(r) \subseteq Elements(q) \ {t}
    <3>1. SUFFICES ASSUME NEW k \in 1..Len(r)
                   PROVE  r[k] \in Elements(q) /\ r[k] # t
      BY DEF Elements
    <3>2. CASE k < i
      BY <1>0, <2>1, <2>4, <3>2 DEF Elements, NoRepeat
    <3>3. CASE k >= i
      <4>1. r[k] = q[k + 1] /\ k + 1 \in 1..Len(q) /\ k + 1 # i
        BY <1>0, <2>1, <2>4, <3>3
      <4> QED
        BY <2>1, <4>1 DEF Elements, NoRepeat
    <3> QED
      BY <1>0, <2>1, <2>4, <3>2, <3>3
  <2>6. \A k \in 1..Len(q) : q[k] # t => q[k] \in Elements(r)
    <3>1. TAKE k \in 1..Len(q)
    <3>2. HAVE q[k] # t
    <3>3. CASE k < i
      BY <1>0, <2>1, <2>4, <3>3 DEF Elements
    <3>4. CASE k > i
      <4>1. r[k - 1] = q[k] /\ k - 1 \in 1..Len(r)
        BY <1>0, <2>1, <2>4, <3>4
      <4> QED
        BY <4>1 DEF Elements
    <3> QED
      BY <2>1, <3>2, <3>3, <3>4
  <2>7. NoRepeat(r)
    BY <1>0, <2>1, <2>4 DEF NoRepeat
  <2>8. Elements(q) \ {t} \subseteq Elements(r)
    BY <2>6 DEF Elements
  <2> HIDE DEF r
  <2> QED
    BY <2>2, <2>4, <2>5, <2>7, <2>8
<1> QED
  BY <1>1, <1>2

LEMMA TailProperties ==
  ASSUME NEW S, NEW q \in Seq(S), q # << >>, NoRepeat(q)
  PROVE  /\ Head(q) \in Elements(q) /\ Head(q) \in S
         /\ Tail(q) \in Seq(S)
         /\ Elements(Tail(q)) = Elements(q) \ {Head(q)}
         /\ NoRepeat(Tail(q))
<1>1. /\ Len(q) \in Nat \ {0} /\ Head(q) = q[1] /\ Head(q) \in S
      /\ Tail(q) \in Seq(S) /\ Len(Tail(q)) = Len(q) - 1
      /\ \A k \in 1..Len(Tail(q)) : Tail(q)[k] = q[k + 1]
  BY HeadTailProperties, LenProperties, EmptySeq
<1>2. \A k \in 1..Len(q) : k # 1 => k - 1 \in 1..Len(Tail(q)) /\ Tail(q)[k - 1] = q[k]
  BY <1>1
<1>3. Elements(Tail(q)) = Elements(q) \ {Head(q)}
  <2>1. Elements(Tail(q)) \subseteq Elements(q) \ {Head(q)}
    BY <1>1 DEF Elements, NoRepeat
  <2>2. Elements(q) \ {Head(q)} \subseteq Elements(Tail(q))
    BY <1>1, <1>2 DEF Elements
  <2> QED
    BY <2>1, <2>2
<1> QED
  <2>1. NoRepeat(Tail(q))
    BY <1>1 DEF NoRepeat
  <2>2. Head(q) \in Elements(q)
    BY <1>1 DEF Elements
  <2> QED
    BY <1>1, <1>3, <2>1, <2>2

(* Appending adds one element. *)
LEMMA AppendKeepsNoRepeat ==
  ASSUME NEW S, NEW q \in Seq(S), NEW t \in S, NoRepeat(q), t \notin Elements(q)
  PROVE  /\ Append(q, t) \in Seq(S)
         /\ Elements(Append(q, t)) = Elements(q) \cup {t}
         /\ NoRepeat(Append(q, t))
<1>1. /\ Append(q, t) \in Seq(S) /\ Len(Append(q, t)) = Len(q) + 1 /\ Len(q) \in Nat
      /\ \A k \in 1..Len(q) : Append(q, t)[k] = q[k]
      /\ Append(q, t)[Len(q) + 1] = t
  BY AppendProperties, LenProperties
<1>2. Elements(Append(q, t)) = Elements(q) \cup {t}
  BY <1>1 DEF Elements
<1>3. NoRepeat(Append(q, t))
  BY <1>1 DEF Elements, NoRepeat
<1> QED
  BY <1>1, <1>2, <1>3

-----------------------------------------------------------------------------
(* Unlinking keeps the order. *)
LEMMA UnlinkOrdered ==
  ASSUME NEW S, NEW q \in Seq(S), NEW prio, \A x \in S : prio[x] \in Int, NEW t,
         OrderedBy(q, prio)
  PROVE  OrderedBy(Unlink(q, t), prio)
<1>0. Len(q) \in Nat /\ \A k \in 1..Len(q) : q[k] \in S /\ prio[q[k]] \in Int
  BY ElementOfSeq, LenProperties
<1>1. CASE t \notin Elements(q)
  BY <1>1 DEF Unlink
<1>2. CASE t \in Elements(q)
  <2> DEFINE i == CHOOSE j \in 1..Len(q) : q[j] = t
             r == [k \in 1..(Len(q) - 1) |-> IF k < i THEN q[k] ELSE q[k + 1]]
  <2>1. i \in 1..Len(q)
    BY <1>2 DEF Elements
  <2>2. Unlink(q, t) = r
    BY <1>2 DEF Unlink
  <2> HIDE DEF i
  <2>3. \A k \in 1..(Len(q) - 1) : r[k] \in S
    BY <1>0, <2>1
  <2>4. Len(r) = Len(q) - 1
    BY <1>0, <2>1, <2>3, IsASeq, LenProperties
  <2>5. ASSUME NEW k \in 1..Len(r), NEW m \in 1..Len(r), k <= m
        PROVE  prio[r[k]] <= prio[r[m]]
    <3>1. PICK a \in 1..Len(q) : r[k] = q[a] /\ (a = k \/ a = k + 1) /\ (k >= i => a = k + 1)
      BY <1>0, <2>1, <2>4
    <3>2. PICK b \in 1..Len(q) : r[m] = q[b] /\ (b = m \/ b = m + 1) /\ (m >= i => b = m + 1)
      BY <1>0, <2>1, <2>4
    <3>3. a <= b \/ (k = m /\ r[k] = r[m])
      BY <1>0, <2>1, <2>4, <2>5, <3>1, <3>2
    <3>4. a <= b => prio[q[a]] <= prio[q[b]]
      BY DEF OrderedBy
    <3>5. prio[q[a]] \in Int /\ prio[q[b]] \in Int
      BY <1>0
    <3> HIDE DEF r
    <3> QED
      BY <3>1, <3>2, <3>3, <3>4, <3>5
  <2> HIDE DEF r
  <2> QED
    BY <2>2, <2>5 DEF OrderedBy
<1> QED
  BY <1>1, <1>2

(* Inserting where nothing before comes later and nothing after comes      *)
(* earlier keeps the order.                                                *)
LEMMA InsertOrdered ==
  ASSUME NEW S, NEW q \in Seq(S), NEW prio, \A x \in S : prio[x] \in Int, NEW t \in S,
         OrderedBy(q, prio), NEW i \in 1..(Len(q) + 1),
         \A j \in 1..(i - 1) : prio[q[j]] <= prio[t],
         i <= Len(q) => prio[t] <= prio[q[i]]
  PROVE  OrderedBy(InsertAt(q, i, t), prio)
<1> DEFINE r == InsertAt(q, i, t)
<1>0. /\ Len(q) \in Nat /\ prio[t] \in Int
      /\ \A k \in 1..Len(q) : q[k] \in S /\ prio[q[k]] \in Int
  BY ElementOfSeq, LenProperties
<1>2. Len(r) = Len(q) + 1
  BY InsertAtProperties
<1>3. \A k \in 1..(Len(q) + 1) :
        r[k] = IF k < i THEN q[k] ELSE IF k = i THEN t ELSE q[k - 1]
  BY DEF InsertAt
<1> HIDE DEF r
<1>4. ASSUME NEW k \in 1..Len(r), NEW m \in 1..Len(r), k < m
      PROVE  prio[r[k]] <= prio[r[m]]
  <2>1. CASE m < i
    <3>1. r[k] = q[k] /\ r[m] = q[m] /\ k \in 1..Len(q) /\ m \in 1..Len(q)
      BY <1>0, <1>2, <1>3, <1>4, <2>1
    <3> QED
      BY <1>0, <1>2, <1>4, <3>1 DEF OrderedBy
  <2>2. CASE m = i
    BY <1>0, <1>2, <1>3, <1>4, <2>2
  <2>3. CASE k < i /\ m > i
    <3>1. r[k] = q[k] /\ r[m] = q[m - 1] /\ k \in 1..Len(q) /\ m - 1 \in 1..Len(q) /\ k <= m - 1
      BY <1>0, <1>2, <1>3, <2>3
    <3> QED
      BY <1>0, <3>1 DEF OrderedBy
  <2>4. CASE k = i
    <3>1. r[k] = t /\ r[m] = q[m - 1] /\ m - 1 \in 1..Len(q) /\ i <= m - 1 /\ i \in 1..Len(q)
      BY <1>0, <1>2, <1>3, <1>4, <2>4
    <3>2. prio[q[i]] <= prio[q[m - 1]]
      BY <1>0, <3>1 DEF OrderedBy
    <3> QED
      BY <1>0, <3>1, <3>2
  <2>5. CASE k > i
    <3>1. r[k] = q[k - 1] /\ r[m] = q[m - 1] /\ k - 1 \in 1..Len(q) /\ m - 1 \in 1..Len(q)
      BY <1>0, <1>2, <1>3, <1>4, <2>5
    <3>2. k - 1 <= m - 1
      BY <1>0, <1>2, <1>4
    <3> QED
      BY <3>1, <3>2 DEF OrderedBy
  <2> QED
    BY <1>2, <1>0, <1>4, <2>1, <2>2, <2>3, <2>4, <2>5
<1>5. \A k \in 1..Len(r) : prio[r[k]] <= prio[r[k]]
  BY <1>0, <1>2, <1>3
<1>6. OrderedBy(r, prio)
  BY <1>0, <1>2, <1>4, <1>5 DEF OrderedBy
<1> QED
  BY <1>6 DEF r

(* The head of an ordered list has the highest priority of all waiters. *)
LEMMA TailOrdered ==
  ASSUME NEW S, NEW q \in Seq(S), NEW prio, \A x \in S : prio[x] \in Int,
         OrderedBy(q, prio), q # << >>
  PROVE  /\ OrderedBy(Tail(q), prio)
         /\ \A u \in Elements(Tail(q)) : prio[Head(q)] <= prio[u]
<1>1. /\ Len(q) \in Nat \ {0} /\ Head(q) = q[1]
      /\ Len(Tail(q)) = Len(q) - 1
      /\ \A k \in 1..Len(Tail(q)) : Tail(q)[k] = q[k + 1]
  BY HeadTailProperties, LenProperties, EmptySeq
<1> QED
  BY <1>1 DEF OrderedBy, Elements

(* rt_list_insert_after on the head, of an entry that is not in the list.  *)
LEMMA PushProperties ==
  ASSUME NEW S, NEW q \in Seq(S), NoRepeat(q), NEW t \in S, t \notin Elements(q)
  PROVE  /\ <<t>> \o q \in Seq(S) /\ NoRepeat(<<t>> \o q)
         /\ Elements(<<t>> \o q) = Elements(q) \cup {t}
<1> DEFINE r == <<t>> \o q
<1>1. /\ r \in Seq(S) /\ Len(q) \in Nat /\ Len(r) = Len(q) + 1
      /\ \A k \in 1..Len(r) : r[k] = IF k = 1 THEN t ELSE q[k - 1]
  <2>1. <<t>> \in Seq(S) /\ Len(<<t>>) = 1 /\ <<t>>[1] = t
    OBVIOUS
  <2> QED
    BY <2>1, ConcatProperties, LenProperties
<1> HIDE DEF r
<1>2. \A k \in 1..Len(q) : q[k] # t
  BY DEF Elements
<1>3. r[1] = t /\ \A k \in 1..Len(q) : k + 1 \in 1..Len(r) /\ r[k + 1] = q[k]
  BY <1>1
<1>4. NoRepeat(r)
  <2>1. \A k \in 1..Len(r) : k # 1 => /\ k - 1 \in 1..Len(q)
                                     /\ r[k] = q[k - 1] /\ r[k] # t
    BY <1>1, <1>2
  <2>2. ASSUME NEW i \in 1..Len(r), NEW j \in 1..Len(r), r[i] = r[j], i # 1, j # 1
        PROVE  i = j
    <3>1. i - 1 = j - 1
      BY <2>1, <2>2 DEF NoRepeat
    <3> QED
      BY <1>1, <3>1
  <2> QED
    BY <1>1, <2>1, <2>2 DEF NoRepeat
<1>5. Elements(r) = Elements(q) \cup {t}
  BY <1>1, <1>3, SMTT(30) DEF Elements
<1> QED
  BY <1>1, <1>4, <1>5 DEF r

-----------------------------------------------------------------------------
(* Arithmetic of indices that wrap.                                        *)
LEMMA DivMod ==
  ASSUME NEW M \in Nat \ {0}, NEW a \in Int
  PROVE  a \div M \in Int /\ a % M \in 0..(M - 1) /\ a = M * (a \div M) + (a % M)
OBVIOUS

LEMMA ModUnique ==
  ASSUME NEW M \in Nat \ {0}, NEW a \in Int, NEW q \in Int, NEW r \in 0..(M - 1), a = M * q + r
  PROVE  (a % M) = r
OBVIOUS

\* What stays below twice the modulus wraps once at most.
LEMMA ModOnce ==
  ASSUME NEW M \in Nat \ {0}, NEW a \in 0..(2 * M - 1)
  PROVE  a % M = IF a < M THEN a ELSE a - M
<1>1. CASE a < M
  <2>1. a \in 0..(M - 1) /\ a = M * 0 + a
    BY <1>1
  <2> QED
    BY <1>1, <2>1, ModUnique
<1>2. CASE ~(a < M)
  <2>1. a - M \in 0..(M - 1) /\ a = M * 1 + (a - M)
    BY <1>2
  <2> QED
    BY <1>2, <2>1, ModUnique
<1> QED
  BY <1>1, <1>2

\* Wrapping first makes no difference to a sum.
LEMMA ModSum ==
  ASSUME NEW M \in Nat \ {0}, NEW a \in Int, NEW b \in Int
  PROVE  ((a % M) + b) % M = (a + b) % M
<1> DEFINE p == a \div M
           x == a % M
           c == x + b
           q == c \div M
           y == c % M
<1>1. p \in Int /\ x \in 0..(M - 1) /\ a = M * p + x
  BY DivMod
<1> HIDE DEF p, x
<1>2. c \in Int
  BY <1>1
<1>3. q \in Int /\ y \in 0..(M - 1) /\ c = M * q + y
  BY <1>2, DivMod
<1> HIDE DEF q, y
<1>4. c = x + b
  OBVIOUS
<1> HIDE DEF c
<1> DEFINE m == p + q
<1>5. m \in Int /\ a + b \in Int
  BY <1>1, <1>3
<1>6. M * m = M * p + M * q
  BY <1>1, <1>3
<1>7. a + b = M * m + y
  BY <1>1, <1>2, <1>3, <1>4, <1>6
<1> HIDE DEF m
<1>8. (a + b) % M = y
  BY <1>3, <1>5, <1>7, ModUnique
<1> QED
  BY <1>8 DEF y, c, x

\* Two numbers less than twice the modulus apart meet only a modulus apart.
LEMMA ModMeet ==
  ASSUME NEW M \in Nat \ {0}, NEW a \in Int, NEW d \in 1..(2 * M - 1), a % M = (a + d) % M
  PROVE  d = M
<1> DEFINE p == a \div M
           q == (a + d) \div M
           x == a % M
           y == (a + d) % M
<1>1. p \in Int /\ x \in 0..(M - 1) /\ a = M * p + x
  BY DivMod
<1>2. q \in Int /\ y \in 0..(M - 1) /\ a + d = M * q + y
  BY DivMod
<1>3. x = y
  OBVIOUS
<1> HIDE DEF p, q, x, y
<1> DEFINE k == q - p
<1>4. k \in Int /\ M * k = M * q - M * p
  BY <1>1, <1>2
<1>5. d = M * k
  BY <1>1, <1>2, <1>3, <1>4
<1> HIDE DEF k
<1>6. k > 0
  <2>1. k <= 0 => M * k <= 0
    BY <1>4
  <2> QED
    BY <1>4, <1>5, <2>1
<1>7. k < 2
  <2>1. k >= 2 => M * k >= M * 2
    BY <1>4
  <2> QED
    BY <1>4, <1>5, <2>1
<1>8. k = 1
  BY <1>4, <1>6, <1>7
<1> QED
  BY <1>5, <1>8

-----------------------------------------------------------------------------
\* A function may be defined by recursion along 0..n.
HasRun(n, S, base, step) ==
  \E f \in [0..n -> S] : f[0] = base /\ \A i \in 1..n : f[i] = step[i][f[i - 1]]

LEMMA RecursionAlong ==
  ASSUME NEW n \in Nat, NEW S, NEW base \in S, NEW step \in [1..n -> [S -> S]]
  PROVE  HasRun(n, S, base, step)
<1> DEFINE Fits(f, m) == /\ f \in [0..n -> S] /\ f[0] = base
                         /\ \A i \in 1..n : i <= m => f[i] = step[i][f[i - 1]]
           T == {m \in 0..n : ~ \E f \in [0..n -> S] : Fits(f, m)}
<1>1. T = {}
  <2> SUFFICES ASSUME T # {} PROVE FALSE
    OBVIOUS
  <2>1. T \in SUBSET Nat
    OBVIOUS
  <2> HIDE DEF T
  <2>2. PICK m \in T : \A k \in T : m <= k
    BY <2>1, LeastNatural
  <2>3. m \in 0..n /\ m \in Nat /\ ~ \E f : Fits(f, m)
    BY <2>2 DEF T
  <2>4. m # 0
    <3>1. Fits([i \in 0..n |-> base], 0)
      OBVIOUS
    <3> QED
      BY <2>3, <3>1
  <2>5. PICK g : Fits(g, m - 1)
    <3>1. m - 1 \notin T /\ m - 1 \in 0..n
      BY <2>1, <2>2, <2>3, <2>4
    <3> QED
      BY <3>1 DEF T
  <2> DEFINE f == [g EXCEPT ![m] = step[m][g[m - 1]]]
  <2>6. m \in 1..n /\ m - 1 \in 0..n /\ 0 \in 0..n
    BY <2>3, <2>4
  <2>7. f \in [0..n -> S] /\ f[0] = base /\ f[m] = step[m][g[m - 1]]
    BY <2>4, <2>5, <2>6
  <2>8. ASSUME NEW i \in 1..n, i <= m PROVE f[i] = step[i][f[i - 1]]
    <3>1. f[i - 1] = g[i - 1]
      BY <2>5, <2>6, <2>8
    <3>2. CASE i = m
      BY <2>7, <3>1, <3>2
    <3>3. CASE i # m
      <4>1. i <= m - 1 /\ f[i] = g[i]
        BY <2>5, <2>6, <2>8, <3>3
      <4> QED
        BY <2>5, <3>1, <4>1
    <3> QED
      BY <3>2, <3>3
  <2>9. Fits(f, m)
    BY <2>7, <2>8
  <2> QED
    BY <2>3, <2>9
<1>2. n \notin T /\ n \in 0..n
  <2> HIDE DEF T
  <2> QED
    BY <1>1
<1>3. PICK f \in [0..n -> S] : Fits(f, n)
  BY <1>2
<1>4. \A i \in 1..n : i <= n
  OBVIOUS
<1> QED
  BY <1>3, <1>4 DEF HasRun

\* What holds of the base and is kept along a recursion holds at its end.
LEMMA KeptAlong ==
  ASSUME NEW n \in Nat, NEW Good, 0 \in Good,
         \A i \in 1..n : i - 1 \in Good => i \in Good
  PROVE  n \in Good
<1> DEFINE T == {m \in 0..n : m \notin Good}
<1>1. T = {}
  <2> SUFFICES ASSUME T # {} PROVE FALSE
    OBVIOUS
  <2>1. T \in SUBSET Nat
    OBVIOUS
  <2> HIDE DEF T
  <2>2. PICK m \in T : \A k \in T : m <= k
    BY <2>1, LeastNatural
  <2>3. m \in 1..n /\ m \notin Good /\ m - 1 \in 0..n
    BY <2>2 DEF T
  <2>4. m - 1 \notin T
    BY <2>1, <2>2, <2>3
  <2> QED
    BY <2>3, <2>4 DEF T
<1> QED
  BY <1>1

-----------------------------------------------------------------------------
LEMMA NoElements ==
  ASSUME NEW S, NEW q \in Seq(S), Elements(q) = {}
  PROVE  q = << >>
<1>1. Len(q) \in Nat /\ (1 \in 1..Len(q) => q[1] \in Elements(q))
  BY LenProperties DEF Elements
<1> QED
  BY <1>1, EmptySeq

LEMMA ModAround ==
  ASSUME NEW M \in Nat \ {0}, NEW a \in Int
  PROVE  (a + M) % M = a % M
<1> DEFINE q == a \div M
           x == a % M
<1>1. q \in Int /\ x \in 0..(M - 1) /\ a = M * q + x
  BY DivMod
<1> HIDE DEF q, x
<1>2. a + M \in Int /\ q + 1 \in Int /\ a + M = M * (q + 1) + x
  BY <1>1
<1>3. (a + M) % M = x
  BY <1>1, <1>2, ModUnique
<1> QED
  BY <1>3 DEF x

(* A stream of what was put into the slots of a buffer, from slot from on, *)
(* of which each overwrites the one M before.                              *)
Kept(M, slots, from, stream) ==
  \A i \in 1..Len(stream) : slots[(from + i - 1) % M] # stream[i] => i + M <= Len(stream)

LEMMA KeptAppend ==
  ASSUME NEW M \in Nat \ {0}, NEW S, NEW slots \in [0..(M - 1) -> S], NEW from \in Nat, NEW T,
         NEW stream \in Seq(T), Len(stream) < 2 * M, NEW x \in T, NEW r,
         r = [slots EXCEPT ![(from + Len(stream)) % M] = x],
         Kept(M, slots, from, stream)
  PROVE  Kept(M, r, from, Append(stream, x))
<1> DEFINE n == Len(stream)
           new == Append(stream, x)
<1>1. n \in Nat /\ Len(new) = n + 1 /\ new[n + 1] = x /\ \A i \in 1..n : new[i] = stream[i]
  OBVIOUS
<1>2. (from + n) % M \in 0..(M - 1)
  <2> DEFINE c == from + n
  <2>1. c \in Int
    BY <1>1
  <2> HIDE DEF c
  <2>2. c % M \in 0..(M - 1)
    BY <2>1, DivMod
  <2> QED
    BY <2>2 DEF c
<1>3. r[(from + n) % M] = x /\ \A s \in 0..(M - 1) : s # (from + n) % M => r[s] = slots[s]
  BY <1>2
<1> HIDE DEF new
<1>4. ASSUME NEW i \in 1..(n + 1), r[(from + i - 1) % M] # new[i]
      PROVE  i + M <= n + 1
  <2>1. from + i - 1 \in Int /\ (from + i - 1) % M \in 0..(M - 1)
    <3> DEFINE c == from + i - 1
    <3>1. c \in Int
      BY <1>1
    <3> HIDE DEF c
    <3>2. c % M \in 0..(M - 1)
      BY <3>1, DivMod
    <3> QED
      BY <3>1, <3>2 DEF c
  <2>2. i # n + 1
    <3>1. i = n + 1 => from + i - 1 = from + n
      BY <1>1
    <3> QED
      BY <1>1, <1>3, <1>4, <3>1
  <2>3. i \in 1..n
    BY <1>1, <2>2
  <2>4. CASE (from + i - 1) % M = (from + n) % M
    <3> DEFINE a == from + i - 1
               d == n + 1 - i
    <3>1. a \in Int /\ d \in 1..(2 * M - 1) /\ a + d = from + n
      BY <1>1, <2>3
    <3>2. a % M = (a + d) % M
      BY <2>4, <3>1
    <3> HIDE DEF a, d
    <3>3. d = M
      BY <3>1, <3>2, ModMeet
    <3> QED
      BY <1>1, <2>3, <3>3 DEF d
  <2>5. CASE (from + i - 1) % M # (from + n) % M
    <3>1. slots[(from + i - 1) % M] # stream[i]
      BY <1>1, <1>3, <1>4, <2>1, <2>3, <2>5
    <3>2. i + M <= n
      BY <2>3, <3>1 DEF Kept
    <3> QED
      BY <1>1, <2>3, <3>2
  <2> QED
    BY <2>4, <2>5
<1> QED
  BY <1>1, <1>4 DEF Kept, new

(* Leaving out the first n.                                                *)
Drops(remains, stream, n) ==
  /\ Len(remains) = Len(stream) - n
  /\ \A i \in 1..Len(remains) : remains[i] = stream[n + i]

LEMMA DropsSubSeq ==
  ASSUME NEW T, NEW stream \in Seq(T), NEW n \in 0..Len(stream)
  PROVE  /\ SubSeq(stream, n + 1, Len(stream)) \in Seq(T)
         /\ Drops(SubSeq(stream, n + 1, Len(stream)), stream, n)
<1> DEFINE r == SubSeq(stream, n + 1, Len(stream))
<1>1. Len(stream) \in Nat /\ \A i \in (n + 1)..Len(stream) : stream[i] \in T
  OBVIOUS
<1>2. /\ r \in Seq(T)
      /\ Len(r) = IF n + 1 <= Len(stream) THEN Len(stream) - (n + 1) + 1 ELSE 0
      /\ \A i \in 1..(Len(stream) - (n + 1) + 1) : r[i] = stream[n + 1 + i - 1]
  <2>1. n + 1 \in Int /\ Len(stream) \in Int
    BY <1>1
  <2> QED
    BY <1>1, <2>1, SubSeqProperties
<1> HIDE DEF r
<1>3. Len(r) = Len(stream) - n
  BY <1>1, <1>2
<1>4. ASSUME NEW i \in 1..Len(r) PROVE r[i] = stream[n + i]
  <2>1. i \in 1..(Len(stream) - (n + 1) + 1) /\ n + 1 + i - 1 = n + i
    BY <1>1, <1>3
  <2> QED
    BY <1>2, <2>1
<1> QED
  BY <1>2, <1>3, <1>4 DEF r, Drops

LEMMA DropsConcat ==
  ASSUME NEW T, NEW stream \in Seq(T), NEW n \in 0..Len(stream), NEW remains \in Seq(T),
         Drops(remains, stream, n), NEW more \in Seq(T)
  PROVE  Drops(remains \o more, stream \o more, n)
<1>1. /\ Len(remains \o more) = Len(remains) + Len(more)
      /\ \A i \in 1..(Len(remains) + Len(more)) :
           (remains \o more)[i] = IF i <= Len(remains) THEN remains[i] ELSE more[i - Len(remains)]
  BY ConcatProperties
<1>2. /\ Len(stream \o more) = Len(stream) + Len(more)
      /\ \A i \in 1..(Len(stream) + Len(more)) :
           (stream \o more)[i] = IF i <= Len(stream) THEN stream[i] ELSE more[i - Len(stream)]
  BY ConcatProperties
<1>3. Len(remains) \in Nat /\ Len(stream) \in Nat /\ Len(more) \in Nat
  BY LenProperties
<1>4. Len(remains) = Len(stream) - n /\ \A i \in 1..Len(remains) : remains[i] = stream[n + i]
  BY DEF Drops
<1>5. ASSUME NEW i \in 1..(Len(remains) + Len(more)) PROVE (remains \o more)[i] = (stream \o more)[n + i]
  <2>1. i \in Nat /\ n + i \in 1..(Len(stream) + Len(more)) /\ n \in Nat
    BY <1>3, <1>4
  <2>2. CASE i <= Len(remains)
    <3>1. i \in 1..Len(remains) /\ n + i <= Len(stream)
      BY <1>3, <1>4, <2>1, <2>2
    <3> QED
      BY <1>1, <1>2, <1>4, <2>1, <2>2, <3>1
  <2>3. CASE ~(i <= Len(remains))
    <3>1. ~(n + i <= Len(stream)) /\ i - Len(remains) = n + i - Len(stream)
      BY <1>3, <1>4, <2>1, <2>3
    <3> QED
      BY <1>1, <1>2, <2>1, <2>3, <3>1
  <2> QED
    BY <2>2, <2>3
<1>6. Len(remains) + Len(more) = Len(stream) + Len(more) - n
  BY <1>3, <1>4
<1> HIDE DEF Drops
<1> QED
  BY <1>1, <1>2, <1>5, <1>6 DEF Drops

LEMMA AppendToConcat ==
  ASSUME NEW T, NEW s \in Seq(T), NEW r \in Seq(T), NEW x \in T
  PROVE  s \o Append(r, x) = Append(s \o r, x)
<1>1. <<x>> \in Seq(T) /\ s \o r \in Seq(T)
  OBVIOUS
<1>2. Append(r, x) = r \o <<x>> /\ Append(s \o r, x) = (s \o r) \o <<x>>
  BY <1>1, AppendIsConcat
<1> QED
  BY <1>1, <1>2, ConcatAssociative

\* Leaving out the first n is starting n slots on.
LEMMA KeptDrop ==
  ASSUME NEW M \in Nat \ {0}, NEW slots, NEW from \in Nat, NEW T,
         NEW stream \in Seq(T), NEW n \in 0..Len(stream), NEW remains \in Seq(T),
         Drops(remains, stream, n),
         Kept(M, slots, from, stream)
  PROVE  Kept(M, slots, (from + n) % M, remains)
<1>1. ASSUME NEW i \in 1..Len(remains), slots[(((from + n) % M) + i - 1) % M] # remains[i]
      PROVE  i + M <= Len(remains)
  <2> DEFINE a == from + n
             b == i - 1
  <2>1. Len(stream) \in Nat /\ Len(remains) \in Nat /\ a \in Int /\ b \in Int
    OBVIOUS
  <2>a. Len(remains) = Len(stream) - n /\ remains[i] = stream[n + i]
    BY DEF Drops
  <2>2. a % M \in 0..(M - 1)
    BY <2>1, DivMod
  <2>3. ((a % M) + b) % M = (a + b) % M
    BY <2>1, ModSum
  <2>4. (a % M) + i - 1 = (a % M) + b
    BY <2>2
  <2>5. from + (n + i) - 1 = a + b
    OBVIOUS
  <2>6. n + i \in 1..Len(stream)
    BY <2>1, <2>a
  <2>7. slots[(from + (n + i) - 1) % M] # stream[n + i]
    BY <1>1, <2>3, <2>4, <2>5, <2>a
  <2>8. n + i + M <= Len(stream)
    BY <2>6, <2>7 DEF Kept
  <2> QED
    BY <2>1, <2>8, <2>a
<1> QED
  BY <1>1 DEF Kept
=============================================================================

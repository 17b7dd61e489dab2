---------------------------- MODULE TimerProofs ----------------------------
(***************************************************************************)
(* Proofs about Timer, for any timers, times below half the range of the   *)
(* tick by the lateness, and any width of the tick.                        *)
(***************************************************************************)
EXTENDS Timer, RtListProofs

(* The difference of two wrapped numbers is that of the numbers. *)
LEMMA ModDifference ==
  ASSUME NEW M \in Nat \ {0}, NEW a \in Int, NEW b \in Int
  PROVE  ((a % M) - (b % M)) % M = ((a - b) % M)
<1> DEFINE p == a \div M
           q == b \div M
           x == a % M
           y == b % M
           c == x - y
           n == c \div M
           z == c % M
           m == n + p - q
<1>1. p \in Int /\ x \in 0..(M - 1) /\ a = M * p + x
  BY DivMod
<1>2. q \in Int /\ y \in 0..(M - 1) /\ b = M * q + y
  BY DivMod
<1> HIDE DEF p, q, x, y
<1>3. c \in Int
  BY <1>1, <1>2
<1>4. n \in Int /\ z \in 0..(M - 1) /\ c = M * n + z
  BY <1>3, DivMod
<1> HIDE DEF n, z, c
<1>5. m \in Int /\ a - b \in Int /\ c = x - y
  BY <1>1, <1>2, <1>3, <1>4 DEF c
<1>6. M * m = M * n + M * p - M * q
  BY <1>1, <1>2, <1>4
<1>7. a - b = M * m + z
  BY <1>1, <1>2, <1>3, <1>4, <1>5, <1>6
<1> HIDE DEF m
<1>8. (a - b) % M = z
  BY <1>4, <1>5, <1>7, ModUnique
<1> QED
  BY <1>8 DEF z, c, x, y

LEMMA HalfRange == HALF \in Int /\ 2 * HALF <= TickMod - 1 /\ TickMod \in Nat \ {0} /\ MaxLate \in Nat
<1>1. TickMod \in Nat \ {0} /\ MaxLate \in Nat /\ TickMod - 1 \in Int /\ 2 \in Nat \ {0}
  BY TimerAssumption
<1>2. HALF \in Int /\ TickMod - 1 = 2 * HALF + ((TickMod - 1) % 2) /\ ((TickMod - 1) % 2) \in 0..1
  BY <1>1, DivMod DEF HALF
<1> QED
  BY <1>1, <1>2

(* The comparison of rt_timer_start and rt_timer_check (timer.c:357-363,   *)
(* :516) tells which of two timers has less time left, however the tick    *)
(* wraps around.                                                           *)
LEMMA BeforeMeansLess ==
  ASSUME NEW now \in 0..(TickMod - 1),
         NEW a \in (-MaxLate - 1)..(HALF - MaxLate - 2),
         NEW b \in (-MaxLate - 1)..(HALF - MaxLate - 2)
  PROVE  /\ Before((now + a) % TickMod, (now + b) % TickMod) <=> a <= b
         /\ (now + a) % TickMod = ((now + b) % TickMod) <=> a = b
<1> DEFINE x == (now + a) % TickMod
           y == (now + b) % TickMod
<1>0. /\ HALF \in Int /\ 2 * HALF <= TickMod - 1 /\ TickMod \in Nat \ {0} /\ MaxLate \in Nat
      /\ now \in Int /\ a \in Int /\ b \in Int /\ now + a \in Int /\ now + b \in Int
  BY HalfRange
<1>1. x \in 0..(TickMod - 1) /\ y \in 0..(TickMod - 1)
  BY <1>0, DivMod
<1>2. (y - x) % TickMod = (((now + b) - (now + a)) % TickMod)
  BY <1>0, ModDifference
<1>3. (now + b) - (now + a) = b - a /\ b - a \in Int
  BY <1>0
<1>4. (y - x) % TickMod = ((b - a) % TickMod)
  BY <1>2, <1>3
<1> HIDE DEF x, y
<1>5. CASE a <= b
  <2>1. b - a \in 0..(TickMod - 1) /\ b - a = TickMod * 0 + (b - a) /\ b - a < HALF
    BY <1>0, <1>5
  <2>2. (b - a) % TickMod = b - a
    BY <1>0, <1>3, <2>1, ModUnique
  <2>3. Before(x, y)
    BY <1>4, <2>1, <2>2 DEF Before
  <2>4. a # b => x # y
    <3>1. SUFFICES ASSUME x = y PROVE a = b
      OBVIOUS
    <3>2. y - x = 0 /\ 0 \in 0..(TickMod - 1) /\ 0 = TickMod * 0 + 0
      BY <1>0, <1>1, <3>1
    <3>3. (y - x) % TickMod = 0
      BY <1>0, <3>2, ModUnique
    <3> QED
      BY <1>0, <1>4, <2>2, <3>3
  <2>5. a = b => x = y
    BY DEF x, y
  <2> QED
    BY <1>5, <2>3, <2>4, <2>5 DEF x, y
<1>6. CASE ~(a <= b)
  <2>1. /\ b - a + TickMod \in 0..(TickMod - 1) /\ b - a = TickMod * (-1) + (b - a + TickMod)
        /\ b - a + TickMod >= HALF /\ b - a + TickMod # 0 /\ a # b
    BY <1>0, <1>6
  <2>2. (b - a) % TickMod = b - a + TickMod
    BY <1>0, <1>3, <2>1, ModUnique
  <2>3. ~Before(x, y)
    BY <1>0, <1>4, <2>1, <2>2 DEF Before
  <2>4. x # y
    <3>1. SUFFICES ASSUME x = y PROVE FALSE
      OBVIOUS
    <3>2. y - x = 0 /\ 0 \in 0..(TickMod - 1) /\ 0 = TickMod * 0 + 0
      BY <1>0, <1>1, <3>1
    <3>3. (y - x) % TickMod = 0
      BY <1>0, <3>2, ModUnique
    <3> QED
      BY <1>0, <1>4, <2>1, <2>2, <3>3
  <2> QED
    BY <1>6, <2>1, <2>3, <2>4 DEF x, y
<1> QED
  BY <1>5, <1>6

-----------------------------------------------------------------------------
(* What the operators of Timer do to the fields of a state. *)
LEMMA StateFields ==
  ASSUME NEW s \in State
  PROVE  /\ s.list \in Seq(Timers) /\ s.timer \in [Timers -> Fields]
         /\ s.rearmed \subseteq Timers
         /\ s.left \in [Timers -> (-MaxLate - 1)..(HALF - MaxLate - 2)]
         /\ \A t \in Timers : /\ s.left[t] \in (-MaxLate - 1)..(HALF - MaxLate - 2)
                              /\ s.left[t] \in Int
                              /\ s.timer[t] \in Fields
         /\ Elements(s.list) \subseteq Timers
<1>1. /\ s.list \in Seq(Timers) /\ s.timer \in [Timers -> Fields]
      /\ s.rearmed \subseteq Timers
      /\ s.left \in [Timers -> (-MaxLate - 1)..(HALF - MaxLate - 2)]
  BY DEF State
<1>2. Elements(s.list) \subseteq Timers
  BY <1>1, ElementOfSeq DEF Elements
<1>3. -MaxLate - 1 \in Int /\ HALF - MaxLate - 2 \in Int
  BY HalfRange
<1>4. \A t \in Timers : /\ s.left[t] \in (-MaxLate - 1)..(HALF - MaxLate - 2)
                        /\ s.left[t] \in Int
                        /\ s.timer[t] \in Fields
  BY <1>1, <1>3
<1> QED
  BY <1>1, <1>2, <1>4

AsRecord(s) == [list |-> s.list, timer |-> s.timer, left |-> s.left, rearmed |-> s.rearmed]

\* Times are positive and below half the range by the lateness.
LEMMA TimesInRange ==
  ASSUME NEW i \in Ticks
  PROVE  /\ i \in Int /\ i >= 1 /\ i \in (-MaxLate - 1)..(HALF - MaxLate - 2)
         /\ 0 \in (-MaxLate - 1)..(HALF - MaxLate - 2) /\ i >= -MaxLate /\ 0 >= -MaxLate
<1>1. i \in 1..(HALF - MaxLate - 2)
  BY TimerAssumption
<1> QED
  BY <1>1, HalfRange

LEMMA RemovedFields ==
  ASSUME NEW s \in State, NEW t \in Timers, NoRepeat(s.list)
  PROVE  /\ Removed(s, t) \in State
         /\ Removed(s, t).list = Unlink(s.list, t) /\ Removed(s, t).timer = s.timer
         /\ \A u \in Timers : Removed(s, t).left[u] = IF u = t THEN 0 ELSE s.left[u]
         /\ \A u : u \in Removed(s, t).rearmed <=> u \in s.rearmed /\ u # t
         /\ \A u : u \in Elements(Removed(s, t).list) <=> u \in Elements(s.list) /\ u # t
         /\ NoRepeat(Removed(s, t).list)
<1>0. PICK r : r = Removed(s, t)
  OBVIOUS
<1>1. /\ s.list \in Seq(Timers) /\ s.timer \in [Timers -> Fields]
      /\ s.left \in [Timers -> (-MaxLate - 1)..(HALF - MaxLate - 2)]
      /\ s.rearmed \in SUBSET Timers
  BY StateFields
<1>2. /\ Unlink(s.list, t) \in Seq(Timers) /\ NoRepeat(Unlink(s.list, t))
      /\ Elements(Unlink(s.list, t)) = Elements(s.list) \ {t}
  BY <1>1, UnlinkProperties
<1>3. 0 \in (-MaxLate - 1)..(HALF - MaxLate - 2)
  <2>1. s.timer[t].init_tick \in Ticks
    BY <1>1 DEF Fields
  <2> QED
    BY <2>1, TimesInRange
<1>4. [s.left EXCEPT ![t] = 0] \in [Timers -> (-MaxLate - 1)..(HALF - MaxLate - 2)]
  BY <1>1, <1>3
<1>5. /\ r.list = Unlink(s.list, t) /\ r.timer = s.timer
      /\ r.left = [s.left EXCEPT ![t] = 0]
      /\ r.rearmed = s.rearmed \ {t}
      /\ r = AsRecord(r)
  BY <1>0 DEF Removed, State, AsRecord
<1>6. s.rearmed \ {t} \in SUBSET Timers
  BY <1>1
<1>7. r \in State
  BY <1>1, <1>2, <1>4, <1>5, <1>6 DEF State, AsRecord
<1>8. \A u \in Timers : r.left[u] = IF u = t THEN 0 ELSE s.left[u]
  BY <1>1, <1>5
<1>9. \A u : u \in r.rearmed <=> u \in s.rearmed /\ u # t
  BY <1>5
<1>10. r.list = Unlink(s.list, t) /\ r.timer = s.timer
  BY <1>5
<1> QED
  BY <1>0, <1>2, <1>7, <1>8, <1>9, <1>10

LEMMA DeactivatedFields ==
  ASSUME NEW s \in State, NEW t \in Timers
  PROVE  /\ Deactivated(s, t) \in State
         /\ Deactivated(s, t).list = s.list /\ Deactivated(s, t).left = s.left
         /\ Deactivated(s, t).rearmed = s.rearmed
         /\ \A u \in Timers :
              /\ Deactivated(s, t).timer[u].activated = (u # t /\ s.timer[u].activated)
              /\ Deactivated(s, t).timer[u].timeout_tick = s.timer[u].timeout_tick
              /\ Deactivated(s, t).timer[u].periodic = s.timer[u].periodic
<1>0. PICK r : r = Deactivated(s, t)
  OBVIOUS
<1>1. s.timer \in [Timers -> Fields]
  BY StateFields
<1> DEFINE f == [s.timer EXCEPT ![t].activated = FALSE]
<1>2. /\ f \in [Timers -> Fields]
      /\ \A u \in Timers : /\ f[u].activated = (u # t /\ s.timer[u].activated)
                           /\ f[u].timeout_tick = s.timer[u].timeout_tick
                           /\ f[u].periodic = s.timer[u].periodic
  BY <1>1 DEF Fields
<1>3. /\ r.list = s.list /\ r.left = s.left
      /\ r.rearmed = s.rearmed
      /\ r.timer = f
      /\ r = AsRecord(r)
  BY <1>0 DEF Deactivated, State, AsRecord
<1> HIDE DEF f
<1>4. \A u \in Timers :
        /\ r.timer[u].activated = (u # t /\ s.timer[u].activated)
        /\ r.timer[u].timeout_tick = s.timer[u].timeout_tick
        /\ r.timer[u].periodic = s.timer[u].periodic
  BY <1>2, <1>3
<1>5. r \in State
  BY <1>2, <1>3 DEF State, AsRecord
<1> QED
  BY <1>0, <1>3, <1>4, <1>5

LEMMA TimedFields ==
  ASSUME NEW s \in State, NEW t \in Timers, tick \in 0..(TickMod - 1)
  PROVE  /\ Timed(s, t) \in State
         /\ Timed(s, t).list = s.list /\ Timed(s, t).rearmed = s.rearmed
         /\ Timed(s, t).left[t] >= -MaxLate
         /\ \A u \in Timers : u # t => /\ Timed(s, t).timer[u] = s.timer[u]
                                      /\ Timed(s, t).left[u] = s.left[u]
         /\ Timed(s, t).timer[t].activated = s.timer[t].activated
         /\ Tells(Timed(s, t), tick, t)
<1> DEFINE i == s.timer[t].init_tick
           o == (tick + i) % TickMod
           f == [s.timer EXCEPT ![t].timeout_tick = o]
           g == [s.left EXCEPT ![t] = i]
<1>0. PICK r : r = Timed(s, t)
  OBVIOUS
<1>1. /\ s.timer \in [Timers -> Fields]
      /\ s.left \in [Timers -> (-MaxLate - 1)..(HALF - MaxLate - 2)]
  BY StateFields
<1>2. i \in Ticks /\ i \in Int /\ i >= -MaxLate /\ i \in (-MaxLate - 1)..(HALF - MaxLate - 2)
  <2>1. i \in Ticks
    BY <1>1 DEF Fields
  <2> QED
    BY <2>1, TimesInRange
<1>3. o \in 0..(TickMod - 1)
  <2>1. tick + i \in Int /\ TickMod \in Nat \ {0}
    BY <1>2, HalfRange
  <2> QED
    BY <2>1, DivMod
<1>4. /\ r.list = s.list /\ r.rearmed = s.rearmed
      /\ r.timer = f /\ r.left = g
      /\ r = AsRecord(r)
  BY <1>0 DEF Timed, State, AsRecord
<1> HIDE DEF i, o
<1>5. f \in [Timers -> Fields]
  BY <1>1, <1>3 DEF Fields
<1>6. g \in [Timers -> (-MaxLate - 1)..(HALF - MaxLate - 2)]
  BY <1>1, <1>2
<1>7. \A u \in Timers : u # t => f[u] = s.timer[u] /\ g[u] = s.left[u]
  BY <1>1
<1>8. f[t].timeout_tick = o /\ f[t].activated = s.timer[t].activated /\ g[t] = i
  BY <1>1 DEF Fields
<1> HIDE DEF f, g
<1>9. r \in State
  BY <1>4, <1>5, <1>6 DEF State, AsRecord
<1>10. Tells(r, tick, t)
  BY <1>4, <1>8 DEF Tells, o
<1> QED
  BY <1>0, <1>2, <1>4, <1>7, <1>8, <1>9, <1>10

(* Inserting finds the place at which the list stays in order. *)
LEMMA InsertedFields ==
  ASSUME NEW s \in State, NEW t \in Timers, InOrder(s), t \notin Elements(s.list),
         NEW now \in 0..(TickMod - 1), Tells(s, now, t),
         \A u \in Elements(s.list) : Tells(s, now, u)
  PROVE  /\ Inserted(s, t) \in State
         /\ \A u : u \in Elements(Inserted(s, t).list) <=> u \in Elements(s.list) \/ u = t
         /\ Inserted(s, t).left = s.left /\ Inserted(s, t).rearmed = s.rearmed
         /\ \A u \in Timers :
              /\ Inserted(s, t).timer[u].activated = (u = t \/ s.timer[u].activated)
              /\ Inserted(s, t).timer[u].timeout_tick = s.timer[u].timeout_tick
         /\ InOrder(Inserted(s, t))
<1> DEFINE q == s.list
           i == Position(s, t)
           f == [s.timer EXCEPT ![t].activated = TRUE]
<1>0. PICK r : r = Inserted(s, t)
  OBVIOUS
<1>1. /\ q \in Seq(Timers) /\ s.timer \in [Timers -> Fields] /\ Len(q) \in Nat
      /\ NoRepeat(q) /\ OrderedBy(q, s.left)
      /\ \A u \in Timers : s.left[u] \in (-MaxLate - 1)..(HALF - MaxLate - 2) /\ s.left[u] \in Int
      /\ \A j \in 1..Len(q) : q[j] \in Timers /\ q[j] \in Elements(q)
  BY StateFields, ElementOfSeq, LenProperties DEF InOrder, Elements
<1>2. \A j \in 1..Len(q) : j \in Later(s, t) <=> s.left[t] < s.left[q[j]]
  <2>1. TAKE j \in 1..Len(q)
  <2> DEFINE a == s.left[t]
             b == s.left[q[j]]
  <2>2. a \in (-MaxLate - 1)..(HALF - MaxLate - 2) /\ b \in (-MaxLate - 1)..(HALF - MaxLate - 2)
        /\ a \in Int /\ b \in Int
    BY <1>1
  <2>3. s.timer[t].timeout_tick = (now + a) % TickMod
        /\ s.timer[q[j]].timeout_tick = (now + b) % TickMod
    BY <1>1 DEF Tells
  <2> HIDE DEF a, b
  <2>4. /\ Before((now + a) % TickMod, (now + b) % TickMod) <=> a <= b
        /\ (now + a) % TickMod = ((now + b) % TickMod) <=> a = b
    BY <2>2, BeforeMeansLess
  <2>5. j \in Later(s, t) <=> ((now + b) % TickMod # ((now + a) % TickMod)
                               /\ Before((now + a) % TickMod, (now + b) % TickMod))
    BY <2>3 DEF Later
  <2>6. j \in Later(s, t) <=> a < b
    BY <2>2, <2>4, <2>5
  <2> QED
    BY <2>6 DEF a, b
<1>3. /\ i \in Later(s, t) \cup {Len(q) + 1}
      /\ \A j \in Later(s, t) \cup {Len(q) + 1} : i <= j
      /\ Later(s, t) \subseteq 1..Len(q)
  <2>1. Later(s, t) \subseteq 1..Len(q)
    BY DEF Later
  <2>2. Later(s, t) \cup {Len(q) + 1} \in SUBSET Nat /\ Later(s, t) \cup {Len(q) + 1} # {}
    BY <1>1, <2>1
  <2>3. \E x \in Later(s, t) \cup {Len(q) + 1} : \A y \in Later(s, t) \cup {Len(q) + 1} : x <= y
    BY <2>2, LeastNatural
  <2> QED
    BY <2>1, <2>3 DEF Position
<1> HIDE DEF i
<1>4. /\ i \in 1..(Len(q) + 1)
      /\ \A j \in 1..(i - 1) : s.left[q[j]] <= s.left[t]
      /\ i <= Len(q) => s.left[t] <= s.left[q[i]]
  <2>1. i \in 1..(Len(q) + 1)
    BY <1>1, <1>3
  <2>2. ASSUME NEW j \in 1..(i - 1) PROVE s.left[q[j]] <= s.left[t]
    <3>1. j \in 1..Len(q) /\ ~(i <= j)
      BY <1>1, <2>1
    <3>2. j \notin Later(s, t)
      BY <1>3, <3>1
    <3> QED
      BY <1>1, <1>2, <3>1, <3>2
  <2>3. ASSUME i <= Len(q) PROVE s.left[t] <= s.left[q[i]]
    <3>1. i \in 1..Len(q) /\ i \in Later(s, t)
      BY <1>1, <1>3, <2>1, <2>3
    <3> QED
      BY <1>1, <1>2, <3>1
  <2> QED
    BY <2>1, <2>2, <2>3
<1>5. /\ r.list = InsertAt(q, i, t) /\ r.timer = f
      /\ r.left = s.left /\ r.rearmed = s.rearmed
      /\ r = AsRecord(r)
  BY <1>0 DEF Inserted, State, AsRecord, i
<1>6. /\ InsertAt(q, i, t) \in Seq(Timers) /\ NoRepeat(InsertAt(q, i, t))
      /\ Elements(InsertAt(q, i, t)) = Elements(q) \cup {t}
  BY <1>1, <1>4, InsertAtProperties
<1>7. OrderedBy(InsertAt(q, i, t), s.left)
  BY <1>1, <1>4, InsertOrdered
<1>8. f \in [Timers -> Fields]
  BY <1>1 DEF Fields
<1>9. \A u \in Timers : /\ f[u].activated = (u = t \/ s.timer[u].activated)
                        /\ f[u].timeout_tick = s.timer[u].timeout_tick
  BY <1>1 DEF Fields
<1> HIDE DEF f, q
<1>10. r \in State
  BY <1>5, <1>6, <1>8 DEF State, AsRecord
<1>11. InOrder(r)
  BY <1>5, <1>6, <1>7 DEF InOrder
<1> QED
  BY <1>0, <1>5, <1>6, <1>9, <1>10, <1>11 DEF q

-----------------------------------------------------------------------------
(* What the regions keep of a sound state, while their owner goes on to    *)
(* another step.                                                           *)
LEMMA RemovedSound ==
  ASSUME NEW s, NEW p, NEW now, Sound(s, now, p), NEW t \in Timers, NEW q,
         \A u \in Timers : u # t => q[u] = p[u], q[t] # "insert"
  PROVE  /\ Sound(Removed(s, t), now, q)
         /\ t \notin Elements(Removed(s, t).list)
         /\ Removed(s, t).timer = s.timer
         /\ \A u \in Timers : u # t /\ FlagTells(s, u) => FlagTells(Removed(s, t), u)
         /\ NotLate(s) => NotLate(Removed(s, t))
<1>0. PICK r : r = Removed(s, t)
  OBVIOUS
<1>1. /\ r \in State /\ r.list = Unlink(s.list, t) /\ r.timer = s.timer
      /\ \A u \in Timers : r.left[u] = IF u = t THEN 0 ELSE s.left[u]
      /\ \A u : u \in r.rearmed <=> u \in s.rearmed /\ u # t
      /\ \A u : u \in Elements(r.list) <=> u \in Elements(s.list) /\ u # t
      /\ NoRepeat(r.list)
  BY <1>0, RemovedFields DEF Sound, InOrder
<1>2. /\ s \in State /\ KeepsTime(s, now, p) /\ InOrder(s) /\ CallsHold(s, p)
      /\ Elements(s.list) \subseteq Timers /\ Elements(r.list) \subseteq Timers
      /\ s.list \in Seq(Timers) /\ \A u \in Timers : s.left[u] \in Int
  BY <1>1, StateFields DEF Sound
<1>3. KeepsTime(r, now, q)
  BY <1>1, <1>2 DEF KeepsTime, Tells
<1>4. InOrder(r)
  <2>1. OrderedBy(r.list, s.left)
    BY <1>1, <1>2, UnlinkOrdered DEF InOrder
  <2>2. \A i \in 1..Len(r.list) : r.left[r.list[i]] = s.left[r.list[i]]
    <3>1. \A i \in 1..Len(r.list) : r.list[i] \in Elements(r.list)
      BY DEF Elements
    <3> QED
      BY <1>1, <1>2, <3>1
  <2>3. OrderedBy(r.list, r.left)
    BY <2>1, <2>2 DEF OrderedBy
  <2> QED
    BY <1>1, <2>3 DEF InOrder
<1>5. CallsHold(r, q)
  <2>1. \A u \in Elements(r.list) : q[u] \in {"idle", "stop"}
    BY <1>1, <1>2 DEF CallsHold
  <2>2. \A u \in Timers : q[u] = "insert" => r.left[u] >= -MaxLate
    BY <1>1, <1>2 DEF CallsHold
  <2>3. r.rearmed \subseteq Elements(r.list)
    BY <1>1, <1>2 DEF CallsHold
  <2> QED
    BY <2>1, <2>2, <2>3 DEF CallsHold
<1>6. \A u \in Timers : u # t /\ FlagTells(s, u) => FlagTells(r, u)
  BY <1>1 DEF FlagTells
<1>7. NotLate(s) => NotLate(r)
  BY <1>1, <1>2 DEF NotLate
<1>8. Sound(r, now, q)
  BY <1>1, <1>3, <1>4, <1>5 DEF Sound
<1> QED
  BY <1>0, <1>1, <1>6, <1>7, <1>8

LEMMA DeactivatedSound ==
  ASSUME NEW s, NEW p, NEW now, Sound(s, now, p), NEW t \in Timers
  PROVE  /\ Sound(Deactivated(s, t), now, p)
         /\ Deactivated(s, t).list = s.list /\ Deactivated(s, t).rearmed = s.rearmed
         /\ \A u \in Timers : u # t /\ FlagTells(s, u) => FlagTells(Deactivated(s, t), u)
         /\ t \notin Elements(s.list) => FlagTells(Deactivated(s, t), t)
         /\ NotLate(s) => NotLate(Deactivated(s, t))
<1>0. PICK r : r = Deactivated(s, t)
  OBVIOUS
<1>1. /\ s \in State /\ KeepsTime(s, now, p) /\ InOrder(s) /\ CallsHold(s, p)
      /\ Elements(s.list) \subseteq Timers
  BY StateFields DEF Sound
<1>2. /\ r \in State /\ r.list = s.list /\ r.left = s.left /\ r.rearmed = s.rearmed
      /\ \A u \in Timers : /\ r.timer[u].activated = (u # t /\ s.timer[u].activated)
                           /\ r.timer[u].timeout_tick = s.timer[u].timeout_tick
  BY <1>0, <1>1, DeactivatedFields
<1>3. KeepsTime(r, now, p)
  BY <1>1, <1>2 DEF KeepsTime, Tells
<1>4. InOrder(r) /\ CallsHold(r, p) /\ (NotLate(s) => NotLate(r))
  BY <1>1, <1>2 DEF InOrder, CallsHold, NotLate
<1>5. \A u \in Timers : u # t /\ FlagTells(s, u) => FlagTells(r, u)
  BY <1>2 DEF FlagTells
<1>6. t \notin Elements(s.list) => FlagTells(r, t)
  BY <1>2 DEF FlagTells
<1>7. Sound(r, now, p)
  BY <1>2, <1>3, <1>4 DEF Sound
<1> QED
  BY <1>0, <1>2, <1>4, <1>5, <1>6, <1>7

LEMMA TimedSound ==
  ASSUME NEW s, NEW p, Sound(s, tick, p), NEW t \in Timers, t \notin Elements(s.list), NEW q,
         \A u \in Timers : u # t => q[u] = p[u], tick \in 0..(TickMod - 1)
  PROVE  /\ Sound(Timed(s, t), tick, q)
         /\ Timed(s, t).list = s.list /\ Tells(Timed(s, t), tick, t)
         /\ Timed(s, t).left[t] >= -MaxLate
         /\ \A u \in Timers : FlagTells(s, u) => FlagTells(Timed(s, t), u)
         /\ NotLate(s) => NotLate(Timed(s, t))
<1>0. PICK r : r = Timed(s, t)
  OBVIOUS
<1>1. /\ s \in State /\ KeepsTime(s, tick, p) /\ InOrder(s) /\ CallsHold(s, p)
      /\ Elements(s.list) \subseteq Timers
  BY StateFields DEF Sound
<1>2. /\ r \in State /\ r.list = s.list /\ r.rearmed = s.rearmed
      /\ r.left[t] >= -MaxLate
      /\ \A u \in Timers : u # t => r.timer[u] = s.timer[u] /\ r.left[u] = s.left[u]
      /\ r.timer[t].activated = s.timer[t].activated
      /\ Tells(r, tick, t)
  BY <1>0, <1>1, TimedFields
<1>3. KeepsTime(r, tick, q)
  BY <1>1, <1>2 DEF KeepsTime, Tells
<1>4. InOrder(r)
  <2>1. \A i \in 1..Len(s.list) : r.left[s.list[i]] = s.left[s.list[i]]
    <3>1. \A i \in 1..Len(s.list) : s.list[i] \in Elements(s.list)
      BY DEF Elements
    <3> QED
      BY <1>1, <1>2, <3>1
  <2> QED
    BY <1>1, <1>2, <2>1 DEF InOrder, OrderedBy
<1>5. CallsHold(r, q)
  BY <1>1, <1>2 DEF CallsHold
<1>6. NotLate(s) => NotLate(r)
  BY <1>1, <1>2 DEF NotLate
<1>7. \A u \in Timers : FlagTells(s, u) => FlagTells(r, u)
  BY <1>2 DEF FlagTells
<1>8. Sound(r, tick, q)
  BY <1>2, <1>3, <1>4, <1>5 DEF Sound
<1> QED
  BY <1>0, <1>2, <1>6, <1>7, <1>8

LEMMA InsertedSound ==
  ASSUME NEW s, NEW p, Sound(s, tick, p), NEW t \in Timers, t \notin Elements(s.list), NEW q,
         \A u \in Timers : u # t => q[u] = p[u], q[t] \in {"idle", "stop"},
         tick \in 0..(TickMod - 1), Tells(s, tick, t), s.left[t] >= -MaxLate
  PROVE  /\ Sound(Inserted(s, t), tick, q)
         /\ t \in Elements(Inserted(s, t).list)
         /\ \A u \in Timers : u # t /\ FlagTells(s, u) => FlagTells(Inserted(s, t), u)
         /\ FlagTells(Inserted(s, t), t)
         /\ NotLate(s) => NotLate(Inserted(s, t))
<1>0. PICK r : r = Inserted(s, t)
  OBVIOUS
<1>1. /\ s \in State /\ KeepsTime(s, tick, p) /\ InOrder(s) /\ CallsHold(s, p)
      /\ Elements(s.list) \subseteq Timers
  BY StateFields DEF Sound
<1>2. \A u \in Elements(s.list) : Tells(s, tick, u)
  BY <1>1 DEF KeepsTime
<1>3. /\ r \in State /\ r.left = s.left /\ r.rearmed = s.rearmed
      /\ \A u : u \in Elements(r.list) <=> u \in Elements(s.list) \/ u = t
      /\ \A u \in Timers : /\ r.timer[u].activated = (u = t \/ s.timer[u].activated)
                           /\ r.timer[u].timeout_tick = s.timer[u].timeout_tick
      /\ InOrder(r)
  BY <1>0, <1>1, <1>2, InsertedFields
<1>4. KeepsTime(r, tick, q)
  BY <1>1, <1>3 DEF KeepsTime, Tells
<1>5. CallsHold(r, q)
  BY <1>1, <1>3 DEF CallsHold
<1>6. NotLate(s) => NotLate(r)
  BY <1>1, <1>3 DEF NotLate
<1>7. \A u \in Timers : u # t /\ FlagTells(s, u) => FlagTells(r, u)
  BY <1>3 DEF FlagTells
<1>8. FlagTells(r, t)
  BY <1>1, <1>3 DEF FlagTells, CallsHold
<1>9. Sound(r, tick, q)
  BY <1>3, <1>4, <1>5 DEF Sound
<1> QED
  BY <1>0, <1>3, <1>6, <1>7, <1>8, <1>9

(* rt_timer_start and rt_timer_stop as wholes leave the flag of the timer  *)
(* true.                                                                   *)
LEMMA StartedSound ==
  ASSUME NEW s, NEW p, Sound(s, tick, p), NEW t \in Timers, p[t] \in {"idle", "stop"},
         tick \in 0..(TickMod - 1)
  PROVE  /\ Sound(Started(s, t), tick, p)
         /\ t \in Elements(Started(s, t).list)
         /\ \A u \in Timers : u # t /\ FlagTells(s, u) => FlagTells(Started(s, t), u)
         /\ FlagTells(Started(s, t), t)
         /\ NotLate(s) => NotLate(Started(s, t))
<1>1. PICK a, b, c : a = Removed(s, t) /\ b = Deactivated(a, t) /\ c = Timed(b, t)
  OBVIOUS
<1>2. /\ Sound(a, tick, p) /\ t \notin Elements(a.list) /\ (NotLate(s) => NotLate(a))
      /\ \A u \in Timers : u # t /\ FlagTells(s, u) => FlagTells(a, u)
  BY <1>1, RemovedSound
<1>3. /\ Sound(b, tick, p) /\ t \notin Elements(b.list) /\ (NotLate(a) => NotLate(b))
      /\ \A u \in Timers : u # t /\ FlagTells(a, u) => FlagTells(b, u)
  BY <1>1, <1>2, DeactivatedSound
<1>4. /\ Sound(c, tick, p) /\ t \notin Elements(c.list) /\ (NotLate(b) => NotLate(c))
      /\ Tells(c, tick, t) /\ c.left[t] >= -MaxLate
      /\ \A u \in Timers : FlagTells(b, u) => FlagTells(c, u)
  BY <1>1, <1>3, TimedSound
<1>5. Started(s, t) = Inserted(c, t)
  BY <1>1 DEF Started
<1>6. /\ Sound(Inserted(c, t), tick, p)
      /\ t \in Elements(Inserted(c, t).list)
      /\ \A u \in Timers : u # t /\ FlagTells(c, u) => FlagTells(Inserted(c, t), u)
      /\ FlagTells(Inserted(c, t), t)
      /\ NotLate(c) => NotLate(Inserted(c, t))
  BY <1>4, InsertedSound
<1> QED
  BY <1>2, <1>3, <1>4, <1>5, <1>6

LEMMA StoppedSound ==
  ASSUME NEW s, NEW p, NEW now, Sound(s, now, p), NEW t \in Timers, p[t] # "insert"
  PROVE  /\ Sound(Stopped(s, t), now, p)
         /\ \A u \in Timers : FlagTells(s, u) => FlagTells(Stopped(s, t), u)
         /\ NotLate(s) => NotLate(Stopped(s, t))
<1>1. CASE s.timer[t].activated
  <2>1. PICK a : a = Removed(s, t)
    OBVIOUS
  <2>2. /\ Sound(a, now, p) /\ t \notin Elements(a.list) /\ (NotLate(s) => NotLate(a))
        /\ \A u \in Timers : u # t /\ FlagTells(s, u) => FlagTells(a, u)
    BY <2>1, RemovedSound
  <2>3. Stopped(s, t) = Deactivated(a, t)
    BY <1>1, <2>1 DEF Stopped
  <2>4. /\ Sound(Deactivated(a, t), now, p)
        /\ \A u \in Timers : u # t /\ FlagTells(a, u) => FlagTells(Deactivated(a, t), u)
        /\ FlagTells(Deactivated(a, t), t)
        /\ NotLate(a) => NotLate(Deactivated(a, t))
    BY <2>2, DeactivatedSound
  <2> QED
    BY <2>2, <2>3, <2>4
<1>2. CASE ~s.timer[t].activated
  BY <1>2 DEF Stopped
<1> QED
  BY <1>1, <1>2

(* The whole of a timer that fires: its callback leaves everything sound   *)
(* but perhaps its own flag, and rt_timer_check sets that.                 *)
LEMMA CallbackSound ==
  ASSUME NEW s, Sound(s, tick, pc), NEW t \in Timers, pc[t] \in {"idle", "stop"},
         tick \in 0..(TickMod - 1), NEW r \in Callbacks(s, t),
         \A u \in Free \ {t} : FlagTells(s, u)
  PROVE  Sound(r, tick, pc) /\ \A u \in Free \ {t} : FlagTells(r, u)
<1>1. \A u \in Free \cup {t} : u \in Timers /\ pc[u] \in {"idle", "stop"}
  BY DEF Free
<1>2. CASE r = s
  BY <1>2
<1>3. ASSUME NEW u \in Free \cup {t}, r = Started(s, u)
      PROVE  Sound(r, tick, pc) /\ \A v \in Free \ {t} : FlagTells(r, v)
  <2>1. u \in Timers /\ pc[u] \in {"idle", "stop"}
    BY <1>1
  <2>2. /\ Sound(r, tick, pc) /\ FlagTells(r, u)
        /\ \A v \in Timers : v # u /\ FlagTells(s, v) => FlagTells(r, v)
    BY <1>3, <2>1, StartedSound
  <2> QED
    BY <1>1, <2>2
<1>4. ASSUME NEW u \in Free \cup {t}, r = Stopped(s, u)
      PROVE  Sound(r, tick, pc) /\ \A v \in Free \ {t} : FlagTells(r, v)
  <2>1. u \in Timers /\ pc[u] # "insert"
    BY <1>1
  <2>2. /\ Sound(r, tick, pc)
        /\ \A v \in Timers : FlagTells(s, v) => FlagTells(r, v)
    BY <1>4, <2>1, StoppedSound
  <2> QED
    BY <1>1, <2>2
<1> QED
  BY <1>2, <1>3, <1>4 DEF Callbacks

LEMMA RearmedSound ==
  ASSUME NEW s, Sound(s, tick, pc), NEW t \in Timers, pc[t] \in {"idle", "stop"},
         tick \in 0..(TickMod - 1)
  PROVE  /\ Sound(Rearmed(s, t), tick, pc) /\ FlagTells(Rearmed(s, t), t)
         /\ \A u \in Timers : u # t /\ FlagTells(s, u) => FlagTells(Rearmed(s, t), u)
<1>1. CASE s.timer[t].periodic /\ s.timer[t].activated
  <2>1. Rearmed(s, t) = Started(s, t)
    BY <1>1 DEF Rearmed
  <2> QED
    BY <2>1, StartedSound
<1>2. CASE ~(s.timer[t].periodic /\ s.timer[t].activated)
  <2>1. PICK a, r : a = Deactivated(s, t) /\ r = Rearmed(s, t)
    OBVIOUS
  <2>2. /\ Sound(a, tick, pc) /\ a.list = s.list /\ a.rearmed = s.rearmed
        /\ \A u \in Timers : u # t /\ FlagTells(s, u) => FlagTells(a, u)
    BY <2>1, DeactivatedSound
  <2>3. a.timer[t].activated = FALSE
    BY <2>1, DeactivatedFields DEF Sound
  <2>4. /\ a \in State /\ KeepsTime(a, tick, pc) /\ InOrder(a) /\ CallsHold(a, pc)
        /\ a.rearmed \subseteq Timers
    BY <2>2, StateFields DEF Sound
  <2>5. r = [a EXCEPT !.rearmed = IF t \in Elements(s.list) THEN @ \cup {t} ELSE @]
    BY <1>2, <2>1 DEF Rearmed
  <2>6. /\ r.list = a.list /\ r.timer = a.timer /\ r.left = a.left /\ r = AsRecord(r)
        /\ r.rearmed = IF t \in Elements(s.list) THEN a.rearmed \cup {t} ELSE a.rearmed
    BY <2>4, <2>5 DEF State, AsRecord
  <2>7. r \in State
    <3>1. r.rearmed \in SUBSET Timers
      BY <2>4, <2>6
    <3> QED
      BY <2>4, <2>6, <3>1 DEF State, AsRecord
  <2>8. KeepsTime(r, tick, pc) /\ InOrder(r)
    BY <2>4, <2>6 DEF KeepsTime, InOrder, Tells
  <2>9. CallsHold(r, pc)
    <3>1. r.rearmed \subseteq Elements(r.list)
      BY <2>2, <2>4, <2>6 DEF CallsHold
    <3> QED
      BY <2>4, <2>6, <3>1 DEF CallsHold
  <2>10. FlagTells(r, t)
    BY <2>2, <2>3, <2>6 DEF FlagTells
  <2>11. \A u \in Timers : u # t /\ FlagTells(a, u) => FlagTells(r, u)
    BY <2>6 DEF FlagTells
  <2>12. Sound(r, tick, pc)
    BY <2>7, <2>8, <2>9 DEF Sound
  <2> QED
    BY <2>1, <2>2, <2>10, <2>11, <2>12
<1> QED
  BY <1>1, <1>2

-----------------------------------------------------------------------------
LEMMA BecomesNow ==
  ASSUME NEW s \in State, Becomes(s)
  PROVE  Now' = s
BY DEF Becomes, Now, State

LEMMA NowFields ==
  /\ Now.list = timer_list /\ Now.timer = timer /\ Now.left = left /\ Now.rearmed = rearmed
BY DEF Now

LEMMA InitInv == Init => Inv
<1>1. SUFFICES ASSUME Init PROVE Inv
  OBVIOUS
<1>2. /\ tick = 0 /\ checking = FALSE /\ timer_list = << >> /\ rearmed = {}
      /\ timer \in [Timers -> {New(i, p) : i \in Ticks, p \in BOOLEAN}]
      /\ pc = [t \in Timers |-> "idle"] /\ left = [t \in Timers |-> 0]
      /\ TickMod \in Nat \ {0} /\ MaxLate \in Nat
  BY <1>1, TimerAssumption DEF Init
<1>3. /\ \A i \in Ticks, p \in BOOLEAN : New(i, p) \in Fields
      /\ timer \in [Timers -> Fields] /\ \A t \in Timers : timer[t].activated = FALSE
  <2>1. 0 \in 0..(TickMod - 1)
    BY <1>2
  <2>2. \A i \in Ticks, p \in BOOLEAN : New(i, p) \in Fields /\ New(i, p).activated = FALSE
    BY <2>1 DEF New, Fields
  <2> HIDE DEF New
  <2>3. \A t \in Timers : \E i \in Ticks, p \in BOOLEAN : timer[t] = New(i, p)
    BY <1>2
  <2> QED
    BY <1>2, <2>2, <2>3
<1>4. left \in [Timers -> (-MaxLate - 1)..(HALF - MaxLate - 2)]
  <2>1. \A t \in Timers : 0 \in (-MaxLate - 1)..(HALF - MaxLate - 2)
    <3>1. TAKE t \in Timers
    <3>2. timer[t].init_tick \in Ticks
      BY <1>3 DEF Fields
    <3> QED
      BY <3>2, TimesInRange
  <2> QED
    BY <1>2, <2>1
<1>5. timer_list \in Seq(Timers) /\ Elements(timer_list) = {} /\ Len(timer_list) = 0
  BY <1>2 DEF Elements
<1>6. Now \in State
  BY <1>2, <1>3, <1>4, <1>5 DEF Now, State
<1>7. KeepsTime(Now, tick, pc) /\ CallsHold(Now, pc) /\ NotLate(Now)
  BY <1>2, <1>5, NowFields DEF KeepsTime, CallsHold, NotLate
<1>8. InOrder(Now)
  BY <1>5, NowFields DEF InOrder, NoRepeat, OrderedBy
<1>9. \A t \in Free : FlagTells(Now, t)
  BY <1>2, <1>3, <1>5, NowFields DEF FlagTells, Free
<1>10. tick \in 0..(TickMod - 1) /\ checking \in BOOLEAN /\ pc \in [Timers -> Steps]
  <2>1. tick \in 0..(TickMod - 1)
    BY <1>2
  <2>2. pc \in [Timers -> Steps]
    BY <1>2 DEF Steps
  <2> QED
    BY <1>2, <2>1, <2>2, Zenon
<1> QED
  BY <1>6, <1>7, <1>8, <1>9, <1>10 DEF Inv, Sound

LEMMA InvFacts ==
  ASSUME Inv
  PROVE  /\ tick \in 0..(TickMod - 1) /\ checking \in BOOLEAN /\ pc \in [Timers -> Steps]
         /\ Sound(Now, tick, pc) /\ \A t \in Free : FlagTells(Now, t)
         /\ ~checking => NotLate(Now)
         /\ Now \in State /\ KeepsTime(Now, tick, pc) /\ InOrder(Now) /\ CallsHold(Now, pc)
BY DEF Inv, Sound

(* The tick: every timer that waits has one tick less to wait.             *)
LEMMA TickStep ==
  ASSUME Inv, TickIncreases
  PROVE  Inv'
<1>1. /\ tick \in 0..(TickMod - 1) /\ pc \in [Timers -> Steps] /\ ~checking
      /\ Now \in State /\ KeepsTime(Now, tick, pc) /\ InOrder(Now) /\ CallsHold(Now, pc)
      /\ \A t \in Free : FlagTells(Now, t)
      /\ NotLate(Now)
  BY InvFacts DEF TickIncreases
<1>2. /\ timer_list \in Seq(Timers) /\ timer \in [Timers -> Fields] /\ rearmed \subseteq Timers
      /\ left \in [Timers -> (-MaxLate - 1)..(HALF - MaxLate - 2)]
      /\ \A t \in Timers : left[t] \in (-MaxLate - 1)..(HALF - MaxLate - 2) /\ left[t] \in Int
      /\ Elements(timer_list) \subseteq Timers
  BY <1>1, StateFields, NowFields
<1> DEFINE Waits(t) == Linked(t) \/ pc[t] = "insert"
<1>3. /\ tick' = (tick + 1) % TickMod /\ checking' = TRUE
      /\ timer_list' = timer_list /\ timer' = timer /\ pc' = pc /\ rearmed' = rearmed
      /\ left' = [t \in Timers |-> IF Waits(t) THEN left[t] - 1 ELSE left[t]]
      /\ \A t \in Timers : pc[t] = "insert" => left[t] > -MaxLate
  BY DEF TickIncreases
<1>4. Now' = [list |-> timer_list, timer |-> timer, left |-> left', rearmed |-> rearmed]
  BY <1>3 DEF Now
<1>5. \A t \in Timers : Linked(t) => left[t] >= -MaxLate
  BY <1>1, NowFields DEF NotLate, Linked
<1>6. \A t \in Timers : /\ left'[t] = IF Waits(t) THEN left[t] - 1 ELSE left[t]
                        /\ Waits(t) => left[t] >= -MaxLate
                        /\ left'[t] \in (-MaxLate - 1)..(HALF - MaxLate - 2)
  <2>1. TAKE t \in Timers
  <2>2. left'[t] = IF Waits(t) THEN left[t] - 1 ELSE left[t]
    BY <1>3
  <2>3. Waits(t) => left[t] >= -MaxLate
    BY <1>2, <1>3, <1>5, HalfRange
  <2>4. left[t] \in (-MaxLate - 1)..(HALF - MaxLate - 2) /\ left[t] \in Int
    BY <1>2
  <2>5. left'[t] \in (-MaxLate - 1)..(HALF - MaxLate - 2)
    BY <2>2, <2>3, <2>4, HalfRange
  <2> QED
    BY <2>2, <2>3, <2>5
<1>7. left' \in [Timers -> (-MaxLate - 1)..(HALF - MaxLate - 2)]
  BY <1>3, <1>6
<1>8. Now' \in State
  BY <1>2, <1>4, <1>7 DEF State
<1>9. tick' \in 0..(TickMod - 1) /\ tick + 1 \in Int
  <2>1. tick + 1 \in Int /\ TickMod \in Nat \ {0}
    BY <1>1, HalfRange
  <2> QED
    BY <1>3, <2>1, DivMod
<1>10. KeepsTime(Now', tick', pc')
  <2>1. SUFFICES ASSUME NEW t \in Timers, Waits(t)
                 PROVE  timer[t].timeout_tick = (tick' + left'[t]) % TickMod
    BY <1>3, <1>4 DEF KeepsTime, Tells, Linked
  <2>2. timer[t].timeout_tick = (tick + left[t]) % TickMod
    BY <1>1, <2>1, NowFields DEF KeepsTime, Tells, Linked
  <2>3. left[t] \in Int /\ left'[t] = left[t] - 1 /\ left'[t] \in Int
    BY <1>2, <1>6, <2>1
  <2>4. TickMod \in Nat \ {0}
    BY HalfRange
  <2>5. (((tick + 1) % TickMod) + left'[t]) % TickMod = (((tick + 1) + left'[t]) % TickMod)
    BY <1>9, <2>3, <2>4, ModSum
  <2>6. (tick + 1) + left'[t] = tick + left[t]
    BY <1>1, <2>3
  <2> QED
    BY <1>3, <2>2, <2>5, <2>6
<1>11. InOrder(Now')
  <2>1. \A i \in 1..Len(timer_list) :
          /\ timer_list[i] \in Timers /\ Linked(timer_list[i])
          /\ left[timer_list[i]] \in Int
          /\ left'[timer_list[i]] = left[timer_list[i]] - 1
    <3>1. \A i \in 1..Len(timer_list) : timer_list[i] \in Elements(timer_list)
      BY DEF Elements
    <3> QED
      BY <1>2, <1>6, <3>1 DEF Linked
  <2>2. OrderedBy(timer_list, left) /\ NoRepeat(timer_list)
    BY <1>1, NowFields DEF InOrder
  <2>3. OrderedBy(timer_list, left')
    BY <2>1, <2>2 DEF OrderedBy
  <2> QED
    BY <1>4, <2>2, <2>3 DEF InOrder
<1>12. CallsHold(Now', pc')
  <2>1. \A t \in Timers : pc[t] = "insert" => left'[t] >= -MaxLate
    BY <1>2, <1>3, <1>6, HalfRange
  <2> QED
    BY <1>1, <1>3, <1>4, <2>1, NowFields DEF CallsHold
<1>13. \A t \in Free' : FlagTells(Now', t)
  BY <1>1, <1>3, <1>4, NowFields DEF Free, FlagTells
<1> QED
  BY <1>1, <1>3, <1>8, <1>9, <1>10, <1>11, <1>12, <1>13 DEF Inv, Sound

(* rt_timer_check takes the head, which is due.                            *)
LEMMA DueMeansNothingLeft ==
  ASSUME Inv, NEW t \in Elements(timer_list)
  PROVE  IsDue(t) <=> left[t] <= 0
<1>1. /\ tick \in 0..(TickMod - 1) /\ Now \in State /\ KeepsTime(Now, tick, pc)
  BY InvFacts
<1>2. t \in Timers /\ left[t] \in (-MaxLate - 1)..(HALF - MaxLate - 2) /\ timer[t] \in Fields
  BY <1>1, StateFields, NowFields
<1>3. timer[t].timeout_tick = (tick + left[t]) % TickMod
  BY <1>1, <1>2, NowFields DEF KeepsTime, Tells
<1>4. 0 \in (-MaxLate - 1)..(HALF - MaxLate - 2)
  <2>1. timer[t].init_tick \in Ticks
    BY <1>2 DEF Fields
  <2> QED
    BY <2>1, TimesInRange
<1>5. tick = (tick + 0) % TickMod
  <2>1. TickMod \in Nat \ {0} /\ tick \in Int /\ tick + 0 = TickMod * 0 + tick
    BY <1>1, HalfRange
  <2>2. 0 \in Int /\ tick + 0 \in Int
    BY <2>1
  <2> QED
    BY <1>1, <2>1, <2>2, ModUnique
<1>6. Before((tick + left[t]) % TickMod, (tick + 0) % TickMod) <=> left[t] <= 0
  BY <1>1, <1>2, <1>4, BeforeMeansLess
<1> QED
  BY <1>3, <1>5, <1>6 DEF IsDue

LEMMA HeadLinked ==
  ASSUME Inv, timer_list # << >>
  PROVE  /\ Head(timer_list) \in Elements(timer_list) /\ Head(timer_list) \in Timers
         /\ \A u \in Elements(timer_list) : left[Head(timer_list)] <= left[u]
<1>1. /\ timer_list \in Seq(Timers) /\ NoRepeat(timer_list) /\ OrderedBy(timer_list, left)
      /\ \A u \in Timers : left[u] \in Int
  BY InvFacts, StateFields, NowFields DEF InOrder
<1>2. /\ Head(timer_list) \in Elements(timer_list) /\ Head(timer_list) \in Timers
      /\ Elements(Tail(timer_list)) = Elements(timer_list) \ {Head(timer_list)}
  BY <1>1, TailProperties
<1>3. \A u \in Elements(Tail(timer_list)) : left[Head(timer_list)] <= left[u]
  BY <1>1, TailOrdered
<1>4. left[Head(timer_list)] <= left[Head(timer_list)]
  BY <1>1, <1>2
<1> QED
  BY <1>2, <1>3, <1>4

LEMMA FiresStep ==
  ASSUME Inv, CheckFires
  PROVE  Inv'
<1>1. PICK t : t = Head(timer_list)
  OBVIOUS
<1>2. /\ checking /\ timer_list # << >> /\ tick' = tick /\ checking' = checking /\ pc' = pc
      /\ \E s \in Callbacks(Removed(Now, t), t) : Becomes(Rearmed(s, t))
  BY <1>1 DEF CheckFires
<1>3. /\ tick \in 0..(TickMod - 1) /\ pc \in [Timers -> Steps] /\ Sound(Now, tick, pc)
      /\ \A u \in Free : FlagTells(Now, u) /\ u \in Timers
  BY InvFacts DEF Free
<1>4. t \in Timers /\ pc[t] \in {"idle", "stop"}
  <2>1. t \in Timers /\ t \in Elements(Now.list)
    BY <1>1, <1>2, HeadLinked, NowFields
  <2> QED
    BY <1>3, <2>1 DEF Sound, CallsHold
<1>5. PICK r : r = Removed(Now, t)
  OBVIOUS
<1>6. Sound(r, tick, pc) /\ \A u \in Free \ {t} : FlagTells(r, u)
  <2>1. pc[t] # "insert"
    BY <1>4
  <2>2. /\ Sound(r, tick, pc)
        /\ \A u \in Timers : u # t /\ FlagTells(Now, u) => FlagTells(r, u)
    BY <1>3, <1>4, <1>5, <2>1, RemovedSound
  <2> QED
    BY <1>3, <2>2
<1>7. PICK s \in Callbacks(r, t) : Becomes(Rearmed(s, t))
  BY <1>2, <1>5
<1>8. Sound(s, tick, pc) /\ \A u \in Free \ {t} : FlagTells(s, u)
  BY <1>3, <1>4, <1>6, CallbackSound
<1>9. /\ Sound(Rearmed(s, t), tick, pc) /\ FlagTells(Rearmed(s, t), t)
      /\ \A u \in Timers : u # t /\ FlagTells(s, u) => FlagTells(Rearmed(s, t), u)
  BY <1>3, <1>4, <1>8, RearmedSound
<1>10. Now' = Rearmed(s, t)
  BY <1>7, <1>9, BecomesNow DEF Sound
<1>11. \A u \in Free : FlagTells(Now', u)
  BY <1>3, <1>8, <1>9, <1>10
<1> QED
  BY <1>2, <1>3, <1>9, <1>10, <1>11 DEF Inv, Free

(* What the steps of one owner have in common. *)
LEMMA OwnerStep ==
  ASSUME Inv, NEW t \in Timers, NEW p, NEW q \in Steps, NEW s, OwnerSteps(t, p, q, s),
         Sound(s, tick, [pc EXCEPT ![t] = q]),
         q = "idle" => FlagTells(s, t),
         \A u \in Timers : u # t /\ FlagTells(Now, u) => FlagTells(s, u),
         NotLate(Now) => NotLate(s)
  PROVE  Inv'
<1>1. /\ tick' = tick /\ checking' = checking /\ pc' = [pc EXCEPT ![t] = q]
      /\ ~checking /\ Becomes(s)
  BY DEF OwnerSteps
<1>2. /\ tick \in 0..(TickMod - 1) /\ checking \in BOOLEAN /\ pc \in [Timers -> Steps]
      /\ \A u \in Free : FlagTells(Now, u)
      /\ NotLate(Now)
  BY <1>1, InvFacts
<1>3. Now' = s
  BY <1>1, BecomesNow DEF Sound
<1>4. \A u \in Free' : FlagTells(Now', u)
  <2>1. \A u \in Timers : pc'[u] = IF u = t THEN q ELSE pc[u]
    BY <1>1, <1>2
  <2> QED
    BY <1>2, <1>3, <2>1 DEF Free
<1>5. pc' \in [Timers -> Steps]
  BY <1>1, <1>2
<1> QED
  BY <1>1, <1>2, <1>3, <1>4, <1>5 DEF Inv

(* The regions of rt_timer_start and rt_timer_stop, one by one.            *)
LEMMA PcExcept ==
  ASSUME NEW t \in Timers, NEW q, pc \in [Timers -> Steps]
  PROVE  /\ [pc EXCEPT ![t] = q][t] = q
         /\ \A u \in Timers : u # t => [pc EXCEPT ![t] = q][u] = pc[u]
OBVIOUS

LEMMA StartRemovesStep ==
  ASSUME Inv, NEW t \in Timers, StartRemoves(t)
  PROVE  Inv'
<1>1. PICK a, s, p : a = Removed(Now, t) /\ s = Deactivated(a, t) /\ p = [pc EXCEPT ![t] = "start"]
  OBVIOUS
<1>2. Sound(Now, tick, pc) /\ pc \in [Timers -> Steps]
  BY InvFacts
<1>3. p[t] # "insert" /\ \A u \in Timers : u # t => p[u] = pc[u]
  BY <1>1, <1>2, PcExcept
<1>4. /\ Sound(a, tick, p) /\ (NotLate(Now) => NotLate(a))
      /\ \A u \in Timers : u # t /\ FlagTells(Now, u) => FlagTells(a, u)
  <2>1. /\ Sound(Removed(Now, t), tick, p)
        /\ \A u \in Timers : u # t /\ FlagTells(Now, u) => FlagTells(Removed(Now, t), u)
        /\ NotLate(Now) => NotLate(Removed(Now, t))
    BY <1>2, <1>3, RemovedSound
  <2> QED
    BY <1>1, <2>1
<1>5. /\ Sound(s, tick, p) /\ (NotLate(a) => NotLate(s))
      /\ \A u \in Timers : u # t /\ FlagTells(a, u) => FlagTells(s, u)
  BY <1>1, <1>4, DeactivatedSound
<1>6. OwnerSteps(t, "idle", "start", s)
  BY <1>1 DEF StartRemoves
<1>7. "start" \in Steps
  BY DEF Steps
<1> QED
  BY <1>1, <1>4, <1>5, <1>6, <1>7, OwnerStep

LEMMA StartReadsTickStep ==
  ASSUME Inv, NEW t \in Timers, StartReadsTick(t)
  PROVE  Inv'
<1>1. PICK s, p : s = Timed(Now, t) /\ p = [pc EXCEPT ![t] = "insert"]
  OBVIOUS
<1>2. Sound(Now, tick, pc) /\ pc \in [Timers -> Steps] /\ tick \in 0..(TickMod - 1)
  BY InvFacts
<1>3. p[t] = "insert" /\ \A u \in Timers : u # t => p[u] = pc[u]
  BY <1>1, <1>2, PcExcept
<1>4. pc[t] = "start" /\ OwnerSteps(t, "start", "insert", s)
  BY <1>1 DEF StartReadsTick, OwnerSteps
<1>5. t \notin Elements(Now.list)
  BY <1>2, <1>4 DEF Sound, CallsHold
<1>6. /\ Sound(s, tick, p) /\ (NotLate(Now) => NotLate(s))
      /\ \A u \in Timers : FlagTells(Now, u) => FlagTells(s, u)
  BY <1>1, <1>2, <1>3, <1>5, TimedSound
<1>7. "insert" \in Steps
  BY DEF Steps
<1> QED
  BY <1>1, <1>4, <1>6, <1>7, OwnerStep

LEMMA StartInsertsStep ==
  ASSUME Inv, NEW t \in Timers, StartInserts(t)
  PROVE  Inv'
<1>1. PICK s, p : s = Inserted(Now, t) /\ p = [pc EXCEPT ![t] = "idle"]
  OBVIOUS
<1>2. Sound(Now, tick, pc) /\ pc \in [Timers -> Steps] /\ tick \in 0..(TickMod - 1)
  BY InvFacts
<1>3. p[t] \in {"idle", "stop"} /\ \A u \in Timers : u # t => p[u] = pc[u]
  BY <1>1, <1>2, PcExcept
<1>4. pc[t] = "insert" /\ OwnerSteps(t, "insert", "idle", s)
  BY <1>1 DEF StartInserts, OwnerSteps
<1>5. t \notin Elements(Now.list) /\ Tells(Now, tick, t) /\ Now.left[t] >= -MaxLate
  BY <1>2, <1>4 DEF Sound, CallsHold, KeepsTime
<1>6. /\ Sound(s, tick, p) /\ (NotLate(Now) => NotLate(s)) /\ FlagTells(s, t)
      /\ \A u \in Timers : u # t /\ FlagTells(Now, u) => FlagTells(s, u)
  <2>1. /\ Sound(Inserted(Now, t), tick, p) /\ FlagTells(Inserted(Now, t), t)
        /\ \A u \in Timers : u # t /\ FlagTells(Now, u) => FlagTells(Inserted(Now, t), u)
        /\ NotLate(Now) => NotLate(Inserted(Now, t))
    BY <1>2, <1>3, <1>5, InsertedSound
  <2> QED
    BY <1>1, <2>1
<1>7. "idle" \in Steps
  BY DEF Steps
<1> QED
  BY <1>1, <1>4, <1>6, <1>7, OwnerStep

LEMMA StopSeesStep ==
  ASSUME Inv, NEW t \in Timers, StopSees(t)
  PROVE  Inv'
<1>1. PICK p : p = [pc EXCEPT ![t] = "stop"]
  OBVIOUS
<1>2. /\ Sound(Now, tick, pc) /\ pc \in [Timers -> Steps]
      /\ Now \in State /\ KeepsTime(Now, tick, pc) /\ InOrder(Now) /\ CallsHold(Now, pc)
  BY InvFacts
<1>3. p[t] = "stop" /\ \A u \in Timers : u # t => p[u] = pc[u]
  BY <1>1, <1>2, PcExcept
<1>4. pc[t] = "idle" /\ OwnerSteps(t, "idle", "stop", Now)
  BY DEF StopSees, OwnerSteps
<1>5. KeepsTime(Now, tick, p)
  BY <1>2, <1>3 DEF KeepsTime
<1>6. CallsHold(Now, p)
  <2>1. Elements(Now.list) \subseteq Timers
    BY <1>2, StateFields
  <2> QED
    BY <1>2, <1>3, <2>1 DEF CallsHold
<1>7. Sound(Now, tick, p)
  BY <1>2, <1>5, <1>6 DEF Sound
<1>8. "stop" \in Steps
  BY DEF Steps
<1> QED
  BY <1>1, <1>4, <1>7, <1>8, OwnerStep

LEMMA StopRemovesStep ==
  ASSUME Inv, NEW t \in Timers, StopRemoves(t)
  PROVE  Inv'
<1>1. PICK s, p : s = Removed(Now, t) /\ p = [pc EXCEPT ![t] = "clear"]
  OBVIOUS
<1>2. Sound(Now, tick, pc) /\ pc \in [Timers -> Steps]
  BY InvFacts
<1>3. p[t] # "insert" /\ \A u \in Timers : u # t => p[u] = pc[u]
  BY <1>1, <1>2, PcExcept
<1>4. /\ Sound(s, tick, p) /\ (NotLate(Now) => NotLate(s))
      /\ \A u \in Timers : u # t /\ FlagTells(Now, u) => FlagTells(s, u)
  <2>1. /\ Sound(Removed(Now, t), tick, p)
        /\ \A u \in Timers : u # t /\ FlagTells(Now, u) => FlagTells(Removed(Now, t), u)
        /\ NotLate(Now) => NotLate(Removed(Now, t))
    BY <1>2, <1>3, RemovedSound
  <2> QED
    BY <1>1, <2>1
<1>5. OwnerSteps(t, "stop", "clear", s)
  BY <1>1 DEF StopRemoves
<1>6. "clear" \in Steps
  BY DEF Steps
<1> QED
  BY <1>1, <1>4, <1>5, <1>6, OwnerStep

LEMMA StopClearsStep ==
  ASSUME Inv, NEW t \in Timers, StopClears(t)
  PROVE  Inv'
<1>1. PICK s, p : s = Deactivated(Now, t) /\ p = [pc EXCEPT ![t] = "idle"]
  OBVIOUS
<1>2. /\ Sound(Now, tick, pc) /\ pc \in [Timers -> Steps]
      /\ Now \in State /\ KeepsTime(Now, tick, pc) /\ InOrder(Now) /\ CallsHold(Now, pc)
  BY InvFacts
<1>3. p[t] = "idle" /\ \A u \in Timers : u # t => p[u] = pc[u]
  BY <1>1, <1>2, PcExcept
<1>4. pc[t] = "clear" /\ OwnerSteps(t, "clear", "idle", s)
  BY <1>1 DEF StopClears, OwnerSteps
<1>5. t \notin Elements(Now.list) /\ Elements(Now.list) \subseteq Timers
  BY <1>2, <1>4, StateFields DEF CallsHold
<1>6. Sound(Now, tick, p)
  BY <1>2, <1>3, <1>5 DEF Sound, KeepsTime, CallsHold
<1>7. /\ Sound(s, tick, p) /\ (NotLate(Now) => NotLate(s)) /\ FlagTells(s, t)
      /\ \A u \in Timers : u # t /\ FlagTells(Now, u) => FlagTells(s, u)
  BY <1>1, <1>5, <1>6, DeactivatedSound
<1>8. "idle" \in Steps
  BY DEF Steps
<1> QED
  BY <1>1, <1>4, <1>7, <1>8, OwnerStep

(* Other interrupts and calls that no tick interrupts. *)
LEMMA WholeStep ==
  ASSUME Inv, NEW s, Becomes(s), Sound(s, tick, pc), ~checking,
         UNCHANGED <<tick, checking, pc>>,
         \A u \in Free : FlagTells(Now, u) => FlagTells(s, u),
         NotLate(Now) => NotLate(s)
  PROVE  Inv'
<1>1. Now' = s
  BY BecomesNow DEF Sound
<1>2. /\ tick \in 0..(TickMod - 1) /\ checking \in BOOLEAN /\ pc \in [Timers -> Steps]
      /\ \A u \in Free : FlagTells(Now, u)
      /\ NotLate(Now)
  BY InvFacts
<1> QED
  BY <1>1, <1>2 DEF Inv, Free

LEMMA InterruptStartsStep ==
  ASSUME Inv, NEW t \in Timers, InterruptStarts(t)
  PROVE  Inv'
<1>1. /\ t \in Free /\ ~checking /\ Becomes(Started(Now, t)) /\ UNCHANGED <<tick, checking, pc>>
  BY DEF InterruptStarts
<1>2. Sound(Now, tick, pc) /\ tick \in 0..(TickMod - 1) /\ pc[t] \in {"idle", "stop"}
  BY <1>1, InvFacts DEF Free
<1>3. /\ Sound(Started(Now, t), tick, pc) /\ (NotLate(Now) => NotLate(Started(Now, t)))
      /\ \A u \in Free : FlagTells(Now, u) => FlagTells(Started(Now, t), u)
  BY <1>2, StartedSound DEF Free
<1> QED
  BY <1>1, <1>3, WholeStep

LEMMA InterruptStopsStep ==
  ASSUME Inv, NEW t \in Timers, InterruptStops(t)
  PROVE  Inv'
<1>1. /\ t \in Free /\ ~checking /\ Becomes(Stopped(Now, t)) /\ UNCHANGED <<tick, checking, pc>>
  BY DEF InterruptStops
<1>2. Sound(Now, tick, pc) /\ pc[t] # "insert"
  BY <1>1, InvFacts DEF Free
<1>3. /\ Sound(Stopped(Now, t), tick, pc) /\ (NotLate(Now) => NotLate(Stopped(Now, t)))
      /\ \A u \in Free : FlagTells(Now, u) => FlagTells(Stopped(Now, t), u)
  BY <1>2, StoppedSound DEF Free
<1> QED
  BY <1>1, <1>3, WholeStep

LEMMA DetachStep ==
  ASSUME Inv, NEW t \in Timers, Detach(t)
  PROVE  Inv'
<1>1. PICK s, p : s = Removed(Now, t) /\ p = [pc EXCEPT ![t] = "detached"]
  OBVIOUS
<1>2. /\ Sound(Now, tick, pc) /\ pc \in [Timers -> Steps] /\ tick \in 0..(TickMod - 1)
      /\ \A u \in Free : FlagTells(Now, u)
      /\ checking \in BOOLEAN /\ (~checking => NotLate(Now))
  BY InvFacts
<1>3. p[t] = "detached" /\ p[t] # "insert" /\ \A u \in Timers : u # t => p[u] = pc[u]
  BY <1>1, <1>2, PcExcept
<1>4. /\ Sound(s, tick, p) /\ (NotLate(Now) => NotLate(s))
      /\ \A u \in Timers : u # t /\ FlagTells(Now, u) => FlagTells(s, u)
  <2>1. /\ Sound(Removed(Now, t), tick, p)
        /\ \A u \in Timers : u # t /\ FlagTells(Now, u) => FlagTells(Removed(Now, t), u)
        /\ NotLate(Now) => NotLate(Removed(Now, t))
    BY <1>2, <1>3, RemovedSound
  <2> QED
    BY <1>1, <2>1
<1>5. tick' = tick /\ checking' = checking /\ pc' = p /\ Becomes(s)
  BY <1>1 DEF Detach
<1>6. Now' = s
  BY <1>4, <1>5, BecomesNow DEF Sound
<1>7. pc' \in [Timers -> Steps]
  BY <1>1, <1>2, <1>5 DEF Steps
<1>8. \A u \in Free' : FlagTells(Now', u)
  BY <1>2, <1>3, <1>4, <1>5, <1>6 DEF Free
<1> QED
  BY <1>2, <1>4, <1>5, <1>6, <1>7, <1>8 DEF Inv

LEMMA ControlStep ==
  ASSUME Inv, NEW t \in Timers, Control(t)
  PROVE  Inv'
<1>1. /\ Now \in State /\ KeepsTime(Now, tick, pc) /\ InOrder(Now) /\ CallsHold(Now, pc)
      /\ timer \in [Timers -> Fields]
      /\ \A u \in Free : FlagTells(Now, u)
      /\ (~checking => NotLate(Now))
  BY InvFacts, StateFields, NowFields
<1>2. /\ tick' = tick /\ checking' = checking /\ pc' = pc /\ timer_list' = timer_list
      /\ left' = left /\ rearmed' = rearmed
  BY DEF Control
<1>3. /\ timer' \in [Timers -> Fields]
      /\ \A u \in Timers : /\ timer'[u].timeout_tick = timer[u].timeout_tick
                           /\ timer'[u].activated = timer[u].activated
  <2>1. CASE \E i \in Ticks : timer' = [timer EXCEPT ![t].init_tick = i]
    BY <1>1, <2>1 DEF Fields
  <2>2. CASE \E p \in BOOLEAN : timer' = [timer EXCEPT ![t].periodic = p]
    BY <1>1, <2>2 DEF Fields
  <2> QED
    BY <2>1, <2>2 DEF Control
<1>4. Now' = [list |-> timer_list, timer |-> timer', left |-> left, rearmed |-> rearmed]
  BY <1>2 DEF Now
<1>5. Now' \in State
  <2>1. /\ timer_list \in Seq(Timers) /\ rearmed \in SUBSET Timers
        /\ left \in [Timers -> (-MaxLate - 1)..(HALF - MaxLate - 2)]
    BY <1>1, StateFields, NowFields
  <2> QED
    BY <1>3, <1>4, <2>1 DEF State
<1>6. KeepsTime(Now', tick', pc')
  BY <1>1, <1>2, <1>3, <1>4, NowFields DEF KeepsTime, Tells
<1>7. InOrder(Now') /\ CallsHold(Now', pc') /\ (NotLate(Now) => NotLate(Now'))
  BY <1>1, <1>2, <1>4, NowFields DEF InOrder, CallsHold, NotLate
<1>8. \A u \in Free' : FlagTells(Now', u)
  BY <1>1, <1>2, <1>3, <1>4, NowFields DEF Free, FlagTells
<1> QED
  BY <1>1, <1>2, <1>5, <1>6, <1>7, <1>8, InvFacts DEF Inv, Sound

LEMMA InitTimerStep ==
  ASSUME Inv, NEW t \in Timers, InitTimer(t)
  PROVE  Inv'
<1>1. /\ Now \in State /\ KeepsTime(Now, tick, pc) /\ InOrder(Now) /\ CallsHold(Now, pc)
      /\ timer \in [Timers -> Fields] /\ pc \in [Timers -> Steps]
      /\ Elements(timer_list) \subseteq Timers
      /\ \A u \in Free : FlagTells(Now, u)
      /\ (~checking => NotLate(Now))
  BY InvFacts, StateFields, NowFields
<1>2. /\ tick' = tick /\ checking' = checking /\ pc' = [pc EXCEPT ![t] = "idle"]
      /\ timer_list' = timer_list /\ left' = left /\ rearmed' = rearmed
      /\ pc[t] = "detached"
  BY DEF InitTimer
<1>3. /\ timer' \in [Timers -> Fields] /\ timer'[t].activated = FALSE
      /\ \A u \in Timers : u # t => timer'[u] = timer[u]
  <2>1. PICK i \in Ticks, p \in BOOLEAN : timer' = [timer EXCEPT ![t] = New(i, p)]
    BY DEF InitTimer
  <2>2. New(i, p) \in Fields /\ New(i, p).activated = FALSE
    <3>1. 0 \in 0..(TickMod - 1)
      BY HalfRange
    <3> QED
      BY <3>1 DEF New, Fields
  <2> QED
    BY <1>1, <2>1, <2>2
<1>4. Now' = [list |-> timer_list, timer |-> timer', left |-> left, rearmed |-> rearmed]
  BY <1>2 DEF Now
<1>5. /\ pc' \in [Timers -> Steps] /\ pc'[t] = "idle"
      /\ \A u \in Timers : u # t => pc'[u] = pc[u]
  BY <1>1, <1>2 DEF Steps
<1>6. Now' \in State
  <2>1. /\ timer_list \in Seq(Timers) /\ rearmed \in SUBSET Timers
        /\ left \in [Timers -> (-MaxLate - 1)..(HALF - MaxLate - 2)]
    BY <1>1, StateFields, NowFields
  <2> QED
    BY <1>3, <1>4, <2>1 DEF State
<1>7. t \notin Elements(timer_list)
  BY <1>1, <1>2, NowFields DEF CallsHold
<1>8. KeepsTime(Now', tick', pc')
  BY <1>1, <1>2, <1>3, <1>4, <1>5, <1>7, NowFields DEF KeepsTime, Tells
<1>9. InOrder(Now') /\ (NotLate(Now) => NotLate(Now'))
  BY <1>1, <1>4, NowFields DEF InOrder, NotLate
<1>10. CallsHold(Now', pc')
  BY <1>1, <1>4, <1>5, <1>7, NowFields DEF CallsHold
<1>11. \A u \in Free' : FlagTells(Now', u)
  BY <1>1, <1>3, <1>4, <1>5, <1>7, NowFields DEF Free, FlagTells
<1> QED
  BY <1>1, <1>2, <1>5, <1>6, <1>8, <1>9, <1>10, <1>11, InvFacts DEF Inv, Sound

LEMMA CheckEndsStep ==
  ASSUME Inv, CheckEnds
  PROVE  Inv' /\ \A t \in Elements(timer_list) : left[t] > 0
<1>1. /\ tick' = tick /\ pc' = pc /\ checking' = FALSE /\ Now' = Now /\ Free' = Free
      /\ timer_list # << >> => ~IsDue(Head(timer_list))
  BY DEF CheckEnds, Now, Free
<1>2. \A t \in Timers : left[t] \in Int
  BY InvFacts, StateFields, NowFields
<1>3. ASSUME NEW t \in Elements(timer_list) PROVE left[t] > 0
  <2>1. timer_list # << >>
    BY DEF Elements
  <2>2. /\ Head(timer_list) \in Elements(timer_list) /\ Head(timer_list) \in Timers
        /\ left[Head(timer_list)] <= left[t]
    BY <2>1, HeadLinked
  <2>3. ~(left[Head(timer_list)] <= 0)
    BY <1>1, <2>1, <2>2, DueMeansNothingLeft
  <2>4. t \in Timers
    BY InvFacts, StateFields, NowFields
  <2> QED
    BY <1>2, <2>2, <2>3, <2>4
<1>4. NotLate(Now)
  <2>1. Elements(timer_list) \subseteq Timers
    BY InvFacts, StateFields, NowFields
  <2>2. \A t \in Elements(timer_list) : left[t] >= -MaxLate
    <3>1. TAKE t \in Elements(timer_list)
    <3>2. left[t] > 0 /\ left[t] \in Int /\ MaxLate \in Nat
      BY <1>2, <1>3, <2>1, HalfRange
    <3> QED
      BY <3>2
  <2> QED
    BY <2>2, NowFields DEF NotLate
<1> QED
  BY <1>1, <1>3, <1>4, InvFacts DEF Inv

LEMMA NextInv ==
  ASSUME Inv, [Next]_vars
  PROVE  Inv'
<1>1. CASE TickIncreases
  BY <1>1, TickStep
<1>2. CASE CheckFires
  BY <1>2, FiresStep
<1>3. CASE CheckEnds
  BY <1>3, CheckEndsStep
<1>4. ASSUME NEW t \in Timers,
             \/ StartRemoves(t) \/ StartReadsTick(t) \/ StartInserts(t)
             \/ StopSees(t) \/ StopRemoves(t) \/ StopClears(t)
             \/ InterruptStarts(t) \/ InterruptStops(t)
             \/ Control(t) \/ Detach(t) \/ InitTimer(t)
      PROVE  Inv'
  BY <1>4, StartRemovesStep, StartReadsTickStep, StartInsertsStep, StopSeesStep,
     StopRemovesStep, StopClearsStep, InterruptStartsStep, InterruptStopsStep,
     ControlStep, DetachStep, InitTimerStep
<1>5. CASE UNCHANGED vars
  BY <1>5 DEF vars, Inv, Now, Free
<1> QED
  BY <1>1, <1>2, <1>3, <1>4, <1>5 DEF Next

-----------------------------------------------------------------------------
(* The list stays in the order of the ticks that are left, the timeout of  *)
(* every timer says how many these are, and the flags are true between     *)
(* calls (timer.c:296-447, :494-553).                                      *)
THEOREM Invariance == Spec => []Inv
<1>1. Init => Inv
  BY InitInv
<1>2. Inv /\ [Next]_vars => Inv'
  BY NextInv
<1> QED
  BY <1>1, <1>2, PTL DEF Spec

(* The flag rt_timer_stop trusts is true of every timer between calls,     *)
(* except for a one-shot timer that its own callback started               *)
(* (timer.c:430, :531-544).                                                *)
THEOREM ActiveIsLinked == Spec => []ActiveMeansLinked
<1>1. Inv => ActiveMeansLinked
  <2>1. SUFFICES ASSUME Inv PROVE ActiveMeansLinked
    OBVIOUS
  <2>2. /\ tick \in 0..(TickMod - 1) /\ checking \in BOOLEAN /\ pc \in [Timers -> Steps]
        /\ Now \in State /\ InOrder(Now) /\ \A t \in Free : FlagTells(Now, t)
    BY <2>1 DEF Inv, Sound
  <2>3. /\ timer_list \in Seq(Timers) /\ timer \in [Timers -> Fields] /\ rearmed \subseteq Timers
        /\ \A t \in Timers : left[t] \in (-MaxLate - 1)..(HALF - MaxLate - 2) /\ left[t] \in Int
        /\ NoRepeat(timer_list)
    BY <2>2, StateFields, NowFields DEF InOrder
  <2>4. \A t \in Timers : left[t] <= HALF /\ left[t] >= -MaxLate - 1
    BY <2>3, HalfRange
  <2>5. TypeOK
    BY <2>2, <2>3, <2>4 DEF TypeOK
  <2>6. \A t \in Free : (Linked(t) /\ t \notin rearmed) = timer[t].activated
    BY <2>2, NowFields DEF FlagTells, Linked
  <2> QED
    BY <2>5, <2>6 DEF ActiveMeansLinked
<1> QED
  BY <1>1, Invariance, PTL

(* Timers fire in the order in which they run out, none before its time,   *)
(* and the interrupt leaves none behind, for any number of timers and      *)
(* wherever the tick wraps around (timer.c:343-366, :505-547).             *)
THEOREM TimersFireOnTime == Spec => FiresOnTime
<1>1. ASSUME Inv, Next
      PROVE  /\ checking /\ checking' =>
                  \A t \in Elements(timer_list) : left[Head(timer_list)] <= left[t]
             /\ checking /\ checking' => left[Head(timer_list)] <= 0
             /\ checking /\ ~checking' => \A t \in Elements(timer_list) : left[t] > 0
  <2>1. CASE CheckFires
    <3>1. timer_list # << >> /\ IsDue(Head(timer_list)) /\ checking' = checking
      BY <2>1 DEF CheckFires
    <3>2. /\ Head(timer_list) \in Elements(timer_list)
          /\ \A u \in Elements(timer_list) : left[Head(timer_list)] <= left[u]
      BY <1>1, <3>1, HeadLinked
    <3>3. left[Head(timer_list)] <= 0
      BY <1>1, <3>1, <3>2, DueMeansNothingLeft
    <3> QED
      BY <3>1, <3>2, <3>3
  <2>2. CASE CheckEnds
    BY <1>1, <2>2, CheckEndsStep DEF CheckEnds
  <2>3. CASE ~CheckFires /\ ~CheckEnds
    <3>1. ~checking
      BY <1>1, <2>3 DEF Next, TickIncreases, StartRemoves, StartReadsTick, StartInserts,
         StopSees, StopRemoves, StopClears, OwnerSteps, InterruptStarts, InterruptStops,
         Control, Detach, InitTimer
    <3> QED
      BY <3>1
  <2> QED
    BY <2>1, <2>2, <2>3
<1>2. Inv /\ [Next]_vars =>
        [/\ checking /\ checking' =>
              \A t \in Elements(timer_list) : left[Head(timer_list)] <= left[t]
         /\ checking /\ checking' => left[Head(timer_list)] <= 0
         /\ checking /\ ~checking' => \A t \in Elements(timer_list) : left[t] > 0]_vars
  BY <1>1
<1> QED
  BY <1>2, Invariance, PTL DEF Spec, FiresOnTime
=============================================================================

------------------------------ MODULE SmallMem ------------------------------
(***************************************************************************)
(* The system heap (mem.c): headers that lie in the heap itself and link   *)
(* the blocks in the order of their addresses, and a pointer to the lowest *)
(* free one.  Each call holds heap_sem throughout; rt_realloc, when it     *)
(* moves a block, is a call to rt_malloc and one to rt_free.  Addresses    *)
(* and sizes are counted in units of RT_ALIGN_SIZE.                        *)
(***************************************************************************)
EXTENDS Integers, FiniteSets, FiniteSetsExt

CONSTANTS MemSize,  \* mem_size_aligned
          Header,   \* SIZEOF_STRUCT_MEM
          MinSize   \* MIN_SIZE_ALIGNED

SmallMemAssumption == {Header, MinSize} \subseteq Nat \ {0} /\ MemSize \in Nat /\ MemSize >= MinSize

VARIABLES blocks,     \* [used, next, prev] of each block, by its address
          lfree,
          used_mem,
          allocated,  \* history: what the callers asked for, by the block they have
          passed      \* history: the free blocks rt_realloc has left below lfree

vars == <<blocks, lfree, used_mem, allocated, passed>>

heap_end == MemSize + Header

Init ==
  /\ blocks = [p \in {0, heap_end} |->
                 [used |-> p = heap_end, next |-> heap_end, prev |-> p]]
  /\ lfree = 0 /\ used_mem = 0
  /\ allocated = [p \in {} |-> 0]
  /\ passed = {}

FreeIn(b) == {p \in DOMAIN b : ~b[p].used}

\* The data a block has room for, and the size a request is raised to.
Room(p) == blocks[p].next - p - Header
Raised(n) == IF n < MinSize THEN MinSize ELSE n

(* The blocks rt_malloc may choose for size: it goes from lfree on, in the *)
(* order of addresses, while they are below mem_size_aligned - size.       *)
Fits(size) == {p \in FreeIn(blocks) : lfree <= p /\ p < MemSize - size /\ Room(p) >= size}

\* Block p is cut down to size, a free block follows it.
Split(b, p, size) ==
  LET p2 == p + Header + size
  IN  [q \in DOMAIN b \cup {p2} |->
         IF q = p2 THEN [used |-> FALSE, next |-> b[p].next, prev |-> p]
         ELSE IF q = p THEN [b[q] EXCEPT !.next = p2]
         ELSE IF q = b[p].next /\ q # heap_end THEN [b[q] EXCEPT !.prev = p2]
         ELSE b[q]]

-----------------------------------------------------------------------------
\* What plug_holes does to the state <<blocks, lfree>>: p takes in the block that follows.
Merged(s, p) ==
  LET n == s.blocks[p].next
      after == s.blocks[n].next
  IN  [blocks |-> [q \in DOMAIN s.blocks \ {n} |->
                     IF q = p THEN [s.blocks[q] EXCEPT !.next = after]
                     ELSE IF q = after THEN [s.blocks[q] EXCEPT !.prev = p]
                     ELSE s.blocks[q]],
       lfree |-> IF s.lfree = n THEN p ELSE s.lfree]

PlugForward(s, p) ==
  LET n == s.blocks[p].next
  IN  IF n # p /\ n # heap_end /\ ~s.blocks[n].used THEN Merged(s, p) ELSE s

PlugBackward(s, p) ==
  LET m == s.blocks[p].prev
  IN  IF m # p /\ ~s.blocks[m].used THEN Merged(s, m) ELSE s

\* Mutant: only the hole that follows is plugged.
PlugHoles_ForwardOnly(s, p) == PlugForward(s, p)

PlugHoles(s, p) == PlugBackward(PlugForward(s, p), p)

\* The blocks that stay free and below the pointer.
StillPassed(s, maybe) == {q \in maybe \cap FreeIn(s.blocks) : q < s.lfree}

-----------------------------------------------------------------------------
\* rt_malloc (and rt_calloc) finds a block; otherwise it changes nothing.
Malloc(n) ==
  LET size == Raised(n)
      p == Min(Fits(size))
      cut == IF Room(p) >= size + Header + MinSize THEN Split(blocks, p, size) ELSE blocks
      after == [cut EXCEPT ![p].used = TRUE]
  IN  /\ n <= MemSize /\ Fits(size) # {}
      /\ blocks' = after
      /\ lfree' = IF p # lfree THEN lfree
                  ELSE Min({q \in FreeIn(after) \cup {heap_end} : q >= lfree})
      /\ used_mem' = used_mem + after[p].next - p
      /\ allocated' = [q \in DOMAIN allocated \cup {p} |-> IF q = p THEN n ELSE allocated[q]]
      /\ UNCHANGED passed

\* Mutant: the pointer is not moved down.
Free_KeepsLfree(p) ==
  LET s == PlugHoles([blocks |-> [blocks EXCEPT ![p].used = FALSE], lfree |-> lfree], p)
  IN  /\ p \in DOMAIN allocated
      /\ blocks' = s.blocks /\ lfree' = s.lfree
      /\ used_mem' = used_mem - (blocks[p].next - p)
      /\ allocated' = [q \in DOMAIN allocated \ {p} |-> allocated[q]]
      /\ passed' = StillPassed(s, passed)

\* rt_free
Free(p) ==
  LET s == PlugHoles([blocks |-> [blocks EXCEPT ![p].used = FALSE],
                      lfree |-> IF p < lfree THEN p ELSE lfree], p)
  IN  /\ p \in DOMAIN allocated
      /\ blocks' = s.blocks /\ lfree' = s.lfree
      /\ used_mem' = used_mem - (blocks[p].next - p)
      /\ allocated' = [q \in DOMAIN allocated \ {p} |-> allocated[q]]
      /\ passed' = StillPassed(s, passed)

\* rt_realloc of a block that is much too large; it leaves lfree where it is.
ReallocShrinks(p, n) ==
  LET p2 == p + Header + n
      s == PlugHoles([blocks |-> Split(blocks, p, n), lfree |-> lfree], p2)
  IN  /\ p \in DOMAIN allocated
      /\ n + Header + MinSize < Room(p)
      /\ blocks' = s.blocks /\ lfree' = s.lfree
      /\ used_mem' = used_mem - (Room(p) - n)
      /\ allocated' = [allocated EXCEPT ![p] = n]
      /\ passed' = StillPassed(s, passed \cup {p2})

Next ==
  \E n \in 1..MemSize : Malloc(n) \/ \E p \in DOMAIN blocks : Free(p) \/ ReallocShrinks(p, n)

Spec == Init /\ [][Next]_vars

-----------------------------------------------------------------------------
(* The blocks tile the heap, linked both ways, and no two free ones are    *)
(* neighbours; the used ones are those callers have, each as large as      *)
(* asked, and used_mem is their sum (mem.c:165-192, :328-369, :471-493,    *)
(* :596-607).                                                              *)
HeapTiles ==
  LET inner == DOMAIN blocks \ {heap_end}
  IN  /\ {0, heap_end} \subseteq DOMAIN blocks
      /\ \A p \in inner :
           /\ blocks[p].next = Min({q \in DOMAIN blocks : q > p})
           /\ blocks[p].prev = IF p = 0 THEN 0 ELSE Max({q \in inner : q < p})
           /\ ~blocks[p].used => blocks[blocks[p].next].used
           /\ blocks[p].used => p \in DOMAIN allocated /\ Room(p) >= allocated[p]
      /\ DOMAIN allocated \subseteq inner
      /\ used_mem = MapThenSumSet(LAMBDA p : blocks[p].next - p, DOMAIN allocated)

(* rt_malloc finds a block if there is one, but in two cases: the block    *)
(* ends the heap and fits exactly, for the loop stops short of it, or      *)
(* rt_realloc split it off below lfree, which is then not the lowest free  *)
(* block (mem.c:131, :305-307, :380-384, :471-493).                        *)
MallocFinds ==
  /\ lfree \in DOMAIN blocks
  /\ \A n \in 1..MemSize, p \in FreeIn(blocks) :
       Room(p) >= Raised(n) =>
         \/ Fits(Raised(n)) # {}
         \/ p + Raised(n) = MemSize
         \/ p \in passed
=============================================================================

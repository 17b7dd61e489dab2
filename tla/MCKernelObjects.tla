--------------------------- MODULE MCKernelObjects ---------------------------
(* Instances of KernelObjects for TLC. *)
EXTENDS KernelObjects, TLC

CONSTANTS t1, t2, t3, event, receivers, senders, readers, pool, x, y, b1, b2

MCThreads == {t1, t2, t3}
MCLists == {event, receivers, senders, readers, pool}

\* A finite time may outlast the behaviour, so that it stands for ever as well.
FiniteTimes == {"zero", "finite"}

SamePrio == [t \in Threads |-> 1]

Bits == {1, 2}
MCMails == {x, y}
MCBlocks == {b1, b2}

AllObjects == Objects
MemPoolOnly == {"memory pool"}

\* Threads of one priority are interchangeable, and so are mails.
Alike == Permutations(Threads) \cup Permutations(MCMails)
=============================================================================

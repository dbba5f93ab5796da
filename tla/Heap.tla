-------------------------------- MODULE Heap --------------------------------
(***************************************************************************)
(* The kernel's heap: kmalloc.c. Blocks form a doubly linked list in the   *)
(* order of their addresses; a block is split when it is larger than what  *)
(* is asked for and combined with its neighbours when it is freed.         *)
(*                                                                         *)
(* The split does not update the prev pointer of the block behind. A later *)
(* kfree of that block may combine it with a block that is not its         *)
(* neighbour: from there on (broken) the list is no longer that of the     *)
(* memory, anything may happen, and the model stops.                       *)
(***************************************************************************)
EXTENDS Integers, FiniteSets, FiniteSetsExt

CONSTANTS
    HeapSize,       \* the memory given to the first block, in words
    HeaderSize,     \* sizeof(struct Block)
    SMALLEST_BLOCK,
    Request         \* what the kernel asks for: [size, align]

ASSUME HeapAssumption ==
    /\ HeapSize \in Nat /\ HeaderSize \in Nat \ {0} /\ SMALLEST_BLOCK \in Nat \ {0}
    /\ HeaderSize < HeapSize
    /\ \A r \in Request : r.size \in Nat \ {0} /\ r.align \in Nat \ {0}

Address == 0..(HeapSize - 1)
NULL == HeapSize

VARIABLES
    block,      \* the headers in memory, by address
    allocated,  \* what the kernel holds: [data, size, align]
    inserted,   \* history: a block was split that is not the last
    broken      \* history: kfree combined two blocks that are not neighbours

vars == <<block, allocated, inserted, broken>>

start_block == 0

(* The first call of kmalloc makes one block of the heap. *)
Init ==
    /\ block = [b \in {start_block} |->
                   [size |-> HeapSize - HeaderSize, used |-> FALSE,
                    prev |-> NULL, next |-> NULL, data |-> HeaderSize]]
    /\ allocated = {}
    /\ inserted = FALSE
    /\ broken = FALSE

EndOf(b) == b + HeaderSize + block[b].size

Align(address, align) == ((address + align - 1) \div align) * align

(* Fault: the padding is not part of the size. *)
SizeForUnpadded(b, r) == Max({r.size, SMALLEST_BLOCK})

(* The size of block b that serves request r: aligned_size. *)
SizeFor(b, r) ==
    LET data == b + HeaderSize
    IN  Max({r.size + Align(data, r.align) - data, SMALLEST_BLOCK})

Fits(b, r) == ~block[b].used /\ block[b].size >= SizeFor(b, r)

(* Is enough left for a block of its own? *)
IsSplit(b, r) == block[b].size - SizeFor(b, r) > HeaderSize + SMALLEST_BLOCK

(* Fault: the rest of a block keeps the size of the whole. *)
SplitKeepsSize(b, size) ==
    LET rest == b + HeaderSize + size
    IN  [c \in DOMAIN block \cup {rest} |->
            IF c = rest THEN [size |-> block[b].size - size, used |-> FALSE,
                              prev |-> b, next |-> block[b].next, data |-> rest + HeaderSize]
            ELSE IF c = b THEN [block[b] EXCEPT !.size = size, !.next = rest]
            ELSE block[c]]

(* A new block behind b, which keeps the given size. *)
Split(b, size) ==
    LET rest == b + HeaderSize + size
    IN  [c \in DOMAIN block \cup {rest} |->
            IF c = rest THEN [size |-> block[b].size - size - HeaderSize, used |-> FALSE,
                              prev |-> b, next |-> block[b].next, data |-> rest + HeaderSize]
            ELSE IF c = b THEN [block[b] EXCEPT !.size = size, !.next = rest]
            ELSE block[c]]

(* kmalloc_aligned: the first block that fits. Without one it returns NULL *)
(* and changes nothing.                                                    *)
Malloc(r) ==
    /\ ~broken
    /\ \E b \in DOMAIN block :
           /\ Fits(b, r)
           /\ \A c \in DOMAIN block : c < b => ~Fits(c, r)
           /\ LET data == Align(b + HeaderSize, r.align)
                  after == IF IsSplit(b, r) THEN Split(b, SizeFor(b, r)) ELSE block
              IN  /\ block' = [after EXCEPT ![b].used = TRUE, ![b].data = data]
                  /\ allocated' = allocated \cup
                                      {[data |-> data, size |-> r.size, align |-> r.align]}
           /\ inserted' = (inserted \/ (IsSplit(b, r) /\ block[b].next # NULL))
    /\ UNCHANGED broken

(* combine_block: what is left in memory of the second header is no block. *)
Combine(heap, a, b) ==
    [c \in DOMAIN heap \ {b} |->
        IF c = a THEN [heap[a] EXCEPT !.size = @ + HeaderSize + heap[b].size,
                                      !.next = heap[b].next]
        ELSE IF c = heap[b].next THEN [heap[c] EXCEPT !.prev = a]
        ELSE heap[c]]

(* Fault: only the block behind is combined. *)
FreeForwards(b) ==
    LET freed == [block EXCEPT ![b].used = FALSE]
        next == block[b].next
    IN  IF next # NULL /\ ~block[next].used THEN Combine(freed, b, next) ELSE freed

(***************************************************************************)
(* kfree of a block: it is combined with the next one, then with the one   *)
(* that its prev points to.                                                *)
(***************************************************************************)
Free(b) ==
    LET freed == [block EXCEPT ![b].used = FALSE]
        next == block[b].next
        prev == block[b].prev
        heap == IF next # NULL /\ ~block[next].used THEN Combine(freed, b, next) ELSE freed
    IN  IF prev # NULL /\ ~block[prev].used THEN Combine(heap, prev, b) ELSE heap

(* prev points to a header that has been combined away, or to a free block *)
(* that is not the neighbour: the next step would act on a wrong block.    *)
PrevIsWrong(b) ==
    LET prev == block[b].prev
    IN  prev # NULL /\ \/ prev \notin DOMAIN block
                       \/ ~block[prev].used /\ block[prev].next # b

Kfree(a) ==
    /\ ~broken
    /\ \E b \in DOMAIN block :
           /\ block[b].used /\ block[b].data = a.data
           /\ broken' = PrevIsWrong(b)
           /\ block' = IF PrevIsWrong(b) THEN block ELSE Free(b)
    /\ allocated' = allocated \ {a}
    /\ UNCHANGED inserted

Next == \/ \E r \in Request : Malloc(r)
        \/ \E a \in allocated : Kfree(a)

Spec == Init /\ [][Next]_vars

-----------------------------------------------------------------------------
(* Properties.                                                             *)

(***************************************************************************)
(* Through all splits and combinations the blocks tile the heap and next   *)
(* leads from each to its neighbour: no word is lost or in two blocks.     *)
(***************************************************************************)
BlocksTile ==
    ~broken => \A b \in DOMAIN block :
                   IF block[b].next = NULL THEN EndOf(b) = HeapSize
                   ELSE block[b].next = EndOf(b) /\ EndOf(b) \in DOMAIN block

(***************************************************************************)
(* Every piece of memory that the kernel holds lies aligned in a used      *)
(* block of its own, and every used block holds one: pieces are disjoint   *)
(* and none is lost.                                                       *)
(***************************************************************************)
Holds(b, a) == /\ block[b].used /\ block[b].data = a.data
               /\ a.data >= b + HeaderSize /\ a.data + a.size <= EndOf(b)
               /\ a.data % a.align = 0

PiecesHaveBlocks ==
    ~broken => /\ \A a \in allocated : \E b \in DOMAIN block : Holds(b, a)
               /\ Cardinality({b \in DOMAIN block : block[b].used}) = Cardinality(allocated)

(***************************************************************************)
(* As long as only the last block was split, prev leads to the neighbour   *)
(* and free neighbours are combined, so that the heap is one block when    *)
(* nothing is held. (Afterwards it may stay in pieces for ever.)           *)
(***************************************************************************)
FreeIsCombined ==
    ~inserted => /\ ~broken
                 /\ \A b \in DOMAIN block :
                        LET next == block[b].next
                        IN  next # NULL => /\ block[next].prev = b
                                           /\ block[b].used \/ block[next].used
=============================================================================

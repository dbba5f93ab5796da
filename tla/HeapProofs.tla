----------------------------- MODULE HeapProofs -----------------------------
(***************************************************************************)
(* Heap: for every size of the heap and every set of requests the blocks   *)
(* tile the memory, and every piece of memory that the kernel holds has a  *)
(* used block of its own, until kfree follows a stale prev pointer.        *)
(***************************************************************************)
EXTENDS Heap, ProofLemmas

-----------------------------------------------------------------------------
(* The inductive invariant, part by part, for the headers in memory.       *)

End(heap, b) == b + HeaderSize + heap[b].size

BlockType == [size : Nat, used : BOOLEAN, prev : Nat, next : Nat, data : Nat]

IsHeap(heap) == /\ DOMAIN heap \subseteq Address
                /\ heap \in [DOMAIN heap -> BlockType]

(* What BlocksTile says, and that the blocks do not overlap.               *)
Tiles(heap) ==
    \A b \in DOMAIN heap :
        /\ heap[b].next = NULL => End(heap, b) = HeapSize
        /\ heap[b].next # NULL => heap[b].next = End(heap, b) /\ End(heap, b) \in DOMAIN heap
        /\ \A c \in DOMAIN heap : b < c => End(heap, b) <= c

HoldsIn(heap, b, a) ==
    /\ heap[b].used /\ heap[b].data = a.data
    /\ a.data >= b + HeaderSize /\ a.data + a.size <= End(heap, b)
    /\ a.data % a.align = 0

PieceType == [data : Nat, size : Nat \ {0}, align : Nat \ {0}]

(* Pieces and used blocks, one to one: no two pieces are at one address.   *)
Pieces(heap, held) ==
    /\ held \subseteq PieceType
    /\ \A a \in held : \E b \in DOMAIN heap : HoldsIn(heap, b, a)
    /\ \A b \in DOMAIN heap : heap[b].used => \E a \in held : HoldsIn(heap, b, a)
    /\ \A a, e \in held : a.data = e.data => a = e

(* prev is the inverse of next. *)
Linked(heap) ==
    \A b \in DOMAIN heap :
        /\ heap[b].next # NULL => heap[heap[b].next].prev = b
        /\ heap[b].prev # NULL => heap[b].prev \in DOMAIN heap /\ heap[heap[b].prev].next = b

(* a is the block before b. *)
Precedes(heap, a, b) == heap[a].next = b

(* A block and its neighbour are not both free. *)
Apart(heap, b) == heap[b].next # NULL => heap[b].used \/ heap[heap[b].next].used

Combined(heap) == \A b \in DOMAIN heap : Apart(heap, b)

HeapInv ==
    /\ IsHeap(block)
    /\ inserted \in BOOLEAN /\ broken \in BOOLEAN
    /\ ~broken => Tiles(block) /\ Pieces(block, allocated)
    /\ ~inserted => ~broken /\ Linked(block) /\ Combined(block)

-----------------------------------------------------------------------------
(* Sizes.                                                                  *)

(* An address is rounded up to a multiple. *)
LEMMA AlignUp ==
    ASSUME NEW a \in Nat, NEW n \in Nat \ {0}
    PROVE  /\ Align(a, n) \in Nat
           /\ Align(a, n) >= a
           /\ Align(a, n) % n = 0
  <1> DEFINE q == (a + n - 1) \div n
  <1>1. a + n - 1 \in Nat
    OBVIOUS
  <1>2. q \in Nat
    <2> DEFINE x == a + n - 1
    <2> HIDE DEF x
    <2>1. x \in Nat => x \div n \in Nat
      OBVIOUS
    <2> QED BY <1>1, <2>1 DEF x
  <1>3. a + n - 1 < q * n + n
    <2> DEFINE x == a + n - 1
    <2> HIDE DEF x
    <2>1. x \in Nat => x < (x \div n) * n + n
      OBVIOUS
    <2> QED BY <1>1, <2>1 DEF x
  <1> HIDE DEF q
  <1>4. (q * n) % n = 0 /\ q * n \in Nat
    BY <1>2
  <1>5. q * n >= a
    BY <1>2, <1>3, <1>4
  <1> QED BY <1>4, <1>5 DEF Align, q

LEMMA LargerOfTwo ==
    ASSUME NEW a \in Nat, NEW b \in Nat
    PROVE  Max({a, b}) \in Nat /\ Max({a, b}) >= a /\ Max({a, b}) >= b
  <1>1. \E m \in {a, b} : \A y \in {a, b} : m >= y
    BY a >= b \/ b >= a
  <1> QED BY <1>1 DEF Max

(* The piece fits where it is aligned. *)
LEMMA SizeIsEnough ==
    ASSUME NEW b \in Nat, NEW r \in Request
    PROVE  LET data == Align(b + HeaderSize, r.align)
           IN  /\ SizeFor(b, r) \in Nat \ {0}
               /\ data \in Nat /\ data % r.align = 0
               /\ data >= b + HeaderSize
               /\ data + r.size <= b + HeaderSize + SizeFor(b, r)
  <1> DEFINE from == b + HeaderSize
             data == Align(from, r.align)
             need == r.size + data - from
  <1>1. from \in Nat /\ r.size \in Nat \ {0} /\ r.align \in Nat \ {0} /\ SMALLEST_BLOCK \in Nat \ {0}
    BY HeapAssumption
  <1>2. data \in Nat /\ data >= from /\ data % r.align = 0
    BY <1>1, AlignUp
  <1>3. need \in Nat /\ SizeFor(b, r) = Max({need, SMALLEST_BLOCK})
    <2>1. SizeFor(b, r) = Max({need, SMALLEST_BLOCK})
      BY DEF SizeFor
    <2> HIDE DEF data, from
    <2> QED BY <1>1, <1>2, <2>1
  <1> HIDE DEF need
  <1>4. SizeFor(b, r) \in Nat /\ SizeFor(b, r) >= need /\ SizeFor(b, r) >= SMALLEST_BLOCK
    BY <1>1, <1>3, LargerOfTwo
  <1>5. need = r.size + data - from
    BY DEF need
  <1>6. from = b + HeaderSize
    OBVIOUS
  <1> HIDE DEF data, from
  <1>7. data + r.size <= from + SizeFor(b, r)
    BY <1>1, <1>2, <1>4, <1>5
  <1> QED BY <1>1, <1>2, <1>4, <1>6, <1>7 DEF data, from

-----------------------------------------------------------------------------
(* Splitting and combining.                                                *)

(* Where blocks are. *)
LEMMA BlockFacts ==
    ASSUME NEW heap, IsHeap(heap), Tiles(heap), NEW b \in DOMAIN heap
    PROVE  /\ b \in Nat /\ b < HeapSize /\ heap[b] \in BlockType
           /\ End(heap, b) \in Nat /\ End(heap, b) > b /\ End(heap, b) <= HeapSize
           /\ b + HeaderSize \in Nat /\ b + HeaderSize <= End(heap, b)
           /\ NULL \notin DOMAIN heap
           /\ heap[b].next = NULL <=> End(heap, b) = HeapSize
  <1>1. b \in 0..(HeapSize - 1) /\ heap[b] \in BlockType /\ NULL \notin DOMAIN heap
    BY HeapAssumption DEF IsHeap, Address, NULL
  <1>2. heap[b].size \in Nat /\ b \in Nat /\ b < HeapSize
    BY <1>1, HeapAssumption DEF BlockType
  <1>3. /\ End(heap, b) \in Nat /\ End(heap, b) > b
        /\ b + HeaderSize \in Nat /\ b + HeaderSize <= End(heap, b)
    BY <1>2, HeapAssumption DEF End
  <1>4. End(heap, b) <= HeapSize /\ (heap[b].next = NULL <=> End(heap, b) = HeapSize)
    <2>1. CASE heap[b].next = NULL
      BY <2>1, HeapAssumption DEF Tiles
    <2>2. CASE heap[b].next # NULL
      <3>1. End(heap, b) \in DOMAIN heap
        BY <2>2 DEF Tiles
      <3>2. End(heap, b) < HeapSize
        BY <3>1, HeapAssumption DEF IsHeap, Address
      <3> QED BY <1>3, <2>2, <3>2, HeapAssumption
    <2> QED BY <2>1, <2>2
  <1> QED BY <1>1, <1>2, <1>3, <1>4

(* A word is in one block. *)
LEMMA OneBlock ==
    ASSUME NEW heap, IsHeap(heap), Tiles(heap),
           NEW b \in DOMAIN heap, NEW c \in DOMAIN heap, NEW w \in Nat,
           b <= w, w < End(heap, b), c <= w, w < End(heap, c)
    PROVE  b = c
  <1>1. b \in Nat /\ c \in Nat /\ End(heap, b) \in Nat /\ End(heap, c) \in Nat
    BY BlockFacts
  <1>2. (b < c => End(heap, b) <= c) /\ (c < b => End(heap, c) <= b)
    BY DEF Tiles
  <1> QED BY <1>1, <1>2

(* The sizes and the order of the blocks alone make them tile the heap. *)
LEMMA SameTiles ==
    ASSUME NEW heap, IsHeap(heap), Tiles(heap),
           NEW after \in [DOMAIN heap -> BlockType],
           \A c \in DOMAIN heap : after[c].size = heap[c].size /\ after[c].next = heap[c].next
    PROVE  IsHeap(after) /\ Tiles(after) /\ \A c \in DOMAIN heap : End(after, c) = End(heap, c)
  <1>1. DOMAIN after = DOMAIN heap
    OBVIOUS
  <1>2. IsHeap(after)
    BY <1>1 DEF IsHeap
  <1>3. \A c \in DOMAIN heap : End(after, c) = End(heap, c)
    BY DEF End
  <1> QED BY <1>1, <1>2, <1>3 DEF Tiles

LEMMA SplitTiles ==
    ASSUME IsHeap(block), Tiles(block), NEW b \in DOMAIN block, NEW size \in Nat,
           size + HeaderSize <= block[b].size
    PROVE  LET after == Split(b, size)
               rest == b + HeaderSize + size
           IN  /\ DOMAIN after = DOMAIN block \cup {rest} /\ rest \notin DOMAIN block
               /\ IsHeap(after) /\ Tiles(after)
               /\ End(after, b) = rest /\ End(after, rest) = End(block, b)
               /\ after[rest] = [size |-> block[b].size - size - HeaderSize, used |-> FALSE,
                                 prev |-> b, next |-> block[b].next, data |-> rest + HeaderSize]
               /\ after[b] = [block[b] EXCEPT !.size = size, !.next = rest]
               /\ \A c \in DOMAIN block \ {b} : after[c] = block[c]
  <1> DEFINE rest == b + HeaderSize + size
             after == Split(b, size)
             new == [size |-> block[b].size - size - HeaderSize, used |-> FALSE,
                     prev |-> b, next |-> block[b].next, data |-> rest + HeaderSize]
             cut == [block[b] EXCEPT !.size = size, !.next = rest]
  <1>1. /\ b \in Nat /\ b < HeapSize /\ block[b] \in BlockType /\ End(block, b) <= HeapSize
        /\ block[b].size \in Nat /\ block[b].next \in Nat
    BY BlockFacts DEF BlockType
  <1>2. /\ rest \in Nat /\ b < rest /\ rest < End(block, b) /\ rest \in Address
        /\ rest + HeaderSize <= End(block, b)
        /\ rest + HeaderSize + (block[b].size - size - HeaderSize) = End(block, b)
    BY <1>1, HeapAssumption DEF End, Address
  <1>3. rest \notin DOMAIN block
    <2>1. rest \in DOMAIN block => End(block, b) <= rest
      BY <1>2 DEF Tiles
    <2>2. End(block, b) \in Nat
      BY BlockFacts
    <2> HIDE DEF rest
    <2> QED BY <1>2, <2>1, <2>2
  <1>4. /\ DOMAIN after = DOMAIN block \cup {rest}
        /\ after[rest] = new /\ after[b] = cut
        /\ \A c \in DOMAIN block \ {b} : after[c] = block[c]
    BY <1>3 DEF Split
  <1> HIDE DEF rest, after
  <1>5. new \in BlockType /\ new.next = block[b].next /\ new.size = block[b].size - size - HeaderSize
    <2>1. rest + HeaderSize \in Nat /\ block[b].size - size - HeaderSize \in Nat
      BY <1>1, <1>2, HeapAssumption
    <2> QED BY <1>1, <1>2, <2>1 DEF BlockType
  <1>6. cut \in BlockType /\ cut.size = size /\ cut.next = rest
    BY <1>1, <1>2 DEF BlockType
  <1> HIDE DEF new, cut
  <1>7. IsHeap(after)
    <2>1. \A c \in DOMAIN after : after[c] \in BlockType
      BY <1>4, <1>5, <1>6 DEF IsHeap
    <2>2. after = [c \in DOMAIN after |-> after[c]]
      BY DEF Split, after
    <2> QED BY <1>2, <1>4, <2>1, <2>2 DEF IsHeap
  <1>8. /\ End(after, b) = rest /\ End(after, rest) = End(block, b)
        /\ \A c \in DOMAIN block \ {b} : End(after, c) = End(block, c)
    <2>1. End(after, b) = rest
      BY <1>4, <1>6 DEF End, rest
    <2>2. End(after, rest) = End(block, b)
      BY <1>2, <1>4, <1>5 DEF End
    <2> QED BY <1>4, <2>1, <2>2 DEF End
  <1>9. Tiles(after)
    <2> SUFFICES ASSUME NEW c \in DOMAIN after
                 PROVE  /\ after[c].next = NULL => End(after, c) = HeapSize
                        /\ after[c].next # NULL => /\ after[c].next = End(after, c)
                                                   /\ End(after, c) \in DOMAIN after
                        /\ \A e \in DOMAIN after : c < e => End(after, c) <= e
      BY DEF Tiles
    <2>0. \A e \in DOMAIN block : e \in Nat /\ End(block, e) \in Nat
      BY BlockFacts
    <2>1. CASE c = b
      <3>1. rest # NULL /\ after[c].next = rest
        BY <1>2, <1>4, <1>6, <2>1, HeapAssumption DEF Address, NULL
      <3>2. \A e \in DOMAIN block : b < e => rest <= e
        BY <1>1, <1>2, <2>0 DEF Tiles
      <3> QED BY <1>2, <1>4, <1>8, <2>1, <3>1, <3>2
    <2>2. CASE c = rest
      <3>1. after[c].next = block[b].next /\ End(after, c) = End(block, b)
        BY <1>4, <1>5, <1>8, <2>2
      <3>2. \A e \in DOMAIN block : rest < e => End(block, b) <= e
        BY <1>1, <1>2, <2>0 DEF Tiles
      <3> QED BY <1>2, <1>4, <2>2, <3>1, <3>2 DEF Tiles
    <2>3. CASE c \in DOMAIN block \ {b}
      <3>1. after[c] = block[c] /\ End(after, c) = End(block, c)
        BY <1>4, <1>8, <2>3
      <3>2. c < rest => End(block, c) <= rest
        <4>1. c < b => End(block, c) <= b
          BY <2>3 DEF Tiles
        <4>2. b < c => End(block, b) <= c
          BY <2>3 DEF Tiles
        <4> QED BY <1>1, <1>2, <2>0, <2>3, <4>1, <4>2
      <3> QED BY <1>4, <2>3, <3>1, <3>2 DEF Tiles
    <2> QED BY <1>4, <2>1, <2>2, <2>3
  <1> QED BY <1>3, <1>4, <1>7, <1>8, <1>9 DEF rest, after, new, cut

(* What combining block b into the block a before it leaves as it was. *)
IsCombination(heap, a, b, after) ==
    /\ DOMAIN after = DOMAIN heap \ {b} /\ a # b
    /\ IsHeap(after) /\ Tiles(after)
    /\ \A c \in DOMAIN after : /\ after[c].used = heap[c].used
                               /\ after[c].data = heap[c].data
                               /\ End(after, c) >= End(heap, c)
    /\ after[a].next = heap[b].next
    /\ heap[b].next # NULL => heap[b].next \in DOMAIN after /\ after[heap[b].next].prev = a
    /\ \A c \in DOMAIN after \ {a} : after[c].next = heap[c].next /\ heap[c].next # b
    /\ \A c \in DOMAIN after \ {heap[b].next} : after[c].prev = heap[c].prev

LEMMA CombineFacts ==
    ASSUME NEW heap, IsHeap(heap), Tiles(heap),
           NEW a \in DOMAIN heap, NEW b \in DOMAIN heap, Precedes(heap, a, b)
    PROVE  IsCombination(heap, a, b, Combine(heap, a, b))
  <1> DEFINE after == Combine(heap, a, b)
             next == heap[b].next
             merged == [heap[a] EXCEPT !.size = heap[a].size + HeaderSize + heap[b].size,
                                       !.next = next]
             behind == [heap[next] EXCEPT !.prev = a]
  <1>1. \A c \in DOMAIN heap :
            /\ c \in Nat /\ c < HeapSize /\ heap[c] \in BlockType
            /\ End(heap, c) \in Nat /\ End(heap, c) > c
            /\ heap[c].size \in Nat /\ heap[c].next \in Nat
    BY BlockFacts DEF BlockType
  <1>2. b = End(heap, a) /\ a < b /\ NULL \notin DOMAIN heap /\ b # NULL
    BY <1>1, BlockFacts DEF Tiles, Precedes
  <1>3. /\ next # NULL => next \in DOMAIN heap /\ next = End(heap, b)
        /\ next # a /\ next # b
    BY <1>1, <1>2 DEF Tiles
  <1>4. /\ DOMAIN after = DOMAIN heap \ {b}
        /\ after[a] = merged
        /\ next # NULL => next \in DOMAIN after /\ after[next] = behind
        /\ \A c \in DOMAIN after \ {a, next} : after[c] = heap[c]
    <2>1. a # b
      BY <1>1, <1>2
    <2>2. after[a] = merged
      BY <2>1, Zenon DEF Combine
    <2> HIDE DEF merged
    <2> QED BY <1>2, <1>3, <2>1, <2>2 DEF Combine
  <1>5. /\ merged \in BlockType /\ merged.next = next
        /\ merged.size = heap[a].size + HeaderSize + heap[b].size
        /\ merged.used = heap[a].used /\ merged.data = heap[a].data /\ merged.prev = heap[a].prev
    <2>1. heap[a].size + HeaderSize + heap[b].size \in Nat /\ next \in Nat /\ heap[a] \in BlockType
      BY <1>1, HeapAssumption
    <2> QED BY <2>1 DEF BlockType
  <1>6. next # NULL => /\ behind \in BlockType /\ behind.next = heap[next].next
                       /\ behind.size = heap[next].size /\ behind.used = heap[next].used
                       /\ behind.data = heap[next].data /\ behind.prev = a
    <2>1. a \in Nat /\ (next # NULL => heap[next] \in BlockType)
      BY <1>1, <1>3
    <2> HIDE DEF next
    <2> QED BY <2>1 DEF BlockType
  <1> HIDE DEF merged, behind, next
  <1>7. IsHeap(after)
    <2>1. \A c \in DOMAIN after : after[c] \in BlockType
      BY <1>1, <1>2, <1>4, <1>5, <1>6
    <2>2. after = [c \in DOMAIN after |-> after[c]]
      BY DEF Combine
    <2> HIDE DEF after
    <2> QED BY <1>4, <2>1, <2>2 DEF IsHeap
  <1> HIDE DEF after
  <1>8. End(after, a) = End(heap, b)
    BY <1>1, <1>2, <1>4, <1>5, HeapAssumption DEF End
  <1>9. \A c \in DOMAIN after \ {a} : /\ End(after, c) = End(heap, c)
                                      /\ after[c].next = heap[c].next
    BY <1>1, <1>2, <1>4, <1>6 DEF End
  <1>14. \A c \in DOMAIN after \ {a} : heap[c].next # b
    <2> SUFFICES ASSUME NEW c \in DOMAIN after \ {a}, heap[c].next = b
                 PROVE  FALSE
      OBVIOUS
    <2>1. c \in DOMAIN heap /\ b \in Nat
      BY <1>1, <1>4
    <2>2. End(heap, c) = b
      BY <1>2, <2>1 DEF Tiles
    <2>3. (a < c => End(heap, a) <= c) /\ (c < a => End(heap, c) <= a)
      BY <2>1 DEF Tiles
    <2> QED BY <1>1, <1>2, <2>1, <2>2, <2>3
  <1>10. Tiles(after)
    <2> SUFFICES ASSUME NEW c \in DOMAIN after
                 PROVE  /\ after[c].next = NULL => End(after, c) = HeapSize
                        /\ after[c].next # NULL => /\ after[c].next = End(after, c)
                                                   /\ End(after, c) \in DOMAIN after
                        /\ \A e \in DOMAIN after : c < e => End(after, c) <= e
      BY DEF Tiles
    <2>1. CASE c = a
      <3>1. after[a].next = next /\ (next = NULL => End(heap, b) = HeapSize)
        BY <1>4, <1>5 DEF Tiles, next
      <3>2. \A e \in DOMAIN after : a < e => b < e
        <4> SUFFICES ASSUME NEW e \in DOMAIN after, a < e
                     PROVE  b < e
          OBVIOUS
        <4>1. b <= e /\ e # b
          BY <1>2, <1>4 DEF Tiles
        <4> QED BY <1>1, <1>4, <4>1
      <3>3. \A e \in DOMAIN after : b < e => End(heap, b) <= e
        BY <1>4 DEF Tiles
      <3> QED BY <1>3, <1>4, <1>8, <2>1, <3>1, <3>2, <3>3
    <2>2. CASE c # a
      <3>1. End(after, c) = End(heap, c) /\ after[c].next = heap[c].next /\ c \in DOMAIN heap
        BY <1>4, <1>9, <2>2
      <3> QED BY <1>4, <1>14, <2>2, <3>1 DEF Tiles
    <2> QED BY <2>1, <2>2
  <1>11. \A c \in DOMAIN after : End(after, c) >= End(heap, c)
    <2>1. End(heap, b) >= End(heap, a)
      BY <1>1, <1>2
    <2> QED BY <1>1, <1>4, <1>8, <1>9, <2>1
  <1>12. \A c \in DOMAIN after : after[c].used = heap[c].used /\ after[c].data = heap[c].data
    BY <1>2, <1>4, <1>5, <1>6
  <1>13. \A c \in DOMAIN after \ {next} : after[c].prev = heap[c].prev
    BY <1>4, <1>5
  <1>15. next # NULL => next \in DOMAIN after /\ after[next].prev = a
    BY <1>4, <1>6
  <1>16. a # b /\ after[a].next = next
    BY <1>1, <1>2, <1>4, <1>5
  <1>17. DOMAIN after = DOMAIN heap \ {b}
    BY <1>4
  <1>18. IsCombination(heap, a, b, after)
    BY <1>7, <1>9, <1>10, <1>11, <1>12, <1>13, <1>14, <1>15, <1>16, <1>17 DEF IsCombination, next
  <1> QED BY <1>18 DEF after

-----------------------------------------------------------------------------
(* kmalloc.                                                                *)

(* The block that is given away, after the split if there is one: what is  *)
(* left of it is large enough, and the other blocks are as they were.      *)
AfterSplit(b, r) == IF IsSplit(b, r) THEN Split(b, SizeFor(b, r)) ELSE block

LEMMA AfterSplitFacts ==
    ASSUME IsHeap(block), Tiles(block), NEW b \in DOMAIN block, NEW r \in Request, Fits(b, r)
    PROVE  LET after == AfterSplit(b, r)
           IN  /\ IsHeap(after) /\ Tiles(after)
               /\ DOMAIN block \subseteq DOMAIN after
               /\ b + HeaderSize + SizeFor(b, r) <= End(after, b)
               /\ after[b].used = FALSE /\ after[b].prev = block[b].prev
               /\ \A c \in DOMAIN block \ {b} : after[c] = block[c] /\ End(after, c) = End(block, c)
               /\ \A c \in DOMAIN after \ DOMAIN block : after[c].used = FALSE
  <1> DEFINE size == SizeFor(b, r)
  <1>1. /\ b \in Nat /\ block[b] \in BlockType /\ block[b].size \in Nat
        /\ block[b].used = FALSE /\ block[b].size >= size
    BY BlockFacts DEF Fits, BlockType
  <1>2. size \in Nat
    BY <1>1, SizeIsEnough
  <1>3. CASE IsSplit(b, r)
    <2>1. size + HeaderSize <= block[b].size
      BY <1>1, <1>2, <1>3, HeapAssumption DEF IsSplit
    <2> DEFINE rest == b + HeaderSize + size
               after == Split(b, size)
               cut == [block[b] EXCEPT !.size = size, !.next = rest]
               new == [size |-> block[b].size - size - HeaderSize, used |-> FALSE,
                       prev |-> b, next |-> block[b].next, data |-> rest + HeaderSize]
    <2> HIDE DEF size
    <2>7. /\ DOMAIN after = DOMAIN block \cup {rest} /\ rest \notin DOMAIN block
          /\ IsHeap(after) /\ Tiles(after) /\ End(after, b) = rest
          /\ after[rest] = new /\ after[b] = cut
          /\ \A c \in DOMAIN block \ {b} : after[c] = block[c]
      BY <1>2, <2>1, SplitTiles, Zenon
    <2>2. /\ DOMAIN after = DOMAIN block \cup {rest} /\ rest \notin DOMAIN block
          /\ IsHeap(after) /\ Tiles(after) /\ End(after, b) = rest
          /\ after[rest].used = FALSE /\ after[b] = cut
          /\ \A c \in DOMAIN block \ {b} : after[c] = block[c]
      <3>1. new.used = FALSE
        OBVIOUS
      <3> HIDE DEF new, after, cut, rest
      <3> QED BY <2>7, <3>1
    <2>3. cut.used = FALSE /\ cut.prev = block[b].prev
      BY <1>1 DEF BlockType
    <2>4. rest <= End(after, b)
      BY <1>1, <1>2, <2>2, HeapAssumption
    <2> HIDE DEF after, cut
    <2>5. AfterSplit(b, r) = after
      BY <1>3 DEF AfterSplit, after, size
    <2>6. \A c \in DOMAIN block \ {b} : End(after, c) = End(block, c)
      BY <2>2 DEF End
    <2> QED BY <2>2, <2>3, <2>4, <2>5, <2>6 DEF size
  <1>4. CASE ~IsSplit(b, r)
    <2>1. AfterSplit(b, r) = block
      BY <1>4 DEF AfterSplit
    <2>2. b + HeaderSize + size <= End(block, b)
      BY <1>1, <1>2, HeapAssumption DEF End
    <2> QED BY <1>1, <2>1, <2>2
  <1> QED BY <1>3, <1>4

LEMMA MallocPieces ==
    ASSUME HeapInv, NEW r \in Request, Malloc(r)
    PROVE  IsHeap(block') /\ Tiles(block') /\ Pieces(block', allocated')
  <1>1. ~broken /\ IsHeap(block) /\ Tiles(block) /\ Pieces(block, allocated)
    BY DEF Malloc, HeapInv
  <1>2. PICK b \in DOMAIN block :
           /\ Fits(b, r)
           /\ LET data == Align(b + HeaderSize, r.align)
                  after == IF IsSplit(b, r) THEN Split(b, SizeFor(b, r)) ELSE block
              IN  /\ block' = [after EXCEPT ![b].used = TRUE, ![b].data = data]
                  /\ allocated' = allocated \cup
                                      {[data |-> data, size |-> r.size, align |-> r.align]}
    BY DEF Malloc
  <1> DEFINE data == Align(b + HeaderSize, r.align)
             after == AfterSplit(b, r)
             new == [data |-> data, size |-> r.size, align |-> r.align]
  <1>3. /\ IsHeap(after) /\ Tiles(after)
        /\ DOMAIN block \subseteq DOMAIN after
        /\ b + HeaderSize + SizeFor(b, r) <= End(after, b)
        /\ \A c \in DOMAIN block \ {b} : after[c] = block[c] /\ End(after, c) = End(block, c)
        /\ \A c \in DOMAIN after \ DOMAIN block : after[c].used = FALSE
    BY <1>1, <1>2, AfterSplitFacts
  <1>4. block' = [after EXCEPT ![b].used = TRUE, ![b].data = data]
        /\ allocated' = allocated \cup {new}
    BY <1>2 DEF AfterSplit
  <1>5. b \in Nat /\ block[b].used = FALSE /\ after[b] \in BlockType /\ End(after, b) \in Nat
    BY <1>1, <1>2, <1>3, BlockFacts DEF Fits, BlockType
  <1>6. /\ SizeFor(b, r) \in Nat /\ data \in Nat /\ data % r.align = 0
        /\ data >= b + HeaderSize /\ data + r.size <= b + HeaderSize + SizeFor(b, r)
        /\ r.size \in Nat \ {0} /\ r.align \in Nat \ {0}
    BY <1>5, SizeIsEnough, HeapAssumption
  <1>7. new \in PieceType /\ new.data = data /\ new.size = r.size /\ new.align = r.align
    BY <1>6 DEF PieceType
  <1> DEFINE given == [after[b] EXCEPT !.used = TRUE, !.data = data]
  <1>8. given \in BlockType /\ given.used = TRUE /\ given.data = data
        /\ given.size = after[b].size /\ given.next = after[b].next
    BY <1>5, <1>6 DEF BlockType
  <1> HIDE DEF after, new, data
  <1>9. block' = [after EXCEPT ![b] = given]
    BY <1>4
  <1> HIDE DEF given
  <1>10. /\ block' \in [DOMAIN after -> BlockType]
         /\ block'[b] = given
         /\ \A c \in DOMAIN after \ {b} : block'[c] = after[c]
    <2>1. after \in [DOMAIN after -> BlockType] /\ b \in DOMAIN after
      BY <1>2, <1>3 DEF IsHeap
    <2> QED BY <1>8, <1>9, <2>1
  <1>11. /\ IsHeap(block') /\ Tiles(block') /\ DOMAIN block' = DOMAIN after
         /\ \A c \in DOMAIN after : End(block', c) = End(after, c)
    <2>1. \A c \in DOMAIN after : block'[c].size = after[c].size /\ block'[c].next = after[c].next
      BY <1>8, <1>10
    <2> QED BY <1>3, <1>10, <2>1, SameTiles
  <1>12. HoldsIn(block', b, new)
    <2>1. data + r.size <= End(block', b)
      <3>1. End(block', b) = End(after, b)
        BY <1>2, <1>3, <1>11
      <3> QED BY <1>3, <1>5, <1>6, <3>1, HeapAssumption
    <2> QED BY <1>6, <1>7, <1>8, <1>10, <2>1 DEF HoldsIn
  <1>13. \A c \in DOMAIN block \ {b} : \A a : HoldsIn(block, c, a) <=> HoldsIn(block', c, a)
    BY <1>3, <1>10, <1>11 DEF HoldsIn
  <1>14. \A a \in allocated : \E c \in DOMAIN block \ {b} : HoldsIn(block', c, a)
    BY <1>1, <1>5, <1>13 DEF Pieces, HoldsIn
  <1>15. \A c \in DOMAIN block' : block'[c].used => \E a \in allocated' : HoldsIn(block', c, a)
    <2> SUFFICES ASSUME NEW c \in DOMAIN block', block'[c].used
                 PROVE  \E a \in allocated' : HoldsIn(block', c, a)
      OBVIOUS
    <2>1. CASE c = b
      BY <1>4, <1>12, <2>1
    <2>2. CASE c # b
      <3>1. c \in DOMAIN block \ {b} /\ block[c].used
        BY <1>3, <1>10, <1>11, <2>2
      <3> QED BY <1>1, <1>4, <1>13, <3>1 DEF Pieces
    <2> QED BY <2>1, <2>2
  <1>16. \A a \in allocated : a.data # data
    <2> SUFFICES ASSUME NEW a \in allocated, a.data = data
                 PROVE  FALSE
      OBVIOUS
    <2>1. PICK c \in DOMAIN block \ {b} : HoldsIn(block', c, a)
      BY <1>14
    <2>2. a \in PieceType
      BY <1>1 DEF Pieces
    <2>3. b \in DOMAIN block' /\ c \in DOMAIN block' /\ c \in Nat
          /\ End(block', b) \in Nat /\ End(block', c) \in Nat
      BY <1>2, <1>3, <1>11, BlockFacts
    <2>4. c <= data /\ data < End(block', c)
      BY <2>1, <2>2, <2>3, HeapAssumption DEF HoldsIn, PieceType
    <2>5. b <= data /\ data < End(block', b)
      <3>1. data + r.size <= End(block', b)
        BY <1>7, <1>12 DEF HoldsIn
      <3> QED BY <1>5, <1>6, <2>3, <3>1, HeapAssumption
    <2> QED BY <1>6, <1>11, <2>3, <2>4, <2>5, OneBlock
  <1>17. Pieces(block', allocated')
    <2>1. allocated' \subseteq PieceType
      BY <1>1, <1>4, <1>7 DEF Pieces
    <2>2. \A a \in allocated' : \E c \in DOMAIN block' : HoldsIn(block', c, a)
      <3> SUFFICES ASSUME NEW a \in allocated'
                   PROVE  \E c \in DOMAIN block' : HoldsIn(block', c, a)
        OBVIOUS
      <3>1. DOMAIN block \subseteq DOMAIN block' /\ b \in DOMAIN block'
        BY <1>2, <1>3, <1>11
      <3>2. CASE a \in allocated
        BY <1>14, <3>1, <3>2
      <3>3. CASE a = new
        BY <1>12, <3>1, <3>3
      <3> QED BY <1>4, <3>2, <3>3
    <2>3. \A a, e \in allocated' : a.data = e.data => a = e
      BY <1>1, <1>4, <1>7, <1>16 DEF Pieces
    <2> QED BY <1>15, <2>1, <2>2, <2>3 DEF Pieces
  <1> QED BY <1>11, <1>17

(* As long as only the last block is split, prev stays the inverse of next. *)
LEMMA MallocLinks ==
    ASSUME HeapInv, NEW r \in Request, Malloc(r), ~inserted'
    PROVE  ~broken' /\ Linked(block') /\ Combined(block')
  <1>1. PICK b \in DOMAIN block :
           /\ Fits(b, r)
           /\ LET data == Align(b + HeaderSize, r.align)
                  after == IF IsSplit(b, r) THEN Split(b, SizeFor(b, r)) ELSE block
              IN  block' = [after EXCEPT ![b].used = TRUE, ![b].data = data]
           /\ inserted' = (inserted \/ (IsSplit(b, r) /\ block[b].next # NULL))
    BY DEF Malloc
  <1>2. /\ ~inserted /\ ~broken /\ ~broken' /\ IsHeap(block) /\ Tiles(block)
        /\ Linked(block) /\ Combined(block)
        /\ IsSplit(b, r) => block[b].next = NULL
    BY <1>1 DEF Malloc, HeapInv
  <1>3. /\ b \in Nat /\ b < HeapSize /\ b # NULL /\ block[b] \in BlockType /\ block[b].used = FALSE
        /\ NULL \notin DOMAIN block
    BY <1>1, <1>2, BlockFacts, HeapAssumption DEF NULL, Fits, BlockType
  <1> DEFINE data == Align(b + HeaderSize, r.align)
             after == AfterSplit(b, r)
             given == [after[b] EXCEPT !.used = TRUE, !.data = data]
  <1>4. IsHeap(after) /\ DOMAIN block \subseteq DOMAIN after /\ after[b] \in BlockType
    BY <1>1, <1>2, AfterSplitFacts, BlockFacts
  <1>5. /\ DOMAIN block' = DOMAIN after
        /\ block'[b].used = TRUE /\ block'[b].next = after[b].next /\ block'[b].prev = after[b].prev
        /\ \A c \in DOMAIN after \ {b} : block'[c] = after[c]
    <2>1. block' = [after EXCEPT ![b] = given]
      BY <1>1 DEF AfterSplit
    <2>2. given.used = TRUE /\ given.next = after[b].next /\ given.prev = after[b].prev
      BY <1>4 DEF BlockType
    <2> HIDE DEF after, given
    <2> QED BY <1>1, <1>4, <2>1, <2>2
  <1> HIDE DEF after
  <1>6. CASE ~IsSplit(b, r)
    <2>1. after = block
      BY <1>6 DEF after, AfterSplit
    <2>2. /\ \A c \in DOMAIN block : block'[c].next = block[c].next /\ block'[c].prev = block[c].prev
          /\ \A c \in DOMAIN block : block[c].used => block'[c].used
      BY <1>5, <2>1
    <2>3. Linked(block')
      BY <1>2, <1>5, <2>1, <2>2, BlockFacts DEF Linked, Tiles
    <2>4. Combined(block')
      BY <1>2, <1>5, <2>1, <2>2 DEF Combined, Apart, Tiles
    <2> QED BY <1>2, <2>3, <2>4
  <1>7. CASE IsSplit(b, r)
    <2> DEFINE size == SizeFor(b, r)
               rest == b + HeaderSize + size
               new == [size |-> block[b].size - size - HeaderSize, used |-> FALSE,
                       prev |-> b, next |-> block[b].next, data |-> rest + HeaderSize]
               cut == [block[b] EXCEPT !.size = size, !.next = rest]
    <2>1. size \in Nat /\ size + HeaderSize <= block[b].size
      <3>1. size \in Nat /\ block[b].size \in Nat
        BY <1>3, SizeIsEnough DEF BlockType
      <3> HIDE DEF size
      <3> QED BY <1>7, <3>1, HeapAssumption DEF IsSplit, size
    <2>2. after = Split(b, size)
      BY <1>7 DEF after, AfterSplit
    <2> HIDE DEF size
    <2>3. /\ DOMAIN after = DOMAIN block \cup {rest} /\ rest \notin DOMAIN block
          /\ after[rest] = new
          /\ after[b] = cut
          /\ \A c \in DOMAIN block \ {b} : after[c] = block[c]
      BY <1>1, <1>2, <2>1, <2>2, SplitTiles, Zenon
    <2>4. cut.next = rest /\ cut.prev = block[b].prev /\ new.prev = b /\ new.next = NULL
      BY <1>2, <1>3, <1>7 DEF BlockType
    <2>5. block[b].next = NULL
      BY <1>2, <1>7
    <2>6. rest # NULL
      BY <1>4, <2>3, HeapAssumption DEF IsHeap, Address, NULL
    <2> HIDE DEF new, cut, rest
    <2>7. /\ block'[b].next = rest /\ block'[b].prev = block[b].prev
          /\ block'[rest].prev = b /\ block'[rest].next = NULL
          /\ \A c \in DOMAIN block \ {b} : block'[c] = block[c]
          /\ DOMAIN block' = DOMAIN block \cup {rest}
      BY <1>1, <1>5, <2>3, <2>4
    <2>8. \A c \in DOMAIN block : block[c].next # NULL => block[c].next \in DOMAIN block
      BY <1>2 DEF Tiles
    <2>9. Linked(block')
      BY <1>2, <1>3, <2>3, <2>5, <2>6, <2>7, <2>8 DEF Linked
    <2>10. Combined(block')
      BY <1>2, <1>5, <2>3, <2>5, <2>7, <2>8 DEF Combined, Apart
    <2> QED BY <1>2, <2>9, <2>10
  <1> QED BY <1>6, <1>7

-----------------------------------------------------------------------------
(* kfree.                                                                  *)

(* A block that holds nothing may be combined. *)
LEMMA CombinePieces ==
    ASSUME NEW heap, IsHeap(heap), Tiles(heap), NEW held, Pieces(heap, held),
           NEW a \in DOMAIN heap, NEW b \in DOMAIN heap, Precedes(heap, a, b), ~heap[b].used
    PROVE  Pieces(Combine(heap, a, b), held)
  <1> DEFINE after == Combine(heap, a, b)
  <1>1. /\ DOMAIN after = DOMAIN heap \ {b}
        /\ \A c \in DOMAIN after : /\ after[c].used = heap[c].used
                                   /\ after[c].data = heap[c].data
                                   /\ End(after, c) >= End(heap, c)
    BY CombineFacts DEF IsCombination
  <1>2. IsHeap(after) /\ Tiles(after)
    BY CombineFacts DEF IsCombination
  <1> HIDE DEF after
  <1>3. \A c \in DOMAIN after : \A e \in held : HoldsIn(heap, c, e) => HoldsIn(after, c, e)
    <2> SUFFICES ASSUME NEW c \in DOMAIN after, NEW e \in held, HoldsIn(heap, c, e)
                 PROVE  HoldsIn(after, c, e)
      OBVIOUS
    <2>1. e.data + e.size \in Nat
      BY DEF Pieces, PieceType
    <2>2. End(heap, c) \in Nat /\ End(after, c) \in Nat
      BY <1>1, <1>2, BlockFacts
    <2> QED BY <1>1, <2>1, <2>2 DEF HoldsIn
  <1>4. \A e \in held : \E c \in DOMAIN after : HoldsIn(after, c, e)
    BY <1>1, <1>3 DEF Pieces, HoldsIn
  <1>5. \A c \in DOMAIN after : after[c].used => \E e \in held : HoldsIn(after, c, e)
    BY <1>1, <1>3 DEF Pieces
  <1> QED BY <1>4, <1>5 DEF Pieces, after

LEMMA CombineLinks ==
    ASSUME NEW heap, IsHeap(heap), Tiles(heap), Linked(heap),
           NEW a \in DOMAIN heap, NEW b \in DOMAIN heap, Precedes(heap, a, b)
    PROVE  Linked(Combine(heap, a, b))
  <1> DEFINE after == Combine(heap, a, b)
             next == heap[b].next
  <1>1. /\ DOMAIN after = DOMAIN heap \ {b} /\ a \in DOMAIN after
        /\ after[a].next = next
        /\ next # NULL => next \in DOMAIN after /\ after[next].prev = a
        /\ \A c \in DOMAIN after \ {a} : after[c].next = heap[c].next /\ heap[c].next # b
        /\ \A c \in DOMAIN after \ {next} : after[c].prev = heap[c].prev
    BY CombineFacts DEF IsCombination
  <1>2. heap[b].prev = a
    BY BlockFacts DEF Linked, Precedes
  <1> HIDE DEF after
  <1> SUFFICES ASSUME NEW c \in DOMAIN after
               PROVE  /\ after[c].next # NULL => after[after[c].next].prev = c
                      /\ after[c].prev # NULL => /\ after[c].prev \in DOMAIN after
                                                 /\ after[after[c].prev].next = c
    BY DEF Linked, after
  <1>3. after[c].next # NULL => after[after[c].next].prev = c
    <2>1. CASE c = a
      BY <1>1, <2>1
    <2>2. CASE c # a
      <3>1. ASSUME heap[c].next # NULL
            PROVE  /\ heap[heap[c].next].prev = c /\ heap[c].next \in DOMAIN after
        BY <1>1, <2>2, <3>1 DEF Linked, Tiles
      <3>2. heap[c].next # NULL => heap[c].next # next
        <4>1. heap[c].next # NULL /\ heap[c].next = next => c = b
          BY <1>1, <3>1 DEF Linked
        <4> QED BY <1>1, <4>1
      <3> QED BY <1>1, <2>2, <3>1, <3>2
    <2> QED BY <2>1, <2>2
  <1>4. after[c].prev # NULL => after[c].prev \in DOMAIN after /\ after[after[c].prev].next = c
    <2>1. CASE c = next
      BY <1>1, <2>1, BlockFacts
    <2>2. CASE c # next
      <3>1. after[c].prev = heap[c].prev /\ c \in DOMAIN heap /\ c # b
        BY <1>1, <2>2
      <3>2. heap[c].prev # NULL => /\ heap[c].prev \in DOMAIN heap
                                   /\ heap[heap[c].prev].next = c
        BY <3>1 DEF Linked
      <3>3. heap[c].prev # NULL => heap[c].prev # b /\ heap[c].prev # a
        BY <2>2, <3>1, <3>2 DEF Precedes
      <3> QED BY <1>1, <3>1, <3>2, <3>3
    <2> QED BY <2>1, <2>2
  <1> QED BY <1>3, <1>4

(* Which neighbours stay apart. *)
LEMMA CombineApart ==
    ASSUME NEW heap, IsHeap(heap), Tiles(heap),
           NEW a \in DOMAIN heap, NEW b \in DOMAIN heap, Precedes(heap, a, b)
    PROVE  LET after == Combine(heap, a, b)
               next == heap[b].next
           IN  /\ \A c \in DOMAIN after \ {a} : Apart(heap, c) => Apart(after, c)
               /\ (next # NULL => heap[next].used) => Apart(after, a)
  <1> DEFINE after == Combine(heap, a, b)
             next == heap[b].next
  <1>5. IsCombination(heap, a, b, after)
    BY CombineFacts
  <1> HIDE DEF after
  <1>1. /\ DOMAIN after = DOMAIN heap \ {b} /\ a \in DOMAIN after
        /\ \A c \in DOMAIN after : after[c].used = heap[c].used
        /\ after[a].next = next
        /\ next # NULL => next \in DOMAIN after
        /\ \A c \in DOMAIN after \ {a} : after[c].next = heap[c].next /\ heap[c].next # b
    BY <1>5 DEF IsCombination
  <1> HIDE DEF next
  <1>2. (next # NULL => heap[next].used) => Apart(after, a)
    BY <1>1 DEF Apart
  <1>3. \A c \in DOMAIN after \ {a} : heap[c].next # NULL => heap[c].next \in DOMAIN after
    BY <1>1 DEF Tiles
  <1>4. \A c \in DOMAIN after \ {a} : Apart(heap, c) => Apart(after, c)
    BY <1>1, <1>3 DEF Apart
  <1> QED BY <1>2, <1>4 DEF after, next

(* kfree in two steps: the block is free and combined with the next one,   *)
(* then with the previous one.                                             *)
Freed(b) == [block EXCEPT ![b].used = FALSE]

WithNext(b) == LET next == block[b].next
               IN  IF next # NULL /\ ~block[next].used THEN Combine(Freed(b), b, next) ELSE Freed(b)

LEMMA FreedFacts ==
    ASSUME IsHeap(block), Tiles(block), NEW b \in DOMAIN block
    PROVE  /\ DOMAIN Freed(b) = DOMAIN block /\ IsHeap(Freed(b)) /\ Tiles(Freed(b))
           /\ Freed(b)[b].used = FALSE
           /\ \A c \in DOMAIN block : /\ Freed(b)[c].next = block[c].next
                                      /\ Freed(b)[c].prev = block[c].prev
                                      /\ End(Freed(b), c) = End(block, c)
           /\ \A c \in DOMAIN block \ {b} : Freed(b)[c] = block[c]
  <1> DEFINE free == [block[b] EXCEPT !.used = FALSE]
  <1>1. block[b] \in BlockType
    BY BlockFacts
  <1>2. free \in BlockType /\ /\ free.used = FALSE /\ free.next = block[b].next
                              /\ free.prev = block[b].prev /\ free.size = block[b].size
    BY <1>1 DEF BlockType
  <1>3. Freed(b) = [block EXCEPT ![b] = free]
    BY DEF Freed
  <1> HIDE DEF free
  <1>4. Freed(b) \in [DOMAIN block -> BlockType]
    <2>1. block \in [DOMAIN block -> BlockType]
      BY DEF IsHeap
    <2> QED BY <1>2, <1>3, <2>1
  <1>5. \A c \in DOMAIN block : /\ Freed(b)[c].next = block[c].next
                                /\ Freed(b)[c].prev = block[c].prev
                                /\ Freed(b)[c].size = block[c].size
    BY <1>2, <1>3
  <1>6. \A c \in DOMAIN block : End(Freed(b), c) = End(block, c)
    BY <1>5 DEF End
  <1>7. IsHeap(Freed(b)) /\ Tiles(Freed(b))
    BY <1>4, <1>5, SameTiles
  <1> QED BY <1>2, <1>3, <1>4, <1>5, <1>6, <1>7

(* What is freed is the piece that the block held, and no other. *)
LEMMA FreedPieces ==
    ASSUME IsHeap(block), Tiles(block), Pieces(block, allocated),
           NEW a \in allocated, NEW b \in DOMAIN block, block[b].used, block[b].data = a.data
    PROVE  Pieces(Freed(b), allocated \ {a})
  <1>1. /\ DOMAIN Freed(b) = DOMAIN block
        /\ Freed(b)[b].used = FALSE
        /\ \A c \in DOMAIN block : End(Freed(b), c) = End(block, c)
        /\ \A c \in DOMAIN block \ {b} : Freed(b)[c] = block[c]
    BY FreedFacts
  <1>2. HoldsIn(block, b, a)
    BY DEF Pieces, HoldsIn
  <1>3. \A e \in allocated \ {a} : e.data # a.data
    BY DEF Pieces
  <1>4. \A c \in DOMAIN block \ {b} : \A e : HoldsIn(block, c, e) <=> HoldsIn(Freed(b), c, e)
    BY <1>1 DEF HoldsIn
  <1>5. \A e \in allocated \ {a} : \E c \in DOMAIN block : HoldsIn(Freed(b), c, e)
    BY <1>3, <1>4 DEF Pieces, HoldsIn
  <1>6. ASSUME NEW c \in DOMAIN block, Freed(b)[c].used
        PROVE  \E e \in allocated \ {a} : HoldsIn(Freed(b), c, e)
    <2>1. c # b /\ block[c].used
      BY <1>1, <1>6
    <2>2. PICK e \in allocated : HoldsIn(block, c, e)
      BY <2>1 DEF Pieces
    <2>3. e # a
      <3> SUFFICES ASSUME e = a
                   PROVE  FALSE
        OBVIOUS
      <3>1. a \in PieceType
        BY DEF Pieces
      <3>2. /\ b \in Nat /\ c \in Nat /\ End(block, b) \in Nat /\ End(block, c) \in Nat
        BY BlockFacts
      <3>3. /\ b <= a.data /\ a.data < End(block, b) /\ a.data \in Nat
            /\ c <= a.data /\ a.data < End(block, c)
        BY <1>2, <2>2, <3>1, <3>2, HeapAssumption DEF HoldsIn, PieceType
      <3> QED BY <2>1, <3>2, <3>3, OneBlock
    <2> QED BY <1>4, <2>1, <2>2, <2>3
  <1> QED BY <1>1, <1>5, <1>6 DEF Pieces

(* The block and the one behind it. *)
LEMMA WithNextFacts ==
    ASSUME IsHeap(block), Tiles(block), NEW b \in DOMAIN block, NEW held, Pieces(Freed(b), held)
    PROVE  /\ IsHeap(WithNext(b)) /\ Tiles(WithNext(b)) /\ Pieces(WithNext(b), held)
           /\ b \in DOMAIN WithNext(b)
           /\ WithNext(b)[b].used = FALSE /\ WithNext(b)[b].prev = block[b].prev
           /\ \A c \in DOMAIN block : block[c].next = b => /\ c \in DOMAIN WithNext(b)
                                                           /\ WithNext(b)[c].next = b
                                                           /\ WithNext(b)[c].used = block[c].used
  <1> DEFINE next == block[b].next
             freed == Freed(b)
  <1>1. /\ DOMAIN freed = DOMAIN block /\ IsHeap(freed) /\ Tiles(freed)
        /\ freed[b].used = FALSE
        /\ \A c \in DOMAIN block : freed[c].next = block[c].next /\ freed[c].prev = block[c].prev
        /\ \A c \in DOMAIN block \ {b} : freed[c] = block[c]
    BY FreedFacts
  <1>2. b # block[b].next /\ \A c \in DOMAIN block : block[c].next = b => c # b
    BY BlockFacts DEF Tiles
  <1> HIDE DEF freed
  <1>3. CASE next # NULL /\ ~block[next].used
    <2>1. next \in DOMAIN freed /\ Precedes(freed, b, next) /\ ~freed[next].used
      BY <1>1, <1>2, <1>3 DEF Precedes, Tiles
    <2>2. WithNext(b) = Combine(freed, b, next)
      BY <1>3 DEF WithNext, freed
    <2>3. IsCombination(freed, b, next, WithNext(b))
      BY <1>1, <2>1, <2>2, CombineFacts
    <2>4. Pieces(WithNext(b), held)
      BY <1>1, <2>1, <2>2, CombinePieces DEF freed
    <2>5. /\ DOMAIN WithNext(b) = DOMAIN freed \ {next}
          /\ IsHeap(WithNext(b)) /\ Tiles(WithNext(b))
          /\ \A c \in DOMAIN WithNext(b) : WithNext(b)[c].used = freed[c].used
          /\ \A c \in DOMAIN WithNext(b) \ {b} : WithNext(b)[c].next = freed[c].next
          /\ \A c \in DOMAIN WithNext(b) \ {freed[next].next} : WithNext(b)[c].prev = freed[c].prev
      BY <2>3 DEF IsCombination
    <2>6. freed[next].next # b /\ \A c \in DOMAIN block : block[c].next = b => c # next
      <3>1. \A c \in DOMAIN block : /\ c \in Nat
                                    /\ block[c].next # NULL => block[c].next \in DOMAIN block
                                                               /\ c < block[c].next
        BY BlockFacts DEF Tiles
      <3>2. b # NULL
        BY BlockFacts
      <3>3. next \in DOMAIN block /\ b < next /\ freed[next].next = block[next].next
        BY <1>1, <1>3, <2>1, <3>1
      <3>4. block[next].next # b
        <4>1. block[next].next # NULL => next < block[next].next
          BY <3>1, <3>3
        <4>2. b \in Nat /\ next \in Nat
          BY <3>1, <3>3
        <4> HIDE DEF next
        <4> QED BY <3>2, <3>3, <4>1, <4>2
      <3> QED BY <3>3, <3>4
    <2> QED BY <1>1, <1>2, <2>4, <2>5, <2>6
  <1>4. CASE ~(next # NULL /\ ~block[next].used)
    <2>1. WithNext(b) = freed
      BY <1>4 DEF WithNext, freed
    <2> QED BY <1>1, <1>2, <2>1 DEF freed
  <1> QED BY <1>3, <1>4

(* kfree keeps the blocks that tile the heap, and the other pieces. *)
LEMMA FreeKeeps ==
    ASSUME IsHeap(block), Tiles(block), NEW b \in DOMAIN block, ~PrevIsWrong(b),
           NEW held, Pieces(Freed(b), held)
    PROVE  IsHeap(Free(b)) /\ Tiles(Free(b)) /\ Pieces(Free(b), held)
  <1> DEFINE prev == block[b].prev
             heap == WithNext(b)
  <1>1. /\ IsHeap(heap) /\ Tiles(heap) /\ Pieces(heap, held)
        /\ b \in DOMAIN heap /\ heap[b].used = FALSE
        /\ \A c \in DOMAIN block : block[c].next = b => c \in DOMAIN heap /\ heap[c].next = b
    BY WithNextFacts
  <1> HIDE DEF heap
  <1>2. CASE prev # NULL /\ ~block[prev].used
    <2>1. prev \in DOMAIN heap /\ Precedes(heap, prev, b)
      BY <1>1, <1>2 DEF PrevIsWrong, Precedes
    <2>2. Free(b) = Combine(heap, prev, b)
      BY <1>2 DEF Free, WithNext, Freed, heap
    <2>3. IsCombination(heap, prev, b, Free(b))
      BY <1>1, <2>1, <2>2, CombineFacts
    <2>4. Pieces(Free(b), held)
      BY <1>1, <2>1, <2>2, CombinePieces
    <2> QED BY <2>3, <2>4 DEF IsCombination
  <1>3. CASE ~(prev # NULL /\ ~block[prev].used)
    <2>1. Free(b) = heap
      BY <1>3 DEF Free, WithNext, Freed, heap
    <2> QED BY <1>1, <2>1
  <1> QED BY <1>2, <1>3

(* While prev leads to the neighbour, kfree leaves no two free neighbours. *)
LEMMA FreeLinks ==
    ASSUME IsHeap(block), Tiles(block), Linked(block), Combined(block),
           NEW b \in DOMAIN block, block[b].used, NEW held, Pieces(Freed(b), held)
    PROVE  ~PrevIsWrong(b) /\ Linked(Free(b)) /\ Combined(Free(b))
  <1> DEFINE next == block[b].next
             prev == block[b].prev
             freed == Freed(b)
             heap == WithNext(b)
  <1>1. prev # NULL => prev \in DOMAIN block /\ block[prev].next = b
    BY DEF Linked
  <1>2. ~PrevIsWrong(b)
    BY <1>1 DEF PrevIsWrong
  <1>3. /\ DOMAIN freed = DOMAIN block /\ IsHeap(freed) /\ Tiles(freed)
        /\ freed[b].used = FALSE
        /\ \A c \in DOMAIN block : freed[c].next = block[c].next /\ freed[c].prev = block[c].prev
        /\ \A c \in DOMAIN block \ {b} : freed[c] = block[c]
    BY FreedFacts
  <1>4. /\ IsHeap(heap) /\ Tiles(heap)
        /\ b \in DOMAIN heap /\ heap[b].used = FALSE /\ heap[b].prev = prev
        /\ \A c \in DOMAIN block : block[c].next = b => c \in DOMAIN heap /\ heap[c].next = b
                                                        /\ heap[c].used = block[c].used
    BY WithNextFacts
  <1>5. b # next
    BY BlockFacts DEF Tiles
  <1>6. \A c \in DOMAIN block : block[c].next # NULL => block[c].next \in DOMAIN block
    BY DEF Tiles
  <1>7. NULL \notin DOMAIN block
    BY BlockFacts
  <1>8. Free(b) = IF prev # NULL /\ ~block[prev].used THEN Combine(heap, prev, b) ELSE heap
    BY DEF Free, WithNext, Freed
  <1>9. heap = IF next # NULL /\ ~block[next].used THEN Combine(freed, b, next) ELSE freed
    BY DEF WithNext
  <1> HIDE DEF freed, heap, next, prev
  <1>10. Linked(freed)
    BY <1>3, <1>6 DEF Linked
  <1>11. \A c \in DOMAIN freed : c # b /\ freed[c].next # b => Apart(freed, c)
    <2> SUFFICES ASSUME NEW c \in DOMAIN freed, c # b, freed[c].next # b, freed[c].next # NULL
                 PROVE  freed[c].used \/ freed[freed[c].next].used
      BY DEF Apart
    <2>1. block[c].next # NULL /\ block[c].next \in DOMAIN block \ {b} /\ c \in DOMAIN block \ {b}
      BY <1>3, <1>6
    <2>2. block[c].used \/ block[block[c].next].used
      BY <2>1 DEF Combined, Apart
    <2> QED BY <1>3, <2>1, <2>2
  <1>12. Linked(heap) /\ \A c \in DOMAIN heap : heap[c].next # b => Apart(heap, c)
    <2>1. CASE next # NULL /\ ~block[next].used
      <3>1. next \in DOMAIN freed /\ Precedes(freed, b, next)
        BY <1>3, <1>6, <2>1 DEF Precedes, next
      <3>2. heap = Combine(freed, b, next)
        BY <1>9, <2>1
      <3>3. Linked(heap)
        BY <1>3, <1>10, <3>1, <3>2, CombineLinks
      <3>4. IsCombination(freed, b, next, heap)
        BY <1>3, <3>1, <3>2, CombineFacts
      <3>5. /\ DOMAIN heap = DOMAIN freed \ {next}
            /\ \A c \in DOMAIN heap \ {b} : heap[c].next = freed[c].next
        BY <3>4 DEF IsCombination
      <3>6. /\ \A c \in DOMAIN heap \ {b} : Apart(freed, c) => Apart(heap, c)
            /\ (freed[next].next # NULL => freed[freed[next].next].used) => Apart(heap, b)
        BY <1>3, <3>1, <3>2, <3>5, CombineApart
      <3>7. freed[next].next # NULL => freed[freed[next].next].used
        <4>1. freed[next].next # b
          <5>1. \A c \in DOMAIN freed : /\ c \in Nat
                                        /\ freed[c].next # NULL => c < freed[c].next
            BY <1>3, BlockFacts DEF Tiles
          <5>2. freed[b].next = next /\ b # NULL /\ next # NULL /\ b \in DOMAIN freed
            BY <1>3, <1>7, <2>1 DEF next
          <5>3. b < next /\ b \in Nat /\ next \in Nat
            BY <3>1, <5>1, <5>2
          <5>4. freed[next].next = b => next < b
            BY <3>1, <5>1, <5>2
          <5> QED BY <5>3, <5>4
        <4>2. Apart(freed, next) /\ freed[next].used = FALSE
          <5>1. block[next].used = FALSE
            <6>1. block[next] \in BlockType
              BY <1>3, <3>1, BlockFacts
            <6> QED BY <2>1, <6>1 DEF BlockType
          <5> QED BY <1>3, <1>5, <1>11, <3>1, <4>1, <5>1
        <4> QED BY <4>2 DEF Apart
      <3> QED BY <1>3, <1>11, <3>3, <3>5, <3>6, <3>7
    <2>2. CASE ~(next # NULL /\ ~block[next].used)
      <3>1. heap = freed
        BY <1>9, <2>2
      <3>2. Apart(freed, b)
        BY <1>3, <1>5, <1>6, <2>2 DEF Apart, next
      <3> QED BY <1>10, <1>11, <3>1, <3>2
    <2> QED BY <2>1, <2>2
  <1>13. CASE prev # NULL /\ ~block[prev].used
    <2>1. prev \in DOMAIN heap /\ Precedes(heap, prev, b)
      BY <1>1, <1>4, <1>13 DEF Precedes
    <2>2. Free(b) = Combine(heap, prev, b)
      BY <1>8, <1>13
    <2>3. Linked(Free(b))
      BY <1>4, <1>12, <2>1, <2>2, CombineLinks
    <2>4. IsCombination(heap, prev, b, Free(b))
      BY <1>4, <2>1, <2>2, CombineFacts
    <2>5. /\ DOMAIN Free(b) = DOMAIN heap \ {b}
          /\ \A c \in DOMAIN Free(b) \ {prev} : heap[c].next # b
      BY <2>4 DEF IsCombination
    <2>6. /\ \A c \in DOMAIN Free(b) \ {prev} : Apart(heap, c) => Apart(Free(b), c)
          /\ (heap[b].next # NULL => heap[heap[b].next].used) => Apart(Free(b), prev)
      BY <1>4, <2>1, <2>2, CombineApart
    <2>7. heap[b].next # NULL => heap[heap[b].next].used
      <3>1. heap[b].next # b
        BY <1>4, BlockFacts DEF Tiles
      <3> QED BY <1>4, <1>12, <3>1 DEF Apart
    <2>8. Combined(Free(b))
      BY <1>12, <2>5, <2>6, <2>7 DEF Combined
    <2> QED BY <1>2, <2>3, <2>8
  <1>14. CASE ~(prev # NULL /\ ~block[prev].used)
    <2>1. Free(b) = heap
      BY <1>8, <1>14
    <2>2. ASSUME NEW c \in DOMAIN heap, heap[c].next = b
          PROVE  Apart(heap, c)
      <3>1. c = prev /\ prev # NULL
        BY <1>4, <1>12, <2>2, BlockFacts DEF Linked
      <3> QED BY <1>1, <1>4, <1>14, <3>1 DEF Apart
    <2>3. Combined(heap)
      BY <1>12, <2>2 DEF Combined
    <2> QED BY <1>2, <1>12, <2>1, <2>3
  <1> QED BY <1>13, <1>14

-----------------------------------------------------------------------------
(* The invariant and what follows from it.                                 *)

LEMMA HeapInit == Init => HeapInv
  <1> SUFFICES ASSUME Init
               PROVE  HeapInv
    OBVIOUS
  <1> DEFINE first == [size |-> HeapSize - HeaderSize, used |-> FALSE,
                       prev |-> NULL, next |-> NULL, data |-> HeaderSize]
  <1>1. /\ HeapSize - HeaderSize \in Nat /\ NULL \in Nat /\ HeaderSize \in Nat /\ HeapSize \in Nat
        /\ HeaderSize + (HeapSize - HeaderSize) = HeapSize
        /\ 0 \in Address /\ NULL = HeapSize
    BY HeapAssumption DEF NULL, Address
  <1>2. first \in BlockType
    BY <1>1 DEF BlockType
  <1>3. /\ block = [b \in {0} |-> first] /\ allocated = {} /\ inserted = FALSE /\ broken = FALSE
    BY DEF Init, start_block
  <1>4. first.next = NULL /\ first.prev = NULL /\ first.used = FALSE
        /\ first.size = HeapSize - HeaderSize
    OBVIOUS
  <1> HIDE DEF first
  <1>5. DOMAIN block = {0} /\ block[0] = first
    BY <1>3
  <1>6. IsHeap(block)
    BY <1>1, <1>2, <1>3 DEF IsHeap
  <1>7. Tiles(block)
    BY <1>1, <1>4, <1>5 DEF Tiles, End
  <1>8. Pieces(block, allocated)
    BY <1>3, <1>4, <1>5 DEF Pieces
  <1>9. Linked(block) /\ Combined(block)
    BY <1>4, <1>5 DEF Linked, Combined, Apart
  <1> QED BY <1>3, <1>6, <1>7, <1>8, <1>9 DEF HeapInv

LEMMA MallocKeeps == ASSUME HeapInv, NEW r \in Request, Malloc(r) PROVE HeapInv'
  <1>1. IsHeap(block') /\ Tiles(block') /\ Pieces(block', allocated')
    BY MallocPieces
  <1>2. ~inserted' => ~broken' /\ Linked(block') /\ Combined(block')
    BY MallocLinks
  <1>3. inserted' \in BOOLEAN /\ broken' \in BOOLEAN
    BY DEF Malloc, HeapInv
  <1> QED BY <1>1, <1>2, <1>3 DEF HeapInv

LEMMA KfreeKeeps == ASSUME HeapInv, NEW a \in allocated, Kfree(a) PROVE HeapInv'
  <1>1. ~broken /\ IsHeap(block) /\ Tiles(block) /\ Pieces(block, allocated)
    BY DEF Kfree, HeapInv
  <1>2. PICK b \in DOMAIN block :
           /\ block[b].used /\ block[b].data = a.data
           /\ broken' = PrevIsWrong(b)
           /\ block' = IF PrevIsWrong(b) THEN block ELSE Free(b)
    BY DEF Kfree
  <1>3. allocated' = allocated \ {a} /\ inserted' = inserted
    BY DEF Kfree
  <1>4. Pieces(Freed(b), allocated')
    BY <1>1, <1>2, <1>3, FreedPieces
  <1>5. IsHeap(block') /\ (~broken' => Tiles(block') /\ Pieces(block', allocated'))
    <2>1. CASE PrevIsWrong(b)
      BY <1>1, <1>2, <2>1
    <2>2. CASE ~PrevIsWrong(b)
      BY <1>1, <1>2, <1>4, <2>2, FreeKeeps
    <2> QED BY <2>1, <2>2
  <1>6. ~inserted' => ~broken' /\ Linked(block') /\ Combined(block')
    <2> SUFFICES ASSUME ~inserted
                 PROVE  ~broken' /\ Linked(block') /\ Combined(block')
      BY <1>3
    <2>1. Linked(block) /\ Combined(block)
      BY DEF HeapInv
    <2> QED BY <1>1, <1>2, <1>4, <2>1, FreeLinks
  <1>7. inserted' \in BOOLEAN /\ broken' \in BOOLEAN
    BY <1>2, <1>3 DEF HeapInv, PrevIsWrong
  <1> QED BY <1>5, <1>6, <1>7 DEF HeapInv

(* Whatever is asked for and freed, the headers in memory describe the     *)
(* heap, until kfree follows a prev pointer that a split left stale.       *)
THEOREM HeapInvariant == Spec => []HeapInv
  <1>1. Init => HeapInv
    BY HeapInit
  <1>2. HeapInv /\ [Next]_vars => HeapInv'
    <2> SUFFICES ASSUME HeapInv, [Next]_vars
                 PROVE  HeapInv'
      OBVIOUS
    <2>1. ASSUME NEW r \in Request, Malloc(r)
          PROVE  HeapInv'
      BY <2>1, MallocKeeps
    <2>2. ASSUME NEW a \in allocated, Kfree(a)
          PROVE  HeapInv'
      BY <2>2, KfreeKeeps
    <2>3. CASE UNCHANGED vars
      BY <2>3 DEF HeapInv, vars
    <2> QED BY <2>1, <2>2, <2>3 DEF Next
  <1> QED BY <1>1, <1>2, PTL DEF Spec

(* No word of the heap is lost, or in two blocks, through all splits and   *)
(* combinations of kmalloc.c.                                              *)
THEOREM HeapTiles == Spec => []BlocksTile
  <1>1. HeapInv => BlocksTile
    <2> SUFFICES ASSUME HeapInv, ~broken, NEW b \in DOMAIN block
                 PROVE  IF block[b].next = NULL THEN EndOf(b) = HeapSize
                        ELSE block[b].next = EndOf(b) /\ EndOf(b) \in DOMAIN block
      BY DEF BlocksTile
    <2>1. Tiles(block) /\ EndOf(b) = End(block, b)
      BY DEF HeapInv, End, EndOf
    <2> QED BY <2>1 DEF Tiles
  <1> QED BY <1>1, HeapInvariant, PTL

(* Pieces of memory lie in used blocks, one in each. *)
LEMMA OnePieceEach ==
    ASSUME HeapInv, ~broken
    PROVE  Cardinality({b \in DOMAIN block : block[b].used}) = Cardinality(allocated)
  <1> DEFINE taken == {b \in DOMAIN block : block[b].used}
             held[b \in taken] == CHOOSE a \in allocated : HoldsIn(block, b, a)
  <1>1. IsHeap(block) /\ Tiles(block) /\ Pieces(block, allocated)
    BY DEF HeapInv
  <1>2. \A b \in taken : held[b] \in allocated /\ HoldsIn(block, b, held[b])
    BY <1>1 DEF Pieces
  <1>3. held \in [taken -> allocated]
    BY <1>2
  <1>4. \A b, c \in taken : held[b] = held[c] => b = c
    <2> SUFFICES ASSUME NEW b \in taken, NEW c \in taken, held[b] = held[c]
                 PROVE  b = c
      OBVIOUS
    <2> DEFINE a == held[b]
    <2>1. HoldsIn(block, b, a) /\ HoldsIn(block, c, a) /\ a \in allocated
      BY <1>2
    <2>2. b \in DOMAIN block /\ c \in DOMAIN block
      OBVIOUS
    <2>3. b \in Nat /\ c \in Nat /\ End(block, b) \in Nat /\ End(block, c) \in Nat
      BY <1>1, <2>2, BlockFacts
    <2> HIDE DEF a, taken, held
    <2>4. /\ b <= a.data /\ a.data < End(block, b) /\ a.data \in Nat
          /\ c <= a.data /\ a.data < End(block, c)
      BY <1>1, <2>1, <2>3, HeapAssumption DEF HoldsIn, PieceType, Pieces
    <2> QED BY <1>1, <2>2, <2>3, <2>4, OneBlock
  <1>5. \A a \in allocated : \E b \in taken : held[b] = a
    <2> SUFFICES ASSUME NEW a \in allocated
                 PROVE  \E b \in taken : held[b] = a
      OBVIOUS
    <2>1. PICK b \in taken : HoldsIn(block, b, a)
      BY <1>1 DEF Pieces, HoldsIn
    <2>2. held[b].data = a.data /\ held[b] \in allocated
      BY <1>2, <2>1 DEF HoldsIn
    <2> HIDE DEF held, taken
    <2> QED BY <1>1, <2>1, <2>2 DEF Pieces
  <1>6. IsFiniteSet(taken)
    <2>1. IsFiniteSet(0..(HeapSize - 1))
      BY FS_Interval, HeapAssumption
    <2>2. taken \subseteq 0..(HeapSize - 1)
      BY <1>1 DEF IsHeap, Address
    <2> QED BY <2>1, <2>2, FS_Subset
  <1> HIDE DEF held, taken
  <1>7. held \in Bijection(taken, allocated)
    BY <1>3, <1>4, <1>5 DEF Bijection, Injection, Surjection, IsInjective
  <1>8. ExistsBijection(taken, allocated)
    BY <1>7 DEF ExistsBijection
  <1>9. Cardinality(taken) = Cardinality(allocated)
    BY <1>6, <1>8, FS_Bijection
  <1> QED BY <1>9 DEF taken

(* What kmalloc gave away is not given away again, nor forgotten, before   *)
(* it is freed.                                                            *)
THEOREM HeapHoldsPieces == Spec => []PiecesHaveBlocks
  <1>1. HeapInv => PiecesHaveBlocks
    <2> SUFFICES ASSUME HeapInv, ~broken
                 PROVE  /\ \A a \in allocated : \E b \in DOMAIN block : Holds(b, a)
                        /\ Cardinality({b \in DOMAIN block : block[b].used})
                               = Cardinality(allocated)
      BY DEF PiecesHaveBlocks
    <2>1. Pieces(block, allocated)
      BY DEF HeapInv
    <2>2. \A b \in DOMAIN block : \A a : HoldsIn(block, b, a) => Holds(b, a)
      BY DEF Holds, HoldsIn, End, EndOf
    <2>3. \A a \in allocated : \E b \in DOMAIN block : Holds(b, a)
      BY <2>1, <2>2 DEF Pieces
    <2> QED BY <2>3, OnePieceEach
  <1> QED BY <1>1, HeapInvariant, PTL

(* Until a block in the middle is split, freeing combines what is free.    *)
THEOREM HeapIsCombined == Spec => []FreeIsCombined
  <1>1. HeapInv => FreeIsCombined
    BY DEF HeapInv, FreeIsCombined, Linked, Combined, Apart
  <1> QED BY <1>1, HeapInvariant, PTL
=============================================================================

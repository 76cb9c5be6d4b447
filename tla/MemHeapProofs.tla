--------------------------- MODULE MemHeapProofs ---------------------------
(***************************************************************************)
(* Proofs about MemHeap for every heap and every set of requests of at     *)
(* least two bytes: first where blocks lie and how they are linked, then   *)
(* that free ones are joined and no byte is lost, last that MemHeap keeps  *)
(* the promise of HeapSpec.                                                *)
(***************************************************************************)
EXTENDS MCMemHeap, TLAPS

(* The program asks for at least two bytes, so that with its size word a   *)
(* block can carry the four bytes of a free one.                           *)
NoTinyRequest == \A n \in Requests : n >= 2

(* The list is well formed: it starts at the dummy block and every next    *)
(* field names a listed block or NULL.                                     *)
ListType ==
    /\ DOMAIN next \subseteq DOMAIN size /\ DOMAIN size \subseteq Start .. End
    /\ Start \in DOMAIN next /\ size[Start] = 0
    /\ \A b \in DOMAIN size : size[b] \in Nat
    /\ \A b \in DOMAIN next : next[b] \in FreeBlocks \cup {Null}

(* What the registers of the call under way mean.                          *)
CallInv ==
    /\ pc \in {"rest", "loop", "search", "join", "joinprev"}
    /\ again \in Requests \cup {0}
    /\ held \subseteq Blocks /\ held \cap DOMAIN next = {}
    /\ pc = "loop" =>
          /\ bc \in Nat /\ bc >= Header
          /\ hl \in DOMAIN next \cup {Null}
          /\ hl \in FreeBlocks => temp \in DOMAIN next /\ next[temp] = hl
    /\ pc = "search" =>
          /\ bc \in Blocks /\ bc \notin held /\ bc \notin DOMAIN next
          /\ hl \in DOMAIN next /\ hl < bc
    /\ pc = "join" => bc \in FreeBlocks /\ hl \in DOMAIN next /\ next[hl] = bc
    /\ pc = "joinprev" => hl \in DOMAIN next

(* The inductive invariant of the heap.                                    *)
HeapInv == ListType /\ Disjoint /\ Sorted /\ CallInv

(* The constants as the provers need them; a request plus its size word    *)
(* does not wrap.                                                          *)
LEMMA Consts ==
    /\ Start \in Nat /\ Start > 0 /\ Length \in Nat /\ Length >= 8
    /\ Top \in Nat /\ End = Start + Length /\ End < Top
    /\ Header = 4 /\ Null = 0
    /\ \A n \in Requests : n \in Nat /\ n >= 1 /\ (n + 2) % Top = n + 2
BY HeapAssumption DEF End, Header, Null

(* Addresses of blocks as numbers, and the dummy below all of them.        *)
LEMMA BlockFacts ==
    ASSUME ListType, Disjoint
    PROVE  /\ \A b \in DOMAIN size : b \in Nat /\ b >= Start /\ b <= End
           /\ \A b \in Blocks : b > Start /\ b # Null
           /\ FreeBlocks \subseteq Blocks /\ Start \notin Blocks
BY Consts DEF ListType, Disjoint, Blocks, FreeBlocks

(* The heap starts well formed.                                            *)
LEMMA InitInv == Init => HeapInv
<1> SUFFICES ASSUME Init PROVE HeapInv
  OBVIOUS
<1>1. Blocks = {Start + 4} /\ FreeBlocks = {Start + 4}
  BY Consts DEF Init, Blocks, FreeBlocks
<1>2. /\ size[Start] = 0 /\ size[Start + 4] = Length - 4
      /\ next[Start] = Start + 4 /\ next[Start + 4] = Null
      /\ DOMAIN size = {Start, Start + 4} /\ DOMAIN next = {Start, Start + 4}
  BY Consts DEF Init
<1>3. ListType
  BY <1>1, <1>2, Consts DEF ListType
<1>4. Disjoint
  BY <1>1, <1>2, Consts DEF Disjoint
<1>5. Sorted
  BY <1>1, <1>2, Consts DEF Sorted
<1>6. CallInv
  BY DEF Init, CallInv
<1> QED BY <1>3, <1>4, <1>5, <1>6 DEF HeapInv

(* Starting a call and walking the list leave the heap as it is.           *)
LEMMA WalkStep ==
    ASSUME NoTinyRequest, HeapInv,
           \/ \E n \in Requests : Alloc(n)
           \/ \E b \in held, n \in Requests \cup {0} : Free(b, n)
           \/ OutOfMemory \/ TooSmall \/ Search
    PROVE  HeapInv'
<1> USE DEF HeapInv
<1>1. UNCHANGED <<size, next>>
  BY DEF Alloc, Free, OutOfMemory, TooSmall, Search
<1>2. ListType' /\ Disjoint' /\ Sorted'
  BY <1>1 DEF ListType, Disjoint, Sorted, Blocks, FreeBlocks
<1>3. CallInv'
  <2>1. ASSUME NEW n \in Requests, Alloc(n) PROVE CallInv'
    BY <2>1, Consts DEF Alloc, CallInv, Blocks, FreeBlocks, NoTinyRequest, ListType
  <2>2. ASSUME NEW b \in held, NEW n \in Requests \cup {0}, Free(b, n) PROVE CallInv'
    BY <2>2, Consts, BlockFacts DEF Free, CallInv, Blocks, FreeBlocks, ListType
  <2>3. CASE OutOfMemory
    BY <2>3 DEF OutOfMemory, Return, CallInv, Blocks, FreeBlocks
  <2>4. CASE TooSmall
    BY <2>4, Consts DEF TooSmall, CallInv, Blocks, FreeBlocks, ListType
  <2>5. CASE Search
    BY <2>5, Consts DEF Search, Before, CallInv, Blocks, FreeBlocks, ListType
  <2> QED BY <2>1, <2>2, <2>3, <2>4, <2>5
<1> QED BY <1>2, <1>3

(* A block the allocation loop stops at is a free one, never the dummy:    *)
(* a request and its size word are at least four bytes.                    *)
LEMMA LoopBlock ==
    ASSUME HeapInv, pc = "loop", hl # Null, size[hl] >= bc
    PROVE  /\ hl \in FreeBlocks /\ hl \in Blocks /\ hl \in DOMAIN next
           /\ temp \in DOMAIN next /\ next[temp] = hl /\ temp < hl /\ temp # hl
           /\ bc \in Nat /\ bc >= 4
<1>1. hl \in DOMAIN next /\ bc \in Nat /\ bc >= 4
  BY Consts DEF HeapInv, CallInv
<1>2. hl # Start
  BY <1>1, Consts DEF HeapInv, ListType
<1>3. hl \in FreeBlocks /\ temp \in DOMAIN next /\ next[temp] = hl
  BY <1>1, <1>2 DEF HeapInv, CallInv, FreeBlocks
<1>4. temp < hl
  BY <1>3 DEF HeapInv, Sorted
<1>5. temp \in Nat /\ hl \in Nat
  BY <1>1, <1>3, BlockFacts DEF HeapInv, ListType
<1> QED BY <1>1, <1>3, <1>4, <1>5, BlockFacts DEF HeapInv

(* Carving the tail off a free block keeps the rest listed in its place.   *)
LEMMA TakeTailStep ==
    ASSUME HeapInv, TakeTail
    PROVE  HeapInv'
<1> DEFINE rest == size[hl] - bc
           new == hl + rest
<1>1. /\ hl \in FreeBlocks /\ hl \in Blocks /\ hl \in DOMAIN next
      /\ bc \in Nat /\ bc >= 4
  BY LoopBlock DEF TakeTail
<1>2. /\ size[hl] \in Nat /\ rest \in Nat /\ rest >= 4 /\ rest + bc = size[hl]
      /\ hl \in Nat /\ new \in Nat /\ new > hl /\ new + bc = hl + size[hl]
      /\ hl + size[hl] <= End /\ hl >= Start + 4
  BY <1>1, BlockFacts, Consts DEF TakeTail, HeapInv, ListType, Disjoint, Blocks
<1>3. new \notin DOMAIN size /\ new # Start
  BY <1>1, <1>2, BlockFacts, Consts DEF HeapInv, Disjoint, Blocks, ListType
<1>4. /\ DOMAIN size' = DOMAIN size \cup {new}
      /\ size'[new] = bc /\ size'[hl] = rest
      /\ \A b \in DOMAIN size : b # hl => size'[b] = size[b]
      /\ next' = next
  BY <1>1, <1>2, <1>3 DEF TakeTail, With, Blocks
<1>5. Blocks' = Blocks \cup {new} /\ FreeBlocks' = FreeBlocks
  BY <1>3, <1>4 DEF Blocks, FreeBlocks
<1>10. held' = held \cup {new} /\ pc' = "rest" /\ again' = 0
  BY DEF TakeTail, Return
<1> HIDE DEF rest, new
<1>6. ListType'
  BY <1>1, <1>2, <1>4, <1>5, Consts, BlockFacts DEF HeapInv, ListType, Blocks
<1>7. Disjoint'
  <2>1. \A b \in Blocks : b # hl => b + size[b] <= hl \/ hl + size[hl] <= b
    BY <1>1, <1>2, BlockFacts DEF HeapInv, Disjoint, ListType, Blocks
  <2>2. \A b \in Blocks : b # hl => /\ size'[b] = size[b] /\ b \in Nat
                                    /\ size[b] \in Nat /\ size[b] >= 4
    BY <1>4, BlockFacts, Consts DEF HeapInv, Disjoint, ListType, Blocks
  <2> QED BY <1>1, <1>2, <1>4, <1>5, <2>1, <2>2, Consts DEF HeapInv, Disjoint
<1>8. Sorted'
  BY <1>4, <1>5 DEF HeapInv, Sorted
<1>9. CallInv'
  <2>1. new \notin DOMAIN next
    BY <1>3 DEF HeapInv, ListType
  <2> QED BY <1>4, <1>5, <1>10, <2>1 DEF HeapInv, CallInv
<1> QED BY <1>6, <1>7, <1>8, <1>9 DEF HeapInv

(* Taking a whole block links the one before it to the one after it.       *)
LEMMA TakeWholeStep ==
    ASSUME HeapInv, TakeWhole
    PROVE  HeapInv'
<1>1. /\ hl \in FreeBlocks /\ hl \in Blocks /\ hl \in DOMAIN next
      /\ temp \in DOMAIN next /\ next[temp] = hl /\ temp < hl /\ temp # hl
  BY LoopBlock DEF TakeWhole
<1>2. /\ DOMAIN next' = DOMAIN next \ {hl}
      /\ next'[temp] = next[hl]
      /\ \A b \in DOMAIN next : b # hl /\ b # temp => next'[b] = next[b]
      /\ size' = size
  BY <1>1 DEF TakeWhole, Without
<1>3. Blocks' = Blocks /\ FreeBlocks' = FreeBlocks \ {hl}
  BY <1>2 DEF Blocks, FreeBlocks
<1>4. \A b \in DOMAIN next : b \in Nat /\ next[b] \in Nat /\ b # Null
  BY BlockFacts, Consts DEF HeapInv, ListType, FreeBlocks
<1>5. \A b \in DOMAIN next : b # temp => next[b] # hl
  BY <1>1, <1>4, BlockFacts, Consts DEF HeapInv, Sorted, FreeBlocks, ListType
<1>6. next[hl] # hl /\ next[hl] \in FreeBlocks \cup {Null}
  BY <1>1, <1>4, BlockFacts DEF HeapInv, Sorted, ListType
<1>7. ListType'
  BY <1>1, <1>2, <1>3, <1>5, <1>6 DEF HeapInv, ListType, FreeBlocks
<1>8. Disjoint'
  BY <1>2, <1>3 DEF HeapInv, Disjoint
<1>9. Sorted'
  <2> SUFFICES ASSUME NEW a \in DOMAIN next'
               PROVE  /\ next'[a] # Null => next'[a] > a
                      /\ \A f \in FreeBlocks' : f > a => next'[a] # Null /\ next'[a] <= f
    BY DEF Sorted
  <2>1. CASE a = temp
    BY <1>1, <1>2, <1>3, <1>4, <2>1 DEF HeapInv, Sorted, FreeBlocks
  <2>2. CASE a # temp
    BY <1>1, <1>2, <1>3, <1>4, <2>2 DEF HeapInv, Sorted, FreeBlocks
  <2> QED BY <2>1, <2>2
<1>10. CallInv'
  BY <1>1, <1>2, <1>3 DEF TakeWhole, Return, HeapInv, CallInv
<1> QED BY <1>7, <1>8, <1>9, <1>10 DEF HeapInv

(* Linking a freed block in where the search stopped keeps the order.      *)
LEMMA LinkPrevStep ==
    ASSUME HeapInv, LinkPrev
    PROVE  HeapInv'
<1>1. /\ bc \in Blocks /\ bc \notin DOMAIN next /\ bc \notin held
      /\ hl \in DOMAIN next /\ hl < bc /\ ~Before(next[hl])
  BY DEF LinkPrev, HeapInv, CallInv
<1>2. \A b \in DOMAIN next : b \in Nat /\ next[b] \in Nat /\ b # Null
  BY BlockFacts, Consts DEF HeapInv, ListType, FreeBlocks
<1>3. bc \in Nat /\ bc # Null /\ bc # hl /\ bc # Start
  BY <1>1, BlockFacts DEF HeapInv, Blocks
<1>4. /\ DOMAIN next' = DOMAIN next \cup {bc}
      /\ next'[hl] = bc /\ next'[bc] = next[hl]
      /\ \A b \in DOMAIN next : b # hl => next'[b] = next[b]
      /\ size' = size
  BY <1>1, <1>3 DEF LinkPrev, With
<1>5. Blocks' = Blocks /\ FreeBlocks' = FreeBlocks \cup {bc}
  BY <1>3, <1>4 DEF Blocks, FreeBlocks
<1>6. ListType'
  BY <1>1, <1>4, <1>5 DEF HeapInv, ListType, Blocks
<1>7. Disjoint'
  BY <1>4, <1>5 DEF HeapInv, Disjoint
<1>8. next[hl] = Null \/ next[hl] > bc
  <2>1. next[hl] # bc
    BY <1>1, <1>3 DEF HeapInv, ListType, FreeBlocks
  <2> QED BY <1>1, <1>2, <1>3, <2>1 DEF Before
<1>9. Sorted'
  <2> SUFFICES ASSUME NEW a \in DOMAIN next'
               PROVE  /\ next'[a] # Null => next'[a] > a
                      /\ \A f \in FreeBlocks' : f > a => next'[a] # Null /\ next'[a] <= f
    BY DEF Sorted
  <2>1. CASE a = hl
    BY <1>1, <1>2, <1>3, <1>4, <1>5, <1>8, <2>1 DEF HeapInv, Sorted, FreeBlocks
  <2>2. CASE a = bc
    BY <1>1, <1>2, <1>3, <1>4, <1>5, <1>8, <2>2 DEF HeapInv, Sorted, FreeBlocks
  <2>3. CASE a # hl /\ a # bc
    <3>1. a \in DOMAIN next /\ next'[a] = next[a]
      BY <1>4, <2>3
    <3>2. bc > a => next[a] # Null /\ next[a] <= bc
      <4> SUFFICES ASSUME bc > a PROVE next[a] # Null /\ next[a] <= bc
        OBVIOUS
      <4>1. CASE a < hl
        <5>1. hl \in FreeBlocks
          BY <1>1, <1>2, <3>1, <4>1, BlockFacts DEF HeapInv, FreeBlocks, ListType
        <5> QED BY <1>1, <1>2, <1>3, <3>1, <4>1, <5>1 DEF HeapInv, Sorted
      <4>2. CASE a > hl
        <5>1. a \in FreeBlocks
          BY <1>1, <1>2, <3>1, <4>2, BlockFacts DEF HeapInv, FreeBlocks, ListType
        <5> QED BY <1>1, <1>2, <1>3, <1>8, <3>1, <4>2, <5>1 DEF HeapInv, Sorted
      <4> QED BY <1>1, <1>2, <2>3, <3>1, <4>1, <4>2
    <3> QED BY <1>5, <3>1, <3>2 DEF HeapInv, Sorted
  <2> QED BY <2>1, <2>2, <2>3
<1>10. CallInv'
  BY <1>1, <1>3, <1>4, <1>5 DEF LinkPrev, HeapInv, CallInv
<1> QED BY <1>6, <1>7, <1>9, <1>10 DEF HeapInv

(* Joining a listed block with the next one when they touch keeps a sorted *)
(* list of disjoint blocks; the dummy never touches its next.              *)
LEMMA JoinKeeps ==
    ASSUME HeapInv, NEW b \in DOMAIN next, JoinTest(b)
    PROVE  /\ ListType' /\ Disjoint' /\ Sorted'
           /\ DOMAIN next' \subseteq DOMAIN next /\ b \in DOMAIN next'
           /\ Blocks \ FreeBlocks = Blocks' \ FreeBlocks'
<1>1. CASE ~Joins(b)
  BY <1>1 DEF JoinTest, HeapInv, ListType, Disjoint, Sorted, Blocks, FreeBlocks
<1>2. CASE Joins(b)
  <2> DEFINE n == next[b]
  <2>1. \A a \in DOMAIN next : /\ a \in Nat /\ next[a] \in Nat /\ a # Null
                               /\ size[a] \in Nat
    BY BlockFacts, Consts DEF HeapInv, ListType, FreeBlocks
  <2>2. b + size[b] \in Nat /\ b + size[b] <= End /\ b + size[b] > 0
    BY <2>1, BlockFacts, Consts DEF HeapInv, ListType, Disjoint, Blocks
  <2>3. b + size[b] = n
    <3>1. (b + size[b]) % Top = b + size[b]
      BY <2>2, Consts
    <3> QED BY <3>1, <1>2 DEF Joins
  <2>4. /\ n \in FreeBlocks /\ n \in Blocks /\ n \in DOMAIN next
        /\ b \in FreeBlocks /\ b \in Blocks /\ n > b /\ n # b
    BY <2>1, <2>2, <2>3, BlockFacts, Consts
       DEF HeapInv, ListType, Disjoint, Blocks, FreeBlocks
  <2>5. /\ DOMAIN size' = DOMAIN size \ {n} /\ DOMAIN next' = DOMAIN next \ {n}
        /\ size'[b] = size[b] + size[n] /\ next'[b] = next[n]
        /\ \A a \in DOMAIN size : a # b /\ a # n => size'[a] = size[a]
        /\ \A a \in DOMAIN next : a # b /\ a # n => next'[a] = next[a]
    BY <1>2, <2>4 DEF JoinTest, Without, Blocks
  <2>6. Blocks' = Blocks \ {n} /\ FreeBlocks' = FreeBlocks \ {n}
    BY <2>5 DEF Blocks, FreeBlocks
  <2> HIDE DEF n
  <2>7. next[b] = n
    BY DEF n
  <2>8. \A a \in DOMAIN next : a # b => next[a] # n
    BY <2>1, <2>4, <2>7, BlockFacts, Consts DEF HeapInv, Sorted, FreeBlocks, ListType
  <2>9. next[n] # n /\ next[n] \in FreeBlocks \cup {Null}
    BY <2>1, <2>4 DEF HeapInv, Sorted, ListType
  <2>10. ListType'
    BY <2>1, <2>4, <2>5, <2>6, <2>8, <2>9, BlockFacts DEF HeapInv, ListType, FreeBlocks, Blocks
  <2>11. Disjoint'
    <3>1. \A a \in Blocks : a \in Nat /\ size[a] \in Nat
      BY BlockFacts DEF HeapInv, ListType, Blocks
    <3>2. size'[b] = size[b] + size[n] /\ b + size'[b] = n + size[n]
      BY <2>3, <2>4, <2>5, <3>1
    <3>3. \A a \in Blocks' : a # b => size'[a] = size[a] /\ a \in Blocks /\ a # n
      BY <2>5, <2>6 DEF Blocks
    <3>4. ASSUME NEW a \in Blocks', a # b, a > b PROVE b + size'[b] <= a
      BY <2>3, <2>4, <3>1, <3>2, <3>3, <3>4 DEF HeapInv, Disjoint
    <3> QED BY <2>4, <2>6, <3>1, <3>2, <3>3, <3>4, Consts DEF HeapInv, Disjoint
  <2>12. Sorted'
    <3> SUFFICES ASSUME NEW a \in DOMAIN next'
                 PROVE  /\ next'[a] # Null => next'[a] > a
                        /\ \A f \in FreeBlocks' : f > a => next'[a] # Null /\ next'[a] <= f
      BY DEF Sorted
    <3>1. CASE a = b
      BY <2>1, <2>4, <2>5, <2>6, <2>7, <2>9, <3>1 DEF HeapInv, Sorted, FreeBlocks
    <3>2. CASE a # b
      BY <2>1, <2>4, <2>5, <2>6, <2>8, <3>2 DEF HeapInv, Sorted
    <3> QED BY <3>1, <3>2
  <2> QED BY <2>4, <2>5, <2>6, <2>10, <2>11, <2>12
<1> QED BY <1>1, <1>2

(* Both joins of __MEM_FREE keep the heap and the registers in order: the  *)
(* block before the freed one survives the first join.                     *)
LEMMA JoinStep ==
    ASSUME NoTinyRequest, HeapInv, JoinNext \/ JoinPrev
    PROVE  HeapInv'
<1>1. CASE JoinNext
  <2>1. bc \in DOMAIN next /\ hl \in DOMAIN next /\ next[hl] = bc /\ JoinTest(bc)
    BY <1>1 DEF JoinNext, HeapInv, CallInv, FreeBlocks
  <2>2. hl \in DOMAIN next'
    <3>1. hl # next[bc] \/ next[bc] = Null
      <4>1. /\ bc \in FreeBlocks /\ bc # Null /\ bc \in Nat /\ hl \in Nat
            /\ next[bc] \in Nat
        BY <1>1, <2>1, BlockFacts, Consts
           DEF JoinNext, HeapInv, CallInv, ListType, FreeBlocks
      <4>2. hl < bc
        BY <2>1, <4>1 DEF HeapInv, Sorted
      <4>3. next[bc] # Null => bc < next[bc]
        BY <2>1 DEF HeapInv, Sorted
      <4> QED BY <4>1, <4>2, <4>3
    <3>2. hl # Null
      BY <2>1, BlockFacts, Consts DEF HeapInv, ListType
    <3> QED BY <2>1, <3>1, <3>2 DEF JoinTest, Without
  <2>3. /\ ListType' /\ Disjoint' /\ Sorted'
        /\ DOMAIN next' \subseteq DOMAIN next
        /\ Blocks \ FreeBlocks = Blocks' \ FreeBlocks'
    BY <2>1, JoinKeeps
  <2>4. CallInv'
    BY <1>1, <2>2, <2>3 DEF JoinNext, HeapInv, CallInv, FreeBlocks, Blocks
  <2> QED BY <2>3, <2>4 DEF HeapInv
<1>2. CASE JoinPrev
  <2>1. hl \in DOMAIN next /\ JoinTest(hl)
    BY <1>2 DEF JoinPrev, HeapInv, CallInv
  <2>2. /\ ListType' /\ Disjoint' /\ Sorted'
        /\ DOMAIN next' \subseteq DOMAIN next
        /\ Blocks \ FreeBlocks = Blocks' \ FreeBlocks'
    BY <2>1, JoinKeeps
  <2>3. again # 0 => (again + 2) % Top = again + 2 /\ again >= 2 /\ again \in Nat
    BY Consts DEF HeapInv, CallInv, NoTinyRequest
  <2>4. CallInv'
    BY <1>2, <2>2, <2>3, Consts DEF JoinPrev, HeapInv, CallInv, FreeBlocks, Blocks, ListType
  <2> QED BY <2>2, <2>4 DEF HeapInv
<1> QED BY <1>1, <1>2

(* Every step of every call keeps the inductive invariant.                 *)
LEMMA InvStep == NoTinyRequest /\ HeapInv /\ [Next]_vars => HeapInv'
<1> SUFFICES ASSUME NoTinyRequest, HeapInv, [Next]_vars PROVE HeapInv'
  OBVIOUS
<1>1. CASE UNCHANGED vars
  BY <1>1 DEF vars, HeapInv, ListType, Disjoint, Sorted, CallInv, Blocks, FreeBlocks
<1>2. CASE Next
  BY <1>2, WalkStep, TakeTailStep, TakeWholeStep, LinkPrevStep, JoinStep DEF Next
<1> QED BY <1>1, <1>2

(* No two blocks of the heap ever overlap, in the middle of a call either. *)
THEOREM BlocksDisjoint ==
    ASSUME NoTinyRequest PROVE Spec => []Disjoint
<1>1. HeapInv => Disjoint
  BY DEF HeapInv
<1> QED BY <1>1, InitInv, InvStep, PTL DEF Spec

(* The free list stays complete and in address order in every step.        *)
THEOREM FreeListSorted ==
    ASSUME NoTinyRequest PROVE Spec => []Sorted
<1>1. HeapInv => Sorted
  BY DEF HeapInv
<1> QED BY <1>1, InitInv, InvStep, PTL DEF Spec

----------------------------------------------------------------------------
(* Freed blocks are fully joined, no byte is lost and every variable keeps *)
(* its type.                                                               *)

(* Free blocks __MEM_FREE has still to test against their next.            *)
Untested ==
    IF pc = "join" THEN {hl, bc} ELSE IF pc = "joinprev" THEN {hl} ELSE {}

(* Every tested free block ends below its next.                            *)
GapInv == \A a \in FreeBlocks \ Untested : a + size[a] # next[a]

(* The block being freed is in nobody's hands until it is linked.          *)
Loose == IF pc = "search" THEN {bc} ELSE {}
Covered(x) == \E b \in Blocks : b <= x /\ x < b + size[b]
SpaceInv ==
    /\ Blocks = held \cup FreeBlocks \cup Loose
    /\ \A x \in Start + Header .. End - 1 : Covered(x)

(* Registers that are not in use are 0.                                    *)
RegisterInv ==
    /\ hl \in DOMAIN next \cup {Null} /\ temp \in DOMAIN next \cup {Null}
    /\ pc # "loop" => temp = Null
    /\ bc \in Nat /\ ret \in {None} \cup Nat

(* Addresses inside the heap do not wrap.                                  *)
LEMMA NoWrap == \A x \in Nat : x <= End => x % Top = x
BY Consts

(* What the well-formed heap says of one free block: its addresses are     *)
(* numbers and a next block starts at its end or above.                    *)
LEMMA FreeBlockFacts ==
    ASSUME HeapInv, NEW a \in FreeBlocks
    PROVE  /\ a \in Blocks /\ a \in DOMAIN next /\ a \in DOMAIN size /\ a \in Nat /\ a > Start
           /\ size[a] \in Nat /\ size[a] >= 4 /\ a + size[a] <= End
           /\ next[a] \in Nat /\ (next[a] # Null => next[a] \in FreeBlocks)
           /\ next[a] # Null => next[a] > a /\ a + size[a] <= next[a]
<1>1. a \in Blocks /\ a \in DOMAIN next /\ a \in DOMAIN size /\ a \in Nat /\ a > Start
  BY BlockFacts DEF HeapInv, FreeBlocks, Blocks
<1>2. size[a] \in Nat /\ size[a] >= 4 /\ a + size[a] <= End
  BY <1>1, Consts DEF HeapInv, ListType, Disjoint
<1>3. next[a] \in FreeBlocks \cup {Null}
  BY <1>1 DEF HeapInv, ListType
<1>4. next[a] # Null => next[a] > a /\ a + size[a] <= next[a]
  <2>1. next[a] # Null => next[a] > a /\ next[a] \in Blocks
    BY <1>1, <1>3, BlockFacts DEF HeapInv, Sorted
  <2> QED BY <1>1, <2>1 DEF HeapInv, Disjoint
<1>5. next[a] \in Nat
  BY <1>3, BlockFacts, Consts DEF HeapInv, Blocks
<1> QED BY <1>1, <1>2, <1>3, <1>4, <1>5

(* In a sorted list of disjoint blocks, two free blocks that touch are     *)
(* neighbours of the list.                                                 *)
LEMMA TouchingAreNeighbours ==
    ASSUME HeapInv, NEW a \in FreeBlocks, NEW b \in FreeBlocks, a + size[a] = b
    PROVE  next[a] = b
<1>1. /\ a \in DOMAIN next /\ a \in Nat /\ size[a] \in Nat /\ size[a] >= 4
      /\ next[a] \in Nat /\ (next[a] # Null => a + size[a] <= next[a])
  BY FreeBlockFacts
<1>2. b > a
  BY <1>1
<1>3. next[a] # Null /\ next[a] <= b
  BY <1>1, <1>2 DEF HeapInv, Sorted
<1> QED BY <1>1, <1>3

(* One join, of a block whose next is already tested, leaves that block    *)
(* tested as well.                                                         *)
LEMMA JoinTests ==
    ASSUME HeapInv, NEW b \in DOMAIN next, JoinTest(b),
           next[b] \in FreeBlocks => next[b] + size[next[b]] # next[next[b]]
    PROVE  /\ b \in FreeBlocks' => b + size'[b] # next'[b]
           /\ \A a \in FreeBlocks' : a # b => /\ a \in FreeBlocks
                                              /\ size'[a] = size[a] /\ next'[a] = next[a]
<1>0. \A a \in DOMAIN next : a \in DOMAIN size
  BY DEF HeapInv, ListType
<1>1. CASE Joins(b)
  <2> DEFINE n == next[b]
  <2>1. b \in FreeBlocks
    <3>1. b # Start
      <4>1. ASSUME b = Start PROVE FALSE
        <5>1. size[b] = 0 /\ b % Top = b
          BY <4>1, Consts DEF HeapInv, ListType
        <5>2. next[b] = b
          BY <1>1, <4>1, <5>1, Consts DEF Joins
        <5> QED BY <4>1, <5>2, Consts DEF HeapInv, Sorted
      <4> QED BY <4>1
    <3> QED BY <3>1 DEF FreeBlocks
  <2>2. /\ b \in Nat /\ size[b] \in Nat /\ b + size[b] <= End /\ b + size[b] > 0
        /\ n \in Nat /\ (n # Null => n \in FreeBlocks)
    BY <2>1, FreeBlockFacts, Consts
  <2>3. b + size[b] = n
    <3>1. (b + size[b]) % Top = b + size[b]
      <4>1. b + size[b] \in Nat
        BY <2>2
      <4> QED BY <2>2, <4>1, NoWrap
    <3> QED BY <1>1, <3>1 DEF Joins
  <2>4. n \in FreeBlocks /\ n # b /\ n \in DOMAIN next /\ size[n] \in Nat
    BY <2>1, <2>2, <2>3, FreeBlockFacts, Consts DEF FreeBlocks
  <2>5. /\ DOMAIN next' = DOMAIN next \ {n}
        /\ size'[b] = size[b] + size[n] /\ next'[b] = next[n]
        /\ \A a \in DOMAIN size : a # b /\ a # n => size'[a] = size[a]
        /\ \A a \in DOMAIN next : a # b /\ a # n => next'[a] = next[a]
    BY <1>0, <1>1, <2>4 DEF JoinTest, Without
  <2>6. b + size'[b] = n + size[n]
    BY <2>2, <2>3, <2>4, <2>5
  <2> QED BY <1>0, <2>4, <2>5, <2>6 DEF FreeBlocks
<1>2. CASE ~Joins(b)
  <2>1. size' = size /\ next' = next /\ FreeBlocks' = FreeBlocks
    BY <1>2 DEF JoinTest, FreeBlocks
  <2>2. b \in FreeBlocks => b + size[b] # next[b]
    <3> SUFFICES ASSUME b \in FreeBlocks PROVE b + size[b] # next[b]
      OBVIOUS
    <3>1. (b + size[b]) % Top = b + size[b]
      <4>1. b \in Nat /\ size[b] \in Nat /\ b + size[b] <= End
        BY FreeBlockFacts
      <4>2. b + size[b] \in Nat
        BY <4>1
      <4> QED BY <4>1, <4>2, NoWrap
    <3> QED BY <1>2, <3>1 DEF Joins
  <2> QED BY <2>1, <2>2
<1> QED BY <1>1, <1>2

(* Every step of every call keeps the tested blocks apart.                 *)
LEMMA GapStep ==
    ASSUME NoTinyRequest, HeapInv, GapInv, [Next]_vars
    PROVE  GapInv'
<1>1. CASE UNCHANGED vars
  BY <1>1 DEF vars, GapInv, Untested, FreeBlocks
<1>2. ASSUME \/ \E n \in Requests : Alloc(n)
             \/ \E b \in held, n \in Requests \cup {0} : Free(b, n)
             \/ OutOfMemory \/ TooSmall \/ Search
      PROVE  GapInv'
  BY <1>2 DEF Alloc, Free, OutOfMemory, TooSmall, Search, Return, GapInv, Untested, FreeBlocks
<1>3. CASE TakeTail
  <2> DEFINE rest == size[hl] - bc
  <2>1. hl \in FreeBlocks /\ bc \in Nat /\ bc >= 4
    BY <1>3, LoopBlock DEF TakeTail
  <2>2. hl \in DOMAIN size /\ hl \in Nat /\ size[hl] \in Nat
    BY <2>1, FreeBlockFacts
  <2>3. /\ FreeBlocks' = FreeBlocks /\ next' = next /\ size'[hl] = rest
        /\ \A a \in FreeBlocks : a # hl => size'[a] = size[a]
    <3>1. \A a \in FreeBlocks : a \in DOMAIN size
      BY FreeBlockFacts
    <3>2. rest \in Nat /\ rest >= 4 /\ rest < size[hl]
      BY <1>3, <2>1, <2>2, Consts DEF TakeTail
    <3>3. hl + rest \notin FreeBlocks
      <4>1. ASSUME hl + rest \in FreeBlocks PROVE FALSE
        <5>1. hl + rest \in Blocks /\ hl \in Blocks /\ hl < hl + rest
          BY <2>1, <2>2, <3>2, <4>1, FreeBlockFacts
        <5>2. hl + size[hl] <= hl + rest
          BY <5>1 DEF HeapInv, Disjoint
        <5> QED BY <2>2, <3>2, <5>2
      <4> QED BY <4>1
    <3> QED BY <1>3, <2>1, <2>2, <3>1, <3>2, <3>3 DEF TakeTail, With, FreeBlocks
  <2>4. hl + rest # next[hl]
    BY <1>3, <2>1, <2>2, FreeBlockFacts, Consts DEF TakeTail
  <2>5. Untested = {} /\ Untested' = {}
    BY <1>3 DEF TakeTail, Return, Untested
  <2> QED BY <2>1, <2>3, <2>4, <2>5 DEF GapInv
<1>4. CASE TakeWhole
  <2>1. hl \in FreeBlocks /\ temp \in DOMAIN next /\ next[temp] = hl /\ temp # hl
    BY <1>4, LoopBlock DEF TakeWhole
  <2>2. /\ FreeBlocks' = FreeBlocks \ {hl} /\ size' = size /\ next'[temp] = next[hl]
        /\ \A a \in FreeBlocks' : a # temp => next'[a] = next[a]
    BY <1>4, <2>1 DEF TakeWhole, Without, FreeBlocks
  <2>3. temp \in FreeBlocks => temp + size[temp] # next[hl]
    <3> SUFFICES ASSUME temp \in FreeBlocks PROVE temp + size[temp] # next[hl]
      OBVIOUS
    <3>1. temp \in Nat /\ size[temp] \in Nat /\ size[temp] >= 4
          /\ (hl # Null => temp + size[temp] <= hl)
      BY <2>1, FreeBlockFacts
    <3>2. hl \in Nat /\ hl # Null /\ next[hl] \in Nat /\ (next[hl] # Null => hl < next[hl])
      BY <2>1, FreeBlockFacts, Consts
    <3> QED BY <3>1, <3>2, Consts
  <2>4. Untested = {} /\ Untested' = {}
    BY <1>4 DEF TakeWhole, Return, Untested
  <2> QED BY <2>1, <2>2, <2>3, <2>4 DEF GapInv
<1>5. CASE LinkPrev
  <2>1. /\ hl \in DOMAIN next /\ bc \notin DOMAIN next
        /\ bc # Start
    BY <1>5 DEF LinkPrev, HeapInv, CallInv, Blocks
  <2>2. /\ FreeBlocks' = FreeBlocks \cup {bc} /\ size' = size
        /\ \A a \in FreeBlocks : a # hl => next'[a] = next[a]
    BY <1>5, <2>1 DEF LinkPrev, With, FreeBlocks
  <2>3. Untested = {} /\ Untested' = {hl, bc}
    BY <1>5 DEF LinkPrev, Untested
  <2> QED BY <2>2, <2>3 DEF GapInv
<1>6. CASE JoinNext
  <2>1. bc \in DOMAIN next /\ hl \in DOMAIN next /\ next[hl] = bc /\ JoinTest(bc)
        /\ bc \in FreeBlocks
    BY <1>6 DEF JoinNext, HeapInv, CallInv, FreeBlocks
  <2>2. hl < bc /\ hl \in Nat /\ bc \in Nat
    BY <2>1, FreeBlockFacts, BlockFacts, Consts DEF HeapInv, Sorted, ListType
  <2>3. next[bc] \in FreeBlocks => next[bc] \notin Untested
    <3> SUFFICES ASSUME next[bc] \in FreeBlocks PROVE next[bc] \notin {hl, bc}
      BY <1>6 DEF JoinNext, Untested
    <3>1. next[bc] > bc /\ next[bc] \in Nat
      BY <2>1, FreeBlockFacts, Consts
    <3> QED BY <2>2, <3>1
  <2>4. next[bc] \in FreeBlocks => next[bc] + size[next[bc]] # next[next[bc]]
    BY <2>3 DEF GapInv
  <2>5. /\ bc \in FreeBlocks' => bc + size'[bc] # next'[bc]
        /\ \A a \in FreeBlocks' : a # bc => /\ a \in FreeBlocks
                                            /\ size'[a] = size[a] /\ next'[a] = next[a]
    BY <2>1, <2>4, JoinTests
  <2>6. Untested = {hl, bc} /\ Untested' = {hl} /\ bc' = bc
    BY <1>6 DEF JoinNext, Untested
  <2> QED BY <2>5, <2>6 DEF GapInv
<1>7. CASE JoinPrev
  <2>1. hl \in DOMAIN next /\ JoinTest(hl)
    BY <1>7 DEF JoinPrev, HeapInv, CallInv
  <2>2. next[hl] \in FreeBlocks => next[hl] + size[next[hl]] # next[next[hl]]
    <3>1. next[hl] # Null => next[hl] > hl
      BY <2>1 DEF HeapInv, Sorted
    <3>2. hl \in Nat /\ \A f \in FreeBlocks : f # Null
      BY <2>1, BlockFacts DEF HeapInv, ListType
    <3>3. next[hl] \in FreeBlocks => next[hl] # hl
      BY <3>1, <3>2
    <3> QED BY <1>7, <3>3 DEF JoinPrev, Untested, GapInv
  <2>3. /\ hl \in FreeBlocks' => hl + size'[hl] # next'[hl]
        /\ \A a \in FreeBlocks' : a # hl => /\ a \in FreeBlocks
                                            /\ size'[a] = size[a] /\ next'[a] = next[a]
    BY <2>1, <2>2, JoinTests
  <2>4. Untested = {hl} /\ Untested' = {}
    BY <1>7 DEF JoinPrev, Untested
  <2> QED BY <2>3, <2>4 DEF GapInv
<1> QED BY <1>1, <1>2, <1>3, <1>4, <1>5, <1>6, <1>7 DEF Next

(* Between calls no two free blocks touch: __MEM_FREE joins what it frees  *)
(* with both neighbours, and no allocation undoes it.                      *)
THEOREM FullyJoined ==
    ASSUME NoTinyRequest PROVE Spec => []Coalesced
<1>1. Init => GapInv
  BY Consts DEF Init, GapInv, Untested, FreeBlocks
<1>2. HeapInv /\ GapInv => Coalesced
  <2> SUFFICES ASSUME HeapInv, GapInv, pc = "rest",
                      NEW a \in FreeBlocks, NEW b \in FreeBlocks, a + size[a] = b
               PROVE  FALSE
    BY DEF Coalesced
  <2>1. next[a] = b
    BY TouchingAreNeighbours
  <2> QED BY <2>1 DEF GapInv, Untested
<1>3. HeapInv /\ GapInv /\ [Next]_vars => HeapInv' /\ GapInv'
  BY InvStep, GapStep
<1> QED BY <1>1, <1>2, <1>3, InitInv, PTL DEF Spec

(* Joining a block with its next keeps every byte in a block.              *)
LEMMA JoinCovers ==
    ASSUME HeapInv, NEW b \in DOMAIN next, JoinTest(b), NEW x \in Nat, Covered(x)
    PROVE  Covered(x)'
<1>1. CASE Joins(b)
  <2> DEFINE n == next[b]
  <2>1. \A a \in DOMAIN next : a \in DOMAIN size
    BY DEF HeapInv, ListType
  <2>2. b \in FreeBlocks
    <3>1. ASSUME b = Start PROVE FALSE
      <4>1. size[b] = 0 /\ Start \in Nat /\ Start <= End
        BY <3>1, Consts DEF HeapInv, ListType
      <4>2. next[b] = b
        BY <1>1, <3>1, <4>1, NoWrap DEF Joins
      <4> QED BY <3>1, <4>2, Consts DEF HeapInv, Sorted
    <3> QED BY <3>1 DEF FreeBlocks
  <2>3. /\ b \in Nat /\ b \in Blocks /\ size[b] \in Nat /\ b + size[b] <= End
        /\ b + size[b] > 0
        /\ n \in Nat /\ (n # Null => n \in FreeBlocks)
    BY <2>2, FreeBlockFacts, Consts
  <2>4. b + size[b] = n
    <3>1. b + size[b] \in Nat
      BY <2>3
    <3> QED BY <1>1, <2>3, <3>1, NoWrap DEF Joins
  <2>5. n \in FreeBlocks /\ n # b /\ n \in DOMAIN next /\ size[n] \in Nat /\ n \in Blocks
    BY <2>2, <2>3, <2>4, FreeBlockFacts, Consts
  <2>6. /\ Blocks' = Blocks \ {n} /\ size'[b] = size[b] + size[n]
        /\ \A a \in Blocks : a # b /\ a # n => size'[a] = size[a]
    BY <1>1, <2>1, <2>5 DEF JoinTest, Without, Blocks
  <2>7. PICK a \in Blocks : a <= x /\ x < a + size[a]
    BY DEF Covered
  <2>8. CASE a = b \/ a = n
    <3>1. b <= x /\ x < b + size'[b]
      BY <2>3, <2>4, <2>5, <2>6, <2>7, <2>8
    <3> QED BY <2>3, <2>5, <2>6, <3>1 DEF Covered
  <2>9. CASE a # b /\ a # n
    BY <2>6, <2>7, <2>9 DEF Covered
  <2> QED BY <2>8, <2>9
<1>2. CASE ~Joins(b)
  BY <1>2 DEF JoinTest, Covered, Blocks
<1> QED BY <1>1, <1>2

(* No step loses a byte: splitting leaves both parts in a block, a freed   *)
(* block stays known until it is linked.                                   *)
LEMMA SpaceStep ==
    ASSUME NoTinyRequest, HeapInv, SpaceInv, [Next]_vars
    PROVE  SpaceInv'
<1> USE DEF SpaceInv, Loose
<1>1. CASE UNCHANGED vars
  BY <1>1 DEF vars, Covered, Blocks, FreeBlocks
<1>2. ASSUME \/ \E n \in Requests : Alloc(n)
             \/ OutOfMemory \/ TooSmall \/ Search
      PROVE  SpaceInv'
  BY <1>2 DEF Alloc, OutOfMemory, TooSmall, Search, Return, Covered, Blocks, FreeBlocks
<1>3. ASSUME NEW b \in held, NEW n \in Requests \cup {0}, Free(b, n) PROVE SpaceInv'
  BY <1>3 DEF Free, Covered, Blocks, FreeBlocks
<1>4. CASE TakeTail
  <2> DEFINE rest == size[hl] - bc
             new == hl + rest
  <2>1. hl \in FreeBlocks /\ bc \in Nat /\ bc >= 4
    BY <1>4, LoopBlock DEF TakeTail
  <2>2. /\ hl \in DOMAIN size /\ hl \in Blocks /\ hl \in Nat /\ hl > Start
        /\ size[hl] \in Nat /\ hl + size[hl] <= End
    BY <2>1, FreeBlockFacts
  <2>3. rest \in Nat /\ rest >= 4 /\ rest < size[hl] /\ new \in Nat /\ new > hl
    BY <1>4, <2>1, <2>2, Consts DEF TakeTail
  <2>4. new \notin Blocks /\ new # Start
    <3>1. ASSUME new \in Blocks PROVE FALSE
      <4>1. hl + size[hl] <= new
        BY <2>2, <2>3, <3>1 DEF HeapInv, Disjoint
      <4> QED BY <2>1, <2>2, <2>3, <4>1
    <3>2. new # Start
      BY <2>2, <2>3, Consts
    <3> QED BY <3>1, <3>2
  <2>5. /\ Blocks' = Blocks \cup {new} /\ FreeBlocks' = FreeBlocks
        /\ size'[hl] = rest /\ size'[new] = bc
        /\ \A a \in Blocks : a # hl => size'[a] = size[a]
        /\ held' = held \cup {new} /\ pc = "loop" /\ pc' = "rest"
    BY <1>4, <2>2, <2>3, <2>4 DEF TakeTail, Return, With, Blocks, FreeBlocks
  <2>6. ASSUME NEW x \in Start + Header .. End - 1 PROVE Covered(x)'
    <3>1. x \in Nat
      BY Consts
    <3>2. PICK a \in Blocks : a <= x /\ x < a + size[a]
      BY DEF Covered
    <3>3. CASE a = hl
      <4>1. new + bc = hl + size[hl]
        BY <2>1, <2>2
      <4>2. CASE x < new
        BY <2>2, <2>5, <3>2, <3>3, <4>2 DEF Covered
      <4>3. CASE x >= new
        BY <2>5, <3>2, <3>3, <4>1, <4>3 DEF Covered
      <4> QED BY <2>3, <3>1, <4>2, <4>3
    <3>4. CASE a # hl
      BY <2>5, <3>2, <3>4 DEF Covered
    <3> QED BY <3>3, <3>4
  <2> QED BY <2>5, <2>6 DEF Header, End
<1>5. CASE TakeWhole
  <2>1. hl \in FreeBlocks /\ temp \in DOMAIN next
    BY <1>5, LoopBlock DEF TakeWhole
  <2>2. /\ FreeBlocks' = FreeBlocks \ {hl} /\ size' = size /\ Blocks' = Blocks
        /\ held' = held \cup {hl} /\ pc = "loop" /\ pc' = "rest"
    BY <1>5, <2>1 DEF TakeWhole, Return, Without, FreeBlocks, Blocks
  <2> QED BY <2>1, <2>2 DEF Covered, Header, End
<1>6. CASE LinkPrev
  <2>1. FreeBlocks' = FreeBlocks \cup {bc} /\ size' = size /\ Blocks' = Blocks
    BY <1>6 DEF LinkPrev, With, HeapInv, CallInv, FreeBlocks, Blocks
  <2> QED BY <1>6, <2>1 DEF LinkPrev, Covered, Header, End
<1>7. ASSUME NEW b \in DOMAIN next, JoinTest(b), held' = held,
             pc \in {"join", "joinprev"}, pc' \in {"joinprev", "rest", "loop"}
      PROVE  SpaceInv'
  <2>1. Blocks \ FreeBlocks = Blocks' \ FreeBlocks' /\ FreeBlocks' \subseteq Blocks'
    <3>1. ListType' /\ Disjoint' /\ Blocks \ FreeBlocks = Blocks' \ FreeBlocks'
      BY <1>7, JoinKeeps
    <3> QED BY <3>1 DEF ListType, FreeBlocks, Blocks
  <2>2. held \cap FreeBlocks = {} /\ FreeBlocks \subseteq Blocks
    BY BlockFacts DEF HeapInv, CallInv, FreeBlocks
  <2>3. Blocks = held \cup FreeBlocks
    BY <1>7
  <2>4. Blocks' = held' \cup FreeBlocks'
    BY <1>7, <2>1, <2>2, <2>3
  <2>5. ASSUME NEW x \in Start + Header .. End - 1 PROVE Covered(x)'
    BY <1>7, JoinCovers, Consts
  <2> QED BY <1>7, <2>4, <2>5 DEF Header, End
<1>8. CASE JoinNext
  BY <1>7, <1>8 DEF JoinNext, HeapInv, CallInv, FreeBlocks
<1>9. CASE JoinPrev
  BY <1>7, <1>9 DEF JoinPrev, HeapInv, CallInv
<1> QED
  BY <1>1, <1>2, <1>3, <1>4, <1>5, <1>6, <1>8, <1>9 DEF Next

(* At the start the free block behind the dummy covers the heap.           *)
LEMMA SpaceInit == Init => SpaceInv
<1> SUFFICES ASSUME Init PROVE SpaceInv
  OBVIOUS
<1>1. /\ Blocks = {Start + 4} /\ FreeBlocks = {Start + 4} /\ size[Start + 4] = Length - 4
      /\ held = {} /\ pc = "rest"
  BY Consts DEF Init, Blocks, FreeBlocks
<1>2. \A x \in Start + Header .. End - 1 : Covered(x)
  BY <1>1, Consts DEF Covered
<1> QED BY <1>1, <1>2 DEF SpaceInv, Loose

(* Between calls every block is held or free and every byte of the heap    *)
(* lies in one: no sequence of calls loses memory.                         *)
THEOREM NothingLost ==
    ASSUME NoTinyRequest PROVE Spec => []NoLeak
<1>1. Init => SpaceInv
  BY SpaceInit
<1>2. SpaceInv => NoLeak
  BY DEF SpaceInv, Loose, Covered, NoLeak
<1>3. HeapInv /\ SpaceInv /\ [Next]_vars => HeapInv' /\ SpaceInv'
  BY InvStep, SpaceStep
<1> QED BY <1>1, <1>2, <1>3, InitInv, PTL DEF Spec

(* Every step leaves the registers 0, at a listed block, or NULL.          *)
LEMMA RegisterStep ==
    ASSUME NoTinyRequest, HeapInv, RegisterInv, [Next]_vars
    PROVE  RegisterInv'
<1> USE DEF RegisterInv
<1>0. \A a \in DOMAIN next : next[a] \in DOMAIN next \cup {Null}
  BY DEF HeapInv, ListType, FreeBlocks
<1>1. CASE UNCHANGED vars
  BY <1>1 DEF vars
<1>2. ASSUME NEW n \in Requests, Alloc(n) PROVE RegisterInv'
  BY <1>2, Consts DEF Alloc, HeapInv, ListType
<1>3. ASSUME NEW b \in held, NEW n \in Requests \cup {0}, Free(b, n) PROVE RegisterInv'
  BY <1>3, BlockFacts DEF Free, HeapInv, CallInv, ListType, Blocks
<1>4. CASE OutOfMemory
  BY <1>4, Consts DEF OutOfMemory, Return
<1>5. CASE TooSmall
  BY <1>0, <1>5 DEF TooSmall
<1>6. CASE TakeWhole
  <2>1. hl \in FreeBlocks /\ hl \in Nat
    BY <1>6, LoopBlock, FreeBlockFacts DEF TakeWhole
  <2> QED BY <1>6, <2>1, Consts DEF TakeWhole, Return
<1>7. CASE TakeTail
  <2>1. /\ hl \in Nat /\ size[hl] \in Nat /\ bc \in Nat /\ size[hl] >= bc
    BY <1>7, LoopBlock, FreeBlockFacts DEF TakeTail
  <2> QED BY <1>7, <2>1, Consts DEF TakeTail, Return
<1>8. CASE Search
  BY <1>0, <1>8 DEF Search, HeapInv, CallInv
<1>9. CASE LinkPrev
  BY <1>9 DEF LinkPrev, With
<1>10. CASE JoinNext
  <2>1. HeapInv' /\ pc' = "joinprev"
    BY <1>10, JoinStep DEF JoinNext
  <2>2. hl' \in DOMAIN next'
    BY <2>1 DEF HeapInv, CallInv
  <2> QED BY <1>10, <2>2 DEF JoinNext
<1>11. CASE JoinPrev
  <2>1. HeapInv'
    BY <1>11, JoinStep
  <2>2. again \in Requests \cup {0} /\ (again # 0 => (again + 2) % Top \in Nat)
    BY Consts DEF HeapInv, CallInv
  <2> QED BY <1>11, <2>1, <2>2, Consts DEF JoinPrev, HeapInv, ListType
<1> QED BY <1>1, <1>2, <1>3, <1>4, <1>5, <1>6, <1>7, <1>8, <1>9, <1>10, <1>11 DEF Next

(* Every variable of the heap keeps its type, for every heap.              *)
THEOREM HeapTyped ==
    ASSUME NoTinyRequest PROVE Spec => []TypeOK
<1>1. Init => RegisterInv
  BY Consts DEF Init, RegisterInv, None
<1>2. HeapInv /\ RegisterInv => TypeOK
  <2> SUFFICES ASSUME HeapInv, RegisterInv PROVE TypeOK
    OBVIOUS
  <2>1. \A b \in DOMAIN size : size[b] \in 0 .. Length
    BY BlockFacts, Consts DEF HeapInv, ListType, Disjoint, Blocks
  <2> QED BY <2>1 DEF HeapInv, ListType, CallInv, RegisterInv, TypeOK, FreeBlocks
<1>3. HeapInv /\ RegisterInv /\ [Next]_vars => HeapInv' /\ RegisterInv'
  BY InvStep, RegisterStep
<1> QED BY <1>1, <1>2, <1>3, InitInv, PTL DEF Spec

-----------------------------------------------------------------------------
(* MemHeap implements HeapSpec: the steps that start a call, return a      *)
(* pointer or return NULL are the steps of the promise, the turns of the   *)
(* walks and the updates of the list do not show.                          *)

(* During the walk of __MEM_ALLOC no free block already passed has room    *)
(* for the length wanted.                                                  *)
WalkInv ==
    pc = "loop" =>
        \A f \in FreeBlocks : (hl = Null \/ f < hl) => size[f] < bc

(* The registers hold the length the program called with: with the size    *)
(* word during the walk, as it is while reallocate still frees.            *)
AskedInv ==
    /\ pc = "rest" => asked = 0
    /\ pc = "loop" => asked \in Requests /\ bc = asked + 2
    /\ pc \in {"search", "join", "joinprev"} => asked = again

PromiseInv == HeapInv /\ GapInv /\ SpaceInv /\ RegisterInv /\ WalkInv /\ AskedInv

(* The history changes nothing of a step.                                  *)
LEMMA RequestIsStep == [RequestNext]_<<vars, asked>> => [Next]_vars
BY DEF RequestNext, Next, Call, vars

(* Every call keeps the length it was called with until it returns.        *)
LEMMA AskedStep ==
    ASSUME NoTinyRequest, HeapInv, AskedInv, [RequestNext]_<<vars, asked>>
    PROVE  AskedInv'
<1> USE DEF AskedInv
<1>1. CASE UNCHANGED <<vars, asked>>
  BY <1>1 DEF vars
<1>2. ASSUME NEW n \in Requests, Alloc(n), asked' = n PROVE AskedInv'
  BY <1>2, Consts DEF Alloc
<1>3. ASSUME NEW b \in held, NEW n \in Requests \cup {0}, Free(b, n), asked' = n
      PROVE  AskedInv'
  BY <1>3 DEF Free
<1>4. ASSUME Call, asked' = IF pc' = "rest" THEN 0 ELSE asked PROVE AskedInv'
  <2>1. CASE OutOfMemory \/ TakeWhole \/ TakeTail
    BY <1>4, <2>1 DEF OutOfMemory, TakeWhole, TakeTail, Return
  <2>2. CASE TooSmall \/ Search \/ LinkPrev \/ JoinNext
    BY <1>4, <2>2 DEF TooSmall, Search, LinkPrev, JoinNext
  <2>3. CASE JoinPrev
    <3>1. again \in Requests \cup {0} /\ (again # 0 => (again + 2) % Top = again + 2)
      BY Consts DEF HeapInv, CallInv
    <3>2. CASE again = 0
      BY <1>4, <2>3, <3>2 DEF JoinPrev
    <3>3. CASE again # 0
      BY <1>4, <2>3, <3>1, <3>3 DEF JoinPrev
    <3> QED BY <3>2, <3>3
  <2> QED BY <1>4, <2>1, <2>2, <2>3 DEF Call
<1> QED BY <1>1, <1>2, <1>3, <1>4 DEF RequestNext

(* A walk starts at the dummy block and skips only blocks that are too     *)
(* small.                                                                  *)
LEMMA WalkInvStep ==
    ASSUME NoTinyRequest, HeapInv, HeapInv', RegisterInv, WalkInv, [Next]_vars
    PROVE  WalkInv'
<1> USE DEF WalkInv
<1>1. CASE UNCHANGED vars
  BY <1>1 DEF vars, FreeBlocks
<1>2. ASSUME NEW n \in Requests, Alloc(n) PROVE WalkInv'
  <2>1. (n + 2) % Top = n + 2 /\ n \in Nat
    BY Consts
  <2>2. FreeBlocks' = FreeBlocks /\ size' = size /\ hl' = Start /\ bc' = n + 2
    BY <1>2, <2>1 DEF Alloc, FreeBlocks
  <2>3. \A f \in FreeBlocks : f > Start /\ f \in Nat
    BY FreeBlockFacts
  <2> QED BY <2>1, <2>2, <2>3, Consts
<1>3. CASE TooSmall
  <2>1. /\ hl \in DOMAIN next /\ size[hl] < bc /\ pc = "loop"
        /\ UNCHANGED <<size, next, pc, bc>> /\ hl' = next[hl] /\ FreeBlocks' = FreeBlocks
    BY <1>3 DEF TooSmall, RegisterInv, FreeBlocks
  <2>2. ASSUME NEW f \in FreeBlocks, next[hl] = Null \/ f < next[hl] PROVE size[f] < bc
    <3>1. f \in Nat /\ hl \in Nat
      BY <2>1, FreeBlockFacts, BlockFacts DEF HeapInv, ListType
    <3>2. f > hl => next[hl] # Null /\ next[hl] <= f
      BY <2>1 DEF HeapInv, Sorted
    <3>3. f <= hl
      <4>1. next[hl] \in Nat
        BY <2>1, BlockFacts, Consts DEF HeapInv, ListType, FreeBlocks, Blocks
      <4> QED BY <2>2, <3>1, <3>2, <4>1
    <3> QED BY <2>1, <3>1, <3>3
  <2> QED BY <2>1, <2>2
<1>4. CASE JoinPrev
  <2>1. again \in Requests => (again + 2) % Top = again + 2 /\ again \in Nat
    BY Consts
  <2>2. again \in Requests \cup {0}
    BY DEF HeapInv, CallInv
  <2>3. \A f \in FreeBlocks' : f > Start /\ f \in Nat
    BY BlockFacts, <2>2 DEF HeapInv, ListType, FreeBlocks, Blocks
  <2> QED BY <1>4, <2>1, <2>2, <2>3, Consts DEF JoinPrev
<1>5. ASSUME \/ \E b \in held, n \in Requests \cup {0} : Free(b, n)
             \/ OutOfMemory \/ TakeWhole \/ TakeTail \/ Search \/ LinkPrev \/ JoinNext
      PROVE  pc' # "loop"
  BY <1>5 DEF Free, OutOfMemory, TakeWhole, TakeTail, Search, LinkPrev, JoinNext, Return
<1> QED BY <1>1, <1>2, <1>3, <1>4, <1>5 DEF Next

(* With every block passed, no run of unused bytes has room: it would lie  *)
(* in one free block, since free blocks do not touch.                      *)
LEMMA NoRoom ==
    ASSUME PromiseInv, pc = "loop", hl = Null, NEW b \in Start + Header .. End - 1
    PROVE  ~Promise!Gap(b, bc)
<1> SUFFICES ASSUME Promise!Gap(b, bc) PROVE FALSE
  OBVIOUS
<1> USE DEF PromiseInv
<1>1. bc \in Nat /\ bc >= 4 /\ b \in Nat /\ b + bc <= End
  BY Consts DEF HeapInv, CallInv, Promise!Gap
<1>2. ASSUME NEW x \in b .. b + bc - 1
      PROVE  \E f \in FreeBlocks : f <= x /\ x < f + size[f]
  <2>1. x \in Start + Header .. End - 1 /\ x \in Nat
    BY <1>1, Consts
  <2>2. PICK f \in Blocks : f <= x /\ x < f + size[f]
    BY <2>1 DEF SpaceInv, Covered
  <2>3. f \notin held
    <3> SUFFICES ASSUME f \in held PROVE FALSE
      OBVIOUS
    <3>1. f \in Nat /\ size[f] \in Nat
      BY <2>2, BlockFacts DEF HeapInv, ListType, Blocks
    <3>2. x \in f .. f + size[f] - 1
      BY <2>1, <2>2, <3>1
    <3>3. x \in Promise!Used
      BY <3>2 DEF Promise!Used
    <3> QED BY <3>3 DEF Promise!Gap
  <2> QED BY <2>2, <2>3 DEF SpaceInv, Loose
<1>3. PICK f \in FreeBlocks : f <= b /\ b < f + size[f]
  BY <1>1, <1>2
<1>4. f \in Nat /\ size[f] \in Nat /\ size[f] < bc /\ f \in Blocks
  BY <1>3, FreeBlockFacts DEF WalkInv
<1> DEFINE x == f + size[f]
<1>5. x \in b .. b + bc - 1
  BY <1>1, <1>3, <1>4
<1>6. PICK g \in FreeBlocks : g <= x /\ x < g + size[g]
  BY <1>2, <1>5
<1>7. g \in Nat /\ size[g] \in Nat /\ g \in Blocks
  BY <1>6, FreeBlockFacts
<1>8. g = x
  <2>1. CASE g < f
    <3>1. g + size[g] <= f
      BY <1>4, <1>7, <2>1 DEF HeapInv, Disjoint
    <3> QED BY <1>4, <1>6, <1>7, <3>1
  <2>2. CASE g > f
    <3>1. x <= g
      BY <1>4, <1>7, <2>2 DEF HeapInv, Disjoint
    <3> QED BY <1>4, <1>6, <1>7, <3>1
  <2>3. CASE g = f
    BY <1>4, <1>6, <2>3
  <2> QED BY <1>4, <1>7, <2>1, <2>2, <2>3
<1>9. next[f] = g
  BY <1>8, TouchingAreNeighbours
<1> QED BY <1>8, <1>9 DEF GapInv, Untested

(* Bytes inside a free block are unused.                                   *)
LEMMA FreeBytesUnused ==
    ASSUME HeapInv, NEW f \in FreeBlocks, NEW b \in Nat, NEW s \in Nat,
           f <= b, b + s <= f + size[f]
    PROVE  Promise!Gap(b, s)
<1>1. /\ f \in Blocks /\ f \in Nat /\ size[f] \in Nat /\ f + size[f] <= End
      /\ f >= Start + Header /\ f \notin held
  BY FreeBlockFacts DEF HeapInv, Disjoint, CallInv, FreeBlocks
<1>2. ASSUME NEW x \in b .. b + s - 1, x \in Promise!Used PROVE FALSE
  <2>1. PICK h \in held : x \in h .. h + size[h] - 1
    BY <1>2 DEF Promise!Used
  <2>2. h \in Blocks /\ h \in Nat /\ size[h] \in Nat /\ h # f
    BY <1>1, BlockFacts DEF HeapInv, CallInv, ListType, Blocks
  <2>3. h + size[h] <= f \/ f + size[f] <= h
    BY <1>1, <2>2 DEF HeapInv, Disjoint
  <2> QED BY <1>1, <2>1, <2>2, <2>3
<1> QED BY <1>1, <1>2, Consts DEF Promise!Gap

(* Every step of the heap is a step of the promise or leaves it alone.     *)
LEMMA PromiseStep ==
    ASSUME NoTinyRequest, PromiseInv, [RequestNext]_<<vars, asked>>
    PROVE  [Promise!Next]_Promise!vars
<1> DEFINE live == [b \in held |-> size[b]]
<1> USE DEF PromiseInv
<1>0. held \subseteq Blocks /\ held \cap DOMAIN next = {} /\ held \subseteq DOMAIN size
  BY DEF HeapInv, CallInv, Blocks
<1>1. ASSUME held' = held, ret' = ret, asked' = asked, \A b \in held : size'[b] = size[b]
      PROVE  UNCHANGED Promise!vars
  BY <1>1 DEF Promise!vars
<1>2. CASE UNCHANGED <<vars, asked>>
  BY <1>1, <1>2 DEF vars
<1>3. ASSUME TooSmall \/ Search \/ LinkPrev, asked' = IF pc' = "rest" THEN 0 ELSE asked
      PROVE  UNCHANGED Promise!vars
  BY <1>1, <1>3 DEF TooSmall, Search, LinkPrev
<1>4. ASSUME NEW b \in DOMAIN next, JoinTest(b), held' = held, ret' = ret, asked' = asked
      PROVE  UNCHANGED Promise!vars
  <2>1. ASSUME NEW a \in held PROVE size'[a] = size[a]
    <3>1. a \in DOMAIN size /\ a # b /\ (Joins(b) => a # next[b])
      <4>1. a \in Blocks /\ a # b /\ a \notin FreeBlocks /\ a # Null
        BY <1>0, BlockFacts DEF HeapInv, FreeBlocks
      <4>2. next[b] \in FreeBlocks \cup {Null}
        BY DEF HeapInv, ListType
      <4> QED BY <4>1, <4>2 DEF Blocks
    <3> QED BY <1>4, <3>1 DEF JoinTest, Without
  <2> QED BY <1>1, <1>4, <2>1
<1>5. ASSUME JoinNext, asked' = IF pc' = "rest" THEN 0 ELSE asked
      PROVE  UNCHANGED Promise!vars
  BY <1>4, <1>5 DEF JoinNext, HeapInv, CallInv, FreeBlocks
<1>6. ASSUME JoinPrev, asked' = IF pc' = "rest" THEN 0 ELSE asked
      PROVE  UNCHANGED Promise!vars
  <2>1. asked = again /\ pc = "joinprev" /\ hl \in DOMAIN next
    BY <1>6 DEF JoinPrev, AskedInv, HeapInv, CallInv
  <2>2. asked' = asked
    BY <1>6, <2>1 DEF JoinPrev
  <2> QED BY <1>4, <1>6, <2>1, <2>2 DEF JoinPrev
<1>7. ASSUME NEW n \in Requests, Alloc(n), asked' = n PROVE Promise!Next
  <2>1. asked = 0 /\ held' = held /\ ret' = ret /\ size' = size
    BY <1>7 DEF Alloc, AskedInv
  <2>2. Promise!Request(n)
    BY <1>7, <2>1 DEF Promise!Request
  <2> QED BY <2>2 DEF Promise!Next
<1>8. ASSUME NEW b \in held, NEW n \in Requests \cup {0}, Free(b, n), asked' = n
      PROVE  Promise!Next
  <2>1. Promise!Release(b, n)
    BY <1>8 DEF Free, Promise!Release, AskedInv
  <2> QED BY <2>1 DEF Promise!Next
<1>9. ASSUME OutOfMemory, asked' = IF pc' = "rest" THEN 0 ELSE asked PROVE Promise!Next
  <2>1. asked \in Requests /\ bc = asked + 2 /\ hl = Null /\ pc = "loop" /\ asked # 0
    BY <1>9, Consts DEF OutOfMemory, AskedInv
  <2>2. ret' = Null /\ asked' = 0 /\ size' = size /\ held' = held
    BY <1>9 DEF OutOfMemory, Return
  <2>3. Promise!Refuse
    BY <2>1, <2>2, NoRoom DEF Promise!Refuse, Null, Promise!Null
  <2> QED BY <2>3 DEF Promise!Next
<1>10. ASSUME TakeWhole, asked' = IF pc' = "rest" THEN 0 ELSE asked PROVE Promise!Next
  <2>1. /\ hl \in FreeBlocks /\ bc \in Nat /\ bc >= 4 /\ bc = asked + 2
        /\ asked \in Nat /\ asked # 0
    BY <1>10, LoopBlock, Consts DEF TakeWhole, AskedInv
  <2>2. /\ hl \in Nat /\ size[hl] \in Nat /\ hl + size[hl] <= End
        /\ hl >= Start + Header /\ hl \in Blocks
    BY <2>1, FreeBlockFacts DEF HeapInv, Disjoint
  <2>3. hl \in Start + Header .. End - 1 /\ size[hl] \in asked + 2 .. asked + 5
    BY <1>10, <2>1, <2>2, Consts DEF TakeWhole
  <2>4. Promise!Gap(hl, size[hl])
    BY <2>1, <2>2, FreeBytesUnused
  <2>5. /\ hl \notin held /\ held' = held \cup {hl} /\ size' = size
        /\ ret' = hl + 2 /\ asked' = 0
    BY <1>10, <2>1, <1>0 DEF TakeWhole, Return, FreeBlocks
  <2>6. Promise!Grant
    BY <2>1, <2>3, <2>4, <2>5 DEF Promise!Grant
  <2> QED BY <2>6 DEF Promise!Next
<1>11. ASSUME TakeTail, asked' = IF pc' = "rest" THEN 0 ELSE asked PROVE Promise!Next
  <2> DEFINE new == hl + (size[hl] - bc)
  <2>1. /\ hl \in FreeBlocks /\ bc \in Nat /\ bc >= 4 /\ bc = asked + 2
        /\ asked \in Nat /\ asked # 0
    BY <1>11, LoopBlock, Consts DEF TakeTail, AskedInv
  <2>2. /\ hl \in Nat /\ size[hl] \in Nat /\ hl + size[hl] <= End
        /\ hl >= Start + Header /\ hl \in Blocks
    BY <2>1, FreeBlockFacts DEF HeapInv, Disjoint
  <2>3. new \in Start + Header .. End - 1 /\ bc \in asked + 2 .. asked + 5
        /\ new \in Nat /\ new > hl /\ new + bc = hl + size[hl]
    BY <1>11, <2>1, <2>2, Consts DEF TakeTail
  <2>4. Promise!Gap(new, bc)
    BY <2>1, <2>2, <2>3, FreeBytesUnused
  <2>5. \A a \in held : a # new /\ a # hl
    <3>1. ASSUME new \in held PROVE FALSE
      <4>1. new \in Blocks
        BY <3>1, <1>0
      <4>2. hl + size[hl] <= new
        BY <2>2, <2>3, <4>1 DEF HeapInv, Disjoint
      <4> QED BY <2>1, <2>2, <2>3, <4>2
    <3> QED BY <3>1, <1>0, <2>1 DEF FreeBlocks
  <2>6. /\ held' = held \cup {new} /\ ret' = new + 2 /\ size'[new] = bc
        /\ \A a \in held : size'[a] = size[a]
    BY <1>0, <1>11, <2>5 DEF TakeTail, Return, With
  <2>7. asked' = 0
    BY <1>11 DEF TakeTail, Return
  <2>8. Promise!Grant
    BY <2>1, <2>3, <2>4, <2>6, <2>7 DEF Promise!Grant
  <2> QED BY <2>8 DEF Promise!Next
<1> QED
  BY <1>2, <1>3, <1>5, <1>6, <1>7, <1>8, <1>9, <1>10, <1>11 DEF RequestNext, Call

(* A heap whose calls remember the length they were called with keeps the  *)
(* promise of HeapSpec at every step: the answer to a call is a block of   *)
(* that length and its size word, at most three bytes longer, from bytes   *)
(* no block has, or NULL, and NULL only when no run of unused bytes has    *)
(* room for that length.                                                   *)
THEOREM HeapImplementsPromise ==
    ASSUME NoTinyRequest PROVE RequestSpec => KeepsPromise
<1>1. RequestInit => PromiseInv
  <2>1. Init => GapInv
    BY Consts DEF Init, GapInv, Untested, FreeBlocks
  <2>2. RequestInit => RegisterInv /\ WalkInv /\ AskedInv
    BY Consts DEF RequestInit, Init, RegisterInv, WalkInv, AskedInv
  <2> QED BY <2>1, <2>2, InitInv, SpaceInit DEF PromiseInv, RequestInit
<1>2. RequestInit => Promise!Init
  BY DEF RequestInit, Init, Promise!Init, None, Promise!None
<1>3. PromiseInv /\ [RequestNext]_<<vars, asked>> => PromiseInv'
  BY RequestIsStep, InvStep, GapStep, SpaceStep, RegisterStep, WalkInvStep, AskedStep
  DEF PromiseInv
<1>4. PromiseInv /\ [RequestNext]_<<vars, asked>> => [Promise!Next]_Promise!vars
  BY PromiseStep
<1> QED BY <1>1, <1>2, <1>3, <1>4, PTL DEF RequestSpec, KeepsPromise, Promise!Spec
=============================================================================

------------------------------ MODULE MemHeap ------------------------------
(***************************************************************************)
(* The heap of the BASIC runtime (library-asm/heapinit, alloc, free,       *)
(* realloc, calloc): a list of free blocks in address order behind a dummy *)
(* block of size 0 at the heap start.  A free block starts with its size   *)
(* and the address of the next one, a block in use with its size only.     *)
(*                                                                         *)
(* One step per turn of a list walk and per update of the list, so that    *)
(* the walks are loops of the model as they are of the code.  Registers    *)
(* are kept while a call runs and 0 between calls.                         *)
(***************************************************************************)
EXTENDS Integers

CONSTANTS
    Start,      \* ZXBASIC_MEM_HEAP
    Length,     \* ZXBASIC_HEAP_SIZE
    Top,        \* number of addresses, 65536
    Requests    \* lengths the program asks for

Null == 0
None == -1      \* no call has returned a pointer
End == Start + Length
Header == 4     \* size and next of a free block

(* The heap ends below the last address, and no request is so large that   *)
(* adding the size word wraps.                                             *)
ASSUME HeapAssumption ==
    /\ Start \in Nat /\ Start > 0 /\ Length \in Nat /\ Length >= 2 * Header
    /\ Top \in Nat /\ Start + Length < Top
    /\ Requests \subseteq 1 .. Top - 3

VARIABLES
    size,       \* first word of every block, the dummy and free ones included
    next,       \* second word of the dummy and of every free block
    held,       \* blocks the program holds a pointer to (the pointer is block + 2)
    pc,         \* where the call under way is; "rest" between calls
    hl,         \* block the walk is at
    temp,       \* block whose next field TEMP points to
    bc,         \* alloc: bytes wanted; free: the block freed
    again,      \* realloc: length to allocate once the block is free, or 0
    ret         \* last pointer alloc returned

vars == <<size, next, held, pc, hl, temp, bc, again, ret>>

Blocks == DOMAIN size \ {Start}
FreeBlocks == DOMAIN next \ {Start}

With(f, x, v) == [y \in DOMAIN f \cup {x} |-> IF y = x THEN v ELSE f[y]]
Without(f, x) == [y \in DOMAIN f \ {x} |-> f[y]]

----------------------------------------------------------------------------
(* __MEM_INIT2: the dummy block, then one block with the rest.             *)
Init ==
    /\ size = [b \in {Start, Start + Header} |->
                  IF b = Start THEN 0 ELSE Length - Header]
    /\ next = [b \in {Start, Start + Header} |->
                  IF b = Start THEN Start + Header ELSE Null]
    /\ held = {}
    /\ pc = "rest" /\ hl = 0 /\ temp = 0 /\ bc = 0 /\ again = 0
    /\ ret = None

(* __MEM_ALLOC up to __MEM_LOOP.                                           *)
Alloc(n) ==
    /\ pc = "rest"
    /\ bc' = (n + 2) % Top
    /\ hl' = Start /\ temp' = Null
    /\ pc' = "loop"
    /\ UNCHANGED <<size, next, held, again, ret>>

Return(r) ==
    /\ ret' = r
    /\ pc' = "rest" /\ hl' = 0 /\ temp' = 0 /\ bc' = 0 /\ again' = 0

(* __MEM_LOOP at the end of the list: NULL.                                *)
OutOfMemory ==
    /\ pc = "loop" /\ hl = Null
    /\ Return(Null)
    /\ UNCHANGED <<size, next, held>>

(* A slip of TooSmall: sbc with the carry set, so that the walk goes past  *)
(* a block of exactly the length wanted.                                   *)
TooSmallOrEqual ==
    /\ pc = "loop" /\ hl # Null
    /\ size[hl] <= bc
    /\ temp' = hl /\ hl' = next[hl]
    /\ UNCHANGED <<size, next, held, pc, bc, again, ret>>

(* __MEM_LOOP at a block that is too small.                                *)
TooSmall ==
    /\ pc = "loop" /\ hl # Null
    /\ size[hl] < bc
    /\ temp' = hl /\ hl' = next[hl]
    /\ UNCHANGED <<size, next, held, pc, bc, again, ret>>

(* A slip of TakeWhole: the block before is not linked past it.            *)
TakeWholeStillLinked ==
    /\ pc = "loop" /\ hl # Null
    /\ size[hl] >= bc /\ size[hl] - bc < Header
    /\ next' = Without(next, hl)
    /\ held' = held \cup {hl}
    /\ Return(hl + 2)
    /\ UNCHANGED size

(* __MEM_DONE with less than four bytes over: the whole block, unlinked.   *)
TakeWhole ==
    /\ pc = "loop" /\ hl # Null
    /\ size[hl] >= bc /\ size[hl] - bc < Header
    /\ next' = Without([next EXCEPT ![temp] = next[hl]], hl)
    /\ held' = held \cup {hl}
    /\ Return(hl + 2)
    /\ UNCHANGED size

(* A slip of TakeTail: the new length of the free block is not stored.     *)
TakeTailKeepsLength ==
    /\ pc = "loop" /\ hl # Null
    /\ size[hl] >= bc /\ size[hl] - bc >= Header
    /\ LET rest == size[hl] - bc
       IN  /\ size' = With(size, hl + rest, bc)
           /\ held' = held \cup {hl + rest}
           /\ Return(hl + rest + 2)
    /\ UNCHANGED next

(* __MEM_SUBTRACT: the tail of the block, which stays in the list.         *)
TakeTail ==
    /\ pc = "loop" /\ hl # Null
    /\ size[hl] >= bc /\ size[hl] - bc >= Header
    /\ LET rest == size[hl] - bc
       IN  /\ size' = With([size EXCEPT ![hl] = rest], hl + rest, bc)
           /\ held' = held \cup {hl + rest}
           /\ Return(hl + rest + 2)
    /\ UNCHANGED next

(* __MEM_FREE of the block under a pointer the program holds (of NULL it   *)
(* does nothing).  With n > 0 the call is __REALLOC, which frees and then  *)
(* allocates n bytes; of a NULL pointer it is __MEM_ALLOC.                 *)
Free(b, n) ==
    /\ pc = "rest"
    /\ held' = held \ {b}
    /\ bc' = b /\ hl' = Start /\ again' = n
    /\ pc' = "search"
    /\ UNCHANGED <<size, next, temp, ret>>

(* A slip of Before: the test of the carry flag left out, so that a freed  *)
(* block goes to the end of the list.                                      *)
BeforeAny(a) == a # Null

(* __MEM_LOOP2: past the free blocks that lie before the one freed.        *)
Before(a) == a # Null /\ a < bc
(* A slip of Search: the loop reloads the heap start.                      *)
SearchFromStart ==
    /\ pc = "search"
    /\ Before(next[hl])
    /\ hl' = next[Start]
    /\ UNCHANGED <<size, next, held, pc, temp, bc, again, ret>>

Search ==
    /\ pc = "search"
    /\ Before(next[hl])
    /\ hl' = next[hl]
    /\ UNCHANGED <<size, next, held, pc, temp, bc, again, ret>>

(* __MEM_LINK_PREV.                                                        *)
LinkPrev ==
    /\ pc = "search"
    /\ ~Before(next[hl])
    /\ next' = With([next EXCEPT ![hl] = bc], bc, next[hl])
    /\ pc' = "join"
    /\ UNCHANGED <<size, held, hl, temp, bc, again, ret>>

Joins(b) == (b + size[b]) % Top = next[b]

(* A slip of JoinTest: the length of the absorbed block is not added.      *)
JoinTestKeepsLength(b) ==
    IF Joins(b)
    THEN /\ size' = Without(size, next[b])
         /\ next' = Without([next EXCEPT ![b] = next[next[b]]], next[b])
    ELSE UNCHANGED <<size, next>>

(* __MEM_JOIN_TEST and __MEM_BLOCK_JOIN: a block that ends where the next  *)
(* free one starts absorbs it.                                             *)
JoinTest(b) ==
    IF Joins(b)
    THEN /\ size' = Without([size EXCEPT ![b] = size[b] + size[next[b]]], next[b])
         /\ next' = Without([next EXCEPT ![b] = next[next[b]]], next[b])
    ELSE UNCHANGED <<size, next>>

JoinNext ==                 \* call __MEM_JOIN_TEST on the freed block
    /\ pc = "join"
    /\ JoinTest(bc)
    /\ pc' = "joinprev"
    /\ UNCHANGED <<held, hl, temp, bc, again, ret>>

(* A slip of JoinPrev: "ret" instead of falling into __MEM_JOIN_TEST.      *)
JoinPrevSkipped ==
    /\ pc = "joinprev"
    /\ IF again = 0
       THEN pc' = "rest" /\ hl' = 0 /\ bc' = 0
       ELSE pc' = "loop" /\ hl' = Start /\ bc' = (again + 2) % Top
    /\ UNCHANGED <<size, next, held, temp, again, ret>>

JoinPrev ==                 \* fall into it with the block before; realloc goes on
    /\ pc = "joinprev"
    /\ JoinTest(hl)
    /\ IF again = 0
       THEN pc' = "rest" /\ hl' = 0 /\ bc' = 0
       ELSE pc' = "loop" /\ hl' = Start /\ bc' = (again + 2) % Top
    /\ UNCHANGED <<held, temp, again, ret>>

Next ==
    \/ \E n \in Requests : Alloc(n)
    \/ \E b \in held, n \in Requests \cup {0} : Free(b, n)
    \/ OutOfMemory \/ TooSmall \/ TakeWhole \/ TakeTail
    \/ Search \/ LinkPrev \/ JoinNext \/ JoinPrev

Call == OutOfMemory \/ TooSmall \/ TakeWhole \/ TakeTail
        \/ Search \/ LinkPrev \/ JoinNext \/ JoinPrev

(* The CPU goes on with a call it is in.                                   *)
Spec == Init /\ [][Next]_vars /\ WF_vars(Call)

----------------------------------------------------------------------------
(* Every variable keeps its type.                                          *)
TypeOK ==
    /\ DOMAIN size \subseteq Start .. End /\ DOMAIN next \subseteq DOMAIN size
    /\ \A b \in DOMAIN size : size[b] \in 0 .. Length
    /\ \A b \in DOMAIN next : next[b] \in DOMAIN next \cup {Null}
    /\ held \subseteq Blocks
    /\ pc \in {"rest", "loop", "search", "join", "joinprev"}
    /\ hl \in DOMAIN next \cup {Null} /\ temp \in DOMAIN next \cup {Null}
    /\ bc \in Nat /\ again \in Requests \cup {0}
    /\ ret \in {None} \cup Nat

(* No two blocks overlap, whether held or free, every block can carry the  *)
(* two words of a free one, and none leaves the heap.                      *)
Disjoint ==
    \A a \in Blocks :
        /\ a >= Start + Header /\ size[a] >= Header /\ a + size[a] <= End
        /\ \A b \in Blocks : a < b => a + size[a] <= b

(* "Each free block contains this info": its size and its next, which need *)
(* four bytes.                                                             *)
HeaderFits == \A b \in FreeBlocks : size[b] >= Header

(* The list of free blocks visits them all in address order: the next of a *)
(* block is the first free one above it.                                   *)
Sorted ==
    \A a \in DOMAIN next :
        /\ next[a] # Null => next[a] > a
        /\ \A f \in FreeBlocks : f > a => next[a] # Null /\ next[a] <= f

(* Between calls no two free blocks touch: what was freed is joined with   *)
(* both neighbours.                                                        *)
Coalesced ==
    pc = "rest" => \A a \in FreeBlocks, b \in FreeBlocks : a + size[a] # b

(* No byte is lost: between calls every byte after the dummy belongs to a  *)
(* block that is held or free.                                             *)
NoLeak ==
    pc = "rest" =>
        /\ Blocks = held \cup FreeBlocks
        /\ \A x \in Start + Header .. End - 1 :
              \E b \in Blocks : b <= x /\ x < b + size[b]

(* Every call returns.                                                     *)
CallsReturn == pc # "rest" ~> pc = "rest"
=============================================================================

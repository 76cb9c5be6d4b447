----------------------------- MODULE HeapBytes -----------------------------
(***************************************************************************)
(* The heap of the BASIC runtime in bytes.  MemHeap keeps sizes and links  *)
(* in functions; here they are words inside the blocks, where a list       *)
(* update can hit what the program stored, and reallocate and callocate    *)
(* (library-asm/realloc, calloc) move and clear bytes.                     *)
(*                                                                         *)
(* A call is followed as in MemHeap, and an ldir byte by byte.             *)
(***************************************************************************)
EXTENDS Integers, FiniteSetsExt

CONSTANTS
    Start,      \* ZXBASIC_MEM_HEAP
    Length,     \* ZXBASIC_HEAP_SIZE
    Top,        \* number of addresses, 65536
    Requests,   \* lengths the program allocates
    Resizes     \* lengths it reallocates to

Null == 0
None == -1
End == Start + Length
Header == 4

(* Reallocating to 0 or 1 bytes counts down from below zero in ldir and    *)
(* leaves the heap: the program is taken to ask for two bytes or more.     *)
ASSUME BytesAssumption ==
    /\ Start \in Nat /\ Start > 0 /\ Length \in Nat /\ Length >= 2 * Header
    /\ Top \in Nat /\ Top <= 65536 /\ Start + Length < Top
    /\ Requests \subseteq 1 .. Top - 3 /\ Resizes \subseteq 2 .. Top - 3

VARIABLES
    mem,        \* every byte of the memory
    held,       \* blocks the program has -> bytes it asked for
    stored,     \* blocks the program has -> what they must contain, by position
    before,     \* reallocate: what the block contained at the call
    kind,       \* the routine called
    n,          \* its BC, the length
    pc,         \* where it is; "rest" between calls
    hl, temp,   \* walks: as in MemHeap; ldir: hl is the source
    bc,         \* alloc: bytes wanted; free: the block freed; ldir: bytes to go
    de,         \* ldir: the destination
    first,      \* reallocate: the first two bytes of the block, on the stack
    rest,       \* reallocate: DE', the address of the third
    ret         \* last pointer alloc returned

registers == <<hl, temp, bc, de, first, rest>>
vars == <<mem, held, stored, before, kind, n, pc, registers, ret>>

(* What the program writes at an address, in a small memory unlike any     *)
(* size or address.                                                        *)
Pattern(x) == 128 + (x % 128)

Word(a) == (mem[a] + 256 * mem[(a + 1) % Top]) % Top
Put(m, a, v) == [m EXCEPT ![a] = v % 256, ![(a + 1) % Top] = v \div 256]

Size(b) == Word(b)
NextOf(b) == Word(b + 2)

AtRest ==
    /\ pc' = "rest" /\ hl' = 0 /\ temp' = 0 /\ bc' = 0 /\ de' = 0
    /\ first' = <<0, 0>> /\ rest' = 0
    /\ kind' = "none" /\ n' = 0 /\ before' = <<>>

----------------------------------------------------------------------------
(* __MEM_INIT2 in a memory the program has filled.                         *)
Init ==
    /\ mem = LET filled == [x \in 0 .. Top - 1 |-> Pattern(x)]
                 dummy  == Put(Put(filled, Start, 0), Start + 2, Start + Header)
             IN  Put(Put(dummy, Start + Header, Length - Header), Start + Header + 2, Null)
    /\ held = <<>> /\ stored = <<>> /\ before = <<>>
    /\ kind = "none" /\ n = 0 /\ pc = "rest"
    /\ hl = 0 /\ temp = 0 /\ bc = 0 /\ de = 0 /\ first = <<0, 0>> /\ rest = 0
    /\ ret = None

(* The program fills a block of its own.                                   *)
Store(b) ==
    /\ pc = "rest"
    /\ LET data == [k \in 0 .. held[b] - 1 |-> Pattern(b + 2 + k)]
       IN  /\ mem' = [x \in DOMAIN mem |->
                        IF x - b - 2 \in DOMAIN data THEN data[x - b - 2] ELSE mem[x]]
           /\ stored' = [stored EXCEPT ![b] = data]
    /\ UNCHANGED <<held, before, kind, n, pc, registers, ret>>

(* __MEM_ALLOC up to __MEM_LOOP, for allocate and callocate.               *)
Alloc(k, m) ==
    /\ pc = "rest"
    /\ kind' = k /\ n' = m /\ before' = <<>>
    /\ bc' = (m + 2) % Top /\ hl' = Start /\ temp' = Null
    /\ pc' = "loop"
    /\ UNCHANGED <<mem, held, stored, de, first, rest, ret>>

OutOfMemory ==
    /\ pc = "loop" /\ hl = Null
    /\ ret' = Null /\ AtRest
    /\ UNCHANGED <<mem, held, stored>>

(* A slip of Fits: jp c after the subtraction the other way round.         *)
FitsWithRoom(b) == Size(b) > bc

Fits(b) == Size(b) >= bc

TooSmall ==
    /\ pc = "loop" /\ hl # Null
    /\ ~Fits(hl)
    /\ temp' = hl /\ hl' = NextOf(hl)
    /\ UNCHANGED <<mem, held, stored, before, kind, n, pc, bc, de, first, rest, ret>>

(* The ret of __MEM_ALLOC: allocate is done, the others go on with HL.     *)
Grant(b) ==
    /\ held' = [x \in DOMAIN held \cup {b} |-> IF x = b THEN n ELSE held[x]]
    /\ stored' = [x \in DOMAIN stored \cup {b} |-> IF x = b THEN <<>> ELSE stored[x]]
    /\ ret' = b + 2
    /\ IF kind = "alloc"
       THEN AtRest
       ELSE /\ pc' = "got" /\ hl' = b + 2 /\ temp' = 0 /\ bc' = n
            /\ UNCHANGED <<de, first, rest, before, kind, n>>

TakeWhole ==
    /\ pc = "loop" /\ hl # Null
    /\ Fits(hl) /\ Size(hl) - bc < Header
    /\ mem' = Put(mem, temp + 2, NextOf(hl))
    /\ Grant(hl)

(* A slip of TakeTail: the old length is added, and the new block starts   *)
(* where the free one ended.                                               *)
TakeTailBehind ==
    /\ pc = "loop" /\ hl # Null
    /\ Fits(hl) /\ Size(hl) - bc >= Header
    /\ mem' = Put(Put(mem, hl, Size(hl) - bc), hl + Size(hl), bc)
    /\ Grant(hl + Size(hl))

TakeTail ==
    /\ pc = "loop" /\ hl # Null
    /\ Fits(hl) /\ Size(hl) - bc >= Header
    /\ LET left == Size(hl) - bc
       IN  /\ mem' = Put(Put(mem, hl, left), hl + left, bc)
           /\ Grant(hl + left)

----------------------------------------------------------------------------
Forget(f, b) == [x \in DOMAIN f \ {b} |-> f[x]]

FreeFrom(b) ==
    /\ held' = Forget(held, b) /\ stored' = Forget(stored, b)
    /\ bc' = b /\ hl' = Start
    /\ pc' = "search"

(* __MEM_FREE of a pointer the program has.                                *)
Free(b) ==
    /\ pc = "rest"
    /\ kind' = "free" /\ n' = 0 /\ before' = <<>>
    /\ FreeFrom(b)
    /\ UNCHANGED <<mem, temp, de, first, rest, ret>>

(* __REALLOC up to __MEM_FREE; of NULL it is __MEM_ALLOC.                  *)
Realloc(b, m) ==
    /\ pc = "rest"
    /\ kind' = "realloc" /\ n' = m
    /\ before' = [k \in 0 .. held[b] - 1 |-> mem[b + 2 + k]]
    /\ first' = <<mem[b + 2], mem[(b + 3) % Top]>>
    /\ rest' = b + 4
    /\ FreeFrom(b)
    /\ UNCHANGED <<mem, temp, de, ret>>

Before(a) == a # Null /\ a < bc

Search ==
    /\ pc = "search"
    /\ Before(NextOf(hl))
    /\ hl' = NextOf(hl)
    /\ UNCHANGED <<mem, held, stored, before, kind, n, pc, temp, bc, de, first, rest, ret>>

(* A slip of LinkPrev: the link of the block before is overwritten first   *)
(* and read afterwards.                                                    *)
LinkPrevTooLate ==
    /\ pc = "search"
    /\ ~Before(NextOf(hl))
    /\ mem' = Put(Put(mem, hl + 2, bc), bc + 2, bc)
    /\ pc' = "join"
    /\ UNCHANGED <<held, stored, before, kind, n, registers, ret>>

LinkPrev ==
    /\ pc = "search"
    /\ ~Before(NextOf(hl))
    /\ mem' = Put(Put(mem, hl + 2, bc), bc + 2, NextOf(hl))
    /\ pc' = "join"
    /\ UNCHANGED <<held, stored, before, kind, n, registers, ret>>

(* A slip of Joined: the length of the absorbed block is not added.        *)
JoinedKeepsLength(b) ==
    IF (b + Size(b)) % Top = NextOf(b)
    THEN Put(mem, b + 2, NextOf(NextOf(b)))
    ELSE mem

(* __MEM_JOIN_TEST and __MEM_BLOCK_JOIN.                                   *)
Joined(b) ==
    IF (b + Size(b)) % Top = NextOf(b)
    THEN Put(Put(mem, b, (Size(b) + Size(NextOf(b))) % Top), b + 2, NextOf(NextOf(b)))
    ELSE mem

JoinNext ==
    /\ pc = "join"
    /\ mem' = Joined(bc)
    /\ pc' = "joinprev"
    /\ UNCHANGED <<held, stored, before, kind, n, registers, ret>>

JoinPrev ==
    /\ pc = "joinprev"
    /\ mem' = Joined(hl)
    /\ IF kind = "realloc"
       THEN /\ pc' = "loop" /\ hl' = Start /\ bc' = (n + 2) % Top
            /\ UNCHANGED <<temp, de, first, rest, before, kind, n>>
       ELSE AtRest
    /\ UNCHANGED <<held, stored, ret>>

----------------------------------------------------------------------------
(* ldir of c bytes, if the code tests that there are any.                  *)
Ldir(from, to, c) ==
    IF c = 0
    THEN AtRest
    ELSE /\ pc' = "ldir" /\ hl' = from /\ de' = to /\ bc' = c
         /\ UNCHANGED <<temp, first, rest, before, kind, n>>

(* A callocate that comes to its end promises zeros.                       *)
Promised ==
    IF kind = "calloc" THEN [stored EXCEPT ![ret - 2] = [k \in 0 .. n - 1 |-> 0]] ELSE stored

(* __MEM_CALLOC: one zero, then every byte from the one before it.         *)
Clear ==
    /\ pc = "got" /\ kind = "calloc"
    /\ mem' = [mem EXCEPT ![hl] = 0]
    /\ Ldir(hl, hl + 1, n - 1)
    /\ stored' = IF n = 1 THEN Promised ELSE stored
    /\ UNCHANGED <<held, ret>>

(* A slip of Restore: the two bytes already copied are counted again.      *)
RestoreTwoMore ==
    /\ pc = "got" /\ kind = "realloc"
    /\ mem' = [mem EXCEPT ![hl] = first[1], ![(hl + 1) % Top] = first[2]]
    /\ Ldir(rest, (hl + 2) % Top, n)
    /\ UNCHANGED <<held, stored, ret>>

(* __REALLOC with a new block: the two saved bytes, then the others from   *)
(* where they were.                                                        *)
Restore ==
    /\ pc = "got" /\ kind = "realloc"
    /\ mem' = [mem EXCEPT ![hl] = first[1], ![(hl + 1) % Top] = first[2]]
    /\ Ldir(rest, (hl + 2) % Top, (n - 2) % Top)
    /\ UNCHANGED <<held, stored, ret>>

CopyByte ==
    /\ pc = "ldir"
    /\ mem' = [mem EXCEPT ![de] = mem[hl]]
    /\ IF bc = 1
       THEN AtRest /\ stored' = Promised
       ELSE /\ hl' = (hl + 1) % Top /\ de' = (de + 1) % Top /\ bc' = (bc - 1) % Top
            /\ UNCHANGED <<stored, pc, temp, first, rest, before, kind, n>>
    /\ UNCHANGED <<held, ret>>

Program ==
    \/ \E m \in Requests : Alloc("alloc", m) \/ Alloc("calloc", m)
    \/ \E b \in DOMAIN held : Store(b) \/ Free(b)
    \/ \E b \in DOMAIN held, m \in Resizes : Realloc(b, m)

Call == OutOfMemory \/ TooSmall \/ TakeWhole \/ TakeTail
        \/ Search \/ LinkPrev \/ JoinNext \/ JoinPrev
        \/ Clear \/ Restore \/ CopyByte

Next == Program \/ Call

Spec == Init /\ [][Next]_vars /\ WF_vars(Call)

----------------------------------------------------------------------------
(* The free blocks as the code finds them, by following the words.         *)
Nth[k \in 0 .. Length] ==
    IF k = 0 THEN Start
    ELSE IF Nth[k - 1] = Null THEN Null ELSE NextOf(Nth[k - 1])
Listed == {Nth[k] : k \in 0 .. Length \div Header} \ {Null}

(* memavail and maxavail of library/alloc.bas.                             *)
MemAvail == MapThenSumSet(Size, Listed)
MaxAvail == Max({Size(b) : b \in Listed})

Inside == Start .. End - 1

(* Every variable keeps its type; a byte is a byte.                        *)
TypeOK ==
    /\ mem \in [0 .. Top - 1 -> 0 .. 255]
    /\ DOMAIN held \subseteq Inside /\ DOMAIN stored = DOMAIN held
    /\ \A b \in DOMAIN held : held[b] \in Requests \cup Resizes
    /\ pc \in {"rest", "loop", "got", "search", "join", "joinprev", "ldir"}
    /\ kind \in {"none", "alloc", "calloc", "free", "realloc"}
    /\ n \in Requests \cup Resizes \cup {0}
    /\ \A r \in {hl, temp, bc, de, rest} : r \in 0 .. Top - 1
    /\ first \in (0 .. 255) \X (0 .. 255) /\ ret \in -1 .. Top - 1

(* No step of any call changes a byte the program stored in a block it     *)
(* has, what callocate returns is zero, and nothing outside the heap is    *)
(* written.                                                                *)
OthersKept ==
    /\ \A b \in DOMAIN stored : \A k \in DOMAIN stored[b] : mem[b + 2 + k] = stored[b][k]
    /\ \A x \in DOMAIN mem \ Inside : mem[x] = Pattern(x)

(* Between calls memavail and the blocks in use account for the heap: what *)
(* the words in memory say is free is exactly what is not given out.       *)
MemAvailExact ==
    pc = "rest" => MemAvail + MapThenSumSet(Size, DOMAIN held) = Length - Header

(* maxavail decides: an allocation returns NULL only if no free block,     *)
(* measured by maxavail, could take the request with its size word, and    *)
(* succeeds only if one can.                                               *)
MaxAvailDecides ==
    [][/\ OutOfMemory => MaxAvail < bc
       /\ TakeWhole \/ TakeTail => MaxAvail >= bc]_vars

(* The words in memory form the list of MemHeap, in every state.           *)
Known == Listed \cup DOMAIN held \cup (IF pc = "search" THEN {bc} ELSE {})
Walking == pc \in {"loop", "search", "join", "joinprev"}
List == INSTANCE MemHeap WITH
    Requests <- Requests \cup Resizes,
    size  <- [b \in Known |-> Size(b)],
    next  <- [b \in Listed |-> NextOf(b)],
    held  <- DOMAIN held,
    pc    <- IF Walking THEN pc ELSE "rest",
    hl    <- IF Walking THEN hl ELSE 0,
    bc    <- IF Walking THEN bc ELSE 0,
    temp  <- temp,
    again <- IF Walking /\ kind = "realloc" THEN n ELSE 0,
    ret   <- ret
IsMemHeap == List!Init /\ [][List!Next]_(List!vars)

(* "The content of the original block is copied to the new one": after     *)
(* reallocate the new block starts with the bytes of the old one.          *)
ReallocKeepsContent ==
    [][kind = "realloc" /\ pc' = "rest" /\ ret' # Null =>
        \A k \in DOMAIN before : k < n => mem'[ret' + k] = before[k]]_vars
=============================================================================

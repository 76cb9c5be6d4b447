--------------------------- MODULE HeapBytesProofs ---------------------------
(***************************************************************************)
(* Proofs about HeapBytes for every heap in a memory of up to 64K and      *)
(* every set of requests of at least two bytes: what the program stored    *)
(* is kept, and the words the runtime keeps in the blocks are the list of  *)
(* MemHeap, step by step.                                                  *)
(***************************************************************************)
EXTENDS HeapBytes, WellFoundedInduction, FiniteSetTheorems, TLAPS

(* A block of a request of one byte has no room for the second word of a   *)
(* free block.                                                             *)
NoTinyRequest == \A m \in Requests : m >= 2

Lengths == Requests \cup Resizes
Addresses == {a \in Nat : a < Top}
Byte == {v \in Nat : v < 256}
Memory == [Addresses -> Byte]

(* The word at an address of a memory.                                     *)
WordOf(m, a) == (m[a] + 256 * m[(a + 1) % Top]) % Top

----------------------------------------------------------------------------
(* Numbers and words.                                                      *)

LEMMA Consts ==
    /\ Start \in Nat /\ Start > 0 /\ Length \in Nat /\ Length >= 8
    /\ Top \in Nat /\ Top <= 65536 /\ End = Start + Length /\ End < Top
    /\ Header = 4 /\ Null = 0 /\ None = -1
    /\ \A m \in Lengths : m \in Nat /\ m >= 1 /\ m + 2 < Top /\ (m + 2) % Top = m + 2
    /\ \A m \in Resizes : m >= 2
BY BytesAssumption DEF End, Header, Null, None, Lengths

LEMMA Intervals ==
    /\ Addresses = 0 .. Top - 1
    /\ Byte = 0 .. 255
    /\ \A x : x \in Inside <=> x \in Nat /\ Start <= x /\ x < End
BY Consts DEF Addresses, Byte, Inside

LEMMA Wrap ==
    \A a \in Nat : a < Top => a % Top = a
BY Consts

(* A word is less than Top.                                                *)
LEMMA WordRange ==
    ASSUME NEW m \in Memory, NEW a \in Addresses, a + 1 < Top
    PROVE  /\ WordOf(m, a) = (m[a] + 256 * m[a + 1]) % Top
           /\ WordOf(m, a) \in Nat /\ WordOf(m, a) < Top
<1>1. (a + 1) % Top = a + 1 /\ a + 1 \in Addresses
  BY Wrap DEF Addresses
<1>2. m[a] \in Nat /\ m[a + 1] \in Nat
  BY <1>1 DEF Memory, Byte
<1> QED BY <1>1, <1>2, Consts DEF WordOf

(* Storing a word: it is read back, and the words and bytes next to it are *)
(* as they were.                                                           *)
LEMMA PutWord ==
    ASSUME NEW m \in Memory, NEW a \in Addresses, a + 1 < Top,
           NEW v \in Nat, v < Top
    PROVE  /\ Put(m, a, v) \in Memory
           /\ WordOf(Put(m, a, v), a) = v
           /\ \A x \in Addresses : x # a /\ x # a + 1 => Put(m, a, v)[x] = m[x]
           /\ \A c \in Addresses : c + 1 < Top /\ (c + 2 <= a \/ a + 2 <= c) =>
                                     WordOf(Put(m, a, v), c) = WordOf(m, c)
<1> DEFINE p == Put(m, a, v)
<1>1. (a + 1) % Top = a + 1 /\ a + 1 \in Addresses /\ a + 1 # a
  BY Wrap DEF Addresses
<1>2. v % 256 \in Byte /\ v \div 256 \in Byte /\ (v % 256) + 256 * (v \div 256) = v
  BY Consts DEF Byte
<1>3. p = [m EXCEPT ![a] = v % 256, ![a + 1] = v \div 256]
  BY <1>1 DEF Put
<1>4. /\ p \in Memory /\ p[a] = v % 256 /\ p[a + 1] = v \div 256
      /\ \A x \in Addresses : x # a /\ x # a + 1 => p[x] = m[x]
  BY <1>1, <1>2, <1>3 DEF Memory
<1> HIDE DEF p
<1>5. WordOf(p, a) = v
  <2>1. WordOf(p, a) = (p[a] + 256 * p[a + 1]) % Top
    BY <1>4, WordRange
  <2>2. v % Top = v
    BY Wrap
  <2> QED BY <1>2, <1>4, <2>1, <2>2
<1>6. ASSUME NEW c \in Addresses, c + 1 < Top, c + 2 <= a \/ a + 2 <= c
      PROVE  WordOf(p, c) = WordOf(m, c)
  <2>1. c + 1 \in Addresses /\ c # a /\ c # a + 1 /\ c + 1 # a /\ c + 1 # a + 1
    BY <1>6 DEF Addresses
  <2>2. p[c] = m[c] /\ p[c + 1] = m[c + 1]
    BY <1>4, <2>1
  <2> QED BY <1>4, <1>6, <2>2, WordRange
<1> QED BY <1>4, <1>5, <1>6 DEF p

----------------------------------------------------------------------------
(* The heap in a memory m: F the free blocks, H the others.                *)

Sz(m, b) == WordOf(m, b)
Nx(m, b) == WordOf(m, b + 2)

(* Blocks lie behind the dummy, inside the heap and apart, each large      *)
(* enough for the header of a free one.                                    *)
Apart(m, B) ==
    \A a \in B :
        /\ a \in Nat /\ a >= Start + Header
        /\ Sz(m, a) \in Nat /\ Sz(m, a) >= Header /\ a + Sz(m, a) <= End
        /\ \A b \in B : a < b => a + Sz(m, a) <= b

(* From the dummy on, the second word of a free block is the next free     *)
(* block above it, or NULL.                                                *)
Chain(m, F) ==
    \A a \in F \cup {Start} :
        /\ Nx(m, a) \in F \cup {Null}
        /\ Nx(m, a) # Null => Nx(m, a) > a
        /\ \A f \in F : f > a => Nx(m, a) # Null /\ Nx(m, a) <= f

Heap(m, F, H) ==
    /\ F \cap H = {}
    /\ Apart(m, F \cup H) /\ Chain(m, F)
    /\ Sz(m, Start) = 0

LEMMA HeapFacts ==
    ASSUME NEW m, NEW F, NEW H, Heap(m, F, H)
    PROVE  /\ \A a \in F \cup H \cup {Start} :
                /\ a \in Nat /\ a > 0 /\ a >= Start /\ a + 4 <= End
                /\ a \in Addresses /\ a + 1 \in Addresses
                /\ a + 2 \in Addresses /\ a + 3 \in Addresses /\ a + 3 < Top
                /\ Sz(m, a) \in Nat /\ a + Sz(m, a) <= End
           /\ \A a \in F \cup H : a > Start /\ a >= Start + 4 /\ Sz(m, a) >= 4
           /\ \A a, b \in F \cup H \cup {Start} : a < b => a + 4 <= b
           /\ \A a, b \in F \cup H : a < b => a + Sz(m, a) <= b
           /\ \A a \in F \cup {Start} : Nx(m, a) \in Nat
           /\ Start \notin F /\ Start \notin H
<1>1. \A a \in F \cup H : /\ a \in Nat /\ a >= Start + 4 /\ Sz(m, a) \in Nat
                          /\ Sz(m, a) >= 4 /\ a + Sz(m, a) <= End
                          /\ \A b \in F \cup H : a < b => a + Sz(m, a) <= b
  BY Consts DEF Heap, Apart
<1>2. \A a \in F \cup H \cup {Start} :
        /\ a \in Nat /\ a > 0 /\ a >= Start /\ a + 4 <= End
        /\ Sz(m, a) \in Nat /\ a + Sz(m, a) <= End
  BY <1>1, Consts DEF Heap
<1>3. \A a \in F \cup H \cup {Start} :
        /\ a \in Addresses /\ a + 1 \in Addresses
        /\ a + 2 \in Addresses /\ a + 3 \in Addresses /\ a + 3 < Top
  BY <1>2, Consts DEF Addresses
<1>4. \A a \in F \cup {Start} : Nx(m, a) \in Nat
  BY <1>1, Consts DEF Heap, Chain
<1>5. \A a, b \in F \cup H \cup {Start} : a < b => a + 4 <= b
  BY <1>1, <1>2, Consts
<1> QED BY <1>1, <1>2, <1>3, <1>4, <1>5, Consts

(* Two memories that agree on the words of the blocks hold the same heap.  *)
LEMMA SameHeap ==
    ASSUME NEW m, NEW p, NEW F, NEW H, Heap(m, F, H),
           \A a \in F \cup H \cup {Start} : Sz(p, a) = Sz(m, a),
           \A a \in F \cup {Start} : Nx(p, a) = Nx(m, a)
    PROVE  Heap(p, F, H)
<1>1. Apart(p, F \cup H)
  BY DEF Heap, Apart
<1>2. Chain(p, F)
  BY DEF Heap, Chain
<1> QED BY <1>1, <1>2 DEF Heap

(* The tail of a free block becomes a block in use.                        *)
LEMMA CarveTail ==
    ASSUME NEW m, NEW p, NEW F, NEW H, Heap(m, F, H),
           NEW f \in F, NEW left \in Nat, NEW want \in Nat,
           left >= 4, want >= 4, left + want = Sz(m, f),
           Sz(p, f) = left, Sz(p, f + left) = want,
           \A a \in F \cup H \cup {Start} : a # f => Sz(p, a) = Sz(m, a),
           \A a \in F \cup {Start} : Nx(p, a) = Nx(m, a)
    PROVE  Heap(p, F, H \cup {f + left}) /\ f + left \notin F \cup H
<1> DEFINE new == f + left
           B == F \cup H
<1>1. \A a \in B : /\ a \in Nat /\ a >= Start + 4 /\ Sz(m, a) \in Nat
                   /\ Sz(m, a) >= 4 /\ a + Sz(m, a) <= End
  BY HeapFacts, Consts DEF Heap, Apart
<1>2. \A a, b \in B : a < b => a + Sz(m, a) <= b
  BY HeapFacts
<1>3. f \in B /\ new \in Nat /\ new > f /\ new + want = f + Sz(m, f) /\ new >= Start + 4
  <2>1. f \in Nat /\ f >= Start + 4 /\ Start \in Nat
    BY <1>1, Consts
  <2> QED BY <2>1
<1>4. \A a \in B : a # f => a + Sz(m, a) <= f \/ new + want <= a
  BY <1>1, <1>2, <1>3
<1>5. new \notin B
  BY <1>1, <1>3, <1>4
<1>6. \A a \in B : a # f => Sz(p, a) = Sz(m, a)
  OBVIOUS
<1>7. Apart(p, B \cup {new})
  <2> HIDE DEF new, B
  <2>1. \A a \in B : a # f => /\ Sz(p, a) \in Nat /\ Sz(p, a) >= 4 /\ a + Sz(p, a) <= End
                              /\ a + Sz(p, a) <= f \/ new + want <= a
    BY <1>1, <1>4, <1>6
  <2>2. /\ Sz(p, f) \in Nat /\ Sz(p, f) >= 4 /\ f + Sz(p, f) <= End
        /\ f + Sz(p, f) = new
    <3>1. f \in Nat /\ f + Sz(m, f) <= End /\ Sz(m, f) = left + want /\ End \in Nat
      BY <1>1, <1>3, Consts
    <3> QED BY <3>1 DEF new
  <2>3. Sz(p, new) \in Nat /\ Sz(p, new) >= 4 /\ new + Sz(p, new) <= End
        /\ Sz(p, new) = want
    BY <1>1, <1>3 DEF new
  <2>4. ASSUME NEW a \in B \cup {new}, NEW b \in B \cup {new}, a < b
        PROVE  a + Sz(p, a) <= b
    <3>1. CASE a = new
      BY <1>1, <1>3, <2>1, <2>3, <2>4, <3>1
    <3>2. CASE a = f
      BY <1>1, <1>3, <2>1, <2>2, <2>4, <3>2
    <3>3. CASE a # f /\ a # new /\ b = new
      BY <1>1, <1>3, <2>1, <2>4, <3>3
    <3>4. CASE a # f /\ a # new /\ b # new
      BY <1>1, <1>2, <1>6, <2>4, <3>4
    <3> QED BY <3>1, <3>2, <3>3, <3>4
  <2> QED BY <1>1, <1>3, <2>1, <2>2, <2>3, <2>4, Consts DEF Apart
<1>8. Chain(p, F)
  BY DEF Heap, Chain
<1>9. Sz(p, Start) = 0
  BY HeapFacts DEF Heap
<1>10. F \cap (H \cup {new}) = {}
  BY <1>5 DEF Heap
<1>11. F \cup (H \cup {new}) = B \cup {new}
  OBVIOUS
<1> HIDE DEF new, B
<1>12. Heap(p, F, H \cup {new})
  BY <1>7, <1>8, <1>9, <1>10, <1>11 DEF Heap
<1> QED BY <1>5, <1>12 DEF new, B

(* A free block is taken out of the list and becomes one in use.           *)
LEMMA TakeOut ==
    ASSUME NEW m, NEW p, NEW F, NEW H, Heap(m, F, H),
           NEW f \in F, NEW t \in F \cup {Start}, Nx(m, t) = f,
           Nx(p, t) = Nx(m, f),
           \A a \in F \cup H \cup {Start} : Sz(p, a) = Sz(m, a),
           \A a \in F \cup {Start} : a # t => Nx(p, a) = Nx(m, a)
    PROVE  Heap(p, F \ {f}, H \cup {f})
<1>1. \A a \in F \cup {Start} : a \in Nat /\ a > 0 /\ Nx(m, a) \in Nat
  BY HeapFacts
<1>2. Chain(m, F) /\ Null = 0 /\ Start \notin F
  BY HeapFacts, Consts DEF Heap
<1>3. t < f
  BY <1>1, <1>2 DEF Chain
<1>4. \A a \in F \cup {Start} : a # t => Nx(m, a) # f
  <2>1. \A a \in F \cup {Start} : a >= Start /\ (a # Start => a \in F)
    BY HeapFacts
  <2>2. SUFFICES ASSUME NEW a \in F \cup {Start}, a # t, Nx(m, a) = f PROVE FALSE
    OBVIOUS
  <2>3. CASE a < t
    <3>1. t \in F
      BY <1>1, <2>1, <2>3
    <3> QED BY <1>1, <1>2, <1>3, <2>2, <2>3, <3>1 DEF Chain
  <2>4. CASE a > t
    <3>1. a \in F
      BY <1>1, <2>1, <2>4
    <3> QED BY <1>1, <1>2, <1>3, <2>2, <2>4, <3>1 DEF Chain
  <2> QED BY <1>1, <2>2, <2>3, <2>4
<1>5. Nx(m, f) # f /\ Nx(m, f) \in F \cup {Null}
  BY <1>1, <1>2 DEF Chain
<1>6. ASSUME NEW a \in (F \ {f}) \cup {Start}
      PROVE  /\ Nx(p, a) \in (F \ {f}) \cup {Null}
             /\ Nx(p, a) # Null => Nx(p, a) > a
             /\ \A g \in F \ {f} : g > a => Nx(p, a) # Null /\ Nx(p, a) <= g
  <2>1. CASE a = t
    BY <1>1, <1>2, <1>3, <1>5, <2>1 DEF Chain
  <2>2. CASE a # t
    BY <1>1, <1>2, <1>4, <2>2 DEF Chain
  <2> QED BY <2>1, <2>2
<1>7. Chain(p, F \ {f})
  BY <1>6 DEF Chain
<1>8. Apart(p, F \cup H)
  BY DEF Heap, Apart
<1>9. (F \ {f}) \cup (H \cup {f}) = F \cup H /\ (F \ {f}) \cap (H \cup {f}) = {}
  BY DEF Heap
<1> QED BY <1>7, <1>8, <1>9 DEF Heap

(* A block in use is linked in behind the last free one below it.          *)
LEMMA LinkIn ==
    ASSUME NEW m, NEW p, NEW F, NEW H, Heap(m, F, H),
           NEW b \in H, NEW t \in F \cup {Start}, t < b,
           Nx(m, t) = Null \/ Nx(m, t) >= b,
           Nx(p, t) = b, Nx(p, b) = Nx(m, t),
           \A a \in F \cup H \cup {Start} : Sz(p, a) = Sz(m, a),
           \A a \in F \cup {Start} : a # t => Nx(p, a) = Nx(m, a)
    PROVE  Heap(p, F \cup {b}, H \ {b})
<1>1. \A a \in F \cup {Start} : a \in Nat /\ a > 0 /\ Nx(m, a) \in Nat
  BY HeapFacts
<1>2. Chain(m, F) /\ Null = 0 /\ Start \notin F /\ b \notin F /\ b \in Nat /\ b > Start
  <2>1. b \in Nat /\ b > Start
    BY HeapFacts
  <2> QED BY <2>1, HeapFacts, Consts DEF Heap
<1>3. Nx(m, t) = Null \/ Nx(m, t) > b
  BY <1>1, <1>2 DEF Chain
<1>4. \A a \in F : a > Start
  BY HeapFacts
<1>5. ASSUME NEW a \in (F \cup {b}) \cup {Start}
      PROVE  /\ Nx(p, a) \in (F \cup {b}) \cup {Null}
             /\ Nx(p, a) # Null => Nx(p, a) > a
             /\ \A g \in F \cup {b} : g > a => Nx(p, a) # Null /\ Nx(p, a) <= g
  <2>1. CASE a = t
    BY <1>1, <1>2, <1>3, <2>1 DEF Chain
  <2>2. CASE a = b
    BY <1>1, <1>2, <1>3, <2>2 DEF Chain
  <2>3. CASE a # t /\ a # b
    <3>1. a \in F \cup {Start} /\ Nx(p, a) = Nx(m, a)
      BY <2>3
    <3>2. b > a => Nx(m, a) # Null /\ Nx(m, a) <= b
      <4> SUFFICES ASSUME b > a PROVE Nx(m, a) # Null /\ Nx(m, a) <= b
        OBVIOUS
      <4>1. CASE a < t
        <5>1. t \in F
          BY <1>1, <1>4, <3>1, <4>1
        <5> QED BY <1>1, <1>2, <3>1, <4>1, <5>1 DEF Chain
      <4>2. CASE a > t
        <5>1. a \in F
          BY <1>1, <1>4, <3>1, <4>2
        <5> QED BY <1>1, <1>2, <1>3, <4>2, <5>1 DEF Chain
      <4> QED BY <1>1, <2>3, <3>1, <4>1, <4>2
    <3> QED BY <1>2, <3>1, <3>2 DEF Chain
  <2> QED BY <2>1, <2>2, <2>3
<1>6. Chain(p, F \cup {b})
  BY <1>5 DEF Chain
<1>7. Apart(p, F \cup H)
  BY DEF Heap, Apart
<1>8. (F \cup {b}) \cup (H \ {b}) = F \cup H /\ (F \cup {b}) \cap (H \ {b}) = {}
  BY DEF Heap
<1> QED BY <1>6, <1>7, <1>8 DEF Heap

(* A free block absorbs the next one where it ends.                        *)
LEMMA Absorb ==
    ASSUME NEW m, NEW p, NEW F, NEW H, Heap(m, F, H),
           NEW b \in F, NEW c \in F, Nx(m, b) = c, b + Sz(m, b) = c,
           Sz(p, b) = Sz(m, b) + Sz(m, c), Nx(p, b) = Nx(m, c),
           \A a \in F \cup H \cup {Start} : a # b => Sz(p, a) = Sz(m, a),
           \A a \in F \cup {Start} : a # b => Nx(p, a) = Nx(m, a)
    PROVE  Heap(p, F \ {c}, H)
<1>1. \A a \in F \cup {Start} : a \in Nat /\ a > 0 /\ Nx(m, a) \in Nat
  BY HeapFacts
<1>2. Chain(m, F) /\ Null = 0 /\ Start \notin F
  BY HeapFacts, Consts DEF Heap
<1>3. b < c
  BY <1>1, <1>2 DEF Chain
<1>4. \A a \in F \cup {Start} : a # b => Nx(m, a) # c
  <2>1. \A a \in F \cup {Start} : a >= Start /\ (a # Start => a \in F)
    BY HeapFacts
  <2>2. SUFFICES ASSUME NEW a \in F \cup {Start}, a # b, Nx(m, a) = c PROVE FALSE
    OBVIOUS
  <2>3. CASE a < b
    <3>1. b \in F
      BY <1>1, <2>1, <2>3
    <3> QED BY <1>1, <1>2, <1>3, <2>2, <2>3, <3>1 DEF Chain
  <2>4. CASE a > b
    <3>1. a \in F
      BY <1>1, <2>1, <2>4
    <3> QED BY <1>1, <1>2, <1>3, <2>2, <2>4, <3>1 DEF Chain
  <2> QED BY <1>1, <2>2, <2>3, <2>4
<1>5. Nx(m, c) # c /\ Nx(m, c) \in F \cup {Null}
  BY <1>1, <1>2 DEF Chain
<1>6. ASSUME NEW a \in (F \ {c}) \cup {Start}
      PROVE  /\ Nx(p, a) \in (F \ {c}) \cup {Null}
             /\ Nx(p, a) # Null => Nx(p, a) > a
             /\ \A g \in F \ {c} : g > a => Nx(p, a) # Null /\ Nx(p, a) <= g
  <2>1. CASE a = b
    BY <1>1, <1>2, <1>3, <1>5, <2>1 DEF Chain
  <2>2. CASE a # b
    BY <1>1, <1>2, <1>4, <2>2 DEF Chain
  <2> QED BY <2>1, <2>2
<1>7. Chain(p, F \ {c})
  BY <1>6 DEF Chain
<1> DEFINE B == (F \cup H) \ {c}
<1>8. \A a \in F \cup H : /\ a \in Nat /\ a >= Start + Header /\ Sz(m, a) \in Nat
                          /\ Sz(m, a) >= Header /\ a + Sz(m, a) <= End
  BY DEF Heap, Apart
<1>9. \A a, d \in F \cup H : a < d => a + Sz(m, a) <= d
  BY HeapFacts
<1>10. Sz(p, b) \in Nat /\ Sz(p, b) >= Header /\ b + Sz(p, b) <= End
       /\ b + Sz(p, b) = c + Sz(m, c)
  BY <1>1, <1>8, Consts
<1>11. Apart(p, B)
  <2>1. ASSUME NEW a \in B, NEW d \in B, a < d PROVE a + Sz(p, a) <= d
    <3>1. CASE a = b
      <4>1. c < d
        BY <1>1, <1>8, <1>9, <1>10, <2>1, <3>1
      <4> QED BY <1>9, <1>10, <2>1, <3>1, <4>1
    <3>2. CASE a # b
      BY <1>9, <2>1, <3>2
    <3> QED BY <3>1, <3>2
  <2>2. \A a \in B : a # b => Sz(p, a) = Sz(m, a) /\ a \in F \cup H
    OBVIOUS
  <2> HIDE DEF B
  <2>3. \A a \in B : /\ a \in Nat /\ a >= Start + Header
                     /\ Sz(p, a) \in Nat /\ Sz(p, a) >= Header /\ a + Sz(p, a) <= End
    BY <1>8, <1>10, <2>2 DEF B
  <2> QED BY <2>1, <2>3 DEF Apart
<1>12. (F \ {c}) \cup H = B /\ (F \ {c}) \cap H = {}
  BY DEF Heap
<1>13. Sz(p, Start) = 0
  BY <1>2 DEF Heap
<1> HIDE DEF B
<1> QED BY <1>7, <1>11, <1>12, <1>13 DEF Heap

----------------------------------------------------------------------------
(* Writing bytes.                                                          *)

(* Headers at these addresses do not share a byte.                         *)
Spaced(B) ==
    \A a \in B : /\ a \in Nat /\ a + 3 < Top
                 /\ \A b \in B : a < b => a + 4 <= b

LEMMA HeapSpaced ==
    ASSUME NEW m, NEW F, NEW H, Heap(m, F, H)
    PROVE  Spaced(F \cup H \cup {Start})
  BY HeapFacts DEF Spaced

LEMMA PutSize ==
    ASSUME NEW B, Spaced(B), NEW m \in Memory, NEW a \in B, NEW v \in Nat, v < Top
    PROVE  /\ Put(m, a, v) \in Memory
           /\ Sz(Put(m, a, v), a) = v
           /\ \A b \in B : b # a => Sz(Put(m, a, v), b) = Sz(m, b)
           /\ \A b \in B : Nx(Put(m, a, v), b) = Nx(m, b)
           /\ \A x \in Addresses : Put(m, a, v)[x] # m[x] => a <= x /\ x < a + 4
<1>1. \A b \in B : b \in Addresses /\ b + 1 < Top /\ b + 2 \in Addresses /\ b + 3 < Top
  BY Consts DEF Spaced, Addresses
<1>2. \A b \in B : b # a => b + 4 <= a \/ a + 4 <= b
  BY DEF Spaced
<1>3. a \in Nat /\ \A b \in B : b \in Nat
  BY DEF Spaced
<1> DEFINE p == Put(m, a, v)
<1>4. /\ p \in Memory /\ WordOf(p, a) = v
      /\ \A x \in Addresses : x # a /\ x # a + 1 => p[x] = m[x]
      /\ \A c \in Addresses : c + 1 < Top /\ (c + 2 <= a \/ a + 2 <= c) =>
                                WordOf(p, c) = WordOf(m, c)
  BY <1>1, PutWord
<1> HIDE DEF p
<1>5. \A b \in B : b # a => WordOf(p, b) = WordOf(m, b)
  BY <1>1, <1>2, <1>3, <1>4
<1>6. ASSUME NEW b \in B PROVE WordOf(p, b + 2) = WordOf(m, b + 2)
  <2>1. (b + 2) + 2 <= a \/ a + 2 <= b + 2
    BY <1>2, <1>3
  <2>2. b + 2 \in Addresses /\ (b + 2) + 1 < Top
    BY <1>1, <1>3
  <2> QED BY <1>4, <2>1, <2>2
<1>7. \A x \in Addresses : p[x] # m[x] => a <= x /\ x < a + 4
  BY <1>3, <1>4 DEF Addresses
<1> QED BY <1>4, <1>5, <1>6, <1>7 DEF p, Sz, Nx

LEMMA PutLink ==
    ASSUME NEW B, Spaced(B), NEW m \in Memory, NEW a \in B, NEW v \in Nat, v < Top
    PROVE  /\ Put(m, a + 2, v) \in Memory
           /\ Nx(Put(m, a + 2, v), a) = v
           /\ \A b \in B : Sz(Put(m, a + 2, v), b) = Sz(m, b)
           /\ \A b \in B : b # a => Nx(Put(m, a + 2, v), b) = Nx(m, b)
           /\ \A x \in Addresses : Put(m, a + 2, v)[x] # m[x] => a <= x /\ x < a + 4
<1>1. \A b \in B : b \in Addresses /\ b + 1 < Top /\ b + 2 \in Addresses /\ (b + 2) + 1 < Top
  BY Consts DEF Spaced, Addresses
<1>2. \A b \in B : b # a => b + 4 <= a \/ a + 4 <= b
  BY DEF Spaced
<1>3. a \in Nat /\ \A b \in B : b \in Nat
  BY DEF Spaced
<1> DEFINE c == a + 2
           p == Put(m, c, v)
<1>4. /\ p \in Memory /\ WordOf(p, c) = v
      /\ \A x \in Addresses : x # c /\ x # c + 1 => p[x] = m[x]
      /\ \A d \in Addresses : d + 1 < Top /\ (d + 2 <= c \/ c + 2 <= d) =>
                                WordOf(p, d) = WordOf(m, d)
  <2>1. c \in Addresses /\ c + 1 < Top
    BY <1>1
  <2> HIDE DEF c
  <2> QED BY <2>1, PutWord
<1> HIDE DEF p
<1>5. ASSUME NEW b \in B PROVE WordOf(p, b) = WordOf(m, b)
  <2>1. b + 2 <= c \/ c + 2 <= b
    BY <1>2, <1>3
  <2> QED BY <1>1, <1>4, <2>1
<1>6. ASSUME NEW b \in B, b # a PROVE WordOf(p, b + 2) = WordOf(m, b + 2)
  <2>1. (b + 2) + 2 <= c \/ c + 2 <= b + 2
    BY <1>2, <1>3, <1>6
  <2> QED BY <1>1, <1>4, <2>1
<1>7. \A x \in Addresses : p[x] # m[x] => a <= x /\ x < a + 4
  BY <1>3, <1>4 DEF Addresses
<1> QED BY <1>4, <1>5, <1>6, <1>7 DEF p, Sz, Nx

(* What the program has in the heap, and what is outside: hd the lengths   *)
(* of its blocks, st what they must contain.                               *)
Contents(m, hd, st) ==
    /\ DOMAIN st = DOMAIN hd
    /\ \A b \in DOMAIN hd :
         /\ hd[b] \in Lengths /\ hd[b] + 2 <= Sz(m, b)
         /\ \A k \in DOMAIN st[b] : k \in Nat /\ k < hd[b] /\ m[b + 2 + k] = st[b][k]
    /\ \A x \in Addresses \ Inside : m[x] = Pattern(x)

(* Writes to other parts of the heap keep it.                              *)
LEMMA ContentsKept ==
    ASSUME NEW m, NEW p, NEW F, NEW H, NEW hd, NEW st,
           Heap(m, F, H), Contents(m, hd, st), DOMAIN hd \subseteq H,
           \A b \in DOMAIN hd : Sz(p, b) = Sz(m, b),
           \A x \in Addresses : p[x] # m[x] =>
               x \in Inside /\ \A b \in DOMAIN hd : x < b + 2 \/ x >= b + Sz(m, b)
    PROVE  Contents(p, hd, st)
<1>1. ASSUME NEW b \in DOMAIN hd, NEW k \in DOMAIN st[b]
      PROVE  p[b + 2 + k] = m[b + 2 + k]
  <2>1. k \in Nat /\ k < hd[b] /\ hd[b] \in Nat /\ hd[b] + 2 <= Sz(m, b)
    BY Consts DEF Contents
  <2>2. b \in Nat /\ Sz(m, b) \in Nat /\ b + Sz(m, b) <= End
    BY HeapFacts
  <2>3. b + 2 + k \in Nat /\ b + 2 + k >= b + 2 /\ b + 2 + k < b + Sz(m, b)
    BY <2>1, <2>2
  <2>4. b + 2 + k \in Addresses
    BY <2>2, <2>3, Consts DEF Addresses
  <2> QED BY <2>2, <2>3, <2>4
<1>2. \A x \in Addresses \ Inside : p[x] = m[x]
  OBVIOUS
<1> QED BY <1>1, <1>2 DEF Contents

(* The header of a block that is not given out, and the dummy's, are such  *)
(* parts.                                                                  *)
LEMMA HeaderOutside ==
    ASSUME NEW m, NEW F, NEW H, Heap(m, F, H), NEW D \in SUBSET H,
           NEW a \in (F \cup H \cup {Start}) \ D, NEW x \in Nat, a <= x, x < a + 4
    PROVE  x \in Inside /\ \A b \in D : x < b + 2 \/ x >= b + Sz(m, b)
<1>1. a \in Nat /\ a >= Start /\ a + 4 <= End /\ Start \in Nat /\ End \in Nat
  BY HeapFacts, Consts
<1>2. x \in Inside
  BY <1>1, Intervals
<1>3. ASSUME NEW b \in D PROVE x < b + 2 \/ x >= b + Sz(m, b)
  <2>1. b \in Nat /\ Sz(m, b) \in Nat /\ a # b
    BY HeapFacts
  <2>2. a < b => a + 4 <= b
    BY HeapFacts
  <2>3. b < a => b + Sz(m, b) <= a
    BY HeapFacts
  <2> QED BY <1>1, <2>1, <2>2, <2>3
<1> QED BY <1>2, <1>3

(* So is the inside of a free block.                                       *)
LEMMA BlockOutside ==
    ASSUME NEW m, NEW F, NEW H, Heap(m, F, H),
           NEW f \in F, NEW x \in Nat, f <= x, x < f + Sz(m, f)
    PROVE  x \in Inside /\ \A b \in H : x < b + 2 \/ x >= b + Sz(m, b)
<1>1. /\ f \in Nat /\ f >= Start /\ Sz(m, f) \in Nat /\ f + Sz(m, f) <= End
      /\ Start \in Nat /\ End \in Nat
  BY HeapFacts, Consts
<1>2. x \in Inside
  BY <1>1, Intervals
<1>3. ASSUME NEW b \in H PROVE x < b + 2 \/ x >= b + Sz(m, b)
  <2>1. b \in Nat /\ Sz(m, b) \in Nat /\ f # b
    BY HeapFacts DEF Heap
  <2>2. f < b => f + Sz(m, f) <= b
    BY HeapFacts
  <2>3. b < f => b + Sz(m, b) <= f
    BY HeapFacts
  <2> QED BY <1>1, <2>1, <2>2, <2>3
<1> QED BY <1>2, <1>3

(* Writing between the header and the end of a block leaves the words of   *)
(* all blocks.                                                             *)
LEMMA DataFrame ==
    ASSUME NEW m \in Memory, NEW p \in Memory, NEW F, NEW H, Heap(m, F, H), NEW g \in H,
           \A x \in Addresses : p[x] # m[x] => g + 2 <= x /\ x < g + Sz(m, g)
    PROVE  /\ \A a \in F \cup H \cup {Start} : Sz(p, a) = Sz(m, a)
           /\ \A a \in F \cup {Start} : Nx(p, a) = Nx(m, a)
           /\ Heap(p, F, H)
<1>1. g \in H /\ g \in Nat /\ g >= Start + 4 /\ Sz(m, g) \in Nat /\ g + Sz(m, g) <= End
      /\ g \notin F /\ Start \in Nat /\ End \in Nat
  <2>1. g \in H
    OBVIOUS
  <2>2. g \notin F
    BY <2>1 DEF Heap
  <2> QED BY <2>1, <2>2, HeapFacts, Consts
<1>2. ASSUME NEW a \in F \cup H \cup {Start}, NEW x \in Addresses, a <= x,
             x < a + 2 \/ (a # g /\ x < a + 4)
      PROVE  p[x] = m[x]
  <2>1. a \in Nat /\ (a < g => a + 4 <= g) /\ (g < a => g + Sz(m, g) <= a)
    BY <1>1, HeapFacts
  <2>2. x \in Nat
    BY DEF Addresses
  <2> QED BY <1>1, <1>2, <2>1, <2>2
<1>3. ASSUME NEW a \in F \cup H \cup {Start}
      PROVE  Sz(p, a) = Sz(m, a) /\ (a # g => Nx(p, a) = Nx(m, a))
  <2>1. a \in Nat /\ a \in Addresses /\ a + 1 \in Addresses /\ a + 2 \in Addresses
        /\ a + 3 \in Addresses /\ a + 3 < Top /\ (a + 2) + 1 = a + 3 /\ a + 1 < Top
    BY HeapFacts, Consts
  <2>2. p[a] = m[a] /\ p[a + 1] = m[a + 1]
    BY <1>2, <2>1
  <2>3. a # g => p[a + 2] = m[a + 2] /\ p[a + 3] = m[a + 3]
    BY <1>2, <2>1
  <2>4. WordOf(p, a) = WordOf(m, a)
    BY <2>1, <2>2, WordRange
  <2>5. a # g => WordOf(p, a + 2) = WordOf(m, a + 2)
    BY <2>1, <2>3, WordRange
  <2> QED BY <2>4, <2>5 DEF Sz, Nx
<1>4. g # Start
  BY <1>1
<1>5. Heap(p, F, H)
  BY <1>1, <1>3, <1>4, SameHeap
<1> QED BY <1>1, <1>3, <1>4, <1>5

(* Writing to the contents of a block the program has keeps the heap and   *)
(* the contents of the others.                                             *)
LEMMA DataWrite ==
    ASSUME NEW m \in Memory, NEW p \in Memory, NEW F, NEW H, NEW hd, NEW st, NEW st2,
           Heap(m, F, H), Contents(m, hd, st), DOMAIN hd \subseteq H,
           NEW g \in DOMAIN hd,
           \A x \in Addresses : p[x] # m[x] => g + 2 <= x /\ x < g + Sz(m, g),
           DOMAIN st2 = DOMAIN st,
           \A b \in DOMAIN st : b # g => st2[b] = st[b],
           \A k \in DOMAIN st2[g] : k \in Nat /\ k < hd[g] /\ p[g + 2 + k] = st2[g][k]
    PROVE  Heap(p, F, H) /\ Contents(p, hd, st2)
<1>1. /\ g \in H /\ g \in Nat /\ Sz(m, g) \in Nat /\ g + Sz(m, g) <= End
      /\ g >= Start + 4 /\ Start \in Nat /\ End \in Nat
  BY HeapFacts, Consts
<1>3. \A a \in F \cup H \cup {Start} : Sz(p, a) = Sz(m, a)
  BY <1>1, DataFrame
<1>5. Heap(p, F, H)
  BY <1>1, DataFrame
<1>6. ASSUME NEW b \in DOMAIN hd, b # g, NEW k \in DOMAIN st[b]
      PROVE  p[b + 2 + k] = m[b + 2 + k]
  <2>1. k \in Nat /\ k < hd[b] /\ hd[b] \in Nat /\ hd[b] + 2 <= Sz(m, b)
    BY Consts DEF Contents
  <2>2. /\ b \in Nat /\ Sz(m, b) \in Nat /\ b + Sz(m, b) <= End
        /\ b < g => b + Sz(m, b) <= g
        /\ g < b => g + Sz(m, g) <= b
    BY <1>1, HeapFacts
  <2>3. b + 2 + k \in Nat /\ b + 2 + k >= b + 2 /\ b + 2 + k < b + Sz(m, b)
    BY <2>1, <2>2
  <2>4. b + 2 + k \in Addresses
    BY <2>2, <2>3, Consts DEF Addresses
  <2> QED BY <1>1, <1>6, <2>2, <2>3, <2>4
<1>7. \A x \in Addresses \ Inside : p[x] = m[x]
  <2>1. ASSUME NEW x \in Addresses, p[x] # m[x] PROVE x \in Inside
    BY <1>1, <2>1, Intervals DEF Addresses
  <2> QED BY <2>1
<1>8. \A b \in DOMAIN hd : Sz(p, b) = Sz(m, b)
  BY <1>3
<1>9. Contents(p, hd, st2)
  BY <1>6, <1>7, <1>8 DEF Contents
<1> QED BY <1>5, <1>9

----------------------------------------------------------------------------
(* The invariant.                                                          *)

(* Blocks that are not free: those given out, and the one on its way back. *)
Others == DOMAIN held \cup (IF pc = "search" THEN {bc} ELSE {})

(* The types, and what the routine called has to do with where it is.      *)
Registers ==
    /\ pc \in {"rest", "loop", "got", "search", "join", "joinprev", "ldir"}
    /\ kind \in {"none", "alloc", "calloc", "free", "realloc"}
    /\ n \in Lengths \cup {0}
    /\ hl \in Addresses /\ temp \in Addresses /\ bc \in Addresses
    /\ de \in Addresses /\ rest \in Addresses
    /\ first \in Byte \X Byte /\ ret \in Addresses \cup {None}
    /\ kind = "realloc" => n \in Resizes
    /\ pc = "loop" => kind \in {"alloc", "calloc", "realloc"} /\ n \in Lengths /\ bc = n + 2
    /\ pc \in {"search", "join", "joinprev"} => kind \in {"free", "realloc"}

(* callocate and reallocate have a new block, of which nothing is promised *)
(* yet.                                                                    *)
NewBlock ==
    pc \in {"got", "ldir"} =>
        /\ kind \in {"calloc", "realloc"} /\ n \in Lengths
        /\ ret - 2 \in DOMAIN held /\ held[ret - 2] = n
        /\ DOMAIN stored[ret - 2] = {}

(* The bytes to go are the last of the new block; callocate has cleared    *)
(* the others and copies each byte from the one before it.                 *)
Moving ==
    /\ pc = "got" => hl = ret
    /\ pc = "ldir" => bc >= 1 /\ bc < n /\ de = ret + (n - bc)
    /\ pc = "ldir" /\ kind = "calloc" =>
           hl + 1 = de /\ \A j \in Nat : j < n - bc => mem[ret + j] = 0

(* A walk is at a free block or at the dummy: an allocation knows the      *)
(* block before, a free has not passed its place, a join stands before the *)
(* block freed.                                                            *)
Walk(F) ==
    /\ pc = "loop" => /\ hl \in F \cup {Start, Null}
                      /\ hl \in F => temp \in F \cup {Start} /\ Nx(mem, temp) = hl
    /\ pc = "search" => hl \in F \cup {Start} /\ hl < bc /\ bc \notin DOMAIN held
    /\ pc = "join" => bc \in F /\ hl \in F \cup {Start} /\ Nx(mem, hl) = bc
    /\ pc = "joinprev" => hl \in F \cup {Start}

ByteInv ==
    /\ mem \in Memory /\ Contents(mem, held, stored)
    /\ Registers /\ NewBlock /\ Moving
    /\ \E F : Heap(mem, F, Others) /\ Walk(F)

LEMMA Words ==
    /\ \A b : Size(b) = Sz(mem, b)
    /\ \A b : NextOf(b) = Nx(mem, b)
  BY DEF Size, NextOf, Word, Sz, Nx, WordOf

(* Zero is an address and a byte.                                          *)
LEMMA ZeroFits == 0 \in Addresses /\ 0 \in Byte
  BY Consts DEF Addresses, Byte

(* A call that ends leaves the invariant if it leaves a heap.              *)
LEMMA AtRestInv ==
    ASSUME AtRest, ret' \in Addresses \cup {None},
           (mem \in Memory)', Contents(mem, held, stored)',
           NEW F, Heap(mem', F, DOMAIN held')
    PROVE  ByteInv'
<1>1. Registers'
  BY ZeroFits DEF AtRest, Registers
<1>2. NewBlock' /\ Moving' /\ Walk(F)'
  BY DEF AtRest, NewBlock, Moving, Walk
<1>3. Others' = DOMAIN held'
  BY DEF AtRest, Others
<1> QED BY <1>1, <1>2, <1>3 DEF ByteInv

(* A walk that goes on keeps what it knows of the registers.               *)
LEMMA WalkInv ==
    ASSUME pc' \in {"loop", "search", "join", "joinprev"}, Registers',
           (mem \in Memory)', Contents(mem, held, stored)',
           NEW F, Heap(mem', F, Others'), Walk(F)'
    PROVE  ByteInv'
<1>1. NewBlock' /\ Moving'
  BY DEF NewBlock, Moving
<1> QED BY <1>1 DEF ByteInv

(* A function with one more value.                                         *)
Extended(f, b, v) == [x \in DOMAIN f \cup {b} |-> IF x = b THEN v ELSE f[x]]

LEMMA ContentsGrant ==
    ASSUME NEW m, NEW hd, NEW st, Contents(m, hd, st),
           NEW b, NEW k \in Lengths, k + 2 <= Sz(m, b)
    PROVE  Contents(m, Extended(hd, b, k), Extended(st, b, <<>>))
<1>1. /\ DOMAIN Extended(hd, b, k) = DOMAIN hd \cup {b} /\ Extended(hd, b, k)[b] = k
      /\ \A x \in DOMAIN hd : x # b => Extended(hd, b, k)[x] = hd[x]
  BY DEF Extended
<1>2. /\ DOMAIN Extended(st, b, <<>>) = DOMAIN st \cup {b}
      /\ Extended(st, b, <<>>)[b] = <<>>
      /\ \A x \in DOMAIN st : x # b => Extended(st, b, <<>>)[x] = st[x]
  BY DEF Extended
<1>3. DOMAIN <<>> = {}
  OBVIOUS
<1> QED BY <1>1, <1>2, <1>3 DEF Contents

LEMMA ContentsForget ==
    ASSUME NEW m, NEW hd, NEW st, Contents(m, hd, st), NEW b
    PROVE  Contents(m, Forget(hd, b), Forget(st, b))
<1>1. /\ DOMAIN Forget(hd, b) = DOMAIN hd \ {b} /\ DOMAIN Forget(st, b) = DOMAIN st \ {b}
      /\ \A x \in DOMAIN hd \ {b} : Forget(hd, b)[x] = hd[x]
      /\ \A x \in DOMAIN st \ {b} : Forget(st, b)[x] = st[x]
  BY DEF Forget
<1> QED BY <1>1 DEF Contents

(* The block given to the program is one it did not have.                  *)
LEMMA GrantInv ==
    ASSUME Registers, NEW b \in Nat, Grant(b), n \in Lengths,
           kind \in {"alloc", "calloc", "realloc"},
           (mem \in Memory)', Contents(mem', held, stored),
           b + 2 < Top, n + 2 <= Sz(mem', b), b \notin DOMAIN held,
           NEW F, Heap(mem', F, DOMAIN held \cup {b})
    PROVE  ByteInv'
<1>1. b + 2 \in Addresses
  BY DEF Addresses
<1>2. held' = Extended(held, b, n) /\ stored' = Extended(stored, b, <<>>) /\ ret' = b + 2
  BY DEF Grant, Extended
<1>3. Contents(mem, held, stored)'
  <2>1. Contents(mem', Extended(held, b, n), Extended(stored, b, <<>>))
    BY ContentsGrant
  <2> QED BY <1>2, <2>1
<1>4. DOMAIN held' = DOMAIN held \cup {b} /\ Heap(mem', F, DOMAIN held')
  BY <1>2 DEF Extended
<1>5. CASE kind = "alloc"
  BY <1>1, <1>2, <1>3, <1>4, <1>5, AtRestInv DEF Grant
<1>6. CASE kind # "alloc"
  <2>1. pc' = "got" /\ hl' = b + 2 /\ temp' = 0 /\ bc' = n
        /\ UNCHANGED <<de, first, rest, before, kind, n>>
    BY <1>6 DEF Grant
  <2>2. n \in Addresses
    BY Consts DEF Addresses
  <2>3. Registers'
    BY <1>1, <1>2, <2>1, <2>2, ZeroFits DEF Registers
  <2>4. b \in DOMAIN held' /\ held'[b] = n /\ stored'[b] = <<>>
    <3>1. DOMAIN stored = DOMAIN held
      BY DEF Contents
    <3> QED BY <1>2, <3>1 DEF Extended
  <2>5. ret' - 2 = b /\ DOMAIN <<>> = {}
    BY <1>2
  <2>6. NewBlock'
    BY <1>6, <2>1, <2>4, <2>5 DEF NewBlock
  <2>7. Moving' /\ Walk(F)' /\ Others' = DOMAIN held'
    BY <1>2, <2>1 DEF Moving, Walk, Others
  <2> QED BY <1>3, <1>4, <2>3, <2>6, <2>7 DEF ByteInv
<1> QED BY <1>5, <1>6

(* __MEM_JOIN_TEST at a free block or the dummy: nothing, or the block     *)
(* absorbs the next one.                                                   *)
Absorbs(b) == b + Sz(mem, b) = Nx(mem, b)

(* In p, b has absorbed the free block that follows it in m.               *)
Absorbed(m, p, F, H, b) ==
    /\ b \in F /\ Nx(m, b) \in F /\ b < Nx(m, b)
    /\ Sz(m, b) + Sz(m, Nx(m, b)) < Top
    /\ Heap(p, F \ {Nx(m, b)}, H)
    /\ Sz(p, b) = Sz(m, b) + Sz(m, Nx(m, b))
    /\ Nx(p, b) = Nx(m, Nx(m, b))
    /\ \A a \in F \cup H \cup {Start} : a # b => Sz(p, a) = Sz(m, a)
    /\ \A a \in F \cup {Start} : a # b => Nx(p, a) = Nx(m, a)

LEMMA JoinedWords ==
    ASSUME mem \in Memory, NEW F, NEW H, Heap(mem, F, H),
           NEW b \in F \cup {Start}, Contents(mem, held, stored), DOMAIN held \subseteq H
    PROVE  /\ Joined(b) \in Memory /\ Contents(Joined(b), held, stored)
           /\ b \in Nat /\ (b + Sz(mem, b)) % Top = b + Sz(mem, b)
           /\ ~Absorbs(b) => Joined(b) = mem
           /\ Absorbs(b) => Absorbed(mem, Joined(b), F, H, b)
<1> DEFINE c == Nx(mem, b)
           sum == Sz(mem, b) + Sz(mem, c)
           one == Put(mem, b, sum)
           p == Put(one, b + 2, Nx(mem, c))
<1>1. /\ b \in Nat /\ b > 0 /\ Sz(mem, b) \in Nat /\ b + Sz(mem, b) < Top
      /\ c \in Nat /\ c \in F \cup {Null} /\ (c # Null => c > b)
  <2>1. /\ b \in Nat /\ b > 0 /\ Sz(mem, b) \in Nat /\ b + Sz(mem, b) <= End
        /\ c \in Nat
    BY HeapFacts
  <2>2. c \in F \cup {Null} /\ (c # Null => c > b)
    BY DEF Heap, Chain
  <2> QED BY <2>1, <2>2, Consts
<1>2. (b + Sz(mem, b)) % Top = b + Sz(mem, b)
  BY <1>1, Wrap
<1>3. CASE ~Absorbs(b)
  <2>1. Joined(b) = mem
    BY <1>2, <1>3, Words DEF Joined, Absorbs
  <2> QED BY <1>1, <1>2, <1>3, <2>1
<1>5. CASE Absorbs(b)
  <2>0. b + Sz(mem, b) = c
    BY <1>5 DEF Absorbs
  <2>1. c \in F /\ b < c
    BY <1>1, <2>0, Consts
  <2>2. b \in F /\ b \notin DOMAIN held
    BY <1>1, <2>0, <2>1, HeapFacts DEF Heap
  <2>3. Sz(mem, c) \in Nat /\ c + Sz(mem, c) <= End /\ Nx(mem, c) \in Nat
    BY <2>1, HeapFacts
  <2>4. sum \in Nat /\ sum < Top /\ sum % Top = sum /\ sum = c - b + Sz(mem, c)
    <3>1. sum \in Nat /\ sum = c - b + Sz(mem, c) /\ sum < Top
      BY <1>1, <2>0, <2>3, Consts
    <3> QED BY <3>1, Wrap
  <2>5. Nx(mem, c) < Top
    <3>1. Nx(mem, c) \in F \cup {Null}
      BY <2>1 DEF Heap, Chain
    <3> QED BY <3>1, HeapFacts, Consts DEF Addresses
  <2>6. Joined(b) = p
    BY <1>2, <2>0, <2>4, Words DEF Joined
  <2> DEFINE B == F \cup H \cup {Start}
  <2>7. Spaced(B) /\ b \in B
    BY HeapSpaced
  <2> HIDE DEF c, sum, B
  <2>8. /\ one \in Memory /\ Sz(one, b) = sum
        /\ \A a \in B : a # b => Sz(one, a) = Sz(mem, a)
        /\ \A a \in B : Nx(one, a) = Nx(mem, a)
        /\ \A x \in Addresses : one[x] # mem[x] => b <= x /\ x < b + 4
    BY <2>4, <2>7, PutSize
  <2> HIDE DEF one
  <2>9. /\ p \in Memory /\ Nx(p, b) = Nx(mem, c)
        /\ \A a \in B : Sz(p, a) = Sz(one, a)
        /\ \A a \in B : a # b => Nx(p, a) = Nx(one, a)
        /\ \A x \in Addresses : p[x] # one[x] => b <= x /\ x < b + 4
    BY <2>3, <2>5, <2>7, <2>8, PutLink
  <2> HIDE DEF p
  <2>10. Heap(p, F \ {c}, H)
    <3>1. Sz(p, b) = Sz(mem, b) + Sz(mem, c)
      BY <2>7, <2>8, <2>9 DEF sum
    <3>2. /\ \A a \in F \cup H \cup {Start} : a # b => Sz(p, a) = Sz(mem, a)
          /\ \A a \in F \cup {Start} : a # b => Nx(p, a) = Nx(mem, a)
      BY <2>8, <2>9 DEF B
    <3>3. Nx(mem, b) = c
      BY DEF c
    <3> QED BY <2>0, <2>1, <2>2, <2>9, <3>1, <3>2, <3>3, Absorb
  <2>11. Contents(p, held, stored)
    <3>1. \A x \in Addresses : p[x] # mem[x] => b <= x /\ x < b + 4
      BY <2>8, <2>9
    <3>2. \A a \in DOMAIN held : Sz(p, a) = Sz(mem, a)
      BY <2>2, <2>8, <2>9 DEF B
    <3>3. ASSUME NEW x \in Addresses, p[x] # mem[x]
          PROVE  x \in Inside /\ \A a \in DOMAIN held : x < a + 2 \/ x >= a + Sz(mem, a)
      <4>1. x \in Nat /\ b <= x /\ x < b + 4
        BY <3>1, <3>3 DEF Addresses
      <4> QED BY <2>2, <4>1, HeaderOutside
    <3> QED BY <3>2, <3>3, ContentsKept
  <2>12. b < c /\ sum < Top
    BY <1>1, <2>1, <2>4
  <2>13. /\ Sz(p, b) = sum /\ Nx(p, b) = Nx(mem, c)
         /\ \A a \in F \cup H \cup {Start} : a # b => Sz(p, a) = Sz(mem, a)
         /\ \A a \in F \cup {Start} : a # b => Nx(p, a) = Nx(mem, a)
    BY <2>7, <2>8, <2>9 DEF B
  <2>14. Absorbed(mem, p, F, H, b)
    <3>1. b \in F /\ c \in F
      BY <2>1, <2>2
    <3> QED BY <2>10, <2>12, <2>13, <3>1 DEF Absorbed, sum, c
  <2> QED BY <1>1, <1>2, <1>5, <2>6, <2>9, <2>11, <2>14
<1> QED BY <1>3, <1>5

LEMMA JoinedHeap ==
    ASSUME mem \in Memory, NEW F, NEW H, Heap(mem, F, H),
           NEW b \in F \cup {Start}, Contents(mem, held, stored), DOMAIN held \subseteq H
    PROVE  /\ Joined(b) \in Memory
           /\ Contents(Joined(b), held, stored)
           /\ \E G \in SUBSET F : /\ Heap(Joined(b), G, H)
                                  /\ \A a \in F : a <= b => a \in G
<1>1. CASE Absorbs(b)
  <2>1. /\ b < Nx(mem, b) /\ b \in Nat /\ Nx(mem, b) \in F
        /\ Heap(Joined(b), F \ {Nx(mem, b)}, H)
    <3>1. b \in Nat /\ Absorbed(mem, Joined(b), F, H, b)
      BY <1>1, JoinedWords
    <3> QED BY <3>1 DEF Absorbed
  <2>2. \A a \in F : a <= b => a \in F \ {Nx(mem, b)}
    BY <2>1, HeapFacts
  <2>3. Joined(b) \in Memory /\ Contents(Joined(b), held, stored)
    BY JoinedWords
  <2> DEFINE G == F \ {Nx(mem, b)}
  <2>4. G \in SUBSET F /\ Heap(Joined(b), G, H) /\ \A a \in F : a <= b => a \in G
    BY <2>1, <2>2
  <2> HIDE DEF G
  <2> QED BY <2>3, <2>4
<1>2. CASE ~Absorbs(b)
  <2>1. Joined(b) = mem
    BY <1>2, JoinedWords
  <2> QED BY <2>1
<1> QED BY <1>1, <1>2

----------------------------------------------------------------------------
(* Every action keeps the invariant.                                       *)

LEMMA AllocInv ==
    ASSUME ByteInv, NEW k \in {"alloc", "calloc"}, NEW m \in Requests,
           Alloc(k, m)
    PROVE  ByteInv'
<1>1. PICK F : Heap(mem, F, Others) /\ Walk(F)
  BY DEF ByteInv
<1>2. m \in Lengths /\ m \in Nat /\ m + 2 < Top /\ (m + 2) % Top = m + 2
  BY Consts DEF Lengths
<1>3. /\ kind' = k /\ n' = m /\ bc' = m + 2 /\ hl' = Start /\ temp' = Null /\ pc' = "loop"
      /\ UNCHANGED <<mem, held, stored, de, first, rest, ret>>
  BY <1>2 DEF Alloc
<1>4. Start \in Addresses /\ Null \in Addresses /\ bc' \in Addresses
  BY <1>2, <1>3, Consts DEF Addresses
<1>5. Registers'
  BY <1>2, <1>3, <1>4 DEF ByteInv, Registers
<1>6. Others = DOMAIN held /\ Others' = DOMAIN held
  BY <1>3 DEF Others, Alloc
<1>7. Walk(F)'
  BY <1>1, <1>3, HeapFacts DEF Walk
<1> QED BY <1>1, <1>3, <1>5, <1>6, <1>7, WalkInv DEF ByteInv

LEMMA OutOfMemoryInv ==
    ASSUME ByteInv, OutOfMemory
    PROVE  ByteInv'
<1>1. PICK F : Heap(mem, F, Others)
  BY DEF ByteInv
<1>2. Others = DOMAIN held
  BY DEF OutOfMemory, Others
<1>3. ret' \in Addresses
  BY ZeroFits, Consts DEF OutOfMemory
<1> QED BY <1>1, <1>2, <1>3, AtRestInv DEF ByteInv, OutOfMemory

LEMMA TooSmallInv ==
    ASSUME ByteInv, TooSmall
    PROVE  ByteInv'
<1>1. PICK F : Heap(mem, F, Others) /\ Walk(F)
  BY DEF ByteInv
<1>2. /\ pc = "loop" /\ pc' = "loop" /\ temp' = hl /\ hl' = Nx(mem, hl)
      /\ UNCHANGED <<mem, held, stored, kind, n, bc, de, first, rest, ret>>
  BY Words DEF TooSmall
<1>3. hl \in F \cup {Start}
  BY <1>1, <1>2 DEF Walk, TooSmall
<1>4. Nx(mem, hl) \in F \cup {Null}
  BY <1>1, <1>3 DEF Heap, Chain
<1>5. hl' \in Addresses
  BY <1>1, <1>2, <1>4, ZeroFits, HeapFacts, Consts
<1>6. Registers'
  BY <1>2, <1>5 DEF ByteInv, Registers
<1>7. Others' = Others /\ Walk(F)'
  BY <1>2, <1>3, <1>4 DEF Walk, Others
<1> QED BY <1>1, <1>2, <1>6, <1>7, WalkInv DEF ByteInv

(* An allocation that takes a block stands at a free one, behind the one   *)
(* that points to it.                                                      *)
LEMMA AtFree ==
    ASSUME ByteInv, pc = "loop", hl # Null, Fits(hl),
           NEW F, Heap(mem, F, Others), Walk(F)
    PROVE  /\ hl \in F /\ temp \in F \cup {Start} /\ Nx(mem, temp) = hl
           /\ Others = DOMAIN held /\ hl \notin DOMAIN held
           /\ hl \in Nat /\ bc \in Nat /\ Sz(mem, hl) \in Nat /\ Sz(mem, hl) >= bc
           /\ bc = n + 2 /\ n \in Lengths /\ kind \in {"alloc", "calloc", "realloc"}
           /\ hl + Sz(mem, hl) <= End
<1>1. /\ bc = n + 2 /\ n \in Lengths /\ n \in Nat
      /\ kind \in {"alloc", "calloc", "realloc"}
  BY Consts DEF ByteInv, Registers
<1>2. Sz(mem, hl) >= bc
  BY Words DEF Fits
<1>3. Sz(mem, Start) = 0
  BY DEF Heap
<1>4. hl # Start
  BY <1>1, <1>2, <1>3
<1>5. hl \in F /\ temp \in F \cup {Start} /\ Nx(mem, temp) = hl
  BY <1>4 DEF Walk
<1>6. Others = DOMAIN held
  BY DEF Others
<1>7. hl \notin DOMAIN held
  BY <1>5, <1>6 DEF Heap
<1>8. hl \in Nat /\ Sz(mem, hl) \in Nat /\ hl + Sz(mem, hl) <= End
  BY <1>5, HeapFacts
<1>9. bc \in Nat
  BY <1>1
<1> QED BY <1>1, <1>2, <1>5, <1>6, <1>7, <1>8, <1>9

LEMMA TakeWholeWords ==
    ASSUME ByteInv, TakeWhole, NEW F, Heap(mem, F, Others), Walk(F)
    PROVE  /\ hl \in F /\ hl \in Nat /\ temp \in F \cup {Start} /\ Nx(mem, temp) = hl
           /\ Others = DOMAIN held /\ hl \notin DOMAIN held
           /\ n \in Lengths /\ kind \in {"alloc", "calloc", "realloc"}
           /\ (mem \in Memory)' /\ Contents(mem', held, stored)
           /\ Heap(mem', F \ {hl}, DOMAIN held \cup {hl})
           /\ \A a \in F \cup DOMAIN held \cup {Start} : Sz(mem', a) = Sz(mem, a)
           /\ Nx(mem', temp) = Nx(mem, hl)
           /\ \A a \in F \cup {Start} : a # temp => Nx(mem', a) = Nx(mem, a)
           /\ hl + 2 < Top /\ n + 2 <= Sz(mem', hl)
<1>1. Heap(mem, F, Others) /\ Walk(F)
  OBVIOUS
<1>2. /\ hl \in F /\ temp \in F \cup {Start} /\ Nx(mem, temp) = hl
      /\ Others = DOMAIN held /\ hl \notin DOMAIN held
      /\ hl \in Nat /\ Sz(mem, hl) \in Nat /\ Sz(mem, hl) >= n + 2 /\ n \in Lengths
      /\ kind \in {"alloc", "calloc", "realloc"}
  BY <1>1, AtFree DEF TakeWhole
<1> DEFINE H == DOMAIN held
           B == F \cup H \cup {Start}
<1>3. Heap(mem, F, H) /\ Spaced(B) /\ temp \in B
  BY <1>1, <1>2, HeapSpaced
<1>4. Nx(mem, hl) \in Nat /\ Nx(mem, hl) < Top
  <2>1. Nx(mem, hl) \in F \cup {Null}
    BY <1>2, <1>3 DEF Heap, Chain
  <2> QED BY <1>3, <2>1, HeapFacts, Consts DEF Addresses
<1> DEFINE p == Put(mem, temp + 2, Nx(mem, hl))
<1>5. mem' = p
  BY Words DEF TakeWhole
<1>6. mem \in Memory /\ Contents(mem, held, stored) /\ Registers
  BY DEF ByteInv
<1> HIDE DEF B
<1>7. /\ p \in Memory /\ Nx(p, temp) = Nx(mem, hl)
      /\ \A a \in B : Sz(p, a) = Sz(mem, a)
      /\ \A a \in B : a # temp => Nx(p, a) = Nx(mem, a)
      /\ \A x \in Addresses : p[x] # mem[x] => temp <= x /\ x < temp + 4
  BY <1>3, <1>4, <1>6, PutLink
<1> HIDE DEF p, H
<1>8. Heap(p, F \ {hl}, H \cup {hl})
  <2>1. \A a \in F \cup H \cup {Start} : Sz(p, a) = Sz(mem, a)
    BY <1>7 DEF B
  <2>2. \A a \in F \cup {Start} : a # temp => Nx(p, a) = Nx(mem, a)
    BY <1>7 DEF B
  <2>3. hl \in F /\ temp \in F \cup {Start} /\ Nx(mem, temp) = hl
        /\ Nx(p, temp) = Nx(mem, hl)
    BY <1>2, <1>7
  <2> QED BY <1>3, <2>1, <2>2, <2>3, TakeOut
<1>9. Contents(p, held, stored)
  <2>1. \A a \in DOMAIN held : Sz(p, a) = Sz(mem, a)
    BY <1>7 DEF B, H
  <2>2. temp \in (F \cup H \cup {Start}) \ DOMAIN held
    BY <1>2, <1>3, HeapFacts DEF H, Heap
  <2>3. ASSUME NEW x \in Addresses, p[x] # mem[x]
        PROVE  x \in Inside /\ \A a \in DOMAIN held : x < a + 2 \/ x >= a + Sz(mem, a)
    <3>1. x \in Nat /\ temp <= x /\ x < temp + 4
      BY <1>7, <2>3 DEF Addresses
    <3> QED BY <1>3, <2>2, <3>1, HeaderOutside DEF H
  <2> QED BY <1>3, <1>6, <2>1, <2>3, ContentsKept DEF H
<1>10. hl + 2 < Top /\ n + 2 <= Sz(p, hl)
  <2>1. hl + 2 < Top
    BY <1>2, <1>3, HeapFacts, Consts DEF Addresses
  <2> QED BY <1>2, <1>7, <2>1 DEF B
<1>11. /\ \A a \in F \cup DOMAIN held \cup {Start} : Sz(p, a) = Sz(mem, a)
       /\ \A a \in F \cup {Start} : a # temp => Nx(p, a) = Nx(mem, a)
  BY <1>7 DEF B, H
<1> QED BY <1>2, <1>5, <1>7, <1>8, <1>9, <1>10, <1>11 DEF H

LEMMA TakeWholeInv ==
    ASSUME ByteInv, TakeWhole
    PROVE  ByteInv'
<1>1. PICK F : Heap(mem, F, Others) /\ Walk(F)
  BY DEF ByteInv
<1>2. Registers /\ Grant(hl)
  BY DEF ByteInv, TakeWhole
<1> QED BY <1>1, <1>2, TakeWholeWords, GrantInv

LEMMA TakeTailWords ==
    ASSUME NoTinyRequest, ByteInv, TakeTail, NEW F, Heap(mem, F, Others), Walk(F)
    PROVE  LET left == Sz(mem, hl) - bc
               new == hl + left IN
           /\ hl \in F /\ Others = DOMAIN held /\ new \in Nat
           /\ new \notin F \cup DOMAIN held \cup {Start} /\ new + 2 < Top
           /\ n \in Lengths /\ bc = n + 2 /\ kind \in {"alloc", "calloc", "realloc"}
           /\ Grant(new)
           /\ (mem \in Memory)' /\ Contents(mem', held, stored)
           /\ Heap(mem', F, DOMAIN held \cup {new})
           /\ Sz(mem', hl) = left /\ Sz(mem', new) = bc
           /\ \A a \in F \cup DOMAIN held \cup {Start} : a # hl => Sz(mem', a) = Sz(mem, a)
           /\ \A a \in F \cup {Start} : Nx(mem', a) = Nx(mem, a)
<1>1. Heap(mem, F, Others) /\ Walk(F)
  OBVIOUS
<1>2. /\ hl \in F /\ Others = DOMAIN held /\ hl \notin DOMAIN held
      /\ hl \in Nat /\ bc \in Nat /\ Sz(mem, hl) \in Nat /\ bc = n + 2 /\ n \in Lengths
      /\ kind \in {"alloc", "calloc", "realloc"} /\ hl + Sz(mem, hl) <= End
  BY <1>1, AtFree DEF TakeTail
<1> DEFINE H == DOMAIN held
           left == Sz(mem, hl) - bc
           new == hl + left
           B == F \cup H \cup {Start, new}
           one == Put(mem, hl, left)
           p == Put(one, new, bc)
<1>3. n \in Nat /\ n >= 2
  BY <1>2, Consts DEF NoTinyRequest, Lengths
<1>4. left >= 4 /\ left \in Nat /\ bc >= 4 /\ left + bc = Sz(mem, hl)
  <2>1. left >= 4
    BY Words, Consts DEF TakeTail
  <2> QED BY <1>2, <1>3, <2>1
<1>5. left < Top /\ bc < Top /\ End \in Nat /\ End < Top
  BY <1>2, <1>4, Consts
<1>6. mem' = p /\ Grant(new)
  BY Words DEF TakeTail
<1>7. mem \in Memory /\ Contents(mem, held, stored) /\ Registers
  BY DEF ByteInv
<1>8. Heap(mem, F, H)
  BY <1>1, <1>2
<1> HIDE DEF left, H
<1>9. new \in Nat /\ new = hl + left /\ new + bc = hl + Sz(mem, hl) /\ new + bc <= End
  BY <1>2, <1>4
<1>10. /\ \A a \in F \cup H \cup {Start} : a \in Nat /\ a + 3 < Top
       /\ \A a \in F \cup H \cup {Start} : a < hl => a + 4 <= hl
       /\ \A a \in F \cup H \cup {Start} : hl < a => new + bc <= a
       /\ \A a, b \in F \cup H \cup {Start} : a < b => a + 4 <= b
  <2>1. \A a \in F \cup H \cup {Start} : hl < a => hl + Sz(mem, hl) <= a
    <3>1. hl > Start
      BY <1>2, <1>8, HeapFacts
    <3>2. \A a \in F \cup H : hl < a => hl + Sz(mem, hl) <= a
      BY <1>2, <1>8, HeapFacts
    <3> QED BY <1>2, <3>1, <3>2, Consts
  <2>2. \A a, b \in F \cup H \cup {Start} : a < b => a + 4 <= b
    BY <1>8, HeapFacts
  <2>3. \A a \in F \cup H \cup {Start} : a \in Nat /\ a + 3 < Top
    BY <1>8, HeapFacts, Consts
  <2> QED BY <1>2, <1>9, <2>1, <2>2, <2>3
<1> HIDE DEF new
<1>11. new \notin F \cup H \cup {Start} /\ new # hl
  BY <1>2, <1>4, <1>9, <1>10
<1>12. Spaced(B) /\ hl \in B /\ new \in B
  <2>1. B = (F \cup H \cup {Start}) \cup {new}
    OBVIOUS
  <2>2. \A a \in F \cup H \cup {Start} : /\ a < new => a + 4 <= new
                                         /\ new < a => new + 4 <= a
    BY <1>2, <1>4, <1>9, <1>10
  <2>3. new \in Nat /\ new + 3 < Top
    BY <1>2, <1>4, <1>5, <1>9, Consts
  <2> HIDE DEF B
  <2>4. Spaced(B)
    BY <1>10, <2>1, <2>2, <2>3 DEF Spaced
  <2> QED BY <1>2, <2>1, <2>4
<1> HIDE DEF B
<1>13. /\ one \in Memory /\ Sz(one, hl) = left
       /\ \A b \in B : b # hl => Sz(one, b) = Sz(mem, b)
       /\ \A b \in B : Nx(one, b) = Nx(mem, b)
       /\ \A x \in Addresses : one[x] # mem[x] => hl <= x /\ x < hl + 4
  BY <1>4, <1>5, <1>7, <1>12, PutSize
<1> HIDE DEF one
<1>14. /\ p \in Memory /\ Sz(p, new) = bc
       /\ \A b \in B : b # new => Sz(p, b) = Sz(one, b)
       /\ \A b \in B : Nx(p, b) = Nx(one, b)
       /\ \A x \in Addresses : p[x] # one[x] => new <= x /\ x < new + 4
  BY <1>2, <1>5, <1>12, <1>13, PutSize
<1> HIDE DEF p
<1>15. /\ Sz(p, hl) = left
       /\ \A a \in F \cup H \cup {Start} : a # hl => Sz(p, a) = Sz(mem, a)
       /\ \A a \in F \cup {Start} : Nx(p, a) = Nx(mem, a)
  BY <1>11, <1>12, <1>13, <1>14 DEF B
<1>16. Heap(p, F, H \cup {new}) /\ new \notin DOMAIN held
  <2>1. Sz(p, hl + left) = bc
    BY <1>9, <1>14
  <2>2. Heap(p, F, H \cup {hl + left})
    <3>1. /\ hl \in F /\ left \in Nat /\ bc \in Nat
          /\ left >= 4 /\ bc >= 4 /\ left + bc = Sz(mem, hl)
      BY <1>2, <1>4
    <3> QED BY <1>8, <1>15, <2>1, <3>1, CarveTail
  <2> QED BY <1>9, <1>11, <2>2 DEF H
<1>17. Contents(p, held, stored)
  <2>1. \A a \in DOMAIN held : Sz(p, a) = Sz(mem, a)
    BY <1>2, <1>15 DEF H
  <2>2. ASSUME NEW x \in Addresses, p[x] # mem[x]
        PROVE  x \in Inside /\ \A a \in DOMAIN held : x < a + 2 \/ x >= a + Sz(mem, a)
    <3>1. x \in Nat
      BY DEF Addresses
    <3>2. (hl <= x /\ x < hl + 4) \/ (new <= x /\ x < new + 4)
      BY <1>13, <1>14, <2>2
    <3>3. hl <= x /\ x < hl + Sz(mem, hl)
      BY <1>2, <1>4, <1>9, <3>1, <3>2
    <3> QED BY <1>2, <1>8, <3>1, <3>3, BlockOutside DEF H
  <2> QED BY <1>7, <1>8, <2>1, <2>2, ContentsKept DEF H
<1>18. new + 2 < Top
  BY <1>2, <1>4, <1>5, <1>9, Consts
<1> QED BY <1>2, <1>6, <1>9, <1>11, <1>14, <1>15, <1>16, <1>17, <1>18 DEF H, new, left

LEMMA TakeTailInv ==
    ASSUME NoTinyRequest, ByteInv, TakeTail
    PROVE  ByteInv'
<1>1. PICK F : Heap(mem, F, Others) /\ Walk(F)
  BY DEF ByteInv
<1> DEFINE new == hl + (Sz(mem, hl) - bc)
<1>2. /\ new \in Nat /\ new \notin DOMAIN held /\ new + 2 < Top /\ Grant(new)
      /\ n \in Lengths /\ kind \in {"alloc", "calloc", "realloc"}
      /\ (mem \in Memory)' /\ Contents(mem', held, stored)
      /\ Heap(mem', F, DOMAIN held \cup {new})
      /\ Sz(mem', new) = n + 2
  BY <1>1, TakeTailWords
<1>3. Registers /\ n + 2 <= Sz(mem', new)
  <2>1. n + 2 \in Nat
    BY <1>2, Consts
  <2> QED BY <1>2, <2>1 DEF ByteInv
<1> HIDE DEF new
<1> QED BY <1>2, <1>3, GrantInv

(* What the block freed leaves behind, for __MEM_FREE and __REALLOC.       *)
LEMMA FreeFromInv ==
    ASSUME ByteInv, pc = "rest", NEW b \in DOMAIN held, FreeFrom(b), Registers',
           UNCHANGED mem
    PROVE  ByteInv'
<1>1. PICK F : Heap(mem, F, Others) /\ Walk(F)
  BY DEF ByteInv
<1>2. Others = DOMAIN held
  BY DEF Others
<1>3. /\ held' = Forget(held, b) /\ stored' = Forget(stored, b)
      /\ bc' = b /\ hl' = Start /\ pc' = "search"
  BY DEF FreeFrom
<1>4. DOMAIN held' = DOMAIN held \ {b}
  BY <1>3 DEF Forget
<1>5. Others' = DOMAIN held
  BY <1>3, <1>4 DEF Others
<1>6. Contents(mem, held, stored)'
  <2>1. Contents(mem, Forget(held, b), Forget(stored, b))
    BY ContentsForget DEF ByteInv
  <2> QED BY <1>3, <2>1
<1>7. Start < b
  BY <1>1, <1>2, HeapFacts, Consts
<1>8. Walk(F)'
  BY <1>3, <1>4, <1>7 DEF Walk
<1> QED BY <1>1, <1>2, <1>3, <1>5, <1>6, <1>8, WalkInv DEF ByteInv

LEMMA FreeInv ==
    ASSUME ByteInv, NEW b \in DOMAIN held, Free(b)
    PROVE  ByteInv'
<1>1. PICK F : Heap(mem, F, Others)
  BY DEF ByteInv
<1>2. pc = "rest" /\ Others = DOMAIN held
  BY DEF Free, Others
<1>3. b \in Addresses /\ Start \in Addresses
  BY <1>1, <1>2, HeapFacts
<1>4. /\ pc' = "search" /\ kind' = "free" /\ n' = 0 /\ bc' = b /\ hl' = Start
      /\ UNCHANGED <<mem, temp, de, first, rest, ret>>
  BY DEF Free, FreeFrom
<1>5. Registers'
  BY <1>3, <1>4 DEF ByteInv, Registers
<1> QED BY <1>2, <1>4, <1>5, FreeFromInv DEF Free

LEMMA ReallocInv ==
    ASSUME ByteInv, NEW b \in DOMAIN held, NEW m \in Resizes, Realloc(b, m)
    PROVE  ByteInv'
<1>1. PICK F : Heap(mem, F, Others)
  BY DEF ByteInv
<1>2. pc = "rest" /\ Others = DOMAIN held
  BY DEF Realloc, Others
<1>3. b \in Addresses /\ Start \in Addresses /\ b + 2 \in Addresses /\ b + 3 \in Addresses
      /\ (b + 3) % Top = b + 3 /\ b + 4 \in Addresses
  <2>1. /\ b \in Nat /\ b + 4 <= End /\ b \in Addresses /\ Start \in Addresses
        /\ b + 2 \in Addresses /\ b + 3 \in Addresses
    BY <1>1, <1>2, HeapFacts
  <2>2. b + 4 \in Addresses /\ (b + 3) % Top = b + 3
    BY <2>1, Wrap, Consts DEF Addresses
  <2> QED BY <2>1, <2>2
<1>4. /\ pc' = "search" /\ kind' = "realloc" /\ n' = m /\ bc' = b /\ hl' = Start
      /\ first' = <<mem[b + 2], mem[(b + 3) % Top]>> /\ rest' = b + 4
      /\ UNCHANGED <<mem, temp, de, ret>>
  BY DEF Realloc, FreeFrom
<1>5. first' \in Byte \X Byte
  BY <1>3, <1>4 DEF ByteInv, Memory
<1>6. Registers'
  BY <1>3, <1>4, <1>5 DEF ByteInv, Registers, Lengths
<1> QED BY <1>2, <1>4, <1>6, FreeFromInv DEF Realloc

LEMMA SearchInv ==
    ASSUME ByteInv, Search
    PROVE  ByteInv'
<1>1. PICK F : Heap(mem, F, Others) /\ Walk(F)
  BY DEF ByteInv
<1>2. /\ pc = "search" /\ pc' = "search" /\ hl' = Nx(mem, hl) /\ Before(Nx(mem, hl))
      /\ UNCHANGED <<mem, held, stored, kind, n, temp, bc, de, first, rest, ret>>
  BY Words DEF Search
<1>3. hl \in F \cup {Start} /\ bc \notin DOMAIN held
  BY <1>1, <1>2 DEF Walk
<1>4. hl' \in F /\ hl' < bc
  <2>1. Nx(mem, hl) \in F \cup {Null}
    BY <1>1, <1>3 DEF Heap, Chain
  <2> QED BY <1>2, <2>1 DEF Before
<1>5. hl' \in Addresses
  BY <1>1, <1>4, HeapFacts
<1>6. Registers'
  BY <1>2, <1>5 DEF ByteInv, Registers
<1>7. Others' = Others /\ Walk(F)'
  BY <1>2, <1>3, <1>4 DEF Walk, Others
<1> QED BY <1>1, <1>2, <1>6, <1>7, WalkInv DEF ByteInv

LEMMA LinkPrevWords ==
    ASSUME ByteInv, LinkPrev, NEW F, Heap(mem, F, Others), Walk(F)
    PROVE  /\ hl \in F \cup {Start} /\ bc \notin DOMAIN held \cup F \cup {Start}
           /\ (mem \in Memory)' /\ Contents(mem', held, stored)
           /\ Heap(mem', F \cup {bc}, DOMAIN held)
           /\ \A a \in F \cup DOMAIN held \cup {Start, bc} : Sz(mem', a) = Sz(mem, a)
           /\ Nx(mem', hl) = bc /\ Nx(mem', bc) = Nx(mem, hl)
           /\ \A a \in F \cup {Start} : a # hl => Nx(mem', a) = Nx(mem, a)
<1>1. Heap(mem, F, Others) /\ Walk(F)
  OBVIOUS
<1> DEFINE H == DOMAIN held \cup {bc}
           B == F \cup H \cup {Start}
           link == Nx(mem, hl)
           one == Put(mem, hl + 2, bc)
           p == Put(one, bc + 2, link)
<1>2. /\ pc = "search" /\ pc' = "join" /\ ~Before(link) /\ mem' = p
      /\ UNCHANGED <<held, stored, kind, n, hl, temp, bc, de, first, rest, ret>>
  BY Words DEF LinkPrev, registers
<1>3. hl \in F \cup {Start} /\ hl < bc /\ bc \notin DOMAIN held /\ Others = H
  BY <1>1, <1>2 DEF Walk, Others
<1>4. mem \in Memory /\ Contents(mem, held, stored) /\ Registers /\ Heap(mem, F, H)
  BY <1>1, <1>3 DEF ByteInv
<1>5. Spaced(B) /\ hl \in B /\ bc \in B /\ hl # bc /\ bc \in Nat /\ bc < Top
  <2>1. bc \in Nat /\ bc < Top
    BY <1>4, HeapFacts DEF Addresses
  <2>2. hl \in Nat
    BY <1>3, <1>4, HeapFacts
  <2> QED BY <1>3, <1>4, <2>1, <2>2, HeapSpaced
<1>6. link \in Nat /\ link < Top /\ (link = Null \/ link >= bc)
  <2>1. link \in F \cup {Null}
    BY <1>3, <1>4 DEF Heap, Chain
  <2>2. link \in Nat /\ link < Top
    BY <1>4, <2>1, HeapFacts, Consts DEF Addresses
  <2> QED BY <1>2, <1>5, <2>2 DEF Before
<1> HIDE DEF H, B, link
<1>7. /\ one \in Memory /\ Nx(one, hl) = bc
      /\ \A b \in B : Sz(one, b) = Sz(mem, b)
      /\ \A b \in B : b # hl => Nx(one, b) = Nx(mem, b)
      /\ \A x \in Addresses : one[x] # mem[x] => hl <= x /\ x < hl + 4
  BY <1>4, <1>5, PutLink
<1> HIDE DEF one
<1>8. /\ p \in Memory /\ Nx(p, bc) = link
      /\ \A b \in B : Sz(p, b) = Sz(one, b)
      /\ \A b \in B : b # bc => Nx(p, b) = Nx(one, b)
      /\ \A x \in Addresses : p[x] # one[x] => bc <= x /\ x < bc + 4
  BY <1>5, <1>6, <1>7, PutLink
<1> HIDE DEF p
<1>9. Heap(p, F \cup {bc}, H \ {bc})
  <2>1. Nx(p, hl) = bc /\ Nx(p, bc) = Nx(mem, hl)
    BY <1>5, <1>7, <1>8 DEF link
  <2>2. \A a \in F \cup H \cup {Start} : Sz(p, a) = Sz(mem, a)
    BY <1>7, <1>8 DEF B
  <2>3. \A a \in F \cup {Start} : a # hl => Nx(p, a) = Nx(mem, a)
    <3>1. bc \notin F \cup {Start}
      <4>1. bc \in H
        BY DEF H
      <4> QED BY <1>4, <4>1, HeapFacts DEF Heap
    <3> QED BY <1>7, <1>8, <3>1 DEF B
  <2>4. bc \in H
    BY DEF H
  <2>5. Nx(mem, hl) = Null \/ Nx(mem, hl) >= bc
    BY <1>6 DEF link
  <2> QED BY <1>3, <1>4, <2>1, <2>2, <2>3, <2>4, <2>5, LinkIn
<1>10. H \ {bc} = DOMAIN held
  BY <1>3 DEF H
<1>11. Contents(p, held, stored)
  <2>1. \A a \in DOMAIN held : Sz(p, a) = Sz(mem, a)
    BY <1>7, <1>8 DEF B, H
  <2>2. /\ hl \in (F \cup H \cup {Start}) \ DOMAIN held
        /\ bc \in (F \cup H \cup {Start}) \ DOMAIN held
    <3>1. DOMAIN held \subseteq H /\ bc \in H
      BY DEF H
    <3>2. hl \notin H
      BY <1>3, <1>4, HeapFacts DEF Heap
    <3> QED BY <1>3, <3>1, <3>2
  <2>3. ASSUME NEW x \in Addresses, p[x] # mem[x]
        PROVE  x \in Inside /\ \A a \in DOMAIN held : x < a + 2 \/ x >= a + Sz(mem, a)
    <3>1. x \in Nat
      BY DEF Addresses
    <3>2. (hl <= x /\ x < hl + 4) \/ (bc <= x /\ x < bc + 4)
      BY <1>7, <1>8, <2>3
    <3>3. DOMAIN held \in SUBSET H
      BY DEF H
    <3>4. CASE hl <= x /\ x < hl + 4
      BY <1>4, <2>2, <3>1, <3>3, <3>4, HeaderOutside
    <3>5. CASE bc <= x /\ x < bc + 4
      BY <1>4, <2>2, <3>1, <3>3, <3>5, HeaderOutside
    <3> QED BY <3>2, <3>4, <3>5
  <2> QED BY <1>4, <2>1, <2>3, ContentsKept DEF H
<1>12. /\ Nx(p, hl) = bc
       /\ \A a \in F \cup DOMAIN held \cup {Start, bc} : Sz(p, a) = Sz(mem, a)
  BY <1>5, <1>7, <1>8 DEF B, H
<1>13. bc \notin DOMAIN held \cup F \cup {Start}
  <2>1. bc \in H
    BY DEF H
  <2> QED BY <1>3, <1>4, <2>1, HeapFacts DEF Heap
<1>14. \A a \in F \cup {Start} : a # hl => Nx(p, a) = Nx(mem, a)
  BY <1>7, <1>8, <1>13 DEF B
<1> QED BY <1>2, <1>3, <1>8, <1>9, <1>10, <1>11, <1>12, <1>13, <1>14 DEF link

LEMMA LinkPrevInv ==
    ASSUME ByteInv, LinkPrev
    PROVE  ByteInv'
<1>1. PICK F : Heap(mem, F, Others) /\ Walk(F)
  BY DEF ByteInv
<1>2. /\ pc = "search" /\ pc' = "join"
      /\ UNCHANGED <<held, stored, kind, n, hl, temp, bc, de, first, rest, ret>>
  BY DEF LinkPrev, registers
<1>3. /\ hl \in F \cup {Start} /\ (mem \in Memory)' /\ Contents(mem', held, stored)
      /\ Heap(mem', F \cup {bc}, DOMAIN held) /\ Nx(mem', hl) = bc
  BY <1>1, LinkPrevWords
<1>4. Registers'
  BY <1>2 DEF ByteInv, Registers
<1>5. Others' = DOMAIN held
  BY <1>2 DEF Others
<1>6. Walk(F \cup {bc})'
  BY <1>2, <1>3 DEF Walk
<1> QED BY <1>2, <1>3, <1>4, <1>5, <1>6, WalkInv

LEMMA JoinNextInv ==
    ASSUME ByteInv, JoinNext
    PROVE  ByteInv'
<1>1. PICK F : Heap(mem, F, Others) /\ Walk(F)
  BY DEF ByteInv
<1>2. /\ pc = "join" /\ pc' = "joinprev" /\ mem' = Joined(bc)
      /\ UNCHANGED <<held, stored, kind, n, hl, temp, bc, de, first, rest, ret>>
  BY DEF JoinNext, registers
<1>3. bc \in F /\ hl \in F \cup {Start} /\ Nx(mem, hl) = bc
      /\ Others = DOMAIN held /\ Others' = DOMAIN held
  BY <1>1, <1>2 DEF Walk, Others
<1>4. mem \in Memory /\ Contents(mem, held, stored) /\ Registers
  BY DEF ByteInv
<1>5. /\ Joined(bc) \in Memory /\ Contents(Joined(bc), held, stored)
      /\ \E G \in SUBSET F : /\ Heap(Joined(bc), G, DOMAIN held)
                             /\ \A a \in F : a <= bc => a \in G
  BY <1>1, <1>3, <1>4, JoinedHeap
<1>6. hl < bc
  <2>1. bc # Null
    BY <1>1, <1>3, HeapFacts, Consts
  <2> QED BY <1>1, <1>3, <2>1 DEF Heap, Chain
<1>7. hl <= bc
  BY <1>1, <1>3, <1>6, HeapFacts
<1>8. PICK G : Heap(Joined(bc), G, DOMAIN held) /\ hl \in G \cup {Start}
  BY <1>3, <1>5, <1>7
<1>9. Registers'
  BY <1>2, <1>4 DEF Registers
<1>10. Walk(G)'
  BY <1>2, <1>8 DEF Walk
<1> QED BY <1>2, <1>3, <1>5, <1>8, <1>9, <1>10, WalkInv

LEMMA JoinPrevInv ==
    ASSUME ByteInv, JoinPrev
    PROVE  ByteInv'
<1>1. PICK F : Heap(mem, F, Others) /\ Walk(F)
  BY DEF ByteInv
<1>2. pc = "joinprev" /\ mem' = Joined(hl) /\ UNCHANGED <<held, stored, ret>>
  BY DEF JoinPrev
<1>3. hl \in F \cup {Start} /\ Others = DOMAIN held
  BY <1>1, <1>2 DEF Walk, Others
<1>4. mem \in Memory /\ Contents(mem, held, stored) /\ Registers
  BY DEF ByteInv
<1>5. PICK G : Heap(Joined(hl), G, DOMAIN held)
  BY <1>1, <1>3, <1>4, JoinedHeap
<1>6. Joined(hl) \in Memory /\ Contents(Joined(hl), held, stored)
  BY <1>1, <1>3, <1>4, JoinedHeap
<1>7. CASE kind # "realloc"
  <2>1. AtRest
    BY <1>7 DEF JoinPrev
  <2>2. ret' \in Addresses \cup {None}
    BY <1>2, <1>4 DEF Registers
  <2> QED BY <1>2, <1>5, <1>6, <2>1, <2>2, AtRestInv
<1>8. CASE kind = "realloc"
  <2>1. /\ pc' = "loop" /\ hl' = Start /\ bc' = (n + 2) % Top
        /\ UNCHANGED <<temp, de, first, rest, before, kind, n>>
    BY <1>8 DEF JoinPrev
  <2>2. n \in Lengths /\ n \in Resizes
    BY <1>4, <1>8 DEF Registers, Lengths
  <2>3. bc' = n + 2 /\ bc' \in Addresses /\ Start \in Addresses
    BY <2>1, <2>2, Consts DEF Addresses
  <2>4. Registers'
    BY <1>2, <1>4, <1>8, <2>1, <2>2, <2>3 DEF Registers
  <2>5. Walk(G)'
    BY <1>5, <2>1, HeapFacts DEF Walk
  <2>6. Others' = DOMAIN held
    BY <1>2, <2>1 DEF Others
  <2> QED BY <1>2, <1>5, <1>6, <2>1, <2>4, <2>5, <2>6, WalkInv
<1> QED BY <1>7, <1>8

(* The program writes into a block of its own.                             *)
LEMMA StoreInv ==
    ASSUME ByteInv, NEW g \in DOMAIN held, Store(g)
    PROVE  ByteInv'
<1>1. PICK F : Heap(mem, F, Others) /\ Walk(F)
  BY DEF ByteInv
<1> DEFINE data == [k \in 0 .. held[g] - 1 |-> Pattern(g + 2 + k)]
           p == [x \in DOMAIN mem |-> IF x - g - 2 \in DOMAIN data THEN data[x - g - 2] ELSE mem[x]]
           st2 == [stored EXCEPT ![g] = data]
<1>2. /\ pc = "rest" /\ mem' = p /\ stored' = st2
      /\ UNCHANGED <<held, before, kind, n, pc, hl, temp, bc, de, first, rest, ret>>
  BY DEF Store, registers
<1>3. mem \in Memory /\ Contents(mem, held, stored) /\ Registers /\ Others = DOMAIN held
  BY <1>2 DEF ByteInv, Others
<1>4. /\ held[g] \in Nat /\ held[g] + 2 <= Sz(mem, g) /\ DOMAIN stored = DOMAIN held
      /\ g \in Nat /\ Sz(mem, g) \in Nat /\ g + Sz(mem, g) <= End
  BY <1>1, <1>3, HeapFacts, Consts DEF Contents
<1>5. /\ \A k : k \in DOMAIN data <=> k \in Nat /\ k < held[g]
      /\ \A k \in DOMAIN data : data[k] \in Byte
  <2>1. DOMAIN data = 0 .. held[g] - 1
    OBVIOUS
  <2>2. \A k \in 0 .. held[g] - 1 : k \in Nat /\ k < held[g]
    BY <1>4
  <2>3. \A k : k \in Nat /\ k < held[g] => k \in 0 .. held[g] - 1
    BY <1>4
  <2>4. ASSUME NEW k \in 0 .. held[g] - 1 PROVE data[k] \in Byte
    <3>1. g + 2 + k \in Nat
      BY <1>4, <2>2
    <3>2. \A x \in Nat : 128 + (x % 128) \in Nat /\ 128 + (x % 128) < 256
      OBVIOUS
    <3> QED BY <3>1, <3>2 DEF Pattern, Byte
  <2> QED BY <2>1, <2>2, <2>3, <2>4
<1> HIDE DEF data
<1>6. /\ p \in Memory
      /\ \A x \in Addresses : p[x] = IF x - g - 2 \in DOMAIN data THEN data[x - g - 2] ELSE mem[x]
  BY <1>3, <1>5 DEF Memory
<1> HIDE DEF p
<1>7. \A x \in Addresses : p[x] # mem[x] => g + 2 <= x /\ x < g + Sz(mem, g)
  BY <1>4, <1>5, <1>6 DEF Addresses
<1>8. /\ DOMAIN st2 = DOMAIN stored /\ st2[g] = data
      /\ \A b \in DOMAIN stored : b # g => st2[b] = stored[b]
  BY <1>4
<1> HIDE DEF st2
<1>9. ASSUME NEW k \in DOMAIN st2[g]
      PROVE  k \in Nat /\ k < held[g] /\ p[g + 2 + k] = st2[g][k]
  <2>1. k \in Nat /\ k < held[g] /\ k \in DOMAIN data
    BY <1>5, <1>8
  <2>2. g + 2 + k \in Addresses /\ (g + 2 + k) - g - 2 = k
    BY <1>4, <2>1, Consts DEF Addresses
  <2> QED BY <1>6, <1>8, <2>1, <2>2
<1>10. Heap(p, F, DOMAIN held) /\ Contents(p, held, st2)
  <2>1. Heap(mem, F, DOMAIN held) /\ mem \in Memory /\ Contents(mem, held, stored)
    BY <1>1, <1>3
  <2> QED BY <1>6, <1>7, <1>8, <1>9, <2>1, DataWrite
<1>11. Registers' /\ NewBlock' /\ Moving' /\ Walk(F)' /\ Others' = DOMAIN held
  BY <1>2, <1>3 DEF Registers, NewBlock, Moving, Walk, Others
<1> QED BY <1>2, <1>6, <1>10, <1>11 DEF ByteInv

(* Where the new block of callocate or reallocate is.                      *)
LEMMA NewBlockFacts ==
    ASSUME NoTinyRequest, ByteInv, pc \in {"got", "ldir"}
    PROVE  /\ ret \in Nat /\ ret - 2 \in DOMAIN held /\ held[ret - 2] = n
           /\ n \in Nat /\ n >= 2 /\ n \in Lengths /\ kind \in {"calloc", "realloc"}
           /\ ret - 2 \in Nat /\ (ret - 2) + 2 = ret
           /\ Sz(mem, ret - 2) \in Nat /\ n + 2 <= Sz(mem, ret - 2)
           /\ DOMAIN stored = DOMAIN held /\ DOMAIN stored[ret - 2] = {}
           /\ \A k \in Nat : k < n => ret + k \in Addresses /\ (ret + k) % Top = ret + k
           /\ \E F : Heap(mem, F, DOMAIN held)
<1>1. PICK F : Heap(mem, F, Others)
  BY DEF ByteInv
<1>2. Others = DOMAIN held
  BY DEF Others
<1>3. /\ kind \in {"calloc", "realloc"} /\ n \in Lengths
      /\ ret - 2 \in DOMAIN held /\ held[ret - 2] = n /\ DOMAIN stored[ret - 2] = {}
  BY DEF ByteInv, NewBlock
<1>4. DOMAIN stored = DOMAIN held /\ n + 2 <= Sz(mem, ret - 2)
  BY <1>3 DEF ByteInv, Contents
<1>5. n \in Nat /\ n >= 2
  BY <1>3, Consts DEF NoTinyRequest, Lengths
<1>6. ret - 2 \in Nat /\ Sz(mem, ret - 2) \in Nat /\ (ret - 2) + Sz(mem, ret - 2) <= End
  BY <1>1, <1>2, <1>3, HeapFacts
<1>7. ret \in Int
  BY Consts DEF ByteInv, Registers, Addresses
<1>8. ret \in Nat /\ (ret - 2) + 2 = ret /\ ret + n <= End
  BY <1>4, <1>5, <1>6, <1>7, Consts
<1>9. ASSUME NEW k \in Nat, k < n PROVE ret + k \in Addresses /\ (ret + k) % Top = ret + k
  <2>1. ret + k \in Nat /\ ret + k < Top
    BY <1>5, <1>8, <1>9, Consts
  <2> QED BY <2>1, Wrap DEF Addresses
<1> QED BY <1>1, <1>2, <1>3, <1>4, <1>5, <1>6, <1>8, <1>9

(* Writing into the new block keeps the heap and the contents of the       *)
(* others, whatever of the new one is promised if it is there.             *)
LEMMA NewBlockWrite ==
    ASSUME NoTinyRequest, ByteInv, pc \in {"got", "ldir"}, NEW p \in Memory,
           \A x \in Addresses : p[x] # mem[x] => ret <= x /\ x < ret + n,
           NEW st2, DOMAIN st2 = DOMAIN stored,
           \A b \in DOMAIN stored : b # ret - 2 => st2[b] = stored[b],
           \A k \in DOMAIN st2[ret - 2] : k \in Nat /\ k < n /\ p[ret + k] = st2[ret - 2][k]
    PROVE  \E F : Heap(p, F, DOMAIN held) /\ Contents(p, held, st2)
<1> DEFINE g == ret - 2
<1>1. /\ ret \in Nat /\ g \in DOMAIN held /\ held[g] = n /\ n \in Nat
      /\ g \in Nat /\ g + 2 = ret /\ Sz(mem, g) \in Nat /\ n + 2 <= Sz(mem, g)
  BY NewBlockFacts
<1>2. PICK F : Heap(mem, F, DOMAIN held)
  BY NewBlockFacts
<1>3. mem \in Memory /\ Contents(mem, held, stored)
  BY DEF ByteInv
<1> HIDE DEF g
<1>4. \A x \in Addresses : p[x] # mem[x] => g + 2 <= x /\ x < g + Sz(mem, g)
  BY <1>1 DEF Addresses
<1>5. /\ \A b \in DOMAIN stored : b # g => st2[b] = stored[b]
      /\ \A k \in DOMAIN st2[g] : k \in Nat /\ k < held[g] /\ p[g + 2 + k] = st2[g][k]
  BY <1>1 DEF g
<1>6. g \in DOMAIN held
  BY <1>1
<1>7. Heap(p, F, DOMAIN held) /\ Contents(p, held, st2)
  BY <1>2, <1>3, <1>4, <1>5, <1>6, DataWrite
<1> QED BY <1>7

(* Bytes are left to go.                                                   *)
LEMMA MovingInv ==
    ASSUME NoTinyRequest, ByteInv, pc \in {"got", "ldir"}, (mem \in Memory)',
           \A x \in Addresses : mem'[x] # mem[x] => ret <= x /\ x < ret + n,
           pc' = "ldir", UNCHANGED <<held, stored, ret, temp, first, rest, kind, n>>,
           hl' \in Addresses, bc' \in Nat, bc' >= 1, bc' < n, de' = ret + (n - bc'),
           kind = "calloc" =>
               hl' + 1 = de' /\ \A j \in Nat : j < n - bc' => mem'[ret + j] = 0
    PROVE  ByteInv'
<1>1. /\ n \in Nat /\ n \in Lengths /\ ret \in Nat
      /\ DOMAIN stored[ret - 2] = {} /\ kind \in {"calloc", "realloc"}
      /\ \A k \in Nat : k < n => ret + k \in Addresses
  BY NewBlockFacts
<1>2. PICK F : Heap(mem', F, DOMAIN held) /\ Contents(mem', held, stored)
  BY <1>1, NewBlockWrite
<1>3. bc' \in Addresses /\ de' \in Addresses
  <2>1. n \in Nat /\ n < Top
    BY <1>1, Consts
  <2>2. \A c \in Nat : c >= 1 /\ c < n => n - c \in Nat /\ n - c < n
    BY <2>1
  <2>3. de' \in Addresses
    BY <1>1, <2>2
  <2>4. \A c \in Nat : c < n => c \in Addresses
    BY <2>1, Consts DEF Addresses
  <2> QED BY <2>3, <2>4
<1>4. Registers'
  BY <1>3 DEF ByteInv, Registers
<1>5. NewBlock' /\ Moving'
  BY DEF ByteInv, NewBlock, Moving
<1>6. Walk(F)' /\ Others' = DOMAIN held
  BY DEF Walk, Others
<1> QED BY <1>2, <1>4, <1>5, <1>6 DEF ByteInv

(* The last byte: callocate has cleared the block.                         *)
LEMMA FinishInv ==
    ASSUME NoTinyRequest, ByteInv, pc \in {"got", "ldir"}, (mem \in Memory)',
           \A x \in Addresses : mem'[x] # mem[x] => ret <= x /\ x < ret + n,
           AtRest, UNCHANGED <<held, ret>>,
           stored' = Promised,
           kind = "calloc" => \A k \in Nat : k < n => mem'[ret + k] = 0
    PROVE  ByteInv'
<1>1. /\ n \in Nat /\ ret \in Nat /\ ret - 2 \in DOMAIN held
      /\ DOMAIN stored = DOMAIN held /\ DOMAIN stored[ret - 2] = {}
  BY NewBlockFacts
<1>2. ret' \in Addresses \cup {None}
  BY DEF ByteInv, Registers
<1> DEFINE zeros == [k \in 0 .. n - 1 |-> 0]
           st2 == [stored EXCEPT ![ret - 2] = zeros]
<1>3. CASE kind = "calloc"
  <2>1. stored' = st2
    BY <1>3 DEF Promised
  <2>2. /\ DOMAIN st2 = DOMAIN stored /\ st2[ret - 2] = zeros
        /\ \A b \in DOMAIN stored : b # ret - 2 => st2[b] = stored[b]
    BY <1>1
  <2> HIDE DEF st2
  <2>3. \A k \in 0 .. n - 1 : k \in Nat /\ k < n /\ zeros[k] = 0
    BY <1>1
  <2>4. \A k \in DOMAIN st2[ret - 2] : k \in Nat /\ k < n /\ mem'[ret + k] = st2[ret - 2][k]
    BY <1>3, <2>2, <2>3
  <2> HIDE DEF zeros
  <2>5. PICK F : Heap(mem', F, DOMAIN held) /\ Contents(mem', held, st2)
    BY <2>2, <2>4, NewBlockWrite
  <2> QED BY <1>2, <2>1, <2>5, AtRestInv
<1>4. CASE kind # "calloc"
  <2>1. stored' = stored
    BY <1>4 DEF Promised
  <2>2. PICK F : Heap(mem', F, DOMAIN held) /\ Contents(mem', held, stored)
    BY <1>1, NewBlockWrite
  <2> QED BY <1>2, <2>1, <2>2, AtRestInv
<1> QED BY <1>3, <1>4

LEMMA ClearInv ==
    ASSUME NoTinyRequest, ByteInv, Clear
    PROVE  ByteInv'
<1>1. pc = "got" /\ kind = "calloc" /\ hl = ret
  BY DEF Clear, ByteInv, Moving
<1>2. /\ n \in Nat /\ n >= 2 /\ ret \in Nat
      /\ \A k \in Nat : k < n => ret + k \in Addresses
  BY <1>1, NewBlockFacts
<1>3. ret + 0 = ret /\ ret \in Addresses /\ n # 1 /\ n - 1 # 0 /\ n - 1 \in Nat
  BY <1>2
<1>4. mem' = [mem EXCEPT ![ret] = 0] /\ UNCHANGED <<held, stored, ret>>
  BY <1>1, <1>3 DEF Clear
<1>5. /\ pc' = "ldir" /\ hl' = ret /\ de' = ret + 1 /\ bc' = n - 1
      /\ UNCHANGED <<temp, first, rest, kind, n>>
  BY <1>1, <1>3 DEF Clear, Ldir
<1>6. mem \in Memory
  BY DEF ByteInv
<1>7. /\ (mem \in Memory)' /\ mem'[ret] = 0
      /\ \A x \in Addresses : mem'[x] # mem[x] => x = ret
  BY <1>3, <1>4, <1>6, ZeroFits DEF Memory
<1>8. \A x \in Addresses : mem'[x] # mem[x] => ret <= x /\ x < ret + n
  BY <1>2, <1>7
<1>9. \A j \in Nat : j < n - bc' => ret + j = ret
  BY <1>2, <1>5
<1>10. bc' \in Nat /\ bc' >= 1 /\ bc' < n /\ de' = ret + (n - bc') /\ hl' + 1 = de'
       /\ hl' \in Addresses
  BY <1>2, <1>3, <1>5
<1> QED BY <1>1, <1>4, <1>5, <1>7, <1>8, <1>9, <1>10, MovingInv

LEMMA RestoreInv ==
    ASSUME NoTinyRequest, ByteInv, Restore
    PROVE  ByteInv'
<1>1. pc = "got" /\ kind = "realloc" /\ hl = ret
  BY DEF Restore, ByteInv, Moving
<1>2. /\ n \in Nat /\ n >= 2 /\ n \in Lengths /\ ret \in Nat
      /\ \A k \in Nat : k < n => ret + k \in Addresses /\ (ret + k) % Top = ret + k
  BY <1>1, NewBlockFacts
<1>3. /\ ret + 0 = ret /\ ret \in Addresses
      /\ ret + 1 \in Addresses /\ (ret + 1) % Top = ret + 1
  BY <1>2
<1>4. (n - 2) % Top = n - 2 /\ n - 2 \in Nat
  <2>1. n - 2 \in Nat /\ n - 2 < Top
    BY <1>2, Consts
  <2> QED BY <2>1, Wrap
<1>5. UNCHANGED <<held, stored, ret>>
      /\ mem' = [mem EXCEPT ![ret] = first[1], ![ret + 1] = first[2]]
      /\ Ldir(rest, (ret + 2) % Top, n - 2)
  BY <1>1, <1>3, <1>4 DEF Restore
<1>6. mem \in Memory /\ first[1] \in Byte /\ first[2] \in Byte /\ rest \in Addresses
  BY DEF ByteInv, Registers
<1>7. /\ (mem \in Memory)'
      /\ \A x \in Addresses : mem'[x] # mem[x] => x = ret \/ x = ret + 1
  BY <1>3, <1>5, <1>6 DEF Memory
<1>8. \A x \in Addresses : mem'[x] # mem[x] => ret <= x /\ x < ret + n
  BY <1>2, <1>7
<1>9. CASE n = 2
  <2>1. AtRest
    BY <1>4, <1>5, <1>9 DEF Ldir
  <2>2. stored' = Promised
    BY <1>1, <1>5 DEF Promised
  <2> QED BY <1>1, <1>5, <1>7, <1>8, <2>1, <2>2, FinishInv
<1>10. CASE n # 2
  <2>1. n - 2 # 0 /\ n - 2 >= 1 /\ n - 2 < n /\ n - (n - 2) = 2 /\ 2 < n
    BY <1>2, <1>10
  <2>2. (ret + 2) % Top = ret + 2
    BY <1>2, <2>1
  <2>3. /\ pc' = "ldir" /\ hl' = rest /\ de' = ret + 2 /\ bc' = n - 2
        /\ UNCHANGED <<temp, first, rest, kind, n>>
    BY <1>5, <2>1, <2>2 DEF Ldir
  <2>4. de' = ret + (n - bc')
    BY <2>1, <2>3
  <2> QED BY <1>1, <1>4, <1>5, <1>6, <1>7, <1>8, <2>1, <2>3, <2>4, MovingInv
<1> QED BY <1>9, <1>10

LEMMA CopyByteInv ==
    ASSUME NoTinyRequest, ByteInv, CopyByte
    PROVE  ByteInv'
<1>1. /\ pc = "ldir" /\ bc \in Nat /\ bc >= 1 /\ bc < n /\ de = ret + (n - bc)
      /\ hl \in Addresses /\ mem \in Memory
      /\ kind = "calloc" =>
             hl + 1 = de /\ \A j \in Nat : j < n - bc => mem[ret + j] = 0
  <2>1. bc \in Addresses
    BY DEF ByteInv, Registers
  <2>2. bc \in Nat
    BY <2>1 DEF Addresses
  <2> QED BY <2>2 DEF CopyByte, ByteInv, Moving, Registers
<1>2. /\ n \in Nat /\ ret \in Nat /\ n \in Lengths /\ n < Top /\ Top \in Nat
      /\ \A k \in Nat : k < n => ret + k \in Addresses /\ (ret + k) % Top = ret + k
  BY <1>1, NewBlockFacts, Consts
<1> DEFINE done == n - bc
<1>3. done \in Nat /\ done >= 1 /\ done < n /\ de = ret + done
  BY <1>1, <1>2
<1>4. de \in Addresses
  BY <1>2, <1>3
<1>5. mem' = [mem EXCEPT ![de] = mem[hl]] /\ UNCHANGED <<held, ret>>
  BY DEF CopyByte
<1>6. /\ (mem \in Memory)' /\ mem'[de] = mem[hl]
      /\ \A x \in Addresses : x # de => mem'[x] = mem[x]
  BY <1>1, <1>4, <1>5 DEF Memory
<1>7. \A x \in Addresses : mem'[x] # mem[x] => ret <= x /\ x < ret + n
  BY <1>2, <1>3, <1>6
<1> HIDE DEF done
<1>8. ASSUME kind = "calloc", NEW j \in Nat, j < done + 1
      PROVE  mem'[ret + j] = 0
  <2>1. /\ \A i \in Nat : i < done => mem[ret + i] = 0
        /\ hl + 1 = de
    BY <1>1, <1>8 DEF done
  <2>2. ret + j \in Addresses
    <3>1. j < n
      BY <1>2, <1>3, <1>8
    <3> QED BY <1>2, <3>1
  <2>3. CASE j < done
    <3>1. ret + j # de
      BY <1>2, <1>3, <2>3
    <3> QED BY <1>6, <2>1, <2>2, <2>3, <3>1
  <2>4. CASE j = done
    <3>1. hl = ret + (done - 1) /\ done - 1 \in Nat /\ done - 1 < done
      <4>1. hl \in Nat
        BY <1>1 DEF Addresses
      <4> QED BY <1>2, <1>3, <2>1, <4>1
    <3> QED BY <1>3, <1>6, <2>1, <2>4, <3>1
  <2> QED BY <1>3, <1>8, <2>3, <2>4
<1>9. CASE bc = 1
  <2>1. AtRest /\ stored' = Promised
    BY <1>9 DEF CopyByte
  <2>2. done + 1 = n
    BY <1>2, <1>9 DEF done
  <2> QED BY <1>1, <1>5, <1>6, <1>7, <1>8, <2>1, <2>2, FinishInv
<1>10. CASE bc # 1
  <2>1. /\ hl' = (hl + 1) % Top /\ de' = (de + 1) % Top /\ bc' = (bc - 1) % Top
        /\ UNCHANGED <<stored, pc, temp, first, rest, kind, n>>
    BY <1>10 DEF CopyByte
  <2>2. bc - 1 \in Nat /\ bc - 1 >= 1 /\ bc - 1 < n /\ n - (bc - 1) = done + 1 /\ done + 1 < n
    BY <1>1, <1>2, <1>10 DEF done
  <2>3. bc' = bc - 1
    BY <1>2, <2>1, <2>2, Wrap
  <2>4. de' = ret + (done + 1) /\ de + 1 = ret + (done + 1)
        /\ (ret + (done + 1)) % Top = ret + (done + 1)
    BY <1>2, <1>3, <2>1, <2>2
  <2>5. hl' \in Addresses
    <3>1. hl + 1 \in Nat
      BY <1>1 DEF Addresses
    <3>2. Top > 0
      BY <1>2, <1>3
    <3>3. hl' \in Nat /\ hl' < Top
      BY <1>2, <2>1, <3>1, <3>2
    <3> QED BY <3>3 DEF Addresses
  <2>6. kind = "calloc" =>
            hl' + 1 = de' /\ \A j \in Nat : j < n - bc' => mem'[ret + j] = 0
    <3>1. ASSUME kind = "calloc" PROVE hl' + 1 = de'
      <4>1. hl + 1 = de /\ de = ret + done
        BY <1>1, <1>3, <3>1
      <4>2. hl' = de
        BY <1>2, <1>3, <2>1, <4>1
      <4> QED BY <2>4, <4>2
    <3> QED BY <1>8, <2>2, <2>3, <3>1
  <2>7. de' = ret + (n - bc')
    BY <2>2, <2>3, <2>4
  <2> QED BY <1>1, <1>5, <1>6, <1>7, <2>1, <2>2, <2>3, <2>5, <2>6, <2>7, MovingInv
<1> QED BY <1>9, <1>10

(* __MEM_INIT2: the dummy block and one free block.                        *)
LEMMA InitWords ==
    ASSUME Init
    PROVE  LET b == Start + Header IN
           /\ b # Start /\ mem \in Memory
           /\ Sz(mem, Start) = 0 /\ Nx(mem, Start) = b
           /\ Sz(mem, b) = Length - Header /\ Nx(mem, b) = Null
           /\ Heap(mem, {b}, {})
           /\ \A x \in Addresses \ Inside : mem[x] = Pattern(x)
<1> DEFINE b == Start + Header
           B == {Start, b}
           m0 == [x \in 0 .. Top - 1 |-> Pattern(x)]
           m1 == Put(m0, Start, 0)
           m2 == Put(m1, Start + 2, b)
           m3 == Put(m2, b, Length - Header)
           m4 == Put(m3, b + 2, Null)
<1>1. /\ b \in Nat /\ b = Start + 4 /\ b # Start /\ b + 4 <= End /\ b < Top /\ 0 < Top
      /\ Length - Header \in Nat /\ Length - Header >= 4 /\ Length - Header < Top
      /\ b + (Length - Header) = End
  BY Consts
<1> HIDE DEF b
<1>2. Spaced(B) /\ Start \in B /\ b \in B
  <2>1. /\ Start \in Nat /\ Start + 3 < Top /\ b + 3 < Top
        /\ Start < b /\ ~(b < Start) /\ Start + 4 <= b
    BY <1>1, Consts
  <2> QED BY <1>1, <2>1 DEF Spaced
<1>3. m0 \in Memory /\ \A x \in Addresses : m0[x] = Pattern(x)
  <2>1. Addresses = 0 .. Top - 1
    BY Intervals
  <2>2. ASSUME NEW x \in Addresses PROVE Pattern(x) \in Byte
    <3>1. x \in Nat
      BY DEF Addresses
    <3>2. 128 + (x % 128) \in Nat /\ 128 + (x % 128) < 256
      BY <3>1
    <3> QED BY <3>2 DEF Pattern, Byte
  <2> QED BY <2>1, <2>2 DEF Memory
<1> HIDE DEF m0, B
<1>4. /\ m1 \in Memory /\ Sz(m1, Start) = 0
      /\ \A x \in Addresses : m1[x] # m0[x] => Start <= x /\ x < Start + 4
  BY <1>1, <1>2, <1>3, PutSize
<1> HIDE DEF m1
<1>5. /\ m2 \in Memory /\ Sz(m2, Start) = 0 /\ Nx(m2, Start) = b
      /\ \A x \in Addresses : m2[x] # m1[x] => Start <= x /\ x < Start + 4
  BY <1>1, <1>2, <1>4, PutLink
<1> HIDE DEF m2
<1>6. /\ m3 \in Memory /\ Sz(m3, Start) = 0 /\ Nx(m3, Start) = b
      /\ Sz(m3, b) = Length - Header
      /\ \A x \in Addresses : m3[x] # m2[x] => b <= x /\ x < b + 4
  BY <1>1, <1>2, <1>5, PutSize
<1> HIDE DEF m3
<1>7. /\ m4 \in Memory /\ Sz(m4, Start) = 0 /\ Nx(m4, Start) = b
      /\ Sz(m4, b) = Length - Header /\ Nx(m4, b) = Null
      /\ \A x \in Addresses : m4[x] # m3[x] => b <= x /\ x < b + 4
  BY <1>1, <1>2, <1>6, Consts, PutLink
<1>8. mem = m4
  BY DEF Init, m0, m1, m2, m3, b
<1> HIDE DEF m4
<1>9. Heap(m4, {b}, {})
  <2>1. Apart(m4, {b})
    BY <1>1, <1>7, Consts DEF Apart
  <2>2. Chain(m4, {b})
    BY <1>1, <1>7, Consts DEF Chain
  <2> QED BY <1>7, <2>1, <2>2 DEF Heap
<1>10. \A x \in Addresses \ Inside : m4[x] = Pattern(x)
  <2>1. ASSUME NEW x \in Addresses, x \notin Inside PROVE m4[x] = Pattern(x)
    <3>1. x \in Nat /\ ~(Start <= x /\ x < End)
      BY <2>1, Intervals DEF Addresses
    <3>2. ~(Start <= x /\ x < Start + 4) /\ ~(b <= x /\ x < b + 4)
      BY <1>1, <3>1, Consts
    <3> QED BY <1>3, <1>4, <1>5, <1>6, <1>7, <3>2
  <2> QED BY <2>1
<1> QED BY <1>1, <1>7, <1>8, <1>9, <1>10 DEF b

LEMMA InitInv ==
    ASSUME Init
    PROVE  ByteInv
<1> DEFINE b == Start + Header
<1>1. /\ mem \in Memory /\ Heap(mem, {b}, {})
      /\ \A x \in Addresses \ Inside : mem[x] = Pattern(x)
  BY InitWords
<1>2. /\ held = <<>> /\ stored = <<>> /\ kind = "none" /\ n = 0 /\ pc = "rest"
      /\ hl = 0 /\ temp = 0 /\ bc = 0 /\ de = 0 /\ first = <<0, 0>> /\ rest = 0
      /\ ret = None
  BY DEF Init
<1> HIDE DEF b
<1>3. DOMAIN held = {} /\ DOMAIN stored = {} /\ Others = {}
  BY <1>2 DEF Others
<1>4. Contents(mem, held, stored)
  BY <1>1, <1>3 DEF Contents
<1>5. Registers /\ NewBlock /\ Moving /\ Walk({b})
  BY <1>2, ZeroFits DEF Registers, NewBlock, Moving, Walk
<1> QED BY <1>1, <1>3, <1>4, <1>5 DEF ByteInv

(* Every action, and a step that changes nothing.                          *)
LEMMA StepInv ==
    ASSUME NoTinyRequest, ByteInv, [Next]_vars
    PROVE  ByteInv'
<1>1. CASE UNCHANGED vars
  <2>1. UNCHANGED <<mem, held, stored, kind, n, pc, hl, temp, bc, de, first, rest, ret>>
    BY <1>1 DEF vars, registers
  <2> QED BY <2>1 DEF ByteInv, Registers, NewBlock, Moving, Walk, Others
<1>2. ASSUME NEW m \in Requests, Alloc("alloc", m) \/ Alloc("calloc", m)
      PROVE  ByteInv'
  BY <1>2, AllocInv
<1>3. ASSUME NEW b \in DOMAIN held, Store(b) \/ Free(b)
      PROVE  ByteInv'
  BY <1>3, StoreInv, FreeInv
<1>4. ASSUME NEW b \in DOMAIN held, NEW m \in Resizes, Realloc(b, m)
      PROVE  ByteInv'
  BY <1>4, ReallocInv
<1>5. CASE OutOfMemory BY <1>5, OutOfMemoryInv
<1>6. CASE TooSmall BY <1>6, TooSmallInv
<1>7. CASE TakeWhole BY <1>7, TakeWholeInv
<1>8. CASE TakeTail BY <1>8, TakeTailInv
<1>9. CASE Search BY <1>9, SearchInv
<1>10. CASE LinkPrev BY <1>10, LinkPrevInv
<1>11. CASE JoinNext BY <1>11, JoinNextInv
<1>12. CASE JoinPrev BY <1>12, JoinPrevInv
<1>13. CASE Clear BY <1>13, ClearInv
<1>14. CASE Restore BY <1>14, RestoreInv
<1>15. CASE CopyByte BY <1>15, CopyByteInv
<1> QED BY <1>1, <1>2, <1>3, <1>4, <1>5, <1>6, <1>7, <1>8, <1>9, <1>10, <1>11,
           <1>12, <1>13, <1>14, <1>15 DEF Next, Program, Call

THEOREM ByteInvAlways == NoTinyRequest => (Spec => []ByteInv)
<1> SUFFICES ASSUME NoTinyRequest PROVE Spec => []ByteInv
  OBVIOUS
<1>1. Init => ByteInv
  BY InitInv
<1>2. ByteInv /\ [Next]_vars => ByteInv'
  BY StepInv
<1> QED BY <1>1, <1>2, PTL DEF Spec

----------------------------------------------------------------------------
(* Every variable keeps its type: no size, link or pointer the runtime     *)
(* computes leaves the memory or wraps around it.                          *)
THEOREM TypeCorrect == NoTinyRequest => (Spec => []TypeOK)
<1> SUFFICES ASSUME NoTinyRequest PROVE Spec => []TypeOK
  OBVIOUS
<1>1. ASSUME ByteInv PROVE TypeOK
  <2>1. PICK F : Heap(mem, F, Others)
    BY <1>1 DEF ByteInv
  <2>2. /\ mem \in Memory /\ Contents(mem, held, stored) /\ Registers
    BY <1>1 DEF ByteInv
  <2>3. Addresses = 0 .. Top - 1 /\ Byte = 0 .. 255 /\ Addresses \cup {None} = -1 .. Top - 1
    <3>1. Addresses = 0 .. Top - 1 /\ Byte = 0 .. 255
      BY Intervals
    <3>2. (0 .. Top - 1) \cup {-1} = -1 .. Top - 1
      BY Consts
    <3> QED BY <3>1, <3>2, Consts
  <2>4. DOMAIN held \subseteq Inside
    <3>1. DOMAIN held \subseteq Others
      BY DEF Others
    <3>2. \A b \in Others : b \in Nat /\ Start <= b /\ b < End
      BY <2>1, HeapFacts, Consts
    <3> QED BY <3>1, <3>2, Intervals
  <2>5. DOMAIN stored = DOMAIN held /\ \A b \in DOMAIN held : held[b] \in Requests \cup Resizes
    BY <2>2 DEF Contents, Lengths
  <2>6. /\ pc \in {"rest", "loop", "got", "search", "join", "joinprev", "ldir"}
        /\ kind \in {"none", "alloc", "calloc", "free", "realloc"}
        /\ n \in Requests \cup Resizes \cup {0}
        /\ \A r \in {hl, temp, bc, de, rest} : r \in 0 .. Top - 1
        /\ first \in (0 .. 255) \X (0 .. 255) /\ ret \in -1 .. Top - 1
    BY <2>2, <2>3 DEF Registers, Lengths
  <2>7. mem \in [0 .. Top - 1 -> 0 .. 255]
    BY <2>2, <2>3 DEF Memory
  <2> QED BY <2>4, <2>5, <2>6, <2>7 DEF TypeOK
<1>2. ByteInv => TypeOK
  BY <1>1
<1> QED BY <1>2, ByteInvAlways, PTL

(* No step of allocate, callocate, reallocate or deallocate changes a byte *)
(* the program stored in a block it has, what callocate returns is zero,   *)
(* and nothing outside the heap is written, whatever blocks the program    *)
(* asks for and in whatever order it gives them back.                      *)
THEOREM StoredBytesKept == NoTinyRequest => (Spec => []OthersKept)
<1> SUFFICES ASSUME NoTinyRequest PROVE Spec => []OthersKept
  OBVIOUS
<1>1. ByteInv => OthersKept
  <2>1. mem \in Memory => DOMAIN mem = Addresses
    BY DEF Memory
  <2> QED BY <2>1 DEF ByteInv, Contents, OthersKept
<1> QED BY <1>1, ByteInvAlways, PTL

-----------------------------------------------------------------------------

----------------------------------------------------------------------------
(* Following the links: f[k] is the block reached after k of them.         *)

Follows(f, m, n0) ==
    f = [k \in 0 .. n0 |-> IF k = 0 THEN Start
                           ELSE IF f[k - 1] = Null THEN Null ELSE Nx(m, f[k - 1])]

(* A set that has 0 and the successor of each of its members has every     *)
(* natural number.                                                         *)
LEMMA NatSetInduction ==
    ASSUME NEW S, 0 \in S, \A k \in Nat : k \in S => k + 1 \in S
    PROVE  Nat \subseteq S
<1> DEFINE T == Nat \ S
<1>1. SUFFICES ASSUME T # {} PROVE FALSE
  OBVIOUS
<1>2. PICK x \in T : \A y \in T : ~ (<<y, x>> \in OpToRel(<, Nat))
  BY <1>1, NatLessThanWellFounded, WFMin
<1>3. \A y \in T : ~ (y < x)
  BY <1>2 DEF OpToRel
<1>4. x # 0 /\ x - 1 \in Nat
  OBVIOUS
<1>5. x - 1 \notin T
  BY <1>3, <1>4
<1> QED BY <1>4, <1>5

(* The links can be followed any number of times.                          *)
LEMMA FollowsDefined ==
    ASSUME NEW m
    PROVE  \A k \in Nat : \E f : Follows(f, m, k)
<1> DEFINE Step(x) == IF x = Null THEN Null ELSE Nx(m, x)
           S == {k \in Nat : \E f : Follows(f, m, k)}
<1>1. 0 \in S
  <2>1. Follows([k \in 0 .. 0 |-> Start], m, 0)
    BY DEF Follows
  <2> QED BY <2>1
<1>2. ASSUME NEW i \in Nat, i \in S PROVE i + 1 \in S
  <2>1. PICK f : Follows(f, m, i)
    BY <1>2
  <2> DEFINE g == [k \in 0 .. i + 1 |-> IF k = i + 1 THEN Step(f[i]) ELSE f[k]]
  <2> HIDE DEF Step
  <2>2. ASSUME NEW k \in 0 .. i + 1
        PROVE  g[k] = IF k = 0 THEN Start ELSE Step(g[k - 1])
    <3>1. CASE k = i + 1
      <4>1. g[k] = Step(f[i]) /\ g[k - 1] = f[i] /\ k # 0
        BY <3>1
      <4> QED BY <4>1
    <3>2. CASE k # i + 1 /\ k # 0
      <4>1. g[k] = f[k] /\ g[k - 1] = f[k - 1]
        BY <3>2
      <4>2. f[k] = Step(f[k - 1])
        BY <2>1, <3>2 DEF Follows, Step
      <4> QED BY <3>2, <4>1, <4>2
    <3>3. CASE k = 0
      BY <2>1, <3>3 DEF Follows
    <3> QED BY <3>1, <3>2, <3>3
  <2>3. Follows(g, m, i + 1)
    <3>1. g = [k \in 0 .. i + 1 |-> g[k]]
      OBVIOUS
    <3> HIDE DEF g
    <3>2. g = [k \in 0 .. i + 1 |-> IF k = 0 THEN Start ELSE Step(g[k - 1])]
      BY <2>2, <3>1, Zenon
    <3> QED BY <3>2 DEF Follows, Step
  <2>4. i + 1 \in Nat
    OBVIOUS
  <2> HIDE DEF g
  <2> QED BY <2>3, <2>4
<1>3. Nat \subseteq S
  <2> HIDE DEF S
  <2> QED BY <1>1, <1>2, NatSetInduction
<1> QED BY <1>3

(* In a heap the links pass every free block, in as many steps as blocks   *)
(* of four bytes fit.                                                      *)
LEMMA FollowsAll ==
    ASSUME NEW m, NEW F, NEW H, Heap(m, F, H), NEW f, Follows(f, m, Length)
    PROVE  {f[k] : k \in 0 .. Length \div Header} \ {Null} = F \cup {Start}
<1> DEFINE L == F \cup {Start}
           Passed(a, k) == \E j \in Nat : j <= k /\ f[j] = a
           S == {k \in Nat : k <= Length =>
                   /\ f[k] \in L \cup {Null}
                   /\ f[k] # Null => f[k] >= Start + 4 * k
                   /\ \A a \in L : Passed(a, k) \/ (f[k] # Null /\ f[k] < a)}
           last == Length \div 4
<1>1. /\ Length \in Nat /\ Start \in Nat /\ End = Start + Length /\ Null = 0 /\ Header = 4
      /\ last \in Nat /\ last <= Length /\ 4 * last > Length - 4 /\ Length >= 8
  BY Consts
<1>2. \A a \in L : /\ a \in Nat /\ a >= Start /\ a > 0 /\ a + 4 <= End
                   /\ Nx(m, a) \in F \cup {Null}
                   /\ Nx(m, a) # Null => Nx(m, a) > a
                   /\ \A g \in F : g > a => Nx(m, a) # Null /\ Nx(m, a) <= g
  BY HeapFacts DEF Heap, Chain
<1>3. /\ f[0] = Start
      /\ \A k \in Nat : k + 1 <= Length =>
            f[k + 1] = IF f[k] = Null THEN Null ELSE Nx(m, f[k])
  BY <1>1 DEF Follows
<1>4. \A a, b \in L : a < b => a + 4 <= b /\ b \in F
  BY HeapFacts
<1>5. 0 \in S
  <2>1. \A a \in L : Passed(a, 0) \/ Start < a
    <3>1. ASSUME NEW a \in L PROVE a = Start \/ Start < a
      BY <1>1, <1>2
    <3> QED BY <1>3, <3>1
  <2> QED BY <1>1, <1>2, <1>3, <2>1
<1>6. ASSUME NEW k \in Nat, k \in S PROVE k + 1 \in S
  <2>1. SUFFICES ASSUME k + 1 <= Length
                 PROVE  /\ f[k + 1] \in L \cup {Null}
                        /\ f[k + 1] # Null => f[k + 1] >= Start + 4 * (k + 1)
                        /\ \A a \in L : Passed(a, k + 1) \/ (f[k + 1] # Null /\ f[k + 1] < a)
    OBVIOUS
  <2>2. /\ f[k] \in L \cup {Null}
        /\ f[k] # Null => f[k] >= Start + 4 * k
        /\ \A a \in L : Passed(a, k) \/ (f[k] # Null /\ f[k] < a)
    BY <1>1, <1>6, <2>1
  <2>3. \A a \in L : Passed(a, k) => Passed(a, k + 1)
    OBVIOUS
  <2>4. CASE f[k] = Null
    BY <1>3, <2>1, <2>2, <2>3, <2>4
  <2>5. CASE f[k] # Null
    <3>1. f[k] \in L /\ f[k + 1] = Nx(m, f[k])
      BY <1>3, <2>1, <2>2, <2>5
    <3>2. f[k + 1] \in L \cup {Null}
      BY <1>2, <3>1
    <3>3. f[k + 1] # Null => f[k + 1] >= Start + 4 * (k + 1)
      <4>1. f[k + 1] # Null => f[k + 1] \in L /\ f[k + 1] \in Nat /\ f[k] + 4 <= f[k + 1]
        BY <1>2, <1>4, <3>1, <3>2
      <4>2. f[k] \in Nat /\ f[k] >= Start + 4 * k
        BY <1>2, <2>2, <2>5, <3>1
      <4> QED BY <1>1, <4>1, <4>2
    <3>4. ASSUME NEW a \in L PROVE Passed(a, k + 1) \/ (f[k + 1] # Null /\ f[k + 1] < a)
      <4>1. CASE Passed(a, k)
        BY <2>3, <4>1
      <4>2. CASE f[k] < a
        <5>1. a \in F
          BY <1>4, <3>1, <4>2
        <5>2. f[k + 1] # Null /\ f[k + 1] <= a
          BY <1>2, <3>1, <4>2, <5>1
        <5>3. f[k + 1] = a => Passed(a, k + 1)
          OBVIOUS
        <5>4. f[k + 1] \in Nat /\ a \in Nat
          BY <1>2, <3>2, <5>2
        <5> QED BY <5>2, <5>3, <5>4
      <4> QED BY <2>2, <4>1, <4>2
    <3> QED BY <3>2, <3>3, <3>4
  <2> QED BY <2>4, <2>5
<1>7. Nat \subseteq S
  <2> HIDE DEF S
  <2> QED BY <1>5, <1>6, NatSetInduction
<1>8. \A k \in 0 .. last : f[k] \in L \cup {Null}
  BY <1>1, <1>7
<1>9. ASSUME NEW a \in L PROVE \E k \in 0 .. last : f[k] = a
  <2>1. /\ f[last] # Null => f[last] >= Start + 4 * last
        /\ Passed(a, last) \/ (f[last] # Null /\ f[last] < a)
        /\ f[last] \in L \cup {Null}
    BY <1>1, <1>7
  <2>2. a + 4 <= Start + Length /\ a \in Nat
    BY <1>1, <1>2
  <2>3. Passed(a, last)
    <3>1. SUFFICES ASSUME f[last] # Null, f[last] < a PROVE FALSE
      BY <2>1
    <3>2. f[last] \in Nat
      BY <1>2, <2>1, <3>1
    <3> HIDE DEF last
    <3> QED BY <1>1, <2>1, <2>2, <3>1, <3>2
  <2> HIDE DEF last
  <2> QED BY <1>1, <2>3
<1>10. \A a \in L : a # Null
  BY <1>1, <1>2
<1>11. {f[k] : k \in 0 .. last} \ {Null} = L
  <2> HIDE DEF L, last
  <2> QED BY <1>8, <1>9, <1>10
<1> QED BY <1>1, <1>11

(* The blocks found by following the words are the dummy and the free ones. *)
LEMMA ListedIs ==
    ASSUME NEW F, NEW H
    PROVE  /\ Heap(mem, F, H) => Listed = F \cup {Start}
           /\ Heap(mem', F, H) => Listed' = F \cup {Start}
<1>1. Length \in Nat
  BY Consts
<1>2. Follows(Nth, mem, Length)
  <2>1. PICK f : Follows(f, mem, Length)
    BY <1>1, FollowsDefined
  <2>2. Nth = CHOOSE g : Follows(g, mem, Length)
    BY DEF Nth, Follows, NextOf, Word, Nx, WordOf
  <2> QED BY <2>1, <2>2
<1>3. Follows(Nth', mem', Length)
  <2>1. PICK f : Follows(f, mem', Length)
    BY <1>1, FollowsDefined
  <2>2. Nth' = CHOOSE g : Follows(g, mem', Length)
    BY DEF Nth, Follows, NextOf, Word, Nx, WordOf
  <2> QED BY <2>1, <2>2
<1>4. /\ Listed = {Nth[k] : k \in 0 .. Length \div Header} \ {Null}
      /\ Listed' = {Nth'[k] : k \in 0 .. Length \div Header} \ {Null}
  BY DEF Listed
<1> QED BY <1>2, <1>3, <1>4, FollowsAll

----------------------------------------------------------------------------
(* The variables of MemHeap.                                               *)

ListSize == [b \in Known |-> Size(b)]
ListNext == [b \in Listed |-> NextOf(b)]
ListPc == IF Walking THEN pc ELSE "rest"
ListHl == IF Walking THEN hl ELSE 0
ListBc == IF Walking THEN bc ELSE 0
ListAgain == IF Walking /\ kind = "realloc" THEN n ELSE 0

LEMMA Mapped ==
    ASSUME NEW F, NEW H, Heap(mem, F, H), H = Others
    PROVE  /\ ListSize = [b \in F \cup H \cup {Start} |-> Sz(mem, b)]
           /\ ListNext = [b \in F \cup {Start} |-> Nx(mem, b)]
<1>1. Listed = F \cup {Start}
  BY ListedIs
<1>2. Known = F \cup H \cup {Start}
  BY <1>1 DEF Known, Others
<1> QED BY <1>1, <1>2 DEF ListSize, ListNext, Size, NextOf, Word, Sz, Nx, WordOf

LEMMA MappedNext ==
    ASSUME NEW F, NEW H, Heap(mem', F, H), H = Others'
    PROVE  /\ ListSize' = [b \in F \cup H \cup {Start} |-> Sz(mem', b)]
           /\ ListNext' = [b \in F \cup {Start} |-> Nx(mem', b)]
<1>1. Listed' = F \cup {Start}
  BY ListedIs
<1>2. Known' = F \cup H \cup {Start}
  BY <1>1 DEF Known, Others
<1> QED BY <1>1, <1>2 DEF ListSize, ListNext, Size, NextOf, Word, Sz, Nx, WordOf

(* Between walks TEMP is clear.                                            *)
TempInv == pc # "loop" => temp = 0

(* The free blocks an allocation has passed are too small for it.          *)
PassedInv ==
    pc = "loop" => \A b \in Listed : (hl = Null \/ b < hl) => Size(b) < bc

(* A grant ends the walk.                                                  *)
LEMMA GrantMapped ==
    ASSUME NEW b, Grant(b)
    PROVE  /\ ListPc' = "rest" /\ ListHl' = 0 /\ temp' = 0 /\ ListBc' = 0 /\ ListAgain' = 0
           /\ ret' = b + 2 /\ DOMAIN held' = DOMAIN held \cup {b}
           /\ Others' = DOMAIN held \cup {b}
  BY DEF Grant, AtRest, ListPc, ListHl, ListBc, ListAgain, Walking, Others

LEMMA TakeWholeStep ==
    ASSUME ByteInv, TakeWhole
    PROVE  List!TakeWhole
<1>1. PICK F : Heap(mem, F, Others) /\ Walk(F)
  BY DEF ByteInv
<1> DEFINE H == DOMAIN held
<1>2. /\ hl \in F /\ hl \in Nat /\ temp \in F \cup {Start} /\ Nx(mem, temp) = hl
      /\ Others = H
      /\ Heap(mem', F \ {hl}, H \cup {hl})
      /\ \A a \in F \cup H \cup {Start} : Sz(mem', a) = Sz(mem, a)
      /\ Nx(mem', temp) = Nx(mem, hl)
      /\ \A a \in F \cup {Start} : a # temp => Nx(mem', a) = Nx(mem, a)
  BY <1>1, TakeWholeWords
<1>3. /\ ListPc' = "rest" /\ ListHl' = 0 /\ temp' = 0 /\ ListBc' = 0 /\ ListAgain' = 0
      /\ ret' = hl + 2 /\ DOMAIN held' = H \cup {hl} /\ Others' = H \cup {hl}
  BY GrantMapped DEF TakeWhole
<1>4. /\ ListSize = [b \in F \cup H \cup {Start} |-> Sz(mem, b)]
      /\ ListNext = [b \in F \cup {Start} |-> Nx(mem, b)]
  BY <1>1, <1>2, Mapped
<1>5. /\ ListSize' = [b \in (F \ {hl}) \cup (H \cup {hl}) \cup {Start} |-> Sz(mem', b)]
      /\ ListNext' = [b \in (F \ {hl}) \cup {Start} |-> Nx(mem', b)]
  BY <1>2, <1>3, MappedNext
<1>6. Start \notin F
  BY <1>1, HeapFacts
<1> HIDE DEF H
<1>7. ListSize' = ListSize
  <2>1. (F \ {hl}) \cup (H \cup {hl}) \cup {Start} = F \cup H \cup {Start}
    BY <1>2
  <2> QED BY <1>2, <1>4, <1>5, <2>1
<1>8. ListNext' = List!Without([ListNext EXCEPT ![temp] = ListNext[hl]], hl)
  <2>1. (F \ {hl}) \cup {Start} = (F \cup {Start}) \ {hl}
    BY <1>2, <1>6
  <2> QED BY <1>2, <1>4, <1>5, <2>1 DEF List!Without
<1>9. /\ ListPc = "loop" /\ ListHl = hl /\ ListBc = bc /\ hl # List!Null
      /\ ListSize[hl] >= bc /\ ListSize[hl] - bc < List!Header
  <2>1. ListSize[hl] = Sz(mem, hl)
    BY <1>2, <1>4
  <2>2. ListPc = "loop" /\ ListHl = hl /\ ListBc = bc
    BY DEF TakeWhole, ListPc, ListHl, ListBc, Walking
  <2>3. hl # 0 /\ Sz(mem, hl) >= bc /\ Sz(mem, hl) - bc < 4
    BY Words, Consts DEF TakeWhole, Fits
  <2> QED BY <2>1, <2>2, <2>3 DEF List!Null, List!Header
<1> QED BY <1>3, <1>7, <1>8, <1>9
        DEF List!TakeWhole, List!Return, H, ListSize, ListNext, ListPc, ListHl, ListBc, ListAgain

(* While the words of the blocks stay, so does the list.                   *)
LEMMA ListKept ==
    ASSUME NEW F, NEW H, Heap(mem, F, H), Heap(mem', F, H), H = Others, H = Others',
           \A a \in F \cup H \cup {Start} : Sz(mem', a) = Sz(mem, a),
           \A a \in F \cup {Start} : Nx(mem', a) = Nx(mem, a)
    PROVE  ListSize' = ListSize /\ ListNext' = ListNext
<1>1. /\ ListSize = [b \in F \cup H \cup {Start} |-> Sz(mem, b)]
      /\ ListNext = [b \in F \cup {Start} |-> Nx(mem, b)]
  BY Mapped
<1>2. /\ ListSize' = [b \in F \cup H \cup {Start} |-> Sz(mem', b)]
      /\ ListNext' = [b \in F \cup {Start} |-> Nx(mem', b)]
  BY MappedNext
<1> QED BY <1>1, <1>2

(* A step that does not write.                                             *)
LEMMA ListRead ==
    ASSUME ByteInv, UNCHANGED mem, Others' = Others
    PROVE  ListSize' = ListSize /\ ListNext' = ListNext
<1>1. PICK F : Heap(mem, F, Others)
  BY DEF ByteInv
<1>2. Heap(mem', F, Others)
  BY <1>1
<1> QED BY <1>1, <1>2, ListKept

LEMMA AllocStep ==
    ASSUME ByteInv, NEW k \in {"alloc", "calloc"}, NEW m, Alloc(k, m)
    PROVE  List!Alloc(m)
<1>1. /\ pc = "rest" /\ kind' = k /\ n' = m /\ bc' = (m + 2) % Top /\ hl' = Start
      /\ temp' = 0 /\ pc' = "loop" /\ UNCHANGED <<mem, held, ret>>
  BY Consts DEF Alloc
<1>2. Others' = Others
  BY <1>1 DEF Others
<1>3. ListSize' = ListSize /\ ListNext' = ListNext
  BY <1>1, <1>2, ListRead
<1>4. /\ ListPc = "rest" /\ ListPc' = "loop" /\ ListHl' = Start
      /\ ListBc' = (m + 2) % Top /\ ListAgain = 0 /\ ListAgain' = 0
  BY <1>1 DEF ListPc, ListHl, ListBc, ListAgain, Walking
<1> QED BY <1>1, <1>3, <1>4
        DEF List!Alloc, List!Null, ListSize, ListNext, ListPc, ListHl, ListBc, ListAgain

LEMMA OutOfMemoryStep ==
    ASSUME ByteInv, OutOfMemory
    PROVE  List!OutOfMemory
<1>1. /\ pc = "loop" /\ hl = 0 /\ ret' = 0 /\ temp' = 0 /\ pc' = "rest"
      /\ UNCHANGED <<mem, held>>
  BY Consts DEF OutOfMemory, AtRest
<1>2. Others' = Others
  BY <1>1 DEF Others
<1>3. ListSize' = ListSize /\ ListNext' = ListNext
  BY <1>1, <1>2, ListRead
<1>4. /\ ListPc = "loop" /\ ListHl = 0
      /\ ListPc' = "rest" /\ ListHl' = 0 /\ ListBc' = 0 /\ ListAgain' = 0
  BY <1>1 DEF ListPc, ListHl, ListBc, ListAgain, Walking
<1> QED BY <1>1, <1>3, <1>4
        DEF List!OutOfMemory, List!Return, List!Null, ListSize, ListNext, ListPc, ListHl,
            ListBc, ListAgain

LEMMA TooSmallStep ==
    ASSUME ByteInv, TooSmall
    PROVE  List!TooSmall
<1>1. /\ pc = "loop" /\ hl # 0 /\ ~Fits(hl) /\ temp' = hl /\ hl' = Nx(mem, hl)
      /\ UNCHANGED <<mem, held, kind, n, pc, bc, ret>>
  BY Consts, Words DEF TooSmall
<1>2. Others' = Others
  BY <1>1 DEF Others
<1>3. ListSize' = ListSize /\ ListNext' = ListNext
  BY <1>1, <1>2, ListRead
<1>4. /\ ListPc = "loop" /\ ListHl = hl /\ ListHl' = hl' /\ ListBc = bc
      /\ ListPc' = ListPc /\ ListBc' = ListBc /\ ListAgain' = ListAgain
  BY <1>1 DEF ListPc, ListHl, ListBc, ListAgain, Walking
<1>5. PICK F : Heap(mem, F, Others) /\ Walk(F)
  BY DEF ByteInv
<1>6. hl \in F \cup {Start}
  BY <1>1, <1>5, Consts DEF Walk
<1>7. ListSize[hl] = Sz(mem, hl) /\ ListNext[hl] = Nx(mem, hl)
  BY <1>5, <1>6, Mapped
<1>8. Sz(mem, hl) < bc
  <2>1. Sz(mem, hl) \in Nat /\ bc \in Nat
    BY <1>5, <1>6, HeapFacts DEF ByteInv, Registers, Addresses
  <2> QED BY <1>1, <2>1, Words DEF Fits
<1> QED BY <1>1, <1>3, <1>4, <1>7, <1>8
        DEF List!TooSmall, List!Null, ListSize, ListNext, ListPc, ListHl, ListBc, ListAgain

LEMMA SearchStep ==
    ASSUME ByteInv, Search
    PROVE  List!Search
<1>1. /\ pc = "search" /\ Before(Nx(mem, hl)) /\ hl' = Nx(mem, hl)
      /\ UNCHANGED <<mem, held, kind, n, pc, temp, bc, ret>>
  BY Words DEF Search
<1>2. Others' = Others
  BY <1>1 DEF Others
<1>3. ListSize' = ListSize /\ ListNext' = ListNext
  BY <1>1, <1>2, ListRead
<1>4. /\ ListPc = "search" /\ ListHl = hl /\ ListHl' = hl' /\ ListBc = bc
      /\ ListPc' = ListPc /\ ListBc' = ListBc /\ ListAgain' = ListAgain
  BY <1>1 DEF ListPc, ListHl, ListBc, ListAgain, Walking
<1>5. PICK F : Heap(mem, F, Others) /\ Walk(F)
  BY DEF ByteInv
<1>6. hl \in F \cup {Start}
  BY <1>1, <1>5 DEF Walk
<1>7. ListNext[hl] = Nx(mem, hl)
  BY <1>5, <1>6, Mapped
<1>8. ListNext[hl] # 0 /\ ListNext[hl] < bc
  BY <1>1, <1>7, Consts DEF Before
<1> QED BY <1>1, <1>3, <1>4, <1>7, <1>8
        DEF List!Search, List!Before, List!Null, ListSize, ListNext, ListPc, ListHl, ListBc,
            ListAgain

(* __MEM_FREE, and __REALLOC, which allocates afterwards.                  *)
LEMMA FreeFromStep ==
    ASSUME ByteInv, pc = "rest", NEW b \in DOMAIN held, FreeFrom(b),
           UNCHANGED <<mem, temp, ret>>,
           NEW m, m = IF kind' = "realloc" THEN n' ELSE 0
    PROVE  List!Free(b, m)
<1>1. bc' = b /\ hl' = Start /\ pc' = "search" /\ DOMAIN held' = DOMAIN held \ {b}
  BY DEF FreeFrom, Forget
<1>2. Others' = Others
  BY <1>1 DEF Others
<1>3. ListSize' = ListSize /\ ListNext' = ListNext
  BY <1>2, ListRead
<1>4. /\ ListPc = "rest" /\ ListPc' = "search" /\ ListHl' = Start /\ ListBc' = b
      /\ ListAgain' = m
  BY <1>1 DEF ListPc, ListHl, ListBc, ListAgain, Walking
<1> QED BY <1>1, <1>3, <1>4
        DEF List!Free, ListSize, ListNext, ListPc, ListHl, ListBc, ListAgain

LEMMA FreeStep ==
    ASSUME ByteInv, NEW b \in DOMAIN held, Free(b)
    PROVE  List!Free(b, 0)
<1>1. /\ pc = "rest" /\ FreeFrom(b) /\ UNCHANGED <<mem, temp, ret>>
      /\ 0 = IF kind' = "realloc" THEN n' ELSE 0
  BY DEF Free
<1> QED BY <1>1, FreeFromStep

LEMMA ReallocStep ==
    ASSUME ByteInv, NEW b \in DOMAIN held, NEW m, Realloc(b, m)
    PROVE  List!Free(b, m)
<1>1. /\ pc = "rest" /\ FreeFrom(b) /\ UNCHANGED <<mem, temp, ret>>
      /\ m = IF kind' = "realloc" THEN n' ELSE 0
  BY DEF Realloc
<1> QED BY <1>1, FreeFromStep

LEMMA TakeTailStep ==
    ASSUME NoTinyRequest, ByteInv, TakeTail
    PROVE  List!TakeTail
<1>1. PICK F : Heap(mem, F, Others) /\ Walk(F)
  BY DEF ByteInv
<1> DEFINE H == DOMAIN held
           left == Sz(mem, hl) - bc
           new == hl + left
<1>2. /\ hl \in F /\ Others = H /\ new \in Nat
      /\ new \notin F \cup H \cup {Start}
      /\ Grant(new)
      /\ Heap(mem', F, H \cup {new})
      /\ Sz(mem', hl) = left /\ Sz(mem', new) = bc
      /\ \A a \in F \cup H \cup {Start} : a # hl => Sz(mem', a) = Sz(mem, a)
      /\ \A a \in F \cup {Start} : Nx(mem', a) = Nx(mem, a)
  BY <1>1, TakeTailWords
<1> HIDE DEF new
<1>3. /\ ListPc' = "rest" /\ ListHl' = 0 /\ temp' = 0 /\ ListBc' = 0 /\ ListAgain' = 0
      /\ ret' = new + 2 /\ DOMAIN held' = H \cup {new} /\ Others' = H \cup {new}
  BY <1>2, GrantMapped
<1>4. /\ ListSize = [b \in F \cup H \cup {Start} |-> Sz(mem, b)]
      /\ ListNext = [b \in F \cup {Start} |-> Nx(mem, b)]
  BY <1>1, <1>2, Mapped
<1>5. /\ ListSize' = [b \in F \cup (H \cup {new}) \cup {Start} |-> Sz(mem', b)]
      /\ ListNext' = [b \in F \cup {Start} |-> Nx(mem', b)]
  BY <1>2, <1>3, MappedNext
<1> HIDE DEF H
<1>6. ListSize' = List!With([ListSize EXCEPT ![hl] = left], new, bc)
  <2>1. /\ F \cup (H \cup {new}) \cup {Start} = (F \cup H \cup {Start}) \cup {new}
        /\ hl # new
    BY <1>2
  <2> HIDE DEF left
  <2> QED BY <1>2, <1>4, <1>5, <2>1 DEF List!With
<1>7. ListNext' = ListNext
  BY <1>2, <1>4, <1>5
<1>8. /\ ListPc = "loop" /\ ListHl = hl /\ ListBc = bc /\ hl # List!Null
      /\ ListSize[hl] >= bc /\ ListSize[hl] - bc >= List!Header
      /\ ListSize[hl] - bc = left /\ new = hl + left
  <2>1. ListSize[hl] = Sz(mem, hl)
    BY <1>2, <1>4
  <2>2. ListPc = "loop" /\ ListHl = hl /\ ListBc = bc
    BY DEF TakeTail, ListPc, ListHl, ListBc, Walking
  <2>3. hl # 0 /\ Sz(mem, hl) >= bc /\ Sz(mem, hl) - bc >= 4
    BY Words, Consts DEF TakeTail, Fits
  <2> QED BY <2>1, <2>2, <2>3 DEF List!Null, List!Header, new
<1> HIDE DEF left
<1>9. UNCHANGED ListNext /\ DOMAIN held' = DOMAIN held \cup {new}
  BY <1>3, <1>7 DEF H
<1>10. /\ ListSize' = List!With([ListSize EXCEPT ![ListHl] = left], ListHl + left, ListBc)
       /\ DOMAIN held' = DOMAIN held \cup {ListHl + left}
       /\ ret' = ListHl + left + 2
  BY <1>3, <1>6, <1>8, <1>9
<1>11. /\ ListPc = "loop" /\ ListHl # List!Null
       /\ ListSize[ListHl] >= ListBc /\ ListSize[ListHl] - ListBc >= List!Header
       /\ ListSize[ListHl] - ListBc = left
  BY <1>8
<1> HIDE DEF H
<1>12. List!Return(ListHl + left + 2)
  BY <1>3, <1>10 DEF List!Return, ListPc, ListHl, ListBc, ListAgain
<1>13. /\ ListSize' = List!With([ListSize EXCEPT ![ListHl] = ListSize[ListHl] - ListBc],
                                ListHl + (ListSize[ListHl] - ListBc), ListBc)
       /\ DOMAIN held' = DOMAIN held \cup {ListHl + (ListSize[ListHl] - ListBc)}
       /\ List!Return(ListHl + (ListSize[ListHl] - ListBc) + 2)
  BY <1>10, <1>11, <1>12
<1> QED BY ONLY <1>9, <1>11, <1>13
        DEF List!TakeTail, ListSize, ListNext, ListPc, ListHl, ListBc, ListAgain

LEMMA LinkPrevStep ==
    ASSUME ByteInv, LinkPrev
    PROVE  List!LinkPrev
<1>1. PICK F : Heap(mem, F, Others) /\ Walk(F)
  BY DEF ByteInv
<1> DEFINE H == DOMAIN held
<1>2. /\ hl \in F \cup {Start} /\ bc \notin H \cup F \cup {Start}
      /\ Heap(mem', F \cup {bc}, H)
      /\ \A a \in F \cup H \cup {Start, bc} : Sz(mem', a) = Sz(mem, a)
      /\ Nx(mem', hl) = bc /\ Nx(mem', bc) = Nx(mem, hl)
      /\ \A a \in F \cup {Start} : a # hl => Nx(mem', a) = Nx(mem, a)
  BY <1>1, LinkPrevWords
<1>3. /\ pc = "search" /\ pc' = "join" /\ ~Before(Nx(mem, hl))
      /\ UNCHANGED <<held, kind, n, hl, temp, bc, ret>>
  BY Words DEF LinkPrev, registers
<1>4. Others = H \cup {bc} /\ Others' = H
  BY <1>3 DEF Others
<1>5. /\ ListSize = [b \in F \cup (H \cup {bc}) \cup {Start} |-> Sz(mem, b)]
      /\ ListNext = [b \in F \cup {Start} |-> Nx(mem, b)]
  BY <1>1, <1>4, Mapped
<1>6. /\ ListSize' = [b \in (F \cup {bc}) \cup H \cup {Start} |-> Sz(mem', b)]
      /\ ListNext' = [b \in (F \cup {bc}) \cup {Start} |-> Nx(mem', b)]
  BY <1>2, <1>4, MappedNext
<1> HIDE DEF H
<1>7. ListSize' = ListSize
  <2>1. (F \cup {bc}) \cup H \cup {Start} = F \cup (H \cup {bc}) \cup {Start}
    OBVIOUS
  <2> QED BY <1>2, <1>5, <1>6, <2>1
<1>8. ListNext' = List!With([ListNext EXCEPT ![hl] = bc], bc, ListNext[hl])
  <2>1. (F \cup {bc}) \cup {Start} = (F \cup {Start}) \cup {bc} /\ hl # bc
    BY <1>2
  <2> QED BY <1>2, <1>5, <1>6, <2>1 DEF List!With
<1>9. /\ ListPc = "search" /\ ListPc' = "join" /\ ListHl = hl /\ ListBc = bc
      /\ UNCHANGED <<ListHl, ListBc, ListAgain, DOMAIN held, temp, ret>>
  BY <1>3 DEF ListPc, ListHl, ListBc, ListAgain, Walking
<1>10. ~(ListNext[hl] # 0 /\ ListNext[hl] < bc)
  <2>1. ListNext[hl] = Nx(mem, hl)
    BY <1>2, <1>5
  <2> QED BY <1>3, <2>1, Consts DEF Before
<1> QED BY <1>7, <1>8, <1>9, <1>10
        DEF List!LinkPrev, List!Before, List!Null, ListSize, ListNext, ListPc, ListHl, ListBc,
            ListAgain

(* The test whether a block touches the next one, and the join.            *)
LEMMA JoinTestStep ==
    ASSUME ByteInv, NEW F, NEW H, Heap(mem, F, H), NEW b \in F \cup {Start}, mem' = Joined(b),
           H = DOMAIN held, H = Others, H = Others'
    PROVE  List!JoinTest(b)
<1> DEFINE c == Nx(mem, b)
<1>1. /\ b \in Nat /\ (b + Sz(mem, b)) % Top = b + Sz(mem, b)
      /\ ~Absorbs(b) => mem' = mem
      /\ Absorbs(b) =>
           /\ b \in F /\ c \in F /\ b < c
           /\ Heap(mem', F \ {c}, H)
           /\ Sz(mem', b) = Sz(mem, b) + Sz(mem, c)
           /\ Nx(mem', b) = Nx(mem, c)
           /\ \A a \in F \cup H \cup {Start} : a # b => Sz(mem', a) = Sz(mem, a)
           /\ \A a \in F \cup {Start} : a # b => Nx(mem', a) = Nx(mem, a)
  <2>1. mem \in Memory /\ Contents(mem, held, stored) /\ DOMAIN held \subseteq H
    BY DEF ByteInv
  <2>2. /\ b \in Nat /\ (b + Sz(mem, b)) % Top = b + Sz(mem, b)
        /\ ~Absorbs(b) => mem' = mem
        /\ Absorbs(b) => Absorbed(mem, mem', F, H, b)
    BY <2>1, JoinedWords
  <2> QED BY <2>2 DEF Absorbed
<1>2. /\ ListSize = [a \in F \cup H \cup {Start} |-> Sz(mem, a)]
      /\ ListNext = [a \in F \cup {Start} |-> Nx(mem, a)]
  BY Mapped
<1>3. ListSize[b] = Sz(mem, b) /\ ListNext[b] = c
  BY <1>2
<1>4. List!Joins(b) <=> Absorbs(b)
  BY <1>1, <1>3 DEF List!Joins, Absorbs, ListSize, ListNext
<1>5. CASE ~Absorbs(b)
  <2>1. UNCHANGED ListSize /\ UNCHANGED ListNext
    BY <1>1, <1>5, ListRead
  <2> QED BY <1>4, <1>5, <2>1 DEF List!JoinTest, ListSize, ListNext
<1>6. CASE Absorbs(b)
  <2>1. /\ ListSize' = [a \in (F \ {c}) \cup H \cup {Start} |-> Sz(mem', a)]
        /\ ListNext' = [a \in (F \ {c}) \cup {Start} |-> Nx(mem', a)]
    BY <1>1, <1>6, MappedNext
  <2>2. c \notin H \cup {Start} /\ c # b
    <3>1. c \notin H
      BY <1>1, <1>6 DEF Heap
    <3> QED BY <1>1, <1>6, <3>1, HeapFacts
  <2>3. ListSize[c] = Sz(mem, c) /\ ListNext[c] = Nx(mem, c)
    BY <1>1, <1>2, <1>6
  <2> HIDE DEF c
  <2>4. ListSize' = List!Without([ListSize EXCEPT ![b] = ListSize[b] + ListSize[c]], c)
    <3>1. (F \ {c}) \cup H \cup {Start} = (F \cup H \cup {Start}) \ {c}
      BY <2>2
    <3> QED BY <1>1, <1>2, <1>3, <1>6, <2>1, <2>2, <2>3, <3>1 DEF List!Without
  <2>5. ListNext' = List!Without([ListNext EXCEPT ![b] = ListNext[c]], c)
    <3>1. (F \ {c}) \cup {Start} = (F \cup {Start}) \ {c}
      BY <2>2
    <3> QED BY <1>1, <1>2, <1>3, <1>6, <2>1, <2>2, <2>3, <3>1 DEF List!Without
  <2> QED BY <1>3, <1>4, <1>6, <2>4, <2>5 DEF List!JoinTest, ListSize, ListNext
<1> QED BY <1>5, <1>6

LEMMA JoinNextStep ==
    ASSUME ByteInv, JoinNext
    PROVE  List!JoinNext
<1>1. PICK F : Heap(mem, F, Others) /\ Walk(F)
  BY DEF ByteInv
<1>2. /\ pc = "join" /\ pc' = "joinprev" /\ mem' = Joined(bc)
      /\ UNCHANGED <<held, kind, n, hl, temp, bc, ret>>
  BY DEF JoinNext, registers
<1>3. bc \in F \cup {Start} /\ Others = DOMAIN held /\ Others' = DOMAIN held
  BY <1>1, <1>2 DEF Walk, Others
<1>4. List!JoinTest(bc)
  BY <1>1, <1>2, <1>3, JoinTestStep
<1>5. /\ ListPc = "join" /\ ListPc' = "joinprev" /\ ListBc = bc
      /\ UNCHANGED <<ListHl, ListBc, ListAgain, DOMAIN held, temp, ret>>
  BY <1>2 DEF ListPc, ListHl, ListBc, ListAgain, Walking
<1> QED BY <1>4, <1>5 DEF List!JoinNext, ListPc, ListHl, ListBc, ListAgain

LEMMA JoinPrevStep ==
    ASSUME ByteInv, TempInv, JoinPrev
    PROVE  List!JoinPrev
<1>1. PICK F : Heap(mem, F, Others) /\ Walk(F)
  BY DEF ByteInv
<1>2. pc = "joinprev" /\ mem' = Joined(hl) /\ UNCHANGED <<held, ret>> /\ temp = 0
  BY DEF JoinPrev, TempInv
<1>3. pc' # "search" /\ temp' = temp
  BY <1>2 DEF JoinPrev, AtRest
<1>4. hl \in F \cup {Start} /\ Others = DOMAIN held /\ Others' = DOMAIN held
  BY <1>1, <1>2, <1>3 DEF Walk, Others
<1>5. List!JoinTest(hl)
  BY <1>1, <1>2, <1>4, JoinTestStep
<1>6. ListPc = "joinprev" /\ ListHl = hl /\ ListAgain = IF kind = "realloc" THEN n ELSE 0
  BY <1>2 DEF ListPc, ListHl, ListAgain, Walking
<1>7. kind = "realloc" => n # 0
  BY Consts DEF ByteInv, Registers
<1>8. IF ListAgain = 0
      THEN ListPc' = "rest" /\ ListHl' = 0 /\ ListBc' = 0
      ELSE ListPc' = "loop" /\ ListHl' = Start /\ ListBc' = (ListAgain + 2) % Top
  BY <1>6, <1>7 DEF JoinPrev, AtRest, ListPc, ListHl, ListBc, Walking
<1>9. UNCHANGED ListAgain
  BY <1>6 DEF JoinPrev, AtRest, ListAgain, Walking
<1>10. UNCHANGED <<DOMAIN held, temp, ret>>
  BY <1>2, <1>3
<1> QED BY <1>5, <1>6, <1>8, <1>9, <1>10
        DEF List!JoinPrev, ListPc, ListHl, ListBc, ListAgain

----------------------------------------------------------------------------
(* Steps that write between the header and the end of a block the program  *)
(* has: the program's own, and those of ldir.                              *)

LEMMA StoreBytes ==
    ASSUME ByteInv, NEW g \in DOMAIN held, Store(g), NEW F, Heap(mem, F, Others)
    PROVE  /\ (mem \in Memory)'
           /\ \A x \in Addresses : mem'[x] # mem[x] => g + 2 <= x /\ x < g + Sz(mem, g)
<1> DEFINE data == [k \in 0 .. held[g] - 1 |-> Pattern(g + 2 + k)]
<1>1. mem \in Memory /\ Contents(mem, held, stored) /\ Others = DOMAIN held
  BY DEF ByteInv, Store, Others
<1>2. /\ held[g] \in Nat /\ held[g] + 2 <= Sz(mem, g) /\ g \in Nat /\ Sz(mem, g) \in Nat
  BY <1>1, HeapFacts, Consts DEF Contents
<1>3. ASSUME NEW k \in DOMAIN data
      PROVE  k \in Nat /\ k < held[g] /\ data[k] \in Byte
  <2>1. k \in Nat /\ k < held[g] /\ g + 2 + k \in Nat
    BY <1>2, <1>3
  <2>2. \A x \in Nat : 128 + (x % 128) \in Nat /\ 128 + (x % 128) < 256
    OBVIOUS
  <2> QED BY <2>1, <2>2 DEF Pattern, Byte
<1>4. mem' = [x \in DOMAIN mem |-> IF x - g - 2 \in DOMAIN data THEN data[x - g - 2] ELSE mem[x]]
  BY DEF Store
<1> HIDE DEF data
<1>5. \A x \in Addresses : mem'[x] # mem[x] => x - g - 2 \in DOMAIN data
  BY <1>1, <1>4 DEF Memory
<1>6. (mem \in Memory)'
  BY <1>1, <1>3, <1>4 DEF Memory
<1> QED BY <1>2, <1>3, <1>5, <1>6 DEF Addresses

LEMMA NewBlockBytes ==
    ASSUME NoTinyRequest, ByteInv, Clear \/ Restore \/ CopyByte
    PROVE  /\ pc \in {"got", "ldir"} /\ (mem \in Memory)'
           /\ \A x \in Addresses : mem'[x] # mem[x] => ret <= x /\ x < ret + n
<1>1. pc \in {"got", "ldir"} /\ mem \in Memory
  BY DEF Clear, Restore, CopyByte, ByteInv
<1>2. /\ ret \in Nat /\ n \in Nat /\ n >= 2
      /\ \A k \in Nat : k < n => ret + k \in Addresses /\ (ret + k) % Top = ret + k
  BY <1>1, NewBlockFacts
<1>3. /\ ret + 0 = ret /\ ret \in Addresses
      /\ ret + 1 \in Addresses /\ (ret + 1) % Top = ret + 1
  BY <1>2
<1>4. CASE Clear
  <2>1. mem' = [mem EXCEPT ![ret] = 0]
    BY <1>4 DEF Clear, ByteInv, Moving
  <2>2. /\ (mem \in Memory)'
        /\ \A x \in Addresses : mem'[x] # mem[x] => x = ret
    BY <1>1, <1>3, <2>1, ZeroFits DEF Memory
  <2> QED BY <1>1, <1>2, <2>2
<1>5. CASE Restore
  <2>1. mem' = [mem EXCEPT ![ret] = first[1], ![ret + 1] = first[2]]
    BY <1>3, <1>5 DEF Restore, ByteInv, Moving
  <2>2. first[1] \in Byte /\ first[2] \in Byte
    BY DEF ByteInv, Registers
  <2>3. /\ (mem \in Memory)'
        /\ \A x \in Addresses : mem'[x] # mem[x] => x = ret \/ x = ret + 1
    BY <1>1, <1>3, <2>1, <2>2 DEF Memory
  <2> QED BY <1>1, <1>2, <2>3
<1>6. CASE CopyByte
  <2>1. /\ pc = "ldir" /\ bc >= 1 /\ bc < n /\ de = ret + (n - bc)
        /\ hl \in Addresses /\ bc \in Nat /\ mem' = [mem EXCEPT ![de] = mem[hl]]
    BY <1>6 DEF CopyByte, ByteInv, Moving, Registers, Addresses
  <2>2. n - bc \in Nat /\ n - bc < n
    BY <1>2, <2>1
  <2>3. de \in Addresses
    BY <1>2, <2>1, <2>2
  <2>4. /\ (mem \in Memory)'
        /\ \A x \in Addresses : mem'[x] # mem[x] => x = de
    BY <1>1, <2>1, <2>3 DEF Memory
  <2> QED BY <1>1, <1>2, <2>1, <2>2, <2>4
<1> QED BY <1>4, <1>5, <1>6

(* None of them changes a word of the list.                                *)
LEMMA BytesStep ==
    ASSUME NoTinyRequest, ByteInv, TempInv,
           (\E b \in DOMAIN held : Store(b)) \/ Clear \/ Restore \/ CopyByte
    PROVE  UNCHANGED List!vars
<1>1. /\ pc \in {"rest", "got", "ldir"} /\ pc' \in {"rest", "got", "ldir"}
      /\ temp' = temp /\ UNCHANGED <<held, ret>>
  BY DEF Store, Clear, Restore, CopyByte, Ldir, AtRest, TempInv, registers
<1>2. Others = DOMAIN held /\ Others' = DOMAIN held
  BY <1>1 DEF Others
<1>3. PICK F : Heap(mem, F, Others)
  BY DEF ByteInv
<1>4. mem \in Memory
  BY DEF ByteInv
<1> DEFINE Within(g) ==
        \A x \in Addresses : mem'[x] # mem[x] => g + 2 <= x /\ x < g + Sz(mem, g)
<1>5. (mem \in Memory)' /\ \E g \in Others : Within(g)
  <2>1. ASSUME NEW b \in DOMAIN held, Store(b)
        PROVE  (mem \in Memory)' /\ Within(b)
    BY <1>2, <1>3, <2>1, StoreBytes
  <2>2. CASE Clear \/ Restore \/ CopyByte
    <3> DEFINE g == ret - 2
    <3>1. /\ (mem \in Memory)' /\ pc \in {"got", "ldir"}
          /\ \A x \in Addresses : mem'[x] # mem[x] => ret <= x /\ x < ret + n
      BY <2>2, NewBlockBytes
    <3>2. /\ g \in Others /\ g \in Nat /\ g + 2 = ret /\ n \in Nat
          /\ Sz(mem, g) \in Nat /\ n + 2 <= Sz(mem, g)
      BY <1>2, <3>1, NewBlockFacts
    <3> HIDE DEF g
    <3>3. Within(g)
      BY <3>1, <3>2 DEF Addresses
    <3> QED BY <3>1, <3>2, <3>3
  <2> HIDE DEF Within
  <2> QED BY <1>2, <2>1, <2>2
<1>6. PICK g \in Others : Within(g)
  BY <1>5
<1>7. /\ Heap(mem', F, Others)
      /\ \A a \in F \cup Others \cup {Start} : Sz(mem', a) = Sz(mem, a)
      /\ \A a \in F \cup {Start} : Nx(mem', a) = Nx(mem, a)
  BY <1>3, <1>4, <1>5, <1>6, DataFrame
<1>8. Others' = Others
  BY <1>2
<1>9. ListSize' = ListSize /\ ListNext' = ListNext
  BY <1>3, <1>7, <1>8, ListKept
<1>10. UNCHANGED <<DOMAIN held, ListPc, ListHl, temp, ListBc, ListAgain, ret>>
  BY <1>1 DEF ListPc, ListHl, ListBc, ListAgain, Walking
<1> QED BY <1>9, <1>10
        DEF List!vars, ListSize, ListNext, ListPc, ListHl, ListBc, ListAgain

----------------------------------------------------------------------------
(* The refinement.                                                         *)

LEMMA InitMapped ==
    ASSUME Init
    PROVE  List!Init
<1> DEFINE b == Start + Header
<1>1. /\ b # Start /\ Sz(mem, Start) = 0 /\ Nx(mem, Start) = b
      /\ Sz(mem, b) = Length - Header /\ Nx(mem, b) = Null
      /\ Heap(mem, {b}, {})
  BY InitWords
<1>2. /\ held = <<>> /\ pc = "rest" /\ temp = 0 /\ ret = None /\ DOMAIN held = {}
  BY DEF Init
<1>3. Others = {}
  BY <1>2 DEF Others
<1> HIDE DEF b
<1>4. /\ ListSize = [a \in {b} \cup {} \cup {Start} |-> Sz(mem, a)]
      /\ ListNext = [a \in {b} \cup {Start} |-> Nx(mem, a)]
  BY <1>1, <1>3, Mapped
<1>5. {b} \cup {} \cup {Start} = {Start, b} /\ {b} \cup {Start} = {Start, b}
  OBVIOUS
<1>6. /\ ListSize = [a \in {Start, b} |-> IF a = Start THEN 0 ELSE Length - Header]
      /\ ListNext = [a \in {Start, b} |-> IF a = Start THEN b ELSE Null]
  BY <1>1, <1>4, <1>5
<1>7. ListPc = "rest" /\ ListHl = 0 /\ ListBc = 0 /\ ListAgain = 0
  BY <1>2 DEF ListPc, ListHl, ListBc, ListAgain, Walking
<1> QED BY <1>2, <1>6, <1>7
        DEF List!Init, List!Header, List!Null, List!None, Header, Null, None, b,
            ListSize, ListNext, ListPc, ListHl, ListBc, ListAgain

LEMMA StepMapped ==
    ASSUME NoTinyRequest, ByteInv, TempInv, [Next]_vars
    PROVE  [List!Next]_(List!vars)
<1>1. CASE UNCHANGED vars
  <2>1. UNCHANGED <<mem, held, kind, n, pc, hl, temp, bc, ret>>
    BY <1>1 DEF vars, registers
  <2>2. Others' = Others
    BY <2>1 DEF Others
  <2>3. ListSize' = ListSize /\ ListNext' = ListNext
    BY <2>1, <2>2, ListRead
  <2>4. UNCHANGED <<DOMAIN held, ListPc, ListHl, temp, ListBc, ListAgain, ret>>
    BY <2>1 DEF ListPc, ListHl, ListBc, ListAgain, Walking
  <2> QED BY <2>3, <2>4
          DEF List!vars, ListSize, ListNext, ListPc, ListHl, ListBc, ListAgain
<1>2. ASSUME NEW m \in Requests, Alloc("alloc", m) \/ Alloc("calloc", m)
      PROVE  List!Next
  <2>1. List!Alloc(m)
    BY <1>2, AllocStep
  <2> QED BY <2>1 DEF List!Next
<1>3. ASSUME NEW b \in DOMAIN held, Free(b)
      PROVE  List!Next
  <2>1. List!Free(b, 0)
    BY <1>3, FreeStep
  <2> QED BY <2>1 DEF List!Next
<1>4. ASSUME NEW b \in DOMAIN held, NEW m \in Resizes, Realloc(b, m)
      PROVE  List!Next
  <2>1. List!Free(b, m)
    BY <1>4, ReallocStep
  <2> QED BY <2>1 DEF List!Next
<1>5. ASSUME (\E b \in DOMAIN held : Store(b)) \/ Clear \/ Restore \/ CopyByte
      PROVE  UNCHANGED List!vars
  BY <1>5, BytesStep
<1>6. CASE OutOfMemory BY <1>6, OutOfMemoryStep DEF List!Next
<1>7. CASE TooSmall BY <1>7, TooSmallStep DEF List!Next
<1>8. CASE TakeWhole BY <1>8, TakeWholeStep DEF List!Next
<1>9. CASE TakeTail BY <1>9, TakeTailStep DEF List!Next
<1>10. CASE Search BY <1>10, SearchStep DEF List!Next
<1>11. CASE LinkPrev BY <1>11, LinkPrevStep DEF List!Next
<1>12. CASE JoinNext BY <1>12, JoinNextStep DEF List!Next
<1>13. CASE JoinPrev BY <1>13, JoinPrevStep DEF List!Next
<1> QED BY <1>1, <1>2, <1>3, <1>4, <1>5, <1>6, <1>7, <1>8, <1>9, <1>10, <1>11,
           <1>12, <1>13 DEF Next, Program, Call

LEMMA TempStep ==
    ASSUME TempInv, [Next]_vars
    PROVE  TempInv'
<1>1. CASE UNCHANGED vars
  BY <1>1 DEF vars, registers, TempInv
<1>2. CASE Program
  BY <1>2 DEF Program, Alloc, Store, Free, Realloc, FreeFrom, registers, TempInv, Null
<1>3. CASE OutOfMemory BY <1>3 DEF OutOfMemory, AtRest, TempInv
<1>4. CASE TooSmall BY <1>4 DEF TooSmall, TempInv
<1>5. CASE TakeWhole \/ TakeTail
  BY <1>5 DEF TakeWhole, TakeTail, Grant, AtRest, TempInv
<1>6. CASE Search \/ LinkPrev \/ JoinNext
  BY <1>6 DEF Search, LinkPrev, JoinNext, registers, TempInv
<1>7. CASE JoinPrev BY <1>7 DEF JoinPrev, AtRest, TempInv
<1>8. CASE Clear \/ Restore \/ CopyByte
  BY <1>8 DEF Clear, Restore, CopyByte, Ldir, AtRest, TempInv
<1> QED BY <1>1, <1>2, <1>3, <1>4, <1>5, <1>6, <1>7, <1>8 DEF Next, Call

(* The words in the blocks are the list of MemHeap, for every heap and     *)
(* every set of requests: each step of allocate, callocate, reallocate and *)
(* deallocate is the step of MemHeap of the same name, and what the        *)
(* program and ldir write in the blocks does not touch the list.           *)
THEOREM WordsAreList == NoTinyRequest => (Spec => IsMemHeap)
<1> SUFFICES ASSUME NoTinyRequest PROVE Spec => IsMemHeap
  OBVIOUS
<1>1. Init => List!Init /\ TempInv
  BY InitMapped DEF Init, TempInv
<1>2. TempInv /\ [Next]_vars => TempInv'
  BY TempStep
<1>3. ByteInv /\ TempInv /\ [Next]_vars => [List!Next]_(List!vars)
  BY StepMapped
<1> QED BY <1>1, <1>2, <1>3, ByteInvAlways, PTL DEF Spec, IsMemHeap

----------------------------------------------------------------------------
(* maxavail.                                                               *)

(* A bounded set of numbers that is not empty has a largest member.        *)
LEMMA LargestMember ==
    ASSUME NEW S \in SUBSET Nat, S # {}, NEW N \in Nat, \A s \in S : s <= N
    PROVE  \E s \in S : \A x \in S : s >= x
<1> DEFINE T == {k \in Nat : \E s \in S : s + k >= N}
<1>1. N \in T
  <2>1. PICK s \in S : s \in Nat
    OBVIOUS
  <2>2. s + N >= N
    BY <2>1
  <2> QED BY <2>2
<1>2. PICK k \in T : \A y \in T : ~ (<<y, k>> \in OpToRel(<, Nat))
  BY <1>1, NatLessThanWellFounded, WFMin
<1>3. k \in Nat /\ \A y \in T : ~ (y < k)
  BY <1>2 DEF OpToRel
<1>4. PICK s \in S : s + k >= N
  BY <1>2
<1>5. ASSUME NEW x \in S, ~(s >= x) PROVE FALSE
  <2>1. s \in Nat /\ x \in Nat /\ x > s /\ x <= N
    BY <1>5
  <2>2. k - 1 \in Nat
    BY <1>3, <1>4, <2>1
  <2>3. x + (k - 1) >= N
    BY <1>3, <1>4, <2>1
  <2>4. k - 1 \in T
    BY <1>5, <2>2, <2>3
  <2> QED BY <1>3, <2>2, <2>4
<1> QED BY <1>4, <1>5

(* The largest free block is in the list, and no block in it is larger.    *)
LEMMA MaxAvailIs ==
    ASSUME NEW F, NEW H, Heap(mem, F, H)
    PROVE  /\ \E b \in Listed : MaxAvail = Size(b)
           /\ \A b \in Listed : Size(b) \in Nat /\ MaxAvail >= Size(b)
<1> DEFINE S == {Size(b) : b \in Listed}
<1>1. Listed = F \cup {Start}
  BY ListedIs
<1>2. \A b \in Listed : Size(b) \in Nat /\ Size(b) <= Length
  <2>1. ASSUME NEW b \in Listed PROVE Size(b) \in Nat /\ Size(b) <= Length
    <3>1. b \in Nat /\ b >= Start /\ Sz(mem, b) \in Nat /\ b + Sz(mem, b) <= End
      BY <1>1, HeapFacts
    <3> QED BY <3>1, Words, Consts
  <2> QED BY <2>1
<1>3. S \in SUBSET Nat /\ S # {} /\ \A s \in S : s <= Length
  BY <1>1, <1>2
<1>4. \E s \in S : \A x \in S : s >= x
  <2>1. Length \in Nat
    BY Consts
  <2> HIDE DEF S
  <2> QED BY <1>3, <2>1, LargestMember
<1>5. MaxAvail = CHOOSE s \in S : \A x \in S : s >= x
  BY DEF MaxAvail, Max
<1>6. MaxAvail \in S /\ \A x \in S : MaxAvail >= x
  <2> HIDE DEF S
  <2> QED BY <1>4, <1>5
<1> QED BY <1>2, <1>6

LEMMA PassedStep ==
    ASSUME ByteInv, PassedInv, [Next]_vars
    PROVE  PassedInv'
<1>1. PICK F : Heap(mem, F, Others) /\ Walk(F)
  BY DEF ByteInv
<1>2. Listed = F \cup {Start}
  BY <1>1, ListedIs
<1>3. CASE UNCHANGED vars
  <2>1. UNCHANGED <<mem, pc, hl, bc>>
    BY <1>3 DEF vars, registers
  <2>2. Listed' = Listed
    BY <1>1, <1>2, <2>1, ListedIs
  <2>3. \A b : Size(b)' = Size(b)
    BY <2>1 DEF Size, Word
  <2> QED BY <2>1, <2>2, <2>3 DEF PassedInv
<1>4. ASSUME pc' = "loop", hl' = Start, NEW G, Heap(mem', G, DOMAIN held)
      PROVE  PassedInv'
  <2>1. Listed' = G \cup {Start}
    BY <1>4, ListedIs
  <2>2. \A b \in Listed' : ~(hl' = Null \/ b < hl')
    BY <1>4, <2>1, HeapFacts, Consts
  <2> QED BY <2>2 DEF PassedInv
<1>5. ASSUME NEW k, NEW m, Alloc(k, m) PROVE PassedInv'
  <2>1. pc' = "loop" /\ hl' = Start /\ mem' = mem /\ Others = DOMAIN held
    BY <1>5 DEF Alloc, Others
  <2> QED BY <1>1, <1>4, <2>1
<1>6. CASE TooSmall
  <2>1. /\ pc = "loop" /\ hl # Null /\ ~Fits(hl) /\ hl' = Nx(mem, hl)
        /\ UNCHANGED <<mem, held, pc, bc>>
    BY <1>6, Words DEF TooSmall
  <2>2. Listed' = Listed
    BY <1>1, <1>2, <2>1, ListedIs
  <2>3. \A b : Size(b)' = Size(b)
    BY <2>1 DEF Size, Word
  <2>4. hl \in F \cup {Start}
    BY <1>1, <2>1 DEF Walk
  <2>5. ASSUME NEW b \in Listed, hl' = Null \/ b < hl' PROVE Size(b) < bc
    <3>1. b \in Nat /\ hl \in Nat /\ Nx(mem, hl) \in Nat
      BY <1>1, <1>2, <2>4, HeapFacts
    <3>2. ~(hl < b)
      <4>1. SUFFICES ASSUME hl < b PROVE FALSE
        OBVIOUS
      <4>2. b \in F
        BY <1>1, <1>2, <2>4, <4>1, HeapFacts
      <4>3. Nx(mem, hl) # Null /\ Nx(mem, hl) <= b
        BY <1>1, <2>4, <4>1, <4>2 DEF Heap, Chain
      <4> QED BY <2>1, <2>5, <3>1, <4>3
    <3>3. CASE b = hl
      <4>1. Size(b) \in Nat /\ bc \in Nat
        BY <1>1, <1>2, MaxAvailIs DEF ByteInv, Registers, Addresses
      <4> QED BY <2>1, <3>3, <4>1 DEF Fits
    <3>4. CASE b < hl
      BY <2>1, <3>4 DEF PassedInv
    <3> QED BY <3>1, <3>2, <3>3, <3>4
  <2> QED BY <2>1, <2>2, <2>3, <2>5 DEF PassedInv
<1>7. CASE JoinPrev
  <2>1. pc = "joinprev" /\ mem' = Joined(hl) /\ Others = DOMAIN held /\ hl \in F \cup {Start}
    BY <1>1, <1>7 DEF JoinPrev, Others, Walk
  <2>2. mem \in Memory /\ Contents(mem, held, stored)
    BY DEF ByteInv
  <2>3. PICK G : Heap(mem', G, DOMAIN held)
    BY <1>1, <2>1, <2>2, JoinedHeap
  <2>4. pc' = "loop" => hl' = Start
    BY <1>7 DEF JoinPrev, AtRest
  <2>5. CASE pc' = "loop"
    BY <1>4, <2>3, <2>4, <2>5
  <2> QED BY <2>5 DEF PassedInv
<1>8. CASE pc' # "loop"
  BY <1>8 DEF PassedInv
<1>9. CASE pc' = "loop"
  <2>1. ASSUME Program PROVE \E k, m : Alloc(k, m)
    BY <1>9, <2>1 DEF Program, Store, Free, Realloc, FreeFrom
  <2>2. ASSUME Call PROVE TooSmall \/ JoinPrev
    BY <1>9, <2>2 DEF Call, OutOfMemory, TakeWhole, TakeTail, Grant, Search, LinkPrev, JoinNext,
                      Clear, Restore, CopyByte, Ldir, AtRest
  <2> QED BY <1>3, <1>5, <1>6, <1>7, <2>1, <2>2 DEF Next
<1> QED BY <1>8, <1>9

(* maxavail decides, for every heap: allocate, callocate and reallocate    *)
(* return NULL only if maxavail is less than the request with its size     *)
(* word, and a block only if it is not.                                    *)
THEOREM MaxAvailAnswers == NoTinyRequest => (Spec => MaxAvailDecides)
<1> DEFINE Decides == /\ OutOfMemory => MaxAvail < bc
                      /\ TakeWhole \/ TakeTail => MaxAvail >= bc
<1> SUFFICES ASSUME NoTinyRequest PROVE Spec => [][Decides]_vars
  BY DEF MaxAvailDecides
<1>1. Init => PassedInv
  BY DEF Init, PassedInv
<1>2. ByteInv /\ PassedInv /\ [Next]_vars => PassedInv'
  BY PassedStep
<1>3. ByteInv /\ PassedInv => Decides
  <2> SUFFICES ASSUME ByteInv, PassedInv PROVE Decides
    OBVIOUS
  <2>1. PICK F : Heap(mem, F, Others) /\ Walk(F)
    BY DEF ByteInv
  <2>2. /\ \E b \in Listed : MaxAvail = Size(b)
        /\ \A b \in Listed : Size(b) \in Nat /\ MaxAvail >= Size(b)
    BY <2>1, MaxAvailIs
  <2>3. OutOfMemory => MaxAvail < bc
    BY <2>2 DEF OutOfMemory, PassedInv
  <2>4. ASSUME TakeWhole \/ TakeTail PROVE MaxAvail >= bc
    <3>1. pc = "loop" /\ hl # Null /\ Fits(hl)
      BY <2>4 DEF TakeWhole, TakeTail
    <3>2. hl \in Listed /\ bc \in Nat
      BY <2>1, <3>1, AtFree, ListedIs
    <3>3. Size(hl) \in Nat /\ Size(hl) >= bc /\ MaxAvail >= Size(hl) /\ MaxAvail \in Nat
      BY <2>2, <3>1, <3>2 DEF Fits
    <3> QED BY <3>2, <3>3
  <2> QED BY <2>3, <2>4
<1> HIDE DEF Decides
<1> QED BY <1>1, <1>2, <1>3, ByteInvAlways, PTL DEF Spec

----------------------------------------------------------------------------
(* Sums of lengths.  g[s] is the sum over s, one chosen block at a time.   *)

Chosen(s) == CHOOSE x \in s : TRUE
Summing(g, m, S) ==
    g = [s \in SUBSET S |-> IF s = {} THEN 0 ELSE Sz(m, Chosen(s)) + g[s \ {Chosen(s)}]]
SumOf(m, S) == (CHOOSE g : Summing(g, m, S))[S]

LEMMA SumsAre ==
    /\ MemAvail = SumOf(mem, Listed)
    /\ MapThenSumSet(Size, DOMAIN held) = SumOf(mem, DOMAIN held)
<1>1. MemAvail = SumOf(mem, Listed)
  BY DEF MemAvail, MapThenSumSet, MapThenFoldSet, SumOf, Summing, Chosen, Size, Word, Sz, WordOf
<1>2. MapThenSumSet(Size, DOMAIN held) = SumOf(mem, DOMAIN held)
  BY DEF MapThenSumSet, MapThenFoldSet, SumOf, Summing, Chosen, Size, Word, Sz, WordOf
<1> QED BY <1>1, <1>2

(* A subset of a finite set: the chosen member is one, and taking it out   *)
(* leaves a smaller set.                                                   *)
LEMMA SmallerSet ==
    ASSUME NEW s, IsFiniteSet(s), NEW x \in s
    PROVE  /\ Chosen(s) \in s /\ IsFiniteSet(s \ {x})
           /\ Cardinality(s) \in Nat /\ Cardinality(s \ {x}) \in Nat
           /\ Cardinality(s \ {x}) + 1 = Cardinality(s)
<1>1. Chosen(s) \in s
  BY DEF Chosen
<1>2. /\ IsFiniteSet(s \ {x}) /\ Cardinality(s) \in Nat
      /\ Cardinality(s \ {x}) = Cardinality(s) - 1
  BY FS_RemoveElement, FS_CardinalityType
<1>3. Cardinality(s \ {x}) \in Nat
  BY <1>2, FS_CardinalityType
<1> QED BY <1>1, <1>2, <1>3

(* Sums exist over any finite set.                                         *)
LEMMA SummingDefined ==
    ASSUME NEW m, NEW S, IsFiniteSet(S)
    PROVE  \E g : Summing(g, m, S)
<1> DEFINE Right(h, s) == h[s] = IF s = {} THEN 0 ELSE Sz(m, Chosen(s)) + h[s \ {Chosen(s)}]
           Upto(h, k) == \A s \in SUBSET S : Cardinality(s) <= k => Right(h, s)
           K == {k \in Nat : \E h : Upto(h, k)}
<1>1. \A s \in SUBSET S : IsFiniteSet(s) /\ Cardinality(s) \in Nat
                          /\ Cardinality(s) <= Cardinality(S)
  BY FS_Subset, FS_CardinalityType
<1>2. 0 \in K
  <2> DEFINE h == [s \in SUBSET S |-> 0]
  <2>1. ASSUME NEW s \in SUBSET S, Cardinality(s) <= 0 PROVE Right(h, s)
    <3>1. s = {}
      BY <1>1, <2>1, FS_EmptySet
    <3> QED BY <3>1
  <2>2. Upto(h, 0)
    BY <2>1
  <2> HIDE DEF Upto, h
  <2> QED BY <2>2
<1>3. ASSUME NEW k \in Nat, k \in K PROVE k + 1 \in K
  <2>1. PICK h : Upto(h, k)
    BY <1>3
  <2> DEFINE Add(s) == Sz(m, Chosen(s)) + h[s \ {Chosen(s)}]
             h2 == [s \in SUBSET S |-> IF Cardinality(s) <= k THEN h[s] ELSE Add(s)]
  <2>2. ASSUME NEW s \in SUBSET S, Cardinality(s) <= k + 1 PROVE Right(h2, s)
    <3>1. CASE s = {}
      <4>1. Cardinality(s) <= k
        BY <3>1, FS_EmptySet
      <4> QED BY <2>1, <3>1, <4>1
    <3>2. CASE s # {}
      <4> DEFINE t == s \ {Chosen(s)}
      <4>1. Chosen(s) \in s /\ t \in SUBSET S
        BY <3>2 DEF Chosen
      <4>2. Cardinality(t) + 1 = Cardinality(s) /\ Cardinality(t) \in Nat
        BY <1>1, <4>1, SmallerSet
      <4>3. Cardinality(t) <= k
        BY <2>2, <4>2
      <4> HIDE DEF t
      <4>4. h2[t] = h[t]
        BY <4>1, <4>3
      <4>5. h2[s] = Sz(m, Chosen(s)) + h[t]
        <5>1. CASE Cardinality(s) <= k
          BY <2>1, <3>2, <5>1 DEF t
        <5>2. CASE ~(Cardinality(s) <= k)
          BY <5>2 DEF t
        <5> QED BY <5>1, <5>2
      <4> HIDE DEF h2
      <4> QED BY <3>2, <4>4, <4>5 DEF t
    <3> QED BY <3>1, <3>2
  <2>3. Upto(h2, k + 1)
    BY <2>2
  <2> HIDE DEF Upto, h2
  <2> QED BY <2>3
<1>4. Nat \subseteq K
  <2> HIDE DEF K
  <2> QED BY <1>2, <1>3, NatSetInduction
<1>5. Cardinality(S) \in K
  BY <1>4, FS_CardinalityType
<1>6. PICK h : Upto(h, Cardinality(S))
  BY <1>5
<1> DEFINE g == [s \in SUBSET S |-> h[s]]
<1>7. ASSUME NEW s \in SUBSET S PROVE Right(g, s)
  <2>1. Right(h, s)
    BY <1>1, <1>6
  <2>2. g[s] = h[s] /\ g[s \ {Chosen(s)}] = h[s \ {Chosen(s)}]
    OBVIOUS
  <2> HIDE DEF g
  <2> QED BY <2>1, <2>2
<1>8. g = [s \in SUBSET S |-> g[s]]
  OBVIOUS
<1> HIDE DEF g
<1>9. Summing(g, m, S)
  BY <1>7, <1>8, Zenon DEF Summing
<1> QED BY <1>9

(* A set of finite sets that has every set whose proper subsets with one   *)
(* member less it has.                                                     *)
LEMMA FiniteInduction ==
    ASSUME NEW S, IsFiniteSet(S), NEW G,
           \A s \in SUBSET S : (\A x \in s : s \ {x} \in G) => s \in G
    PROVE  SUBSET S \subseteq G
<1> DEFINE K == {k \in Nat : \A s \in SUBSET S : Cardinality(s) <= k => s \in G}
<1>1. \A s \in SUBSET S : IsFiniteSet(s) /\ Cardinality(s) \in Nat
                          /\ Cardinality(s) <= Cardinality(S)
  BY FS_Subset, FS_CardinalityType
<1>2. 0 \in K
  <2>1. ASSUME NEW s \in SUBSET S, Cardinality(s) <= 0 PROVE s \in G
    <3>1. s = {}
      BY <1>1, <2>1, FS_EmptySet
    <3> QED BY <3>1
  <2> QED BY <2>1
<1>3. ASSUME NEW k \in Nat, k \in K PROVE k + 1 \in K
  <2>1. ASSUME NEW s \in SUBSET S, Cardinality(s) <= k + 1 PROVE s \in G
    <3>1. ASSUME NEW x \in s PROVE s \ {x} \in G
      <4>1. /\ Cardinality(s \ {x}) + 1 = Cardinality(s) /\ Cardinality(s \ {x}) \in Nat
            /\ s \ {x} \in SUBSET S
        BY <1>1, SmallerSet
      <4>2. Cardinality(s \ {x}) <= k
        BY <2>1, <4>1
      <4> QED BY <1>3, <4>1, <4>2
    <3> QED BY <3>1
  <2> QED BY <2>1
<1>4. Nat \subseteq K
  <2> HIDE DEF K
  <2> QED BY <1>2, <1>3, NatSetInduction
<1>5. Cardinality(S) \in K
  BY <1>4, FS_CardinalityType
<1> QED BY <1>1, <1>5

(* What a sum says of any subset.                                          *)
LEMMA SummingAt ==
    ASSUME NEW m, NEW S, NEW g, Summing(g, m, S), NEW s \in SUBSET S
    PROVE  g[s] = IF s = {} THEN 0 ELSE Sz(m, Chosen(s)) + g[s \ {Chosen(s)}]
BY DEF Summing

(* The sum depends only on the lengths summed.                             *)
LEMMA SummingAgree ==
    ASSUME NEW m, NEW p, NEW S, NEW T, NEW g, NEW h, Summing(g, m, S), Summing(h, p, T),
           NEW u, IsFiniteSet(u), u \subseteq S, u \subseteq T,
           \A x \in u : Sz(m, x) = Sz(p, x)
    PROVE  g[u] = h[u]
<1> DEFINE G == {s \in SUBSET u : g[s] = h[s]}
<1>1. ASSUME NEW s \in SUBSET u, \A x \in s : s \ {x} \in G PROVE s \in G
  <2>1. /\ g[s] = IF s = {} THEN 0 ELSE Sz(m, Chosen(s)) + g[s \ {Chosen(s)}]
        /\ h[s] = IF s = {} THEN 0 ELSE Sz(p, Chosen(s)) + h[s \ {Chosen(s)}]
    <3>1. s \in SUBSET S /\ s \in SUBSET T
      OBVIOUS
    <3>2. g[s] = IF s = {} THEN 0 ELSE Sz(m, Chosen(s)) + g[s \ {Chosen(s)}]
      BY <3>1, SummingAt
    <3>3. h[s] = IF s = {} THEN 0 ELSE Sz(p, Chosen(s)) + h[s \ {Chosen(s)}]
      BY <3>1, SummingAt
    <3> QED BY <3>2, <3>3
  <2>2. s # {} => Chosen(s) \in s
    BY DEF Chosen
  <2>3. s # {} => g[s \ {Chosen(s)}] = h[s \ {Chosen(s)}] /\ Sz(m, Chosen(s)) = Sz(p, Chosen(s))
    BY <1>1, <2>2
  <2> QED BY <2>1, <2>3
<1>2. SUBSET u \subseteq G
  <2> HIDE DEF G
  <2> QED BY <1>1, FiniteInduction
<1> QED BY <1>2

LEMMA SummingNat ==
    ASSUME NEW m, NEW S, NEW g, Summing(g, m, S), IsFiniteSet(S),
           \A x \in S : Sz(m, x) \in Nat
    PROVE  \A s \in SUBSET S : g[s] \in Nat
<1> DEFINE G == {s \in SUBSET S : g[s] \in Nat}
<1>1. ASSUME NEW s \in SUBSET S, \A x \in s : s \ {x} \in G PROVE s \in G
  <2> DEFINE c == Chosen(s)
  <2>1. g[s] = IF s = {} THEN 0 ELSE Sz(m, c) + g[s \ {c}]
    BY SummingAt
  <2>2. s # {} => c \in s
    BY DEF Chosen
  <2> HIDE DEF c
  <2>3. CASE s # {}
    <3>1. Sz(m, c) \in Nat /\ g[s \ {c}] \in Nat
      BY <1>1, <2>2, <2>3
    <3> QED BY <2>1, <2>3, <3>1
  <2> QED BY <2>1, <2>3
<1>2. SUBSET S \subseteq G
  <2> HIDE DEF G
  <2> QED BY <1>1, FiniteInduction
<1> QED BY <1>2

(* Any member may be taken out first.                                      *)
LEMMA SummingTake ==
    ASSUME NEW m, NEW S, NEW g, Summing(g, m, S), IsFiniteSet(S),
           \A x \in S : Sz(m, x) \in Nat
    PROVE  \A s \in SUBSET S : \A x \in s : g[s] = Sz(m, x) + g[s \ {x}]
<1> DEFINE G == {s \in SUBSET S : \A x \in s : g[s] = Sz(m, x) + g[s \ {x}]}
<1>1. ASSUME NEW s \in SUBSET S, \A x \in s : s \ {x} \in G PROVE s \in G
  <2> DEFINE c == Chosen(s)
  <2>1. g[s] = IF s = {} THEN 0 ELSE Sz(m, c) + g[s \ {c}]
    BY SummingAt
  <2>2. s # {} => c \in s
    BY DEF Chosen
  <2> HIDE DEF c
  <2>3. ASSUME NEW x \in s PROVE g[s] = Sz(m, x) + g[s \ {x}]
    <3>1. c \in s /\ g[s] = Sz(m, c) + g[s \ {c}]
      BY <2>1, <2>2
    <3>2. CASE x = c
      BY <3>1, <3>2
    <3>3. CASE x # c
      <4>1. /\ x \in s \ {c} /\ c \in s \ {x}
            /\ s \ {c} \in G /\ s \ {x} \in G
        BY <1>1, <3>1, <3>3
      <4>2. /\ g[s \ {c}] = Sz(m, x) + g[(s \ {c}) \ {x}]
            /\ g[s \ {x}] = Sz(m, c) + g[(s \ {x}) \ {c}]
        BY <4>1
      <4>3. (s \ {c}) \ {x} = (s \ {x}) \ {c}
        OBVIOUS
      <4>4. g[(s \ {x}) \ {c}] \in Nat
        <5>1. (s \ {x}) \ {c} \in SUBSET S
          OBVIOUS
        <5> QED BY <5>1, SummingNat
      <4>5. Sz(m, x) \in Nat /\ Sz(m, c) \in Nat
        BY <3>1
      <4> QED BY <3>1, <4>2, <4>3, <4>4, <4>5
    <3> QED BY <3>2, <3>3
  <2> QED BY <2>3
<1>2. SUBSET S \subseteq G
  <2> HIDE DEF G
  <2> QED BY <1>1, FiniteInduction
<1> QED BY <1>2

(* The sum over a set and one block more, over equal lengths, and over     *)
(* nothing.                                                                *)
LEMMA SumAdd ==
    ASSUME NEW m, NEW S, IsFiniteSet(S), NEW x, x \notin S,
           \A y \in S \cup {x} : Sz(m, y) \in Nat
    PROVE  SumOf(m, S \cup {x}) = Sz(m, x) + SumOf(m, S) /\ SumOf(m, S) \in Nat
<1> DEFINE T == S \cup {x}
           g == CHOOSE f : Summing(f, m, S)
           h == CHOOSE f : Summing(f, m, T)
<1>1. IsFiniteSet(T)
  BY FS_AddElement
<1>2. Summing(g, m, S) /\ Summing(h, m, T)
  <2>1. (\E f : Summing(f, m, S)) /\ (\E f : Summing(f, m, T))
    <3> HIDE DEF T
    <3> QED BY <1>1, SummingDefined
  <2> HIDE DEF T
  <2> QED BY <2>1
<1>3. SumOf(m, S) = g[S] /\ SumOf(m, T) = h[T]
  BY DEF SumOf
<1>4. x \in T /\ T \ {x} = S /\ T \in SUBSET T /\ S \subseteq T /\ S \in SUBSET S
      /\ \A y \in T : Sz(m, y) \in Nat
  OBVIOUS
<1> HIDE DEF T, g, h
<1>5. h[T] = Sz(m, x) + h[S]
  BY <1>1, <1>2, <1>4, SummingTake
<1>6. h[S] = g[S]
  BY <1>2, <1>4, SummingAgree
<1>7. g[S] \in Nat
  BY <1>2, <1>4, SummingNat
<1> QED BY <1>3, <1>5, <1>6, <1>7 DEF T

LEMMA SumSame ==
    ASSUME NEW m, NEW p, NEW S, IsFiniteSet(S), \A x \in S : Sz(m, x) = Sz(p, x)
    PROVE  SumOf(m, S) = SumOf(p, S)
<1> DEFINE g == CHOOSE f : Summing(f, m, S)
           h == CHOOSE f : Summing(f, p, S)
<1>1. Summing(g, m, S) /\ Summing(h, p, S)
  BY SummingDefined
<1>2. SumOf(m, S) = g[S] /\ SumOf(p, S) = h[S]
  BY DEF SumOf
<1> HIDE DEF g, h
<1>3. g[S] = h[S]
  BY <1>1, SummingAgree
<1> QED BY <1>2, <1>3

LEMMA SumEmpty == ASSUME NEW m PROVE SumOf(m, {}) = 0
<1> DEFINE g == CHOOSE f : Summing(f, m, {})
<1>1. Summing(g, m, {})
  BY SummingDefined, FS_EmptySet
<1>2. SumOf(m, {}) = g[{}]
  BY DEF SumOf
<1> HIDE DEF g
<1> QED BY <1>1, <1>2, SummingAt

LEMMA SumNat ==
    ASSUME NEW m, NEW S, IsFiniteSet(S), \A x \in S : Sz(m, x) \in Nat
    PROVE  SumOf(m, S) \in Nat
<1> DEFINE g == CHOOSE f : Summing(f, m, S)
<1>1. Summing(g, m, S)
  BY SummingDefined
<1>2. SumOf(m, S) = g[S]
  BY DEF SumOf
<1> HIDE DEF g
<1>3. S \in SUBSET S
  OBVIOUS
<1>4. g[S] \in Nat
  BY <1>1, <1>3, SummingNat
<1> QED BY <1>2, <1>4

LEMMA SumUnion ==
    ASSUME NEW m, NEW S, NEW T, IsFiniteSet(S), IsFiniteSet(T), S \cap T = {},
           \A y \in S \cup T : Sz(m, y) \in Nat
    PROVE  SumOf(m, S \cup T) = SumOf(m, S) + SumOf(m, T)
<1> DEFINE G == {t \in SUBSET T : SumOf(m, S \cup t) = SumOf(m, S) + SumOf(m, t)}
<1>1. ASSUME NEW t \in SUBSET T, \A x \in t : t \ {x} \in G PROVE t \in G
  <2>1. CASE t = {}
    <3>1. S \cup t = S /\ SumOf(m, t) = 0
      BY <2>1, SumEmpty
    <3>2. SumOf(m, S) \in Nat
      BY SumNat
    <3> QED BY <3>1, <3>2
  <2>2. CASE t # {}
    <3>1. PICK x \in t : t \ {x} \in G
      BY <1>1, <2>2
    <3> DEFINE u == t \ {x}
    <3>2. /\ u \cup {x} = t /\ x \notin u /\ x \notin S \cup u
          /\ (S \cup u) \cup {x} = S \cup t
          /\ \A y \in u \cup {x} : Sz(m, y) \in Nat
          /\ \A y \in (S \cup u) \cup {x} : Sz(m, y) \in Nat
      OBVIOUS
    <3>3. IsFiniteSet(u) /\ IsFiniteSet(S \cup u)
      <4>1. u \in SUBSET T
        OBVIOUS
      <4>2. IsFiniteSet(u)
        BY <4>1, FS_Subset
      <4> HIDE DEF u
      <4> QED BY <4>2, FS_Union
    <3>4. SumOf(m, S \cup u) = SumOf(m, S) + SumOf(m, u)
      BY <3>1
    <3> HIDE DEF u
    <3>5. SumOf(m, t) = Sz(m, x) + SumOf(m, u) /\ SumOf(m, u) \in Nat
      BY <3>2, <3>3, SumAdd
    <3>6. /\ SumOf(m, S \cup t) = Sz(m, x) + SumOf(m, S \cup u)
          /\ SumOf(m, S \cup u) \in Nat
      BY <3>2, <3>3, SumAdd
    <3>7. Sz(m, x) \in Nat /\ SumOf(m, S) \in Nat
      BY <3>2, SumNat
    <3> QED BY <3>4, <3>5, <3>6, <3>7
  <2> QED BY <2>1, <2>2
<1>2. SUBSET T \subseteq G
  <2> HIDE DEF G
  <2> QED BY <1>1, FiniteInduction
<1> QED BY <1>2

----------------------------------------------------------------------------
(* memavail.                                                               *)

LEMMA HeapFinite ==
    ASSUME NEW m, NEW F, NEW H, Heap(m, F, H)
    PROVE  /\ IsFiniteSet(F) /\ IsFiniteSet(H) /\ IsFiniteSet(F \cup H)
           /\ \A a \in F \cup H \cup {Start} : Sz(m, a) \in Nat
           /\ Start \notin F /\ F \cap H = {}
<1>1. F \cup H \subseteq 0 .. End
  <2>1. \A a \in F \cup H : a \in Nat /\ a + 4 <= End
    BY HeapFacts
  <2> QED BY <2>1, Consts
<1>2. IsFiniteSet(0 .. End)
  BY FS_Interval, Consts
<1>3. IsFiniteSet(F) /\ IsFiniteSet(H) /\ IsFiniteSet(F \cup H)
  <2>1. F \in SUBSET (0 .. End) /\ H \in SUBSET (0 .. End) /\ F \cup H \in SUBSET (0 .. End)
    BY <1>1
  <2> HIDE <1>1
  <2> QED BY <1>2, <2>1, FS_Subset
<1> QED BY <1>3, HeapFacts DEF Heap

(* No length is lost: the blocks, free or not, fill the heap behind the    *)
(* dummy.                                                                  *)
Whole(m, S) == SumOf(m, S) = Length - Header
AccountInv == Whole(mem, (Listed \ {Start}) \cup Others)

LEMMA Accounts ==
    ASSUME NEW F, NEW H
    PROVE  /\ Heap(mem, F, H) /\ H = Others => (AccountInv <=> Whole(mem, F \cup H))
           /\ Heap(mem', F, H) /\ H = Others' => (AccountInv' <=> Whole(mem', F \cup H))
<1>1. Heap(mem, F, H) => (Listed \ {Start}) = F
  <2>1. SUFFICES ASSUME Heap(mem, F, H) PROVE (Listed \ {Start}) = F
    OBVIOUS
  <2>2. Listed = F \cup {Start} /\ Start \notin F
    BY <2>1, ListedIs, HeapFinite
  <2> QED BY <2>2
<1>2. Heap(mem', F, H) => (Listed' \ {Start}) = F
  <2>1. SUFFICES ASSUME Heap(mem', F, H) PROVE (Listed' \ {Start}) = F
    OBVIOUS
  <2>2. Listed' = F \cup {Start} /\ Start \notin F
    BY <2>1, ListedIs, HeapFinite
  <2> QED BY <2>2
<1> QED BY <1>1, <1>2 DEF AccountInv

(* Between calls memavail and the lengths in use are the whole heap.       *)
LEMMA AccountExact ==
    ASSUME ByteInv, AccountInv
    PROVE  MemAvailExact
<1> SUFFICES ASSUME pc = "rest"
             PROVE  MemAvail + MapThenSumSet(Size, DOMAIN held) = Length - Header
  BY DEF MemAvailExact
<1>1. PICK F : Heap(mem, F, Others)
  BY DEF ByteInv
<1>2. Others = DOMAIN held /\ Listed = F \cup {Start}
  BY <1>1, ListedIs DEF Others
<1>3. SumOf(mem, F \cup Others) = Length - Header
  BY <1>1, Accounts DEF Whole
<1>4. /\ IsFiniteSet(F) /\ IsFiniteSet(Others) /\ F \cap Others = {}
      /\ \A a \in F \cup Others : Sz(mem, a) \in Nat
      /\ \A a \in F \cup {Start} : Sz(mem, a) \in Nat
      /\ Start \notin F
  BY <1>1, HeapFinite
<1>5. SumOf(mem, F \cup Others) = SumOf(mem, F) + SumOf(mem, Others)
  BY <1>4, SumUnion
<1>6. SumOf(mem, F \cup {Start}) = Sz(mem, Start) + SumOf(mem, F) /\ SumOf(mem, F) \in Nat
  BY <1>4, SumAdd
<1>7. Sz(mem, Start) = 0
  BY <1>1 DEF Heap
<1> QED BY <1>2, <1>3, <1>5, <1>6, <1>7, SumsAre

(* The set of blocks stays, and so do their lengths.                       *)
LEMMA AccountKept ==
    ASSUME AccountInv, NEW F, NEW H, Heap(mem, F, H), H = Others,
           NEW G, NEW I, Heap(mem', G, I), I = Others', G \cup I = F \cup H,
           \A a \in F \cup H : Sz(mem', a) = Sz(mem, a)
    PROVE  AccountInv'
<1>1. Whole(mem, F \cup H) /\ IsFiniteSet(F \cup H)
  BY Accounts, HeapFinite
<1>2. SumOf(mem, F \cup H) = SumOf(mem', F \cup H)
  BY <1>1, SumSame
<1>3. Whole(mem', G \cup I)
  BY <1>1, <1>2 DEF Whole
<1> QED BY <1>3, Accounts

(* A block is cut in two, or two are joined.                               *)
LEMMA CutWhole ==
    ASSUME NEW m, NEW p, NEW S, IsFiniteSet(S), NEW a \in S, NEW b, b \notin S,
           \A x \in S : Sz(m, x) \in Nat,
           Sz(p, a) \in Nat, Sz(p, b) \in Nat, Sz(p, a) + Sz(p, b) = Sz(m, a),
           \A x \in S : x # a => Sz(p, x) = Sz(m, x)
    PROVE  SumOf(p, S \cup {b}) = SumOf(m, S)
<1> DEFINE T == S \ {a}
<1>1. /\ IsFiniteSet(T) /\ a \notin T /\ T \cup {a} = S
      /\ \A x \in S : Sz(p, x) \in Nat
      /\ \A x \in T : Sz(m, x) = Sz(p, x)
  BY FS_RemoveElement
<1>2. \A x \in S \cup {b} : Sz(p, x) \in Nat
  BY <1>1
<1> HIDE DEF T
<1>3. SumOf(p, S \cup {b}) = Sz(p, b) + SumOf(p, S)
  BY <1>2, SumAdd
<1>4. SumOf(p, S) = Sz(p, a) + SumOf(p, T) /\ SumOf(p, T) \in Nat
  BY <1>1, SumAdd
<1>5. SumOf(m, S) = Sz(m, a) + SumOf(m, T)
  BY <1>1, SumAdd
<1>6. SumOf(m, T) = SumOf(p, T)
  BY <1>1, SumSame
<1> QED BY <1>3, <1>4, <1>5, <1>6

LEMMA AccountTakeWhole ==
    ASSUME ByteInv, AccountInv, TakeWhole
    PROVE  AccountInv'
<1>1. PICK F : Heap(mem, F, Others) /\ Walk(F)
  BY DEF ByteInv
<1> DEFINE H == DOMAIN held
<1>2. /\ hl \in F /\ Others = H
      /\ Heap(mem', F \ {hl}, H \cup {hl})
      /\ \A a \in F \cup H \cup {Start} : Sz(mem', a) = Sz(mem, a)
  BY <1>1, TakeWholeWords
<1>3. Others' = H \cup {hl}
  BY GrantMapped DEF TakeWhole
<1>4. (F \ {hl}) \cup (H \cup {hl}) = F \cup H
  BY <1>2
<1>5. \A a \in F \cup H : Sz(mem', a) = Sz(mem, a)
  BY <1>2
<1> HIDE DEF H
<1> QED BY <1>1, <1>2, <1>3, <1>4, <1>5, AccountKept

LEMMA AccountTakeTail ==
    ASSUME NoTinyRequest, ByteInv, AccountInv, TakeTail
    PROVE  AccountInv'
<1>1. PICK F : Heap(mem, F, Others) /\ Walk(F)
  BY DEF ByteInv
<1> DEFINE H == DOMAIN held
           left == Sz(mem, hl) - bc
           new == hl + left
<1>2. /\ hl \in F /\ Others = H /\ new \notin F \cup H \cup {Start}
      /\ Grant(new)
      /\ Heap(mem', F, H \cup {new})
      /\ Sz(mem', hl) = left /\ Sz(mem', new) = bc
      /\ \A a \in F \cup H \cup {Start} : a # hl => Sz(mem', a) = Sz(mem, a)
  BY <1>1, TakeTailWords
<1> HIDE DEF new
<1>3. Others' = H \cup {new}
  BY <1>2, GrantMapped
<1>4. /\ IsFiniteSet(F \cup H) /\ \A a \in F \cup H : Sz(mem, a) \in Nat
      /\ \A a \in F \cup (H \cup {new}) : Sz(mem', a) \in Nat
  BY <1>1, <1>2, HeapFinite
<1>5. Sz(mem', hl) + Sz(mem', new) = Sz(mem, hl)
  <2>1. Sz(mem, hl) \in Nat /\ Sz(mem', new) \in Nat
    BY <1>2, <1>4
  <2> QED BY <1>2, <2>1
<1> HIDE DEF left, H
<1>6. SumOf(mem', (F \cup H) \cup {new}) = SumOf(mem, F \cup H)
  <2> DEFINE U == F \cup H
  <2>1. /\ hl \in F \cup H /\ new \notin F \cup H
        /\ Sz(mem', hl) \in Nat /\ Sz(mem', new) \in Nat
        /\ \A a \in F \cup H : a # hl => Sz(mem', a) = Sz(mem, a)
    BY <1>2, <1>4
  <2>2. hl \in U /\ new \notin U /\ IsFiniteSet(U) /\ \A a \in U : Sz(mem, a) \in Nat
    BY <1>4, <2>1
  <2>3. \A a \in U : a # hl => Sz(mem', a) = Sz(mem, a)
    BY <2>1
  <2> HIDE DEF U
  <2>4. SumOf(mem', U \cup {new}) = SumOf(mem, U)
    BY <1>5, <2>1, <2>2, <2>3, CutWhole
  <2> QED BY <2>4 DEF U
<1>7. F \cup (H \cup {new}) = (F \cup H) \cup {new}
  OBVIOUS
<1>8. Whole(mem, F \cup H)
  BY <1>1, <1>2, Accounts
<1>9. Whole(mem', F \cup (H \cup {new}))
  BY <1>6, <1>7, <1>8 DEF Whole
<1> QED BY <1>2, <1>3, <1>9, Accounts

LEMMA AccountLinkPrev ==
    ASSUME ByteInv, AccountInv, LinkPrev
    PROVE  AccountInv'
<1>1. PICK F : Heap(mem, F, Others) /\ Walk(F)
  BY DEF ByteInv
<1> DEFINE H == DOMAIN held
<1>2. /\ Heap(mem', F \cup {bc}, H)
      /\ \A a \in F \cup H \cup {Start, bc} : Sz(mem', a) = Sz(mem, a)
  BY <1>1, LinkPrevWords
<1>3. Others = H \cup {bc} /\ Others' = H
  BY DEF LinkPrev, Others
<1>4. (F \cup {bc}) \cup H = F \cup (H \cup {bc})
  OBVIOUS
<1>5. \A a \in F \cup (H \cup {bc}) : Sz(mem', a) = Sz(mem, a)
  BY <1>2
<1> HIDE DEF H
<1> QED BY <1>1, <1>2, <1>3, <1>4, <1>5, AccountKept

LEMMA AccountJoin ==
    ASSUME ByteInv, AccountInv, NEW F, NEW H, Heap(mem, F, H), NEW b \in F \cup {Start},
           mem' = Joined(b), H = DOMAIN held, H = Others, H = Others'
    PROVE  AccountInv'
<1> DEFINE c == Nx(mem, b)
<1>1. /\ ~Absorbs(b) => mem' = mem
      /\ Absorbs(b) => Absorbed(mem, mem', F, H, b)
  <2>1. mem \in Memory /\ Contents(mem, held, stored) /\ DOMAIN held \subseteq H
    BY DEF ByteInv
  <2> QED BY <2>1, JoinedWords
<1>2. CASE ~Absorbs(b)
  <2>1. mem' = mem
    BY <1>1, <1>2
  <2> QED BY <2>1, AccountKept
<1>3. CASE Absorbs(b)
  <2>1. /\ b \in F /\ c \in F /\ b < c
        /\ Heap(mem', F \ {c}, H) /\ Sz(mem', b) = Sz(mem, b) + Sz(mem, c)
        /\ \A a \in F \cup H \cup {Start} : a # b => Sz(mem', a) = Sz(mem, a)
    BY <1>1, <1>3 DEF Absorbed
  <2>2. /\ IsFiniteSet((F \ {c}) \cup H) /\ \A a \in F \cup H : Sz(mem, a) \in Nat
        /\ \A a \in (F \ {c}) \cup H : Sz(mem', a) \in Nat
        /\ F \cap H = {} /\ b \in Nat /\ c \in Nat
    <3> DEFINE G == F \ {c}
    <3>0. Heap(mem', G, H)
      BY <2>1
    <3> HIDE DEF G
    <3>4. IsFiniteSet(G \cup H) /\ \A a \in G \cup H : Sz(mem', a) \in Nat
      BY <3>0, HeapFinite
    <3>1. IsFiniteSet((F \ {c}) \cup H) /\ \A a \in (F \ {c}) \cup H : Sz(mem', a) \in Nat
      BY <3>4 DEF G
    <3>2. F \cap H = {} /\ \A a \in F \cup H : Sz(mem, a) \in Nat
      BY HeapFinite
    <3>3. b \in Nat /\ c \in Nat
      BY <2>1, HeapFacts
    <3> QED BY <3>1, <3>2, <3>3
  <2> DEFINE S == (F \ {c}) \cup H
  <2>3. S \cup {c} = F \cup H /\ c \notin S /\ b \in S
    BY <2>1, <2>2
  <2>4. /\ IsFiniteSet(S) /\ \A x \in S : Sz(mem', x) \in Nat
        /\ Sz(mem, b) \in Nat /\ Sz(mem, c) \in Nat /\ Sz(mem, b) + Sz(mem, c) = Sz(mem', b)
        /\ \A x \in S : x # b => Sz(mem, x) = Sz(mem', x)
    BY <2>1, <2>2
  <2> HIDE DEF S, c
  <2>5. SumOf(mem, S \cup {c}) = SumOf(mem', S)
    BY <2>3, <2>4, CutWhole
  <2>6. Whole(mem, F \cup H)
    BY Accounts
  <2>7. Whole(mem', (F \ {c}) \cup H)
    BY <2>3, <2>5, <2>6 DEF Whole, S
  <2> QED BY <2>1, <2>7, Accounts
<1> QED BY <1>2, <1>3

(* A step that leaves the blocks and their lengths as they are.            *)
LEMMA AccountRead ==
    ASSUME ByteInv, AccountInv, Others' = Others, UNCHANGED ListSize, ByteInv'
    PROVE  AccountInv'
<1>1. PICK F : Heap(mem, F, Others)
  BY DEF ByteInv
<1>2. PICK G : Heap(mem', G, Others')
  BY DEF ByteInv
<1>3. /\ ListSize = [b \in F \cup Others \cup {Start} |-> Sz(mem, b)]
      /\ ListSize' = [b \in G \cup Others' \cup {Start} |-> Sz(mem', b)]
  BY <1>1, <1>2, Mapped, MappedNext
<1>4. G \cup Others' \cup {Start} = F \cup Others \cup {Start}
  BY <1>3
<1>5. Start \notin G \cup Others' /\ Start \notin F \cup Others
  BY <1>1, <1>2, HeapFacts
<1>6. G \cup Others' = F \cup Others
  BY <1>4, <1>5
<1>7. \A a \in F \cup Others : Sz(mem', a) = Sz(mem, a)
  BY <1>3
<1> QED BY <1>1, <1>2, <1>6, <1>7, AccountKept

LEMMA AccountInit ==
    ASSUME Init
    PROVE  AccountInv
<1> DEFINE b == Start + Header
<1>1. Sz(mem, b) = Length - Header /\ Heap(mem, {b}, {}) /\ Length - Header \in Nat
  BY InitWords, Consts
<1>2. Others = {}
  BY DEF Init, Others
<1> HIDE DEF b
<1>3. SumOf(mem, {} \cup {b}) = Sz(mem, b) + SumOf(mem, {})
  <2>1. IsFiniteSet({}) /\ b \notin {} /\ \A y \in {} \cup {b} : Sz(mem, y) \in Nat
    BY <1>1, FS_EmptySet
  <2> QED BY <2>1, SumAdd
<1>4. {} \cup {b} = {b} \cup {} /\ SumOf(mem, {}) = 0
  BY SumEmpty
<1>5. Whole(mem, {b} \cup {})
  BY <1>1, <1>3, <1>4 DEF Whole
<1> QED BY <1>1, <1>2, <1>5, Accounts

LEMMA AccountStep ==
    ASSUME NoTinyRequest, ByteInv, TempInv, AccountInv, [Next]_vars
    PROVE  AccountInv'
<1>1. ByteInv'
  BY StepInv
<1>2. ASSUME mem' = mem, Others' = Others PROVE AccountInv'
  BY <1>1, <1>2, AccountRead, ListRead
<1>3. CASE UNCHANGED vars
  <2>1. mem' = mem /\ Others' = Others
    BY <1>3 DEF vars, registers, Others
  <2> QED BY <1>2, <2>1
<1>4. ASSUME NEW k, NEW m, Alloc(k, m) PROVE AccountInv'
  <2>1. mem' = mem /\ Others' = Others
    BY <1>4 DEF Alloc, Others
  <2> QED BY <1>2, <2>1
<1>5. ASSUME NEW b \in DOMAIN held, NEW m, Free(b) \/ Realloc(b, m) PROVE AccountInv'
  <2>1. /\ mem' = mem /\ pc = "rest" /\ pc' = "search" /\ bc' = b
        /\ DOMAIN held' = DOMAIN held \ {b}
    BY <1>5 DEF Free, Realloc, FreeFrom, Forget
  <2>2. Others' = Others
    BY <2>1 DEF Others
  <2> QED BY <1>2, <2>1, <2>2
<1>6. CASE OutOfMemory \/ TooSmall \/ Search
  <2>1. mem' = mem /\ Others' = Others
    BY <1>6 DEF OutOfMemory, TooSmall, Search, AtRest, Others
  <2> QED BY <1>2, <2>1
<1>7. ASSUME (\E b \in DOMAIN held : Store(b)) \/ Clear \/ Restore \/ CopyByte
      PROVE  AccountInv'
  <2>1. UNCHANGED List!vars
    BY <1>7, BytesStep
  <2>2. UNCHANGED ListSize
    BY <2>1 DEF List!vars, ListSize
  <2>3. Others' = Others
    BY <1>7 DEF Store, Clear, Restore, CopyByte, Ldir, AtRest, registers, Others
  <2> QED BY <1>1, <2>2, <2>3, AccountRead
<1>8. CASE TakeWhole BY <1>8, AccountTakeWhole
<1>9. CASE TakeTail BY <1>9, AccountTakeTail
<1>10. CASE LinkPrev BY <1>10, AccountLinkPrev
<1>11. ASSUME JoinNext \/ JoinPrev PROVE AccountInv'
  <2>1. PICK F : Heap(mem, F, Others) /\ Walk(F)
    BY DEF ByteInv
  <2>2. Others = DOMAIN held /\ Others' = DOMAIN held
    BY <1>11 DEF JoinNext, JoinPrev, AtRest, Others
  <2>3. PICK b \in F \cup {Start} : mem' = Joined(b)
    BY <1>11, <2>1 DEF JoinNext, JoinPrev, Walk
  <2> QED BY <2>1, <2>2, <2>3, AccountJoin
<1> QED BY <1>3, <1>4, <1>5, <1>6, <1>7, <1>8, <1>9, <1>10, <1>11 DEF Next, Program, Call

(* memavail is exact, for every heap: what the words in memory say is free *)
(* and what is given out are the whole heap but the dummy block, after any *)
(* history of calls.                                                       *)
THEOREM NothingLost == NoTinyRequest => (Spec => []MemAvailExact)
<1> SUFFICES ASSUME NoTinyRequest PROVE Spec => []MemAvailExact
  OBVIOUS
<1>1. Init => TempInv /\ AccountInv
  BY AccountInit DEF Init, TempInv
<1>2. ByteInv /\ TempInv /\ AccountInv /\ [Next]_vars => TempInv' /\ AccountInv'
  BY TempStep, AccountStep
<1>3. ByteInv /\ AccountInv => MemAvailExact
  BY AccountExact
<1> QED BY <1>1, <1>2, <1>3, ByteInvAlways, PTL DEF Spec
=============================================================================

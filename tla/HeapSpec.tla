------------------------------ MODULE HeapSpec ------------------------------
(***************************************************************************)
(* What the heap promises: the one request under way is answered with      *)
(* memory that overlaps nothing in use and is large enough for it, or with *)
(* NULL when no run of free bytes is long enough for it and its size word; *)
(* deallocate gives memory back, reallocate gives it back and requests.    *)
(***************************************************************************)
EXTENDS Integers

CONSTANTS First, End, Requests   \* bytes First .. End-1 are for use
VARIABLES
    live,       \* blocks in use -> their bytes
    want,       \* bytes requested and not yet answered, 0 if none
    ret         \* last pointer returned

vars == <<live, want, ret>>

None == -1
Null == 0

Used == UNION {b .. b + live[b] - 1 : b \in DOMAIN live}
Gap(b, n) == b >= First /\ b + n <= End /\ (b .. b + n - 1) \cap Used = {}

Init == live = [b \in {} |-> 0] /\ want = 0 /\ ret = None

Request(n) ==
    /\ want = 0
    /\ want' = n
    /\ UNCHANGED <<live, ret>>

Grant ==
    /\ want # 0
    /\ \E b \in First .. End - 1 : \E s \in want + 2 .. want + 5 :
          /\ Gap(b, s)
          /\ live' = [x \in DOMAIN live \cup {b} |-> IF x = b THEN s ELSE live[x]]
          /\ ret' = b + 2
    /\ want' = 0

Refuse ==
    /\ want # 0
    /\ \A b \in First .. End - 1 : ~Gap(b, want + 2)
    /\ ret' = Null
    /\ want' = 0
    /\ UNCHANGED live

(* Deallocate (n = 0) or reallocate.                                       *)
Release(b, n) ==
    /\ want = 0
    /\ live' = [x \in DOMAIN live \ {b} |-> live[x]]
    /\ want' = n
    /\ UNCHANGED ret

Next ==
    \/ \E n \in Requests : Request(n)
    \/ Grant \/ Refuse
    \/ \E b \in DOMAIN live : \E n \in Requests \cup {0} : Release(b, n)

Spec == Init /\ [][Next]_vars
=============================================================================

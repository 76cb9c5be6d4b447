----------------------------- MODULE MCMemHeap -----------------------------
(***************************************************************************)
(* MemHeap with a history of what the program asked for, for TLC, and the  *)
(* promise of HeapSpec it is checked against.  A request is under way from *)
(* the call to its return, a block is live from the return of allocate to  *)
(* the call of deallocate or reallocate.                                   *)
(***************************************************************************)
EXTENDS MemHeap

VARIABLE asked  \* bytes the program called for, 0 between calls and in a mere free

(* The length is remembered as the program passed it: what the registers   *)
(* of the call make of it is not looked at.                                *)
RequestInit == Init /\ asked = 0

RequestNext ==
    \/ \E n \in Requests : Alloc(n) /\ asked' = n
    \/ \E b \in held, n \in Requests \cup {0} : Free(b, n) /\ asked' = n
    \/ Call /\ asked' = IF pc' = "rest" THEN 0 ELSE asked

RequestSpec == RequestInit /\ [][RequestNext]_<<vars, asked>> /\ WF_vars(Call)

Promise == INSTANCE HeapSpec WITH
    First <- Start + Header,
    live  <- [b \in held |-> size[b]],
    want  <- asked,
    ret   <- ret

(* Every call keeps the promise of HeapSpec at every step: the length it   *)
(* was called with is granted from bytes no block has, or refused if there *)
(* is no room for that length.                                             *)
KeepsPromise == Promise!Spec
=============================================================================

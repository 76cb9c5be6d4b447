----------------------------- MODULE AsmMemory -----------------------------
(***************************************************************************)
(* The memory of the assembler, zxbasm/memory.py with label.py, asm.py and *)
(* expr.py: what every method of Memory does to its object, here a record. *)
(*                                                                         *)
(* Labels are objects, shared by the scope that names them and by the      *)
(* instructions that wait for them: the record keeps all of them in        *)
(* "labels" and a reference is a number.  An expression is at most one     *)
(* label plus a number, [lab, k].  A byte of memory is the cell            *)
(* <<instruction, place in it, value of its operand>>.                     *)
(***************************************************************************)
EXTENDS Integers, Sequences, FiniteSets, SequencesExt, TLC

CONSTANTS
    MaxMem,          \* Memory.MAX_MEM, the last address
    Reach,           \* how far a relative jump goes back, 128
    None             \* no value yet

\* An expression: a label, or 0 for none, plus a number.
Exprs == [lab : Nat, k : Int]

Cell == Int \X Int \X Int

ASSUME BoundsAssumption == MaxMem \in Nat /\ Reach \in Nat

\* None is no number, no expression and no binary.
ASSUME NoneAssumption ==
    None \notin Int /\ None \notin Exprs /\ None \notin [org : Nat, out : Seq(Cell)]

Zero == <<0, 0, 0>>

\* Two tables in one, the first before the second; a table with one more entry.
Over(f, g) == [x \in DOMAIN f \cup DOMAIN g |-> IF x \in DOMAIN f THEN f[x] ELSE g[x]]
Store(g, x, v) == Over([y \in {x} |-> v], g)

\* Memory(), with the two variables of zxbasm/global_.py.
NewMemory ==
    [index |-> 0, bytes |-> << >>, orgs |-> << >>,
     labels |-> << >>, scopes |-> <<[x \in {} |-> 0]>>,
     tmp |-> {}, waiting |-> << >>,
     ns |-> "", nsStack |-> << >>, err |-> "none"]

\* errmsg.error; only the first message is kept.
Error(m, what) == IF m.err = "none" THEN [m EXCEPT !.err = what] ELSE m

\* Expr.try_eval: the value of every label, None while it depends on a
\* label without one.
LabelValue(labels) ==
    LET V[d \in 0..Len(labels)] ==
            [o \in 0..Len(labels) |->
                IF o = 0 THEN 0
                ELSE IF d = 0 \/ labels[o].value = None THEN None
                ELSE LET rest == V[d - 1][labels[o].value.lab]
                     IN  IF rest = None THEN None ELSE labels[o].value.k + rest]
    IN  V[Len(labels)]

TryEval(labels, e) ==
    LET v == LabelValue(labels)[e.lab] IN IF v = None THEN None ELSE v + e.k

NewLabel(name, value, local, line, dir, ns) ==
    [name |-> name, value |-> value, local |-> local, line |-> line, dir |-> dir, ns |-> ns]

Here(m) == m.scopes[Len(m.scopes)]
Defined(m, o) == m.labels[o].value # None

\* A slip of Define: a second definition is taken as a change of mind.
DefineAgain(m, o, value) == [m EXCEPT !.labels[o].value = value]

\* Label.define, which stores the value after its message too.
Define(m, o, value) ==
    [(IF Defined(m, o) THEN Error(m, "already defined") ELSE m)
        EXCEPT !.labels[o].value = value]

AddLabel(m, name, label) ==
    [m EXCEPT !.labels = Append(@, label),
              !.scopes[Len(m.scopes)] = Store(@, name, Len(m.labels) + 1)]

EnterProc(m) == [m EXCEPT !.scopes = Append(@, [x \in {} |-> 0])]

ClearTemporaryLabels(m) == [m EXCEPT !.tmp = {}, !.waiting = << >>]

SetOrg(m, value) ==
    LET checked == IF value < 0 \/ value > MaxMem THEN Error(m, "ORG out of range") ELSE m
    IN  [ClearTemporaryLabels(checked) EXCEPT !.index = value]

\* A slip of ExitProc: a public label becomes a new global one.
ExitProcCopies(m) ==
    LET names == {x \in DOMAIN Here(m) : ~m.labels[Here(m)[x]].local}
        new == SetToSeq(names \ DOMAIN m.scopes[1])
        at(x) == Len(m.labels) + CHOOSE k \in DOMAIN new : new[k] = x
    IN  IF Len(m.scopes) <= 1 THEN Error(m, "ENDP without PROC")
        ELSE IF \E o \in {Here(m)[x] : x \in DOMAIN Here(m) \ names} : ~Defined(m, o)
        THEN Error(m, "undefined LOCAL")
        ELSE [FoldSet(LAMBDA x, r : Define(r, m.scopes[1][x], m.labels[Here(m)[x]].value), m,
                      names \cap DOMAIN m.scopes[1])
                EXCEPT !.labels = @ \o [k \in DOMAIN new |-> m.labels[Here(m)[new[k]]]],
                       !.scopes = [Front(@) EXCEPT ![1] =
                                      Over(@, [x \in Range(new) |-> at(x)])]]

\* The public labels of the scope go to the global one: the object itself
\* when the name is new there, else only its value.
ExitProc(m) ==
    LET names == {x \in DOMAIN Here(m) : ~m.labels[Here(m)[x]].local}
    IN  IF Len(m.scopes) <= 1 THEN Error(m, "ENDP without PROC")
        ELSE IF \E o \in {Here(m)[x] : x \in DOMAIN Here(m) \ names} : ~Defined(m, o)
        THEN Error(m, "undefined LOCAL")
        ELSE [FoldSet(LAMBDA x, r : Define(r, m.scopes[1][x], m.labels[Here(m)[x]].value), m,
                      names \cap DOMAIN m.scopes[1])
                EXCEPT !.scopes = [Front(@) EXCEPT ![1] =
                                      Over(m.scopes[1], [x \in names |-> Here(m)[x]])]]

\* A slip of SetMemorySlot: the slot is declared, but not its byte.
SetMemorySlotBare(m) ==
    IF m.index \in DOMAIN m.orgs THEN m ELSE [m EXCEPT !.orgs = Store(@, m.index, << >>)]

SetMemorySlot(m) ==
    IF m.index \in DOMAIN m.orgs THEN m
    ELSE [m EXCEPT !.orgs = Store(@, m.index, << >>), !.bytes = Store(@, m.index, Zero)]

\* Asm.bytes: the operand counts as 0 until it is worked out.
Cells(i, arg) == [k \in 1..i.size |-> <<i.id, k, arg>>]
Put(bytes, at, cells) == Over([a \in at..(at + Len(cells) - 1) |-> cells[a - at + 1]], bytes)

\* Asm.argval: the value of the operand, [v, err].
ArgVal(m, i) ==
    LET v == TryEval(m.labels, i.arg)
    IN  IF v = None THEN [v |-> 0, err |-> "undefined label"]
        ELSE [v |-> v, err |-> IF i.rel /\ v \notin -Reach..(Reach - 1) THEN "jump out of range" ELSE "none"]

\* Asm(): an operand that can be worked out is, but for DEFB, DEFS and DEFW.
AddInstruction(m, i) ==
    LET pending == i.data \/ TryEval(m.labels, i.arg) = None
        val == ArgVal(m, i)
        r == SetMemorySlot(m)
    IN  IF ~pending /\ val.err # "none" THEN Error(m, val.err)
        ELSE [r EXCEPT !.orgs[m.index] = Append(@, [i EXCEPT !.pending = pending]),
                       !.bytes = Put(@, m.index, Cells(i, IF pending THEN 0 ELSE val.v)),
                       !.index = @ + i.size]

\* declare_label: in the innermost scope, whatever the outer ones hold.
DeclareLabel(m, name, value) ==
    SetMemorySlot(IF name \in DOMAIN Here(m)
                  THEN Define(m, Here(m)[name], value)
                  ELSE AddLabel(m, name, NewLabel(name, value, FALSE, 0, "", m.ns)))

DeclareTemporary(m, name, line) ==
    [m EXCEPT !.tmp = {t \in @ : <<t.line, t.name>> # <<line, name>>}
                        \cup {[name |-> name, line |-> line, ns |-> m.ns, value |-> m.index]}]

\* get_label: [m, o] with the object the name stands for, from the innermost
\* scope outwards; a new one of the innermost scope when there is none.
GetLabel(m, name) ==
    LET known == {d \in DOMAIN m.scopes : name \in DOMAIN m.scopes[d]}
    IN  IF known # {}
        THEN [m |-> m, o |-> m.scopes[CHOOSE d \in known : \A e \in known : e <= d][name]]
        ELSE [m |-> AddLabel(m, name, NewLabel(name, None, FALSE, 0, "", m.ns)),
              o |-> Len(m.labels) + 1]

GetTemporary(m, name, dir, line) ==
    [m |-> [m EXCEPT !.labels = Append(@, NewLabel(name, None, FALSE, line, dir, m.ns)),
                     !.waiting = Append(@, Len(m.labels) + 1)],
     o |-> Len(m.labels) + 1]

\* set_label, for LOCAL.
SetLabel(m, name) ==
    IF name \in DOMAIN Here(m) THEN [m EXCEPT !.labels[Here(m)[name]].local = TRUE]
    ELSE AddLabel(m, name, NewLabel(name, None, TRUE, 0, "", m.ns))

-----------------------------------------------------------------------------
(* dump.                                                                   *)

\* A slip of Found: a forward jump takes the last such label.
FoundLast(m, l, t) ==
    /\ t.name = l.name /\ t.ns = l.ns
    /\ t.line >= l.line \/ l.dir = "B"
    /\ t.line <= l.line \/ l.dir = "F"
    /\ \A u \in m.tmp :
         (u.name = l.name /\ u.ns = l.ns /\ (u.line >= l.line \/ l.dir = "B")
            /\ (u.line <= l.line \/ l.dir = "F")) => u.line <= t.line

\* t is the temporary label that l means: the nearest line in its direction,
\* its own line included.
Found(m, l, t) ==
    /\ t.name = l.name /\ t.ns = l.ns
    /\ IF l.dir = "B" THEN t.line <= l.line ELSE t.line >= l.line
    /\ \A u \in m.tmp :
         (u.name = l.name /\ u.ns = l.ns)
            => IF l.dir = "B" THEN u.line \notin (t.line + 1)..l.line
                              ELSE u.line \notin l.line..(t.line - 1)

ResolveTemporaryLabel(m, o) ==
    LET found == {t \in m.tmp : Found(m, m.labels[o], t)}
    IN  IF found = {} THEN Error(m, "undefined temporary label")
        ELSE [m EXCEPT !.labels[o].value =
                 [lab |-> 0, k |-> (CHOOSE t \in found : TRUE).value]]

CheckGlobals(m) ==
    IF \E x \in DOMAIN m.scopes[1] : ~Defined(m, m.scopes[1][x])
    THEN Error(m, "undefined GLOBAL") ELSE m

\* One address: of the instructions put there only the first is completed.
\* A slot without one is a zero that is only written if code follows.
DumpAt(d, a) ==
    LET first == d.m.orgs[a][1]
        val == ArgVal(d.m, first)
        done == IF first.pending
                THEN [d.m EXCEPT !.err = val.err, !.bytes = Put(@, a, Cells(first, val.v))]
                ELSE d.m
    IN  IF d.m.err # "none" THEN d
        ELSE IF a \notin DOMAIN d.m.orgs
             THEN [d EXCEPT !.out = Append(@, IF a \in DOMAIN d.m.bytes THEN d.m.bytes[a] ELSE Zero)]
        ELSE IF d.m.orgs[a] = << >> THEN [d EXCEPT !.align = @ + 1]
        ELSE [m |-> done, align |-> 0,
              out |-> d.out \o [k \in 1..d.align |-> Zero] \o <<done.bytes[a]>>]

SetMin(S) == CHOOSE x \in S : \A y \in S : x <= y
SetMax(S) == CHOOSE x \in S : \A y \in S : x >= y

\* [m, out, org]: the origin and the bytes from there on.
Dump(m) ==
    LET org == SetMin(DOMAIN m.bytes)
        ready == CheckGlobals(FoldLeft(ResolveTemporaryLabel, m, m.waiting))
        d == FoldLeft(DumpAt, [m |-> ready, out |-> << >>, align |-> 0],
                      [k \in 1..(SetMax(DOMAIN m.bytes) - org + 1) |-> org + k - 1])
    IN  [m |-> d.m, out |-> d.out, org |-> org]
=============================================================================

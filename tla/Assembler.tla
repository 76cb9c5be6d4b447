----------------------------- MODULE Assembler -----------------------------
(***************************************************************************)
(* The assembler zxbasm from its source to the binary: the rules of        *)
(* asmparse.py that touch the memory, read one statement at a time, then   *)
(* the end of assemble, the calls zxbasm.main adds for _INIT, and dump.    *)
(* The text is chosen as it is read, so a run covers every text over one   *)
(* of the Pools.                                                           *)
(*                                                                         *)
(* After the first error message no byte is written whatever follows, so   *)
(* reading stops there.                                                    *)
(***************************************************************************)
EXTENDS AsmMemory

CONSTANTS
    Pools            \* [of, most]: a text takes its statements from the set
                     \* "of" of one pool and has at most "most" of them

\* A statement: [op, name, of, n, join].  "name" is a label or a namespace,
\* "of" the label an EQU takes ("" for none), "n" a number, and "join" marks a
\* temporary label with more code on its line.
ASSUME PoolsAssumption ==
    \A P \in Pools : P.most \in Nat /\ \A s \in P.of :
         /\ DOMAIN s = {"op", "name", "of", "n", "join"}
         /\ s.n \in Nat /\ s.join \in BOOLEAN
         /\ s.op = "align" => s.n > 1

VARIABLES
    text,            \* the statements read so far
    line,            \* the line of the next one
    mem,             \* MEMORY and the namespace
    inits,           \* INITS
    autorun,         \* AUTORUN_ADDR, or None
    phase,           \* reading, ended, assembled, called, written, failed
    image            \* what dump returned, [org, out]

vars == <<text, line, mem, inits, autorun, phase, image>>

-----------------------------------------------------------------------------
(* What a text means, read off the text alone.                             *)

SizeOf(s) ==
    CASE s.op = "nop" -> 1 [] s.op \in {"jr", "back", "fwd", "defw"} -> 2
      [] s.op = "jp" -> 3  [] s.op = "defs" -> s.n [] OTHER -> 0

\* The address of every statement of t, and of its end.
Places(t) ==
    LET P[i \in 1..(Len(t) + 1)] ==
            IF i = 1 THEN 0
            ELSE LET s == t[i - 1] IN
                 CASE s.op = "org" -> s.n
                   [] s.op = "align" -> P[i - 1] + ((-P[i - 1]) % s.n)
                   [] OTHER -> P[i - 1] + SizeOf(s)
    IN  P

\* The PROCs open at every statement, outermost first; the whole text is 0.
Opens(t) ==
    LET O[i \in 1..(Len(t) + 1)] ==
            IF i = 1 THEN <<0>>
            ELSE CASE t[i - 1].op = "proc" -> Append(O[i - 1], i - 1)
                   [] t[i - 1].op = "endp" /\ Len(O[i - 1]) > 1 -> Front(O[i - 1])
                   [] OTHER -> O[i - 1]
    IN  O

\* The namespaces at every statement, the current one last.
Spaces(t) ==
    LET S[i \in 1..(Len(t) + 1)] ==
            IF i = 1 THEN <<"">>
            ELSE LET s == t[i - 1] IN
                 CASE s.op = "namespace" -> Append(Front(S[i - 1]), s.name)
                   [] s.op = "push" -> Append(S[i - 1], s.name)
                   [] s.op = "pop" /\ Len(S[i - 1]) > 1 -> Front(S[i - 1])
                   [] OTHER -> S[i - 1]
    IN  S

Full(t, i, x) == <<Last(Spaces(t)[i]), x>>
Lines(t, ops) == {i \in DOMAIN t : t[i].op \in ops}
Definitions(t) == Lines(t, {"label", "equ"})
Uses(t) == Lines(t, {"jp", "jr", "defw", "end"}) \cup {i \in Lines(t, {"equ"}) : t[i].of # ""}
UsedName(t, i) == Full(t, i, IF t[i].op = "equ" THEN t[i].of ELSE t[i].name)

\* The names that are LOCAL in the PROC at line p.
Locals(t, p) == {Full(t, j, t[j].name) : j \in {j \in Lines(t, {"local"}) : Last(Opens(t)[j]) = p}}

\* The innermost PROC open at i that has x for itself, 0 if none does.
Owner(t, i, x) ==
    LET own == {p \in ToSet(Opens(t)[i]) : x \in Locals(t, p)} IN SetMax(own \cup {0})

Defs(t, o, x) ==
    {i \in Definitions(t) : Full(t, i, t[i].name) = x /\ Owner(t, i, x) = o}
DefsUsed(t, i) == Defs(t, Owner(t, i, UsedName(t, i)), UsedName(t, i))

\* The number statement i gives its name; an EQU may take another name.
Gives(t) ==
    LET V[d \in 0..Cardinality(Lines(t, {"equ"}))] ==
            [i \in DOMAIN t |->
                IF t[i].op = "label" THEN Places(t)[i]
                ELSE IF t[i].op = "equ" /\ t[i].of = "" THEN t[i].n
                ELSE IF d = 0 \/ DefsUsed(t, i) = {} THEN None
                ELSE LET v == V[d - 1][SetMin(DefsUsed(t, i))]
                     IN  IF v = None THEN None ELSE v + t[i].n]
    IN  V[Cardinality(Lines(t, {"equ"}))]

\* The temporary labels i may mean: no ORG or ALIGN in between.
Temporaries(t, i) ==
    {j \in Lines(t, {"tmp"}) :
        /\ t[j].name = t[i].name /\ Full(t, j, "") = Full(t, i, "")
        /\ IF t[i].op = "back" THEN j < i ELSE j > i
        /\ \A k \in (IF j < i THEN j..i ELSE i..j) : t[k].op \notin {"org", "align"}}

\* The address or number the operand of i stands for.
Target(t, i) ==
    IF t[i].op \in {"back", "fwd"}
    THEN IF Temporaries(t, i) = {} THEN None
         ELSE Places(t)[IF t[i].op = "back" THEN SetMax(Temporaries(t, i))
                                            ELSE SetMin(Temporaries(t, i))]
    ELSE IF i \notin Uses(t) THEN 0
    ELSE IF DefsUsed(t, i) = {} THEN None ELSE Gives(t)[SetMin(DefsUsed(t, i))]

Relative == {"jr", "back", "fwd"}
OperandOf(t, i) == Target(t, i) - IF t[i].op \in Relative THEN Places(t)[i] + 2 ELSE 0

\* What is wrong with a text, in the words of the messages.
Faults(t) ==
    {f \in {"already defined"} : \E i, j \in Definitions(t) :
        LET x == Full(t, i, t[i].name) IN
        i # j /\ x = Full(t, j, t[j].name) /\ Owner(t, i, x) = Owner(t, j, x)}
    \cup {f \in {"ENDP without PROC"} : \E i \in Lines(t, {"endp"}) : Len(Opens(t)[i]) = 1}
    \cup {f \in {"missing ENDP"} : Len(Opens(t)[Len(t) + 1]) > 1}
    \cup {f \in {"undefined LOCAL"} : \E p \in Lines(t, {"proc"}) :
            p \notin ToSet(Opens(t)[Len(t) + 1]) /\ \E x \in Locals(t, p) : Defs(t, p, x) = {}}
    \cup {f \in {"undefined GLOBAL"} :
            \/ \E i \in Uses(t) : Owner(t, i, UsedName(t, i)) = 0 /\ DefsUsed(t, i) = {}
            \/ \E i \in Lines(t, {"init"}) : Defs(t, 0, Full(t, Len(t) + 1, t[i].name)) = {}}
    \cup {f \in {"undefined label"} : \E i \in Lines(t, {"end"}) : Target(t, i) = None}
    \cup {f \in {"undefined temporary label"} :
            \E i \in Lines(t, {"back", "fwd"}) : Target(t, i) = None}
    \cup {f \in {"jump out of range"} : \E i \in Lines(t, Relative) :
            Target(t, i) # None /\ OperandOf(t, i) \notin -Reach..(Reach - 1)}
    \cup {f \in {"ORG out of range"} :
            \E i \in Lines(t, {"org", "align"}) : Places(t)[i + 1] > MaxMem}
    \cup {f \in {"no namespace to pop"} : \E i \in Lines(t, {"pop"}) : Len(Spaces(t)[i]) = 1}

-----------------------------------------------------------------------------
(* The texts the assembler gets right: what a programmer has to keep to.   *)

\* LOCAL stands in a PROC and before the first mention of the name there: a
\* use before it is bound to the outer name.
LocalFirst(t) ==
    \A j \in Lines(t, {"local"}) : \A i \in Uses(t) \cup Definitions(t) \cup {j} :
        Len(Opens(t)[j]) > 1 /\ ~(i < j /\ Last(Opens(t)[j]) \in ToSet(Opens(t)[i])
            /\ Full(t, j, t[j].name) \in {Full(t, i, t[i].name), UsedName(t, i)})

\* A PROC inside another defines no public name that the outer one has
\* mentioned: exit_proc defines the name a second time at the outer ENDP.
OwnNames(t) ==
    \A i \in Definitions(t) : \A p \in ToSet(Opens(t)[i]) \ {0, Last(Opens(t)[i])} :
        LET x == Full(t, i, t[i].name) IN
        \/ x \in Locals(t, Last(Opens(t)[i]))
        \/ /\ x \notin Locals(t, p)
           /\ \A j \in Uses(t) \cup Definitions(t) :
                ~(j < i /\ p \in ToSet(Opens(t)[j]) /\ x \in {Full(t, j, t[j].name), UsedName(t, j)})

\* A forward jump does not stand on the line of its own label, which
\* resolve_temporary_label would take.
NotItsOwnLine(t) ==
    \A i \in Lines(t, {"fwd"}) : \A j \in Lines(t, {"tmp"}) :
        ~(t[j].name = t[i].name /\ j < i /\ \A k \in j..(i - 1) : t[k].join)

\* No ORG or ALIGN follows a use of a temporary label: set_org forgets it
\* before it is resolved.
NoOrgAfterTemporary(t) ==
    \A i \in Lines(t, {"back", "fwd"}) : \A j \in Lines(t, {"org", "align"}) : j < i

\* ORG goes up: of two instructions put at an address dump completes only the
\* first.
OrgUp(t) == \A i \in Lines(t, {"org"}) : t[i].n >= Places(t)[i]

KeepsRules(t) ==
    LocalFirst(t) /\ OwnNames(t) /\ NotItsOwnLine(t) /\ NoOrgAfterTemporary(t) /\ OrgUp(t)

-----------------------------------------------------------------------------
(* The rules of the parser.                                                *)

Number(n) == [lab |-> 0, k |-> n]

Instruction(s, id, arg) ==
    [id |-> id, size |-> SizeOf(s), arg |-> arg, rel |-> s.op \in Relative,
     data |-> s.op \in {"defs", "defw"}, pending |-> FALSE]

Init ==
    /\ text = << >> /\ line = 1 /\ inits = << >> /\ autorun = None
    /\ mem = NewMemory /\ phase = "reading" /\ image = None

\* The statement s has been read and leaves the memory m.
Reads(s, m) ==
    /\ text' = Append(text, s)
    /\ line' = IF s.join THEN line ELSE line + 1
    /\ mem' = m
    /\ phase' = IF m.err # "none" THEN "failed" ELSE IF s.op = "end" THEN "ended" ELSE "reading"

Statement(op) ==
    {s \in UNION {P.of : P \in {P \in Pools : ToSet(text) \subseteq P.of /\ Len(text) < P.most}} :
        s.op = op /\ KeepsRules(Append(text, s))}
Reading == phase = "reading"

\* p_asm_label, p_def_label
ReadLabel ==
    /\ Reading
    /\ \E s \in Statement("label") :
         Reads(s, DeclareLabel(mem, <<mem.ns, s.name>>, Number(mem.index)))
    /\ UNCHANGED <<inits, autorun, image>>

\* The expression is read, and its label looked up, before the name is declared.
ReadEqu ==
    /\ Reading
    /\ \E s \in Statement("equ") :
         LET g == GetLabel(mem, <<mem.ns, s.of>>)
         IN  Reads(s, IF s.of = "" THEN DeclareLabel(mem, <<mem.ns, s.name>>, Number(s.n))
                      ELSE DeclareLabel(g.m, <<mem.ns, s.name>>, [lab |-> g.o, k |-> s.n]))
    /\ UNCHANGED <<inits, autorun, image>>

ReadTemporary ==
    /\ Reading
    /\ \E s \in Statement("tmp") : Reads(s, DeclareTemporary(mem, s.name, line))
    /\ UNCHANGED <<inits, autorun, image>>

\* NOP, DEFS: no label in the operand.
ReadPlain ==
    /\ Reading
    /\ \E s \in Statement("nop") \cup Statement("defs") :
         Reads(s, AddInstruction(mem, Instruction(s, Len(text) + 1, Number(0))))
    /\ UNCHANGED <<inits, autorun, image>>

\* p_jr, p_jrjp: a relative jump counts from the instruction after it.
Displacement(m, s) == IF s.op \in Relative THEN -(m.index + 2) ELSE 0

\* JP, JR, DEFW with a name.
ReadReference ==
    /\ Reading
    /\ \E op \in {"jp", "jr", "defw"} : \E s \in Statement(op) :
         LET g == GetLabel(mem, <<mem.ns, s.name>>)
         IN  Reads(s, AddInstruction(g.m, Instruction(s, Len(text) + 1,
                                              [lab |-> g.o, k |-> Displacement(mem, s)])))
    /\ UNCHANGED <<inits, autorun, image>>

\* JR 1B, JR 1F.
ReadTemporaryJump ==
    /\ Reading
    /\ \E op \in {"back", "fwd"} : \E s \in Statement(op) :
         LET g == GetTemporary(mem, s.name, IF op = "back" THEN "B" ELSE "F", line)
         IN  Reads(s, AddInstruction(g.m, Instruction(s, Len(text) + 1,
                                              [lab |-> g.o, k |-> Displacement(mem, s)])))
    /\ UNCHANGED <<inits, autorun, image>>

ReadOrg ==
    /\ Reading
    /\ \E s \in Statement("org") : Reads(s, SetOrg(mem, s.n))
    /\ UNCHANGED <<inits, autorun, image>>

ReadAlign ==
    /\ Reading
    /\ \E s \in Statement("align") :
         Reads(s, SetOrg(mem, mem.index + ((s.n - (mem.index % s.n)) % s.n)))
    /\ UNCHANGED <<inits, autorun, image>>

ReadProc ==
    /\ Reading
    /\ \E s \in Statement("proc") : Reads(s, EnterProc(mem))
    /\ UNCHANGED <<inits, autorun, image>>

ReadEndp ==
    /\ Reading
    /\ \E s \in Statement("endp") : Reads(s, ExitProc(mem))
    /\ UNCHANGED <<inits, autorun, image>>

ReadLocal ==
    /\ Reading
    /\ \E s \in Statement("local") : Reads(s, SetLabel(mem, <<mem.ns, s.name>>))
    /\ UNCHANGED <<inits, autorun, image>>

\* NAMESPACE, PUSH NAMESPACE, POP NAMESPACE
ReadNamespace ==
    /\ Reading
    /\ \/ \E s \in Statement("namespace") : Reads(s, [mem EXCEPT !.ns = s.name])
       \/ \E s \in Statement("push") :
            Reads(s, [mem EXCEPT !.ns = s.name, !.nsStack = Append(@, mem.ns)])
       \/ \E s \in Statement("pop") :
            Reads(s, IF mem.nsStack = << >> THEN Error(mem, "no namespace to pop")
                     ELSE [mem EXCEPT !.ns = Last(mem.nsStack), !.nsStack = Front(@)])
    /\ UNCHANGED <<inits, autorun, image>>

ReadInit ==
    /\ Reading
    /\ \E s \in Statement("init") : Reads(s, mem) /\ inits' = Append(inits, s.name)
    /\ UNCHANGED <<autorun, image>>

\* END with a label, the last statement of a text.
ReadEnd ==
    /\ Reading
    /\ \E s \in Statement("end") :
         LET g == GetLabel(mem, <<mem.ns, s.name>>)
             v == TryEval(g.m.labels, [lab |-> g.o, k |-> 0])
         IN  /\ Reads(s, IF v = None THEN Error(g.m, "undefined label") ELSE g.m)
             /\ autorun' = v
    /\ UNCHANGED <<inits, image>>

\* The end of assemble.  main stops when there is nothing to write.
Assemble ==
    /\ phase \in {"reading", "ended"} /\ text # << >>
    /\ LET m == IF Len(mem.scopes) > 1 THEN Error(mem, "missing ENDP") ELSE mem
       IN  /\ mem' = m
           /\ phase' = IF m.err # "none" THEN "failed"
                       ELSE IF m.bytes = << >> THEN "empty" ELSE "assembled"
    /\ UNCHANGED <<text, line, inits, autorun, image>>

\* A slip of FirstCall: where the text stopped.
FirstCallHere(m) == m.index - 1

\* current_org, the address after the highest slot, is where the program starts.
FirstCall(m) == SetMax(DOMAIN m.bytes) + 1

Jump(id, arg) == [Instruction([op |-> "jp"], id, arg) EXCEPT !.rel = FALSE]

\* The code of main between assemble and generate_binary: a CALL for every
\* _INIT, then a JP to the start.
AddCalls ==
    /\ phase = "assembled"
    /\ LET Call(m, x) == LET g == GetLabel(m, <<m.ns, x>>)
                         IN  AddInstruction(g.m, Jump(-1, [lab |-> g.o, k |-> 0]))
           called == FoldLeft(Call, mem, inits)
           start == IF autorun # None THEN autorun ELSE SetMin(DOMAIN called.orgs)
       IN  IF inits = << >> THEN UNCHANGED <<mem, autorun>>
           ELSE /\ mem' = AddInstruction(called, Jump(-2, Number(start)))
                /\ autorun' = FirstCall(mem)
    /\ phase' = "called"
    /\ UNCHANGED <<text, line, inits, image>>

\* generate_binary
Write ==
    /\ phase = "called"
    /\ LET d == Dump(mem)
       IN  /\ mem' = d.m
           /\ IF d.m.err # "none" THEN phase' = "failed" /\ UNCHANGED <<image, autorun>>
              ELSE /\ phase' = "written" /\ image' = [org |-> d.org, out |-> d.out]
                   /\ autorun' = IF autorun = None THEN d.org ELSE autorun
    /\ UNCHANGED <<text, line, inits>>

Ended == phase \in {"written", "failed", "empty"} /\ UNCHANGED vars

Next ==
    \/ ReadLabel \/ ReadEqu \/ ReadTemporary \/ ReadPlain \/ ReadReference
    \/ ReadTemporaryJump \/ ReadOrg \/ ReadAlign \/ ReadProc \/ ReadEndp \/ ReadLocal
    \/ ReadNamespace \/ ReadInit \/ ReadEnd
    \/ Assemble \/ AddCalls \/ Write \/ Ended

Spec == Init /\ [][Next]_vars

-----------------------------------------------------------------------------
(* Properties.                                                             *)

\* The tables of the memory fit together: a scope names labels that exist,
\* every slot has its byte, and the index is never behind the last code.
TypeOK ==
    /\ phase \in {"reading", "ended", "assembled", "called", "written", "failed", "empty"}
    /\ line \in 1..(Len(text) + 1)
    /\ mem.scopes # << >> /\ mem.index \in Nat
    /\ \A d \in DOMAIN mem.scopes : Range(mem.scopes[d]) \subseteq DOMAIN mem.labels
    /\ DOMAIN mem.orgs \subseteq DOMAIN mem.bytes
    /\ \A a \in DOMAIN mem.orgs : mem.orgs[a] # << >> => a < mem.index \/ SizeOf(text[mem.orgs[a][1].id]) = 0
    /\ (phase = "written") = (image # None)

At(a) == image.out[a - image.org + 1]

\* In a binary every instruction stands at its address, in full, and its
\* operand is what its name means at that place of the text: the innermost
\* LOCAL one, the public one of the whole text, or the nearest temporary
\* label in its direction.
ImageSolved ==
    phase = "written" =>
        \A i \in {i \in DOMAIN text : SizeOf(text[i]) > 0} :
            LET at == Places(text)[i] - image.org
            IN  SubSeq(image.out, at + 1, at + SizeOf(text[i]))
                    = Cells([id |-> i, size |-> SizeOf(text[i])], OperandOf(text, i))

\* A message of these kinds names a fault the text has, and a text with such a
\* fault gives no binary.
ComplaintsAbout(kinds) ==
    /\ mem.err \in kinds => mem.err \in Faults(text)
    /\ phase = "written" => Faults(text) \cap kinds = {}

\* The binary is what the text says, and the assembler refuses an operand as
\* undefined or out of reach exactly when it is.
OperandsAreRight ==
    /\ ImageSolved
    /\ ComplaintsAbout({"undefined label", "undefined temporary label", "jump out of range"})

\* The assembler complains of a name, a PROC, a namespace or an ORG exactly when
\* the text is at fault: a name is defined twice for one owner, or not at all
\* where it is used or announced, something is closed that is not open or left
\* open at the end, or an ORG or ALIGN leads behind the last address.
NameComplaintsAreRight ==
    ComplaintsAbout({"already defined", "undefined LOCAL", "undefined GLOBAL", "missing ENDP",
                     "ENDP without PROC", "no namespace to pop", "ORG out of range"})

Pending == {i \in UNION {ToSet(s) : s \in Range(mem.orgs)} : i.pending}

\* A label an instruction or an EQU waits for can still be reached by the
\* definition that is to come: some scope names it, or it waits among the
\* temporary ones.
WaitsReachable ==
    mem.err = "none" =>
        \A o \in ({i.arg.lab : i \in Pending}
                    \cup {mem.labels[x].value.lab : x \in {x \in DOMAIN mem.labels : Defined(mem, x)}}) \ {0} :
            \/ Defined(mem, o)
            \/ \E d \in DOMAIN mem.scopes : o \in Range(mem.scopes[d])
            \/ o \in ToSet(mem.waiting)

\* A text with _INIT lines that ends in code starts at a CALL for each of them,
\* in order, and then jumps to the label of END or else to its lowest address.
InitsRunFirst ==
    (phase = "written" /\ inits # << >> /\ Last(mem.orgs[SetMax(DOMAIN mem.orgs)]).id = -2
        /\ \E i \in DOMAIN text : SizeOf(text[i]) > 0 /\ \A j \in (i + 1)..Len(text) : text[j].op \in {"init", "end"})
    => LET n == Len(inits)
           ends == Lines(text, {"end"})
       IN  /\ \A c \in 1..n : \A k \in 1..3 :
                At(autorun + 3 * (c - 1) + k - 1) =
                    <<-1, k, Gives(text)[SetMin(Defs(text, 0, Full(text, Len(text) + 1, inits[c])))]>>
           /\ At(autorun + 3 * n) =
                <<-2, 1, IF ends # {} THEN Target(text, SetMin(ends)) ELSE image.org>>
=============================================================================

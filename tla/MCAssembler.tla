---------------------------- MODULE MCAssembler ----------------------------
(* Texts for Assembler: each pool has the statements of one subject.       *)
EXTENDS Assembler

S(op, name, of, n) == [op |-> op, name |-> name, of |-> of, n |-> n, join |-> FALSE]
Plain(op) == S(op, "", "", 0)
Named(op, x) == S(op, x, "", 0)

Scoping == {Plain("proc"), Plain("endp")} \cup {Named(op, "a") : op \in {"local", "label", "jp"}}
Values ==
    {Named("label", "a"), Named("defw", "b"), S("equ", "b", "a", 1), S("equ", "c", "b", 2),
     S("equ", "a", "", 3), Named("namespace", "n"), Named("push", "n"), Plain("pop"), Named("jp", "c")}
Jumps ==
    {Named(op, "1") : op \in {"tmp", "back", "fwd"}}
      \cup {[Named("tmp", "1") EXCEPT !.join = TRUE], Plain("nop"), Named("namespace", "n"),
            S("align", "", "", 4), S("defs", "", "", 2)}
Origins ==
    {Named("jr", "a"), Named("label", "a"), Plain("nop"), S("defs", "", "", 7), S("defs", "", "", 2),
     S("org", "", "", 4), S("org", "", "", MaxMem + 1), S("align", "", "", 8)}
Starts ==
    {Named("init", "a"), Named("init", "b"), Named("label", "a"), Named("label", "b"), Named("end", "a"),
     Plain("nop"), S("org", "", "", 4)}
Procs ==
    {Plain("proc"), Plain("endp"), Plain("nop"), S("org", "", "", 4)}
      \cup {Named(op, "1") : op \in {"tmp", "back", "fwd"}}

Pool(stmts, n) == [of |-> stmts, most |-> n]
MCPools ==
    {Pool(Scoping, 8), Pool(Values, 5), Pool(Jumps, 6), Pool(Procs, 6),
     Pool(Origins, 5), Pool(Starts, 6)}

\* A gap filled up to nothing: DEFS of no bytes.
EmptyGap == {S("defs", "", "", 0), Named("jp", "a"), Named("label", "a")}
EmptyGapPools == {Pool(EmptyGap, 3)}

\* Code that begins at the last address and goes on.
AtTheEnd == {S("org", "", "", MaxMem), Plain("nop")}
AtTheEndPools == {Pool(AtTheEnd, 3)}

\* Memory.__set_byte "raises an error if org > MAX_MEMORY": a binary has no byte
\* behind the last address.
NothingBehindMemory ==
    phase = "written" => image.org + Len(image.out) - 1 <= MaxMem
=============================================================================

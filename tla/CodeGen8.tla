------------------------------ MODULE CodeGen8 ------------------------------
(***************************************************************************)
(* The code generator for bytes, backend/_8bit.py: every operation takes   *)
(* the operands of a quad and gives the instructions the function of the   *)
(* same name emits.  An operand is [kind, v]: a constant, the address of a *)
(* global variable, an expression the assembler works out ("imm"), or a    *)
(* temporary on the stack; a p before the kind is the * of an indirect     *)
(* operand, which only loads and stores have.  A $ before a temporary      *)
(* changes nothing here and is left out.                                   *)
(***************************************************************************)
EXTENDS Z80

IsInt(o) == o.kind = "const"

\* A slip of IsVar: whatever is not a number is a variable.
IsVarOrTemp(o) == o.kind # "const"

IsVar(o) == o.kind = "var"                         \* the text begins with "_"
\* A slip of Int8: the number is taken as it is.
Int8Uncut(n) == n

Int8(n) == n % Byte
PushAF(code) == Append(code, R("push", "af"))
Times(n, i) == [k \in 1..n |-> i]

\* is_2n, for the values of a word.
Is2n(n) == n \in {2 ^ k : k \in 0..16}

\* _int_ops: the operand that is not a number first, then the number.
IntOps(x, y) == IF IsInt(x) THEN <<y, x.v>> ELSE <<x, y.v>>
HasInt(x, y) == IsInt(x) \/ IsInt(y)

\* The operand into A; idx is the pair an address goes through.
LoadA(o, idx) ==
    CASE o.kind = "const" -> IF o.v = 0 THEN <<R("xor", "a")>> ELSE <<N("ldn", "a", Int8(o.v))>>
      [] o.kind = "imm"   -> <<N("ldn", "a", o.v)>>
      [] o.kind \in {"var", "pconst", "pimm"} -> <<N("lda", "a", o.v)>>
      [] o.kind = "temp"   -> <<R("pop", "af")>>
      [] o.kind = "pvar"  -> <<N("ldwm", idx, o.v), N("ldi", "a", idx)>>
      [] o.kind = "ptemp" -> <<R("pop", idx), N("ldi", "a", idx)>>

\* The operand into H.  A variable is loaded into HL from one byte below it.
LoadH(o) ==
    CASE o.kind \in {"const", "imm"}   -> <<N("ldn", "h", Int8(o.v))>>
      [] o.kind = "var"  -> <<N("ldwm", "hl", o.v - 1)>>
      [] o.kind = "temp"  -> <<R("pop", "hl")>>

\* _8bit_oper: the first operand in A and the second in H; reversed, the
\* second in A and the first in H.
Oper(o) == LoadA(o, "hl")
Oper8(x, y) == LoadH(y) \o LoadA(x, "hl")
Oper8Reversed(x, y) == LoadA(y, "bc") \o LoadH(x)

\* Sub8, Divu8, ...: a variable as second operand is loaded last.
OperInOrder(x, y) == IF IsVar(y) THEN LoadA(x, "bc") \o LoadH(y) ELSE Oper8(x, y)
\* Add8, Mul8: the operands may change places.
OperAnyOrder(x, y) == IF IsVar(y) THEN Oper8(y, x) ELSE Oper8(x, y)

-----------------------------------------------------------------------------
(* Arithmetic.                                                             *)

Add8(x, y) ==
    IF HasInt(x, y)
      THEN LET o == IntOps(x, y)[1]   n == Int8(IntOps(x, y)[2])
           IN PushAF(Oper(o) \o CASE n = 0        -> <<>>
                                  [] n = 1        -> <<R("inc", "a")>>
                                  [] n = Byte - 1 -> <<R("dec", "a")>>
                                  [] OTHER        -> <<N("add", "n", n)>>)
      ELSE PushAF(Append(OperAnyOrder(x, y), R("add", "h")))

Sub8(x, y) ==
    CASE IsInt(y) ->
           LET n == Int8(y.v)
           IN PushAF(Oper(x) \o CASE n = 0        -> <<>>
                                  [] n = 1        -> <<R("dec", "a")>>
                                  [] n = Byte - 1 -> <<R("inc", "a")>>
                                  [] OTHER        -> <<N("sub", "n", n)>>)
      [] ~IsInt(y) /\ IsInt(x) /\ Int8(x.v) = 0 -> PushAF(Append(Oper(y), Ins("neg")))
      [] ~IsInt(y) /\ ~(IsInt(x) /\ Int8(x.v) = 0) ->
           PushAF(Append(OperInOrder(x, y), R("sub", "h")))

\* The version of the Next, which multiplies in place.
Product8 == <<N("ld", "d", "h"), N("ld", "e", "a"), Ins("mul"), N("ld", "a", "e")>>
Mul8(x, y) ==
    IF ~HasInt(x, y) THEN PushAF(OperAnyOrder(x, y) \o Product8)
    ELSE LET o == IntOps(x, y)[1]   n == IntOps(x, y)[2]
         IN PushAF(Oper(o) \o CASE n = 0 -> <<R("xor", "a")>>
                                [] n = 1 -> <<>>
                                [] n = 2 -> <<R("add", "a")>>
                                [] n = 4 -> <<R("add", "a"), R("add", "a")>>
                                [] OTHER -> <<N("ldn", "h", Int8(n))>> \o Product8)

\* 0 divided by a variable is 0 without loading it.
ZeroByVar(x, y) == ~IsInt(y) /\ IsVar(y) /\ IsInt(x) /\ x.v = 0
Zero8 == PushAF(<<R("xor", "a")>>)

Divu8(x, y) ==
    CASE IsInt(y) ->
           PushAF(Oper(x) \o CASE Int8(y.v) = 1 -> <<>>
                               [] Int8(y.v) = 2 -> <<R("srl", "a")>>
                               [] OTHER -> <<N("ldn", "h", Int8(y.v)), Call("DIVU8_FAST")>>)
      [] ~IsInt(y) /\ ZeroByVar(x, y)  -> Zero8
      [] ~IsInt(y) /\ ~ZeroByVar(x, y) -> PushAF(Append(OperInOrder(x, y), Call("DIVU8_FAST")))

\* The test for -1 in the code is never true of a number from 0 to 255.
Divi8(x, y) ==
    CASE IsInt(y) ->
           PushAF(Oper(x) \o CASE Int8(y.v) = 1 -> <<>>
                               [] Int8(y.v) = 2 -> <<R("sra", "a")>>
                               [] OTHER -> <<N("ldn", "h", Int8(y.v)), Call("DIVI8_FAST")>>)
      [] ~IsInt(y) /\ ZeroByVar(x, y)  -> Zero8
      [] ~IsInt(y) /\ ~ZeroByVar(x, y) -> PushAF(Append(OperInOrder(x, y), Call("DIVI8_FAST")))

Mod8(x, y, routine) ==
    CASE IsInt(y) ->
           LET n == Int8(y.v)
           IN PushAF(CASE n = 1 -> (IF IsVar(x) THEN <<>> ELSE Oper(x)) \o <<R("xor", "a")>>
                       [] n # 1 /\ Is2n(n)  -> Oper(x) \o <<N("and", "n", n - 1)>>
                       [] n # 1 /\ ~Is2n(n) -> Oper(x) \o <<N("ldn", "h", n), Call(routine)>>)
      [] ~IsInt(y) /\ ZeroByVar(x, y)  -> Zero8
      [] ~IsInt(y) /\ ~ZeroByVar(x, y) -> PushAF(Append(OperInOrder(x, y), Call(routine)))
Modu8(x, y) == Mod8(x, y, "MODU8_FAST")
Modi8(x, y) == Mod8(x, y, "MODI8_FAST")

-----------------------------------------------------------------------------
(* Comparisons.                                                            *)

SbcA == <<R("sbc", "a")>>
Ltu8(x, y) == PushAF(Oper8(x, y) \o <<R("cp", "h")>> \o SbcA)
Lti8(x, y) == PushAF(Append(Oper8(x, y), Call("LTI8")))
Gtu8(x, y) == PushAF(Oper8Reversed(x, y) \o <<R("cp", "h")>> \o SbcA)
Gti8(x, y) == PushAF(Append(Oper8Reversed(x, y), Call("LTI8")))
Leu8(x, y) == PushAF(Oper8Reversed(x, y) \o <<R("sub", "h"), Ins("ccf")>> \o SbcA)
Lei8(x, y) == PushAF(Append(Oper8(x, y), Call("LEI8")))
Gei8(x, y) == PushAF(Append(Oper8Reversed(x, y), Call("LEI8")))

\* A minus the second operand, for equality.
MinusFor(x, y) ==
    IF ~IsInt(y) THEN Append(Oper8(x, y), R("sub", "h"))
    ELSE Oper(x) \o CASE Int8(y.v) = 0 -> <<>>
                      [] Int8(y.v) = 1 -> <<R("dec", "a")>>
                      [] OTHER         -> <<N("sub", "n", Int8(y.v))>>
Eq8(x, y) == PushAF(MinusFor(x, y) \o <<N("sub", "n", 1)>> \o SbcA)
Ne8(x, y) == PushAF(MinusFor(x, y))

\* A slip of Geu8: 0 is not compared with, and the carry is what it was.
Geu8NoCompare(x, y) ==
    PushAF((IF ~IsInt(y) THEN Append(Oper8(x, y), R("sub", "h"))
            ELSE Oper(x) \o IF Int8(y.v) = 0 THEN <<>> ELSE <<N("sub", "n", Int8(y.v))>>)
           \o <<Ins("ccf")>> \o SbcA)

Geu8(x, y) ==
    PushAF((IF ~IsInt(y) THEN Append(Oper8(x, y), R("sub", "h"))
            ELSE Append(Oper(x), IF Int8(y.v) = 0 THEN R("cp", "a")
                                                  ELSE N("sub", "n", Int8(y.v))))
           \o <<Ins("ccf")>> \o SbcA)

-----------------------------------------------------------------------------
(* Logical and bitwise operations.                                         *)

Or8(x, y) ==
    IF HasInt(x, y) THEN PushAF(Oper(IntOps(x, y)[1])
                                \o IF IntOps(x, y)[2] = 0 THEN <<>> ELSE <<N("ldn", "a", 1)>>)
                    ELSE PushAF(Append(Oper8(x, y), R("or", "h")))

And8(x, y) ==
    IF HasInt(x, y) THEN PushAF(Oper(IntOps(x, y)[1])
                                \o IF IntOps(x, y)[2] # 0 THEN <<>> ELSE <<R("xor", "a")>>)
                    ELSE PushAF(Oper8(x, y) \o <<R("or", "a"), R("jrz", "end"),
                                                 N("ld", "a", "h"), Label("end")>>)

Xor8(x, y) ==
    IF HasInt(x, y) THEN PushAF(Oper(IntOps(x, y)[1])
                                \o IF IntOps(x, y)[2] = 0 THEN <<>>
                                   ELSE <<N("sub", "n", 1)>> \o SbcA)
                    ELSE PushAF(Append(Oper8(x, y), Call("XOR8")))

\* The bitwise operations: idle leaves the operand, all decides the result.
Bitwise8(x, y, op, idle, all, decided) ==
    LET n == IntOps(x, y)[2]
    IN CASE HasInt(x, y) /\ n = idle -> PushAF(Oper(IntOps(x, y)[1]))
         [] HasInt(x, y) /\ n = all  -> PushAF(Append(Oper(IntOps(x, y)[1]), decided))
         [] ~HasInt(x, y) \/ n \notin {idle, all} -> PushAF(Append(Oper8(x, y), R(op, "h")))
Bor8(x, y)  == Bitwise8(x, y, "or", 0, Byte - 1, N("ldn", "a", Byte - 1))
Band8(x, y) == Bitwise8(x, y, "and", Byte - 1, 0, R("xor", "a"))
Bxor8(x, y) == Bitwise8(x, y, "xor", 0, Byte - 1, Ins("cpl"))

Not8(x)  == PushAF(Oper(x) \o <<N("sub", "n", 1)>> \o SbcA)
Bnot8(x) == PushAF(Append(Oper(x), Ins("cpl")))
Neg8(x)  == PushAF(Append(Oper(x), Ins("neg")))
Abs8(x)  == PushAF(Append(Oper(x), Call("ABS8")))

-----------------------------------------------------------------------------
(* Shifts: by a number below the limit unrolled, else a loop that counts B. *)

Loop(shift) == <<Label("loop")>> \o shift \o <<R("djnz", "loop")>>

Shift8(x, y, shift, limit) ==
    CASE IsInt(y) -> PushAF(Oper(x) \o
           (IF Int8(y.v) < limit THEN Times(Int8(y.v), shift)
                                 ELSE <<N("ldn", "b", Int8(y.v))>> \o Loop(<<shift>>)))
      [] ~IsInt(y) /\ IsInt(x) /\ x.v = 0 -> PushAF(Append(Oper(y), R("xor", "a")))
      [] ~IsInt(y) /\ ~(IsInt(x) /\ x.v = 0) ->
           PushAF(Oper8Reversed(x, y)
                  \o <<R("or", "a"), N("ld", "b", "a"), N("ld", "a", "h"), R("jrz", "end")>>
                  \o Loop(<<shift>>) \o <<Label("end")>>)

Shru8(x, y) == Shift8(x, y, R("srl", "a"), 4)
Shri8(x, y) == Shift8(x, y, R("sra", "a"), 4)
Shl8(x, y)  == Shift8(x, y, R("add", "a"), 6)

-----------------------------------------------------------------------------
(* Loads, stores and jumps.                                                *)

Load8(x) == PushAF(Oper(x))

\* A slip of Store8: the address of a pointer on the stack is the place itself.
Store8ShortWay(dst, x) ==
    Oper(x) \o IF dst.kind \in {"temp", "ptemp"}
                 THEN <<R("pop", "hl"), N("sti", "a", "hl")>>
                 ELSE <<N("sta", "a", dst.v)>>

Store8(dst, x) ==
    Oper(x) \o
    CASE dst.kind \in {"const", "var", "imm", "pimm"} -> <<N("sta", "a", dst.v)>>
      [] dst.kind \in {"pvar", "pconst"} -> <<N("ldwm", "hl", dst.v), N("sti", "a", "hl")>>
      [] dst.kind = "temp"  -> <<R("pop", "hl"), N("sti", "a", "hl")>>
      [] dst.kind = "ptemp" -> <<R("pop", "hl"), N("ldi", "e", "hl"), R("incw", "hl"),
                                 N("ldi", "d", "hl"), N("sti", "a", "de")>>

Jump == Ins("jp")
Jzero8(x) == CASE IsInt(x) -> IF x.v = 0 THEN <<Jump>> ELSE <<>>
               [] ~IsInt(x) -> Oper(x) \o <<R("or", "a"), Ins("jpz")>>
Jnzero8(x) == CASE IsInt(x) -> IF x.v # 0 THEN <<Jump>> ELSE <<>>
                [] ~IsInt(x) -> Oper(x) \o <<R("or", "a"), Ins("jpnz")>>
Jgezerou8(x) == (IF IsInt(x) THEN <<>> ELSE Oper(x)) \o <<Jump>>
Jgezeroi8(x) == CASE IsInt(x) -> IF x.v >= 0 THEN <<Jump>> ELSE <<>>
                  [] ~IsInt(x) -> Oper(x) \o <<R("add", "a"), Ins("jpnc")>>
Ret8(x) == Append(Oper(x), Jump)
Param8(x) == PushAF(Oper(x))
Fparam8(x) == Oper(x)
=============================================================================

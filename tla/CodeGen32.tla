----------------------------- MODULE CodeGen32 -----------------------------
(***************************************************************************)
(* The code generator for double words, backend/_32bit.py.  A value is in  *)
(* DE (high) and HL, or on the stack with its low word on top.  Of two     *)
(* operands the second goes to the registers and the first to the stack,   *)
(* where the runtime routines take it; operands are those of CodeGen8.     *)
(***************************************************************************)
EXTENDS CodeGen16

Dword == Word * Word
Int32(n) == n % Dword
HiWord(n) == n \div Word
LoWord(n) == n % Word

IsTemp(o) == o.kind = "temp"
PushDEHL(code) == code \o <<R("push", "de"), R("push", "hl")>>

\* A pointer in HL to the value it points at; low is the pair for the low word.
Deref(low) == <<Call("ILOAD32")>>
              \o IF low = "bc" THEN <<N("ld", "b", "h"), N("ld", "c", "l")>> ELSE <<>>

\* preserveHL has the low word in BC.  Immediates are numbers here: of the
\* address of a label the code loads DE from memory, which is left out.
LoadDword(o, low) ==
    CASE o.kind = "const" -> LoadN("de", HiWord(Int32(o.v))) \o LoadN(low, LoWord(Int32(o.v)))
      [] o.kind = "imm"   -> LoadN(low, LoWord(o.v)) \o LoadN("de", HiWord(o.v))
      [] o.kind = "var"   -> <<N("ldwm", low, o.v), N("ldwm", "de", o.v + 2)>>
      [] o.kind = "temp"  -> <<R("pop", low), R("pop", "de")>>
      [] o.kind = "pconst" -> <<N("ldwm", "hl", o.v)>> \o Deref(low)
      [] o.kind = "pvar"  -> <<N("ldwm", low, o.v)>> \o Deref(low)
      [] o.kind = "pimm"  -> LoadN(low, LoWord(o.v)) \o Deref(low)
      [] o.kind = "ptemp" -> <<R("pop", low)>> \o Deref(low)
LoadDEHL(o) == LoadDword(o, "hl")

PushDword(o) ==
    CASE o.kind \in {"const", "imm"} ->
           LoadN("bc", HiWord(Int32(o.v))) \o <<R("push", "bc")>>
           \o LoadN("bc", LoWord(Int32(o.v))) \o <<R("push", "bc")>>
      [] o.kind = "var"  -> <<N("ldwm", "hl", o.v + 2), R("push", "hl"),
                              N("ldwm", "hl", o.v), R("push", "hl")>>
      [] o.kind = "temp" -> <<>>

\* A variable is pushed before the second operand is loaded: if that one is
\* a temporary, the operands have changed places.
Oper32(x, y) == IF IsVar(x) THEN PushDword(x) \o LoadDEHL(y)
                            ELSE LoadDEHL(y) \o PushDword(x)
ChangedPlaces(x, y) == ~IsTemp(x) /\ ~IsInt(x) /\ IsTemp(y)

SwapIf(condition) == IF condition THEN <<Call("SWAP32")>> ELSE <<>>
Oper32InOrder(x, y) == Oper32(x, y) \o SwapIf(ChangedPlaces(x, y))
\* The first operand in the registers, for division.
Oper32Reversed(x, y) == Oper32(x, y) \o SwapIf(IsInt(x) \/ IsTemp(x) \/ ~IsTemp(y))

-----------------------------------------------------------------------------
(* Arithmetic.                                                             *)

\* DE:HL plus a double word given by the code for its low and its high half.
AddTo(low, high) == low \o <<R("addhl", "bc"), Ins("exdehl")>> \o high
                    \o <<R("adchl", "bc"), R("push", "hl"), R("push", "de")>>
AddVar(x, y) == LoadDEHL(x) \o AddTo(<<N("ldwm", "bc", y.v)>>, <<N("ldwm", "bc", y.v + 2)>>)
Add32(x, y) ==
    CASE HasInt(x, y) /\ IntOps(x, y)[2] = 0 -> PushDEHL(LoadDEHL(IntOps(x, y)[1]))
      [] ~(HasInt(x, y) /\ IntOps(x, y)[2] = 0) ->
           CASE IsVar(y) -> AddVar(x, y)
             [] ~IsVar(y) /\ IsVar(x) -> AddVar(y, x)
             [] ~IsVar(y) /\ ~IsVar(x) ->
                  Oper32(x, y) \o AddTo(<<R("pop", "bc")>>, <<R("pop", "bc")>>)

Sub32(x, y) ==
    PushDEHL(IF IsInt(y) /\ y.v = 0 THEN LoadDEHL(x)
             ELSE Append(Oper32InOrder(x, y), Call("SUB32")))

Zero32 == LoadN("hl", 0) \o <<R("push", "hl"), R("push", "hl")>>
Mul32(x, y) ==
    LET o == NumberLast(x, y)
    IN CASE HasInt(x, y) /\ o[2].v = 0 -> LoadDEHL(o[1]) \o Zero32
         [] HasInt(x, y) /\ o[2].v = 1 -> PushDEHL(LoadDEHL(o[1]))
         [] ~HasInt(x, y) \/ o[2].v \notin {0, 1} ->
              PushDEHL(Append(Oper32(o[1], o[2]), Call("MUL32")))

ByOne(y) == IsInt(y) /\ y.v = 1
Div32(x, y, routine) ==
    PushDEHL(IF ByOne(y) THEN LoadDEHL(x) ELSE Append(Oper32Reversed(x, y), Call(routine)))
Divu32(x, y) == Div32(x, y, "DIVU32")
Unary32(x, routine) == PushDEHL(Append(LoadDEHL(x), Call(routine)))
Neg32(x) == Unary32(x, "NEG32")
Divi32(x, y) == IF IsInt(y) /\ y.v = -1 THEN Neg32(x) ELSE Div32(x, y, "DIVI32")

Mod32(x, y, routine) ==
    IF ByOne(y) THEN LoadDEHL(x) \o Zero32
                ELSE PushDEHL(Append(Oper32Reversed(x, y), Call(routine)))
Modu32(x, y) == Mod32(x, y, "MODU32")
Modi32(x, y) == Mod32(x, y, "MODI32")

-----------------------------------------------------------------------------
(* Comparisons: the answer is a byte.  SUB32 subtracts the registers from   *)
(* the stack; Minus32 the stack from the registers.                        *)

Minus32 == <<R("pop", "bc"), R("or", "a"), R("sbchl", "bc"), Ins("exdehl"),
             R("pop", "de"), R("sbchl", "de")>>
\* 1 if the answer of a routine is false.
Otherwise == <<N("sub", "n", 1)>> \o SbcA

Ltu32(x, y) == PushAF(Oper32InOrder(x, y) \o <<Call("SUB32")>> \o SbcA)
Geu32(x, y) == PushAF(Oper32InOrder(x, y) \o <<Call("SUB32"), Ins("ccf")>> \o SbcA)
Gtu32(x, y) == PushAF(Oper32InOrder(x, y) \o Minus32 \o SbcA)
Leu32(x, y) == PushAF(Oper32InOrder(x, y) \o Minus32 \o <<Ins("ccf")>> \o SbcA)
Lti32(x, y) == PushAF(Append(Oper32InOrder(x, y), Call("LTI32")))
Lei32(x, y) == PushAF(Append(Oper32InOrder(x, y), Call("LEI32")))
Gti32(x, y) == PushAF(Oper32InOrder(x, y) \o <<Call("LEI32")>> \o Otherwise)
Gei32(x, y) == PushAF(Oper32InOrder(x, y) \o <<Call("LTI32")>> \o Otherwise)
Ne32(x, y)  == PushAF(Oper32(x, y) \o <<Call("EQ32")>> \o Otherwise)

\* The operands in any order.
Either(x, y) == Oper32(NumberLast(x, y)[1], NumberLast(x, y)[2])
Eq32(x, y)  == PushAF(Append(Either(x, y), Call("EQ32")))

-----------------------------------------------------------------------------
(* Logical and bitwise operations.                                         *)

Or32(x, y)  == PushAF(Append(Oper32(x, y), Call("OR32")))
Xor32(x, y) == PushAF(Append(Oper32(x, y), Call("XOR32")))
And32(x, y) ==
    IF HasInt(x, y) /\ NumberLast(x, y)[2].v = 0
      THEN LET o == NumberLast(x, y)[1]
           IN PushAF((IF IsTemp(o) THEN LoadDEHL(o) ELSE <<>>) \o <<R("xor", "a")>>)
      ELSE PushAF(Append(Either(x, y), Call("AND32")))

Bor32(x, y)  == PushDEHL(Append(Oper32(x, y), Call("BOR32")))
Band32(x, y) == PushDEHL(Append(Oper32(x, y), Call("BAND32")))
Bxor32(x, y) == PushDEHL(Append(Oper32(x, y), Call("BXOR32")))

Bnot32(x) == Unary32(x, "BNOT32")
Abs32(x)  == Unary32(x, "ABS32")
Not32(x)  == PushAF(Append(LoadDEHL(x), Call("NOT32")))

-----------------------------------------------------------------------------
(* Shifts; the number of places is a byte.                                 *)

Shift32(x, y, routine) ==
    PushDEHL(
      CASE IsInt(y) /\ y.v = 0 -> LoadDEHL(x)
        [] IsInt(y) /\ y.v = 1 -> Append(LoadDEHL(x), Call(routine))
        [] IsInt(y) /\ y.v > 1 ->
             LoadDEHL(x) \o <<N("ldn", "b", y.v)>> \o Loop(<<Call(routine)>>)
        [] ~IsInt(y) ->
             Oper(y) \o <<N("ld", "b", "a")>> \o LoadDEHL(x) \o <<R("or", "a"), R("jrz", "end")>>
             \o Loop(<<Call(routine)>>) \o <<Label("end")>>)
Shru32(x, y) == Shift32(x, y, "SHRL32")
Shri32(x, y) == Shift32(x, y, "SHRA32")
Shl32(x, y)  == Shift32(x, y, "SHL32")

-----------------------------------------------------------------------------
(* Loads, stores and jumps.                                                *)

Load32(x) == PushDEHL(LoadDEHL(x))

Store32(dst, x) ==
    CASE dst.kind \in {"const", "var", "imm"} ->
           LoadDEHL(x) \o <<N("stw", "hl", dst.v), N("stw", "de", dst.v + 2)>>
      [] dst.kind \in {"pconst", "pvar", "pimm"} ->
           LoadDword(x, "bc") \o <<N("ldwm", "hl", dst.v), Call("STORE32")>>
      [] dst.kind = "temp"  -> LoadDword(x, "bc") \o <<R("pop", "hl"), Call("STORE32")>>
      [] dst.kind = "ptemp" -> LoadDword(x, "bc") \o <<R("pop", "hl"), Call("ISTORE32")>>

TestDEHL == <<N("ld", "a", "h"), R("or", "l"), R("or", "e"), R("or", "d")>>
Jzero32(x) == IF IsInt(x) THEN (IF x.v = 0 THEN <<Jump>> ELSE <<>>)
                          ELSE LoadDEHL(x) \o TestDEHL \o <<Ins("jpz")>>
Jnzero32(x) == IF IsInt(x) THEN (IF x.v # 0 THEN <<Jump>> ELSE <<>>)
                           ELSE LoadDEHL(x) \o TestDEHL \o <<Ins("jpnz")>>
Jgezerou32(x) == (IF IsInt(x) THEN <<>> ELSE LoadDEHL(x)) \o <<Jump>>
Jgezeroi32(x) == IF IsInt(x) THEN (IF x.v >= 0 THEN <<Jump>> ELSE <<>>)
                             ELSE LoadDEHL(x) \o <<N("ld", "a", "d"), R("add", "a"), Ins("jpnc")>>
Ret32(x) == Append(LoadDEHL(x), Jump)
Param32(x) == PushDEHL(LoadDEHL(x))
Fparam32(x) == LoadDEHL(x)
=============================================================================

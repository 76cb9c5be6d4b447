----------------------------- MODULE CodeGen16 -----------------------------
(***************************************************************************)
(* The code generator for words, backend/_16bit.py.  The first operand     *)
(* goes to HL and the second to DE; operands are those of CodeGen8.        *)
(***************************************************************************)
EXTENDS CodeGen8

Int16(n) == n % Word
PushHL(code) == Append(code, R("push", "hl"))
LoadN(rr, n) == <<N("ldw", rr, n)>>
TestHL == <<N("ld", "a", "h"), R("or", "l")>>

LoadHL(o) ==
    CASE o.kind \in {"const", "imm"} -> LoadN("hl", Int16(o.v))
      [] o.kind \in {"var", "pconst", "pimm"} -> <<N("ldwm", "hl", o.v)>>
      [] o.kind = "temp" -> <<R("pop", "hl")>>
      [] o.kind \in {"pvar", "ptemp"} ->
           (IF o.kind = "pvar" THEN <<N("ldwm", "hl", o.v)>> ELSE <<R("pop", "hl")>>)
           \o <<N("ldi", "a", "hl"), R("incw", "hl"), N("ldi", "h", "hl"), N("ld", "l", "a")>>

LoadDE(o) ==
    CASE o.kind \in {"const", "imm"} -> LoadN("de", Int16(o.v))
      [] o.kind = "var"   -> <<N("ldwm", "de", o.v)>>
      [] o.kind = "temp"  -> <<R("pop", "de")>>

Oper16(x, y) == LoadDE(y) \o LoadHL(x)
\* The second operand in HL and the first in DE, the second taken first.
Oper16Reversed(x, y) == LoadHL(y) \o LoadDE(x)
Oper16InOrder(x, y) == IF IsVar(y) THEN Oper16Reversed(y, x) ELSE Oper16(x, y)
Oper16AnyOrder(x, y) == IF IsVar(y) THEN Oper16(y, x) ELSE Oper16(x, y)

\* The operand that is not a number first: the operands of a commutative operation.
NumberLast(x, y) == IF IsInt(x) THEN <<y, x>> ELSE <<x, y>>

-----------------------------------------------------------------------------
(* Arithmetic.                                                             *)

\* A number near 0 is added or subtracted in steps of one.
AddConst(n, up, down, negated) ==
    CASE n < 4 -> Times(n, up)
      [] n > Word - 5 -> Times(Word - n, down)
      [] n >= 4 /\ n <= Word - 5 -> LoadN("de", IF negated THEN Word - n ELSE n) \o <<R("addhl", "de")>>

Add16(x, y) ==
    IF HasInt(x, y)
      THEN PushHL(LoadHL(IntOps(x, y)[1])
                  \o AddConst(Int16(IntOps(x, y)[2]), R("incw", "hl"), R("decw", "hl"), FALSE))
      ELSE PushHL(Append(Oper16AnyOrder(x, y), R("addhl", "de")))

Minus16 == <<R("or", "a"), R("sbchl", "de")>>
Sub16(x, y) ==
    IF IsInt(y)
      THEN PushHL(LoadHL(x) \o AddConst(Int16(y.v), R("decw", "hl"), R("incw", "hl"), TRUE))
      ELSE PushHL(Oper16InOrder(x, y) \o Minus16)

Mul16(x, y) ==
    IF ~HasInt(x, y) THEN PushHL(Append(Oper16AnyOrder(x, y), Call("MUL16_FAST")))
    ELSE LET o == IntOps(x, y)[1]   n == IntOps(x, y)[2]
         IN PushHL(
              CASE n = 0 -> (IF IsVar(o) THEN <<>> ELSE LoadHL(o)) \o LoadN("hl", 0)
                [] n = Word - 1 -> Append(LoadHL(o), Call("NEGHL"))
                [] n \in {2 ^ k : k \in 0..3} ->
                     LoadHL(o) \o Times(CHOOSE k \in 0..3 : 2 ^ k = n, R("addhl", "hl"))
                [] n \notin {0, Word - 1} \cup {2 ^ k : k \in 0..3} ->
                     LoadHL(o) \o LoadN("de", n) \o <<Call("MUL16_FAST")>>)

\* The test for -1 in the code is never true of a number from 0 to 65535.
Div16(x, y, half, routine) ==
    CASE IsInt(x) /\ x.v = 0 ->
           PushHL((IF IsVar(y) THEN <<>> ELSE LoadHL(y)) \o LoadN("hl", 0))
      [] ~(IsInt(x) /\ x.v = 0) /\ IsInt(y) ->
           PushHL(LoadHL(x) \o CASE Int16(y.v) = 1 -> <<>>
                                 [] Int16(y.v) = 2 -> <<R(half, "h"), R("rr", "l")>>
                                 [] OTHER -> Append(LoadN("de", Int16(y.v)), Call(routine)))
      [] ~(IsInt(x) /\ x.v = 0) /\ ~IsInt(y) -> PushHL(Append(Oper16InOrder(x, y), Call(routine)))
Divu16(x, y) == Div16(x, y, "srl", "DIVU16")
Divi16(x, y) == Div16(x, y, "sra", "DIVI16")

\* By 1 the unsigned one stops the compiler (it indexes a number).
Mod16(x, y, routine) ==
    IF ~IsInt(y) THEN PushHL(Append(Oper16(x, y), Call(routine)))
    ELSE LET n == Int16(y.v)
         IN PushHL(LoadHL(x) \o
              CASE n = 1 -> LoadN("hl", 0)
                [] n >= Byte /\ Is2n(n) -> <<N("ld", "a", "h"), N("and", "n", Hi(n - 1)),
                                             N("ld", "h", "a")>>
                [] n > 1 /\ n < Byte /\ Is2n(n) ->
                     <<N("ldn", "h", 0), N("ld", "a", "l"), N("and", "n", n - 1), N("ld", "l", "a")>>
                [] ~Is2n(n) -> Append(LoadN("de", n), Call(routine)))
Modu16(x, y) == Mod16(x, y, "MODU16")
Modi16(x, y) == Mod16(x, y, "MODI16")

-----------------------------------------------------------------------------
(* Comparisons: the answer is a byte.                                      *)

Ltu16(x, y) == PushAF(Oper16(x, y) \o Minus16 \o SbcA)
Lti16(x, y) == PushAF(Append(Oper16(x, y), Call("LTI16")))
Gtu16(x, y) == PushAF(Oper16Reversed(x, y) \o Minus16 \o SbcA)
Gti16(x, y) == PushAF(Append(Oper16Reversed(x, y), Call("LTI16")))
Leu16(x, y) == PushAF(Oper16Reversed(x, y) \o Minus16 \o <<Ins("ccf")>> \o SbcA)
Lei16(x, y) == PushAF(Append(Oper16(x, y), Call("LEI16")))
Geu16(x, y) == PushAF(Oper16(x, y) \o Minus16 \o <<Ins("ccf")>> \o SbcA)
Gei16(x, y) == PushAF(Append(Oper16Reversed(x, y), Call("LEI16")))
Eq16(x, y) == PushAF(Append(Oper16(x, y), Call("EQ16")))
Ne16(x, y) == PushAF(Oper16(x, y) \o Minus16 \o TestHL)

-----------------------------------------------------------------------------
(* Logical and bitwise operations.                                         *)

Or16(x, y) ==
    IF HasInt(x, y)
      THEN PushAF(LoadHL(IntOps(x, y)[1])
                  \o IF IntOps(x, y)[2] = 0 THEN TestHL ELSE <<N("ldn", "a", Byte - 1)>>)
      ELSE PushAF(Oper16(x, y) \o TestHL \o <<R("or", "d"), R("or", "e")>>)

Xor16(x, y) ==
    IF HasInt(x, y)
      THEN PushAF(LoadHL(IntOps(x, y)[1]) \o TestHL
                  \o IF IntOps(x, y)[2] = 0 THEN <<>> ELSE <<N("sub", "n", 1)>> \o SbcA)
      ELSE PushAF(Append(Oper16(x, y), Call("XOR16")))

And16(x, y) ==
    IF HasInt(x, y)
      THEN PushAF(LoadHL(IntOps(x, y)[1])
                  \o IF IntOps(x, y)[2] # 0 THEN TestHL ELSE <<R("xor", "a")>>)
      ELSE PushAF(Append(Oper16(x, y), Call("AND16")))

\* The special cases of a number, by its value, and a routine for the others.
Bitwise16(x, y, special, routine) ==
    LET o == NumberLast(x, y)
    IN IF HasInt(x, y) /\ o[2].v \in DOMAIN special
         THEN PushHL(LoadHL(o[1]) \o special[o[2].v])
         ELSE PushHL(Append(Oper16(o[1], o[2]), Call(routine)))
Bor16(x, y)  == Bitwise16(x, y, 0 :> <<>> @@ (Word - 1) :> LoadN("hl", Word - 1), "BOR16")
Bxor16(x, y) == Bitwise16(x, y, 0 :> <<>> @@ (Word - 1) :> <<Call("NEGHL")>>, "BXOR16")
\* With all ones the operand is taken to be on the stack already.
Band16(x, y) == IF HasInt(x, y) /\ IntOps(x, y)[2] = Word - 1 THEN <<>>
                ELSE Bitwise16(x, y, 0 :> LoadN("hl", 0), "BAND16")

Not16(x)  == PushAF(LoadHL(x) \o TestHL \o <<N("sub", "n", 1)>> \o SbcA)
Bnot16(x) == PushHL(Append(LoadHL(x), Call("BNOT16")))
Neg16(x)  == PushHL(Append(LoadHL(x), Call("NEGHL")))
Abs16(x)  == PushHL(Append(LoadHL(x), Call("ABS16")))

-----------------------------------------------------------------------------
(* Shifts; the number of places is a byte.  By nothing the operand is      *)
(* taken to be on the stack already.                                       *)

\* once: a shift by one; limit: those below it are unrolled.
Shift16(x, y, shift, once, limit) ==
    LET n == Int16(y.v)
    IN CASE IsInt(y) /\ n = 0 -> <<>>
         [] IsInt(y) /\ n > 0 /\ n < limit ->
              PushHL(LoadHL(x) \o IF n = 1 THEN once ELSE Times(n, shift[1]))
         [] IsInt(y) /\ n >= limit -> PushHL(LoadHL(x) \o <<N("ldn", "b", n)>> \o Loop(shift))
         [] ~IsInt(y) -> PushHL(Oper(y) \o <<N("ld", "b", "a")>> \o LoadHL(x)
                                \o <<R("or", "a"), R("jrz", "end")>>
                                \o Loop(shift) \o <<Label("end")>>)

Logical == <<R("srl", "h"), R("rr", "l")>>
Shru16(x, y) == Shift16(x, y, Logical, Logical, 2)
\* By one the signed shift is the logical one too.
Shri16(x, y) == Shift16(x, y, <<R("sra", "h"), R("rr", "l")>>, Logical, 2)
Shl16(x, y)  == Shift16(x, y, <<R("addhl", "hl")>>, <<R("addhl", "hl")>>, 6)

-----------------------------------------------------------------------------
(* Loads, stores and jumps.                                                *)

Load16(x) == PushHL(LoadHL(x))

StoreDE == <<N("sti", "e", "hl"), R("incw", "hl"), N("sti", "d", "hl")>>
Store16(dst, x) ==
    LoadHL(x) \o
    CASE dst.kind \in {"const", "var", "imm"} -> <<N("stw", "hl", dst.v)>>
      [] dst.kind \in {"pconst", "pvar", "pimm"} ->
           <<Ins("exdehl"), N("ldwm", "hl", dst.v)>> \o StoreDE
      [] dst.kind = "temp"  -> <<Ins("exdehl"), R("pop", "hl")>> \o StoreDE
      [] dst.kind = "ptemp" ->
           <<Ins("exdehl"), R("pop", "hl"), N("ldi", "a", "hl"), R("incw", "hl"),
             N("ldi", "h", "hl"), N("ld", "l", "a")>> \o StoreDE

Jzero16(x) == IF IsInt(x) THEN (IF x.v = 0 THEN <<Jump>> ELSE <<>>)
                          ELSE LoadHL(x) \o TestHL \o <<Ins("jpz")>>
Jnzero16(x) == IF IsInt(x) THEN (IF x.v # 0 THEN <<Jump>> ELSE <<>>)
                           ELSE LoadHL(x) \o TestHL \o <<Ins("jpnz")>>
Jgezerou16(x) == (IF IsInt(x) THEN <<>> ELSE LoadHL(x)) \o <<Jump>>
Jgezeroi16(x) == IF IsInt(x) THEN (IF x.v >= 0 THEN <<Jump>> ELSE <<>>)
                             ELSE LoadHL(x) \o <<R("addhl", "hl"), Ins("jpnc")>>
Ret16(x) == Append(LoadHL(x), Jump)
Param16(x) == PushHL(LoadHL(x))
Fparam16(x) == LoadHL(x)
=============================================================================

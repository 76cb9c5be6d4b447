----------------------------- MODULE CodeGenF16 -----------------------------
(***************************************************************************)
(* The code generator for fixed point numbers, backend/_f16.py: a double   *)
(* word with the integer part in DE and the fraction in HL.  The value v   *)
(* of a constant is the number times Word.                                 *)
(***************************************************************************)
EXTENDS CodeGen32

\* _f16_to_32bit: a number becomes the double word that stands for it.
To32(o) == IF IsInt(o) THEN [o EXCEPT !.v = Int32(@)] ELSE o

\* An operand the assembler works out is taken for a temporary.
LoadFixed(o) == IF o.kind = "imm" THEN <<R("pop", "hl"), R("pop", "de")>> ELSE LoadDEHL(o)
PushFixed(o) == IF o.kind = "imm" THEN <<>> ELSE PushDword(o)
FixedOper(x, y) == IF IsVar(x) THEN PushFixed(x) \o LoadFixed(y)
                               ELSE LoadFixed(y) \o PushFixed(x)
FixedBinary(x, y, routine, reversible) ==
    PushDEHL(Append(FixedOper(x, y) \o SwapIf(reversible /\ ChangedPlaces(x, y)), Call(routine)))

\* The text of a fixed number is no integer: _32bit_oper takes it for a temporary.
AsText(o) == IF IsInt(o) THEN [o EXCEPT !.kind = "temp"] ELSE o

Mulf16(x, y) ==
    LET o == NumberLast(x, y)
        n == o[2].v
    IN CASE HasInt(x, y) /\ n = Word -> PushDEHL(LoadFixed(o[1]))
         [] HasInt(x, y) /\ n = -Word -> Neg32(AsText(x))
         [] HasInt(x, y) /\ n = 0 ->
              PushDEHL(LoadFixed(o[1])
                       \o LoadN("hl", 0) \o <<N("ld", "e", "h"), N("ld", "d", "l")>>)
         [] ~HasInt(x, y) \/ n \notin {0, Word, -Word} -> FixedBinary(x, y, "MULF16", FALSE)

\* _negf of the floating point back end, for numbers of five bytes in A, DE
\* and BC; the bytes of a constant are left out.
LoadFloat(o) ==
    CASE o.kind = "var" -> <<N("lda", "a", o.v), N("ldwm", "de", o.v + 1), N("ldwm", "bc", o.v + 3)>>
      [] o.kind = "const" -> <<N("ldn", "a", 0)>> \o LoadN("de", 0) \o LoadN("bc", 0)
      [] o.kind \in {"temp", "imm"} -> <<R("pop", "af"), R("pop", "de"), R("pop", "bc")>>
Negf(x) == LoadFloat(x) \o <<Call("NEGF"), R("push", "bc"), R("push", "de"), R("push", "af")>>

Divf16(x, y) ==
    CASE IsInt(y) /\ y.v = Word  -> PushDEHL(LoadFixed(x))
      [] IsInt(y) /\ y.v = -Word -> Negf(x)
      [] ~(IsInt(y) /\ y.v \in {Word, -Word}) -> FixedBinary(x, y, "DIVF16", TRUE)

Modf16(x, y) == IF IsInt(y) /\ y.v = Word THEN LoadFixed(x) \o Zero32
                                          ELSE FixedBinary(x, y, "MODF16", TRUE)

-----------------------------------------------------------------------------
(* The rest is the code for double words.                                  *)

Addf16(x, y) == Add32(To32(x), To32(y))
Subf16(x, y) == Sub32(To32(x), To32(y))
Ltf16(x, y) == Lti32(To32(x), To32(y))
Gtf16(x, y) == Gti32(To32(x), To32(y))
Lef16(x, y) == Lei32(To32(x), To32(y))
Gef16(x, y) == Gei32(To32(x), To32(y))
Eqf16(x, y) == Eq32(To32(x), To32(y))
Nef16(x, y) == Ne32(To32(x), To32(y))
Orf16(x, y) == Or32(To32(x), To32(y))
Xorf16(x, y) == Xor32(To32(x), To32(y))
Andf16(x, y) == And32(To32(x), To32(y))
Negf16(x) == Neg32(To32(x))
Notf16(x) == Not32(To32(x))
Absf16(x) == Abs32(To32(x))
Storef16(dst, x) == Store32(dst, To32(x))

Loadf16(x) == PushDEHL(LoadFixed(x))
Jzerof16(x) == IF IsInt(x) THEN (IF x.v = 0 THEN <<Jump>> ELSE <<>>)
                           ELSE LoadFixed(x) \o TestDEHL \o <<Ins("jpz")>>
Jnzerof16(x) == IF IsInt(x) THEN (IF x.v # 0 THEN <<Jump>> ELSE <<>>)
                            ELSE LoadFixed(x) \o TestDEHL \o <<Ins("jpnz")>>
Jgezerof16(x) == IF IsInt(x) /\ x.v >= 0 THEN <<Jump>>
                 ELSE LoadFixed(x) \o <<N("ld", "a", "d"), R("add", "a"), Ins("jpnc")>>
Retf16(x) == Append(LoadFixed(x), Jump)
Paramf16(x) == PushDEHL(LoadFixed(x))
Fparamf16(x) == LoadFixed(x)
=============================================================================

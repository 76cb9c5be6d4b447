------------------------------ MODULE CodeGen ------------------------------
(***************************************************************************)
(* The processor runs the code one quad of the intermediate language was   *)
(* turned into, from every state a program can be in when it gets there.   *)
(* What the quad means is stated apart from the code, on numbers.          *)
(*                                                                         *)
(* q is the operation, its operands, their values a and b, and the carry   *)
(* the code before it left.                                                *)
(***************************************************************************)
EXTENDS CodeGenCast

CONSTANTS WordValues,        \* the words tried as operands
          DwordValues,       \* the double words tried as operands
          FixedValues,       \* the double words tried as fixed point numbers
          Tried,             \* the exceptions below that are tried all the same
          Base               \* what the code before left on the stack

VARIABLES q, m, pc, out

vars == <<q, m, pc, out>>

Types == {"8", "16", "32", "f16"}
SizeOf(type) == CASE type = "8" -> Byte [] type = "16" -> Word [] type \in {"32", "f16"} -> Dword
Shifts == {"shru", "shri", "shl"}                  \* the second operand is a byte
Divisions == {"divu", "modu", "divi", "modi"}
Binaries == {"add", "sub", "mul", "bor", "band", "bxor"} \cup Divisions \cup Shifts
Compares == {"ltu", "lti", "gtu", "gti", "leu", "lei", "geu", "gei", "eq", "ne",
             "or", "and", "xor"}
Moves == {"load", "param", "fparam"}
InRegister == {"fparam", "ret"}
Branches == {"jzero", "jnzero", "jgezerou", "jgezeroi", "ret"}
Unaries == {"bnot", "neg", "abs", "not"} \cup Moves \cup Branches
Casts == {"castu", "casti"}                        \* from a type without and with a sign
Values == Binaries \cup {"bnot", "neg", "abs", "load", "param"} \cup Casts
Answers == Compares \cup {"not"}
SignedOps == {"lti", "gti", "lei", "gei", "divi", "jgezeroi"}
\* Fixed point numbers are signed and have no bits to work on.
NotFixed == {"ltu", "gtu", "leu", "geu", "divu", "modu", "jgezerou", "castu",
             "bor", "band", "bxor", "bnot"} \cup Shifts
OpsOf(type, ops) == IF type = "f16" THEN ops \ NotFixed ELSE ops

\* The quad table: an operation and the function that makes its code.
Binary8(op, x, y) ==
    CASE op = "add" -> Add8(x, y)   [] op = "sub" -> Sub8(x, y)   [] op = "mul" -> Mul8(x, y)
      [] op = "divu" -> Divu8(x, y) [] op = "divi" -> Divi8(x, y) [] op = "modu" -> Modu8(x, y)
      [] op = "modi" -> Modi8(x, y) [] op = "bor" -> Bor8(x, y)   [] op = "band" -> Band8(x, y)
      [] op = "bxor" -> Bxor8(x, y) [] op = "shru" -> Shru8(x, y) [] op = "shri" -> Shri8(x, y)
      [] op = "shl" -> Shl8(x, y)   [] op = "ltu" -> Ltu8(x, y)   [] op = "lti" -> Lti8(x, y)
      [] op = "gtu" -> Gtu8(x, y)   [] op = "gti" -> Gti8(x, y)   [] op = "leu" -> Leu8(x, y)
      [] op = "lei" -> Lei8(x, y)   [] op = "geu" -> Geu8(x, y)   [] op = "gei" -> Gei8(x, y)
      [] op = "eq" -> Eq8(x, y)     [] op = "ne" -> Ne8(x, y)     [] op = "or" -> Or8(x, y)
      [] op = "and" -> And8(x, y)   [] op = "xor" -> Xor8(x, y)   [] op = "store" -> Store8(x, y)

Binary16(op, x, y) ==
    CASE op = "add" -> Add16(x, y)   [] op = "sub" -> Sub16(x, y)   [] op = "mul" -> Mul16(x, y)
      [] op = "divu" -> Divu16(x, y) [] op = "divi" -> Divi16(x, y) [] op = "modu" -> Modu16(x, y)
      [] op = "modi" -> Modi16(x, y) [] op = "bor" -> Bor16(x, y)   [] op = "band" -> Band16(x, y)
      [] op = "bxor" -> Bxor16(x, y) [] op = "shru" -> Shru16(x, y) [] op = "shri" -> Shri16(x, y)
      [] op = "shl" -> Shl16(x, y)   [] op = "ltu" -> Ltu16(x, y)   [] op = "lti" -> Lti16(x, y)
      [] op = "gtu" -> Gtu16(x, y)   [] op = "gti" -> Gti16(x, y)   [] op = "leu" -> Leu16(x, y)
      [] op = "lei" -> Lei16(x, y)   [] op = "geu" -> Geu16(x, y)   [] op = "gei" -> Gei16(x, y)
      [] op = "eq" -> Eq16(x, y)     [] op = "ne" -> Ne16(x, y)     [] op = "or" -> Or16(x, y)
      [] op = "and" -> And16(x, y)   [] op = "xor" -> Xor16(x, y)   [] op = "store" -> Store16(x, y)

Binary32(op, x, y) ==
    CASE op = "add" -> Add32(x, y)   [] op = "sub" -> Sub32(x, y)   [] op = "mul" -> Mul32(x, y)
      [] op = "divu" -> Divu32(x, y) [] op = "divi" -> Divi32(x, y) [] op = "modu" -> Modu32(x, y)
      [] op = "modi" -> Modi32(x, y) [] op = "bor" -> Bor32(x, y)   [] op = "band" -> Band32(x, y)
      [] op = "bxor" -> Bxor32(x, y) [] op = "shru" -> Shru32(x, y) [] op = "shri" -> Shri32(x, y)
      [] op = "shl" -> Shl32(x, y)   [] op = "ltu" -> Ltu32(x, y)   [] op = "lti" -> Lti32(x, y)
      [] op = "gtu" -> Gtu32(x, y)   [] op = "gti" -> Gti32(x, y)   [] op = "leu" -> Leu32(x, y)
      [] op = "lei" -> Lei32(x, y)   [] op = "geu" -> Geu32(x, y)   [] op = "gei" -> Gei32(x, y)
      [] op = "eq" -> Eq32(x, y)     [] op = "ne" -> Ne32(x, y)     [] op = "or" -> Or32(x, y)
      [] op = "and" -> And32(x, y)   [] op = "xor" -> Xor32(x, y)   [] op = "store" -> Store32(x, y)

Unary8(op, x) ==
    CASE op = "not" -> Not8(x)       [] op = "bnot" -> Bnot8(x)   [] op = "neg" -> Neg8(x)
      [] op = "abs" -> Abs8(x)       [] op = "load" -> Load8(x)   [] op = "param" -> Param8(x)
      [] op = "fparam" -> Fparam8(x) [] op = "ret" -> Ret8(x)     [] op = "jzero" -> Jzero8(x)
      [] op = "jnzero" -> Jnzero8(x) [] op = "jgezerou" -> Jgezerou8(x)
      [] op = "jgezeroi" -> Jgezeroi8(x)

Unary16(op, x) ==
    CASE op = "not" -> Not16(x)       [] op = "bnot" -> Bnot16(x)   [] op = "neg" -> Neg16(x)
      [] op = "abs" -> Abs16(x)       [] op = "load" -> Load16(x)   [] op = "param" -> Param16(x)
      [] op = "fparam" -> Fparam16(x) [] op = "ret" -> Ret16(x)     [] op = "jzero" -> Jzero16(x)
      [] op = "jnzero" -> Jnzero16(x) [] op = "jgezerou" -> Jgezerou16(x)
      [] op = "jgezeroi" -> Jgezeroi16(x)

Unary32Of(op, x) ==
    CASE op = "not" -> Not32(x)       [] op = "bnot" -> Bnot32(x)   [] op = "neg" -> Neg32(x)
      [] op = "abs" -> Abs32(x)       [] op = "load" -> Load32(x)   [] op = "param" -> Param32(x)
      [] op = "fparam" -> Fparam32(x) [] op = "ret" -> Ret32(x)     [] op = "jzero" -> Jzero32(x)
      [] op = "jnzero" -> Jnzero32(x) [] op = "jgezerou" -> Jgezerou32(x)
      [] op = "jgezeroi" -> Jgezeroi32(x)

BinaryF16(op, x, y) ==
    CASE op = "add" -> Addf16(x, y)  [] op = "sub" -> Subf16(x, y)  [] op = "mul" -> Mulf16(x, y)
      [] op = "divi" -> Divf16(x, y) [] op = "modi" -> Modf16(x, y) [] op = "lti" -> Ltf16(x, y)
      [] op = "gti" -> Gtf16(x, y)   [] op = "lei" -> Lef16(x, y)   [] op = "gei" -> Gef16(x, y)
      [] op = "eq" -> Eqf16(x, y)    [] op = "ne" -> Nef16(x, y)    [] op = "or" -> Orf16(x, y)
      [] op = "and" -> Andf16(x, y)  [] op = "xor" -> Xorf16(x, y)  [] op = "store" -> Storef16(x, y)

UnaryF16(op, x) ==
    CASE op = "not" -> Notf16(x)     [] op = "neg" -> Negf16(x)     [] op = "abs" -> Absf16(x)
      [] op = "load" -> Loadf16(x)   [] op = "param" -> Paramf16(x) [] op = "fparam" -> Fparamf16(x)
      [] op = "ret" -> Retf16(x)     [] op = "jzero" -> Jzerof16(x) [] op = "jnzero" -> Jnzerof16(x)
      [] op = "jgezeroi" -> Jgezerof16(x)

HasTwo(op) == op \in Binaries \cup Compares \cup {"store"}
TwoOperands == CASE q.type = "8"   -> Binary8(q.op, q.x, q.y)
                 [] q.type = "16"  -> Binary16(q.op, q.x, q.y)
                 [] q.type = "32"  -> Binary32(q.op, q.x, q.y)
                 [] q.type = "f16" -> BinaryF16(q.op, q.x, q.y)
OneOperand == CASE q.type = "8"   -> Unary8(q.op, q.x)
                [] q.type = "16"  -> Unary16(q.op, q.x)
                [] q.type = "32"  -> Unary32Of(q.op, q.x)
                [] q.type = "f16" -> UnaryF16(q.op, q.x)
Code == IF q.op \in Casts THEN Cast(q.type, q.op = "casti", q.to, q.x)
        ELSE IF HasTwo(q.op) THEN TwoOperands ELSE OneOperand

-----------------------------------------------------------------------------
(* The runtime routines the code calls.  What one does not promise to keep *)
(* is lost.                                                                *)

Lost(s) == [s EXCEPT !.b = 1, !.c = 2, !.d = 3, !.e = 1, !.h = 2, !.l = 3, !.cf = 1, !.zf = 0]
AnswerA(s, r) == [Lost(s) EXCEPT !.a = r]
AnswerHL(s, r) == [SetPair(Lost(s), "hl", r) EXCEPT !.a = 1]
AnswerDEHL(s, r) == SetPair(AnswerHL(s, LoWord(r)), "de", HiWord(r))
Abs(n) == IF n < 0 THEN 0 - n ELSE n
Negated(n, negative, size) == IF negative THEN (size - n) % size ELSE n

\* DIVI8 takes the sign of the quotient from the divisor and the remainder.
Divide8(a, h) == LET n == Abs(Signed(a, Byte))   d == Abs(Signed(h, Byte))
                 IN Negated(n \div d, (Signed(h, Byte) < 0) # (n % d >= Byte \div 2), Byte)
Divide(a, b, size) == LET n == Abs(Signed(a, size))   d == Abs(Signed(b, size))
                      IN Negated(n \div d, (Signed(a, size) < 0) # (Signed(b, size) < 0), size)
Remainder(a, b, size) == Abs(Signed(a, size)) % Abs(Signed(b, size))

RuntimeShort(s, name) ==
    LET hl == Pair(s, "hl")   de == Pair(s, "de")
    IN CASE name = "DIVU8_FAST" -> AnswerA(s, s.a \div s.h)
         [] name = "MODU8_FAST" -> AnswerA(s, s.a % s.h)
         [] name = "DIVI8_FAST" -> AnswerA(s, Divide8(s.a, s.h))
         [] name = "MODI8_FAST" -> AnswerA(s, Remainder(s.a, s.h, Byte))
         [] name = "LTI8"  -> AnswerA(s, Bit(Signed(s.a, Byte) < Signed(s.h, Byte)))
         [] name = "LEI8"  -> AnswerA(s, Bit(Signed(s.a, Byte) <= Signed(s.h, Byte)))
         [] name = "XOR8"  -> AnswerA(s, IF (s.a = 0) # (s.h = 0) THEN Byte - 1 ELSE 0)
         [] name = "ABS8"  -> AnswerA(s, Abs(Signed(s.a, Byte)))
         [] name = "MUL16_FAST" -> AnswerHL(s, (hl * de) % Word)
         [] name = "DIVU16" -> AnswerHL(s, hl \div de)
         [] name = "MODU16" -> AnswerHL(s, hl % de)
         [] name = "DIVI16" -> AnswerHL(s, Divide(hl, de, Word))
         [] name = "MODI16" -> AnswerHL(s, Remainder(hl, de, Word))
         [] name = "LTI16" -> AnswerA(s, Bit(Signed(hl, Word) < Signed(de, Word)))
         [] name = "LEI16" -> AnswerA(s, Bit(Signed(hl, Word) <= Signed(de, Word)))
         [] name = "EQ16"  -> AnswerA(s, Bit(hl = de))
         [] name = "XOR16" -> AnswerA(s, IF (hl = 0) # (de = 0) THEN Byte - 1 ELSE 0)
         [] name = "AND16" -> AnswerA(s, IF hl = 0 THEN 0 ELSE s.d | s.e)
         [] name = "BOR16" -> AnswerHL(s, hl | de)
         [] name = "BAND16" -> AnswerHL(s, hl & de)
         [] name = "BXOR16" -> AnswerHL(s, hl ^^ de)
         [] name = "BNOT16" -> AnswerHL(s, Word - 1 - hl)
         [] name = "NEGHL" -> AnswerHL(s, (Word - hl) % Word)
         [] name = "ABS16" -> AnswerHL(s, Abs(Signed(hl, Word)))

\* The products and quotients of fixed point numbers: the product to the
\* nearest; the dividend shifted left until it is full, then the divisor right
\* while its bit 1 is 0, then the quotient left.
WordBits == CHOOSE k \in 0..16 : 2 ^ k = Word
Product(a, b) ==
    Negated((Abs(Signed(a, Dword)) * Abs(Signed(b, Dword)) + Word \div 2) \div Word,
            (Signed(a, Dword) < 0) # (Signed(b, Dword) < 0), Dword)
Least(ks) == CHOOSE k \in ks : \A j \in ks : k <= j
Quotient(a, b) ==
    LET n == Abs(Signed(a, Dword))
        d == Abs(Signed(b, Dword))
        k == Least({WordBits} \cup {i \in 0..WordBits : n * 2 ^ i >= Dword \div 2})
        j == Least({WordBits - k} \cup {i \in 0..(WordBits - k) : (d \div 2 ^ (i + 1)) % 2 = 1})
        e == d \div 2 ^ j
        c == IF e = 0 THEN Dword - 1 ELSE (n * 2 ^ k) \div e      \* DIVU32 by 0: all ones
    IN Negated((c * 2 ^ (WordBits - k - j)) % Dword,
               (Signed(a, Dword) < 0) # (Signed(b, Dword) < 0), Dword)
\* The fraction of the quotient, with its sign, times the divisor.
Modulus(a, b) ==
    LET c == Quotient(a, b)
        fraction == (c % Word) + IF Signed(c, Dword) < 0 THEN Dword - Word ELSE 0
    IN Product(fraction, b)

\* The routines for double words: the other operand is on the stack, and taken
\* from it.
InRegs(s) == Pair(s, "de") * Word + Pair(s, "hl")
TopWord(s) == Top(s)[1] * Byte + Top(s)[2]
Drop(s) == [s EXCEPT !.stk = Under(s)]
OnStack(s) == TopWord(Drop(s)) * Word + TopWord(s)
Taken(s) == Drop(Drop(s))
AllOr(n) == (Hi(n) | Lo(n)) | (Hi(n \div Word) | Lo(n \div Word))

TwoDwords(s, name) ==
    LET r == InRegs(s)   t == OnStack(s)   u == Taken(s)
    IN CASE name = "SUB32"  -> [AnswerDEHL(u, (t - r) % Dword) EXCEPT !.cf = Bit(t < r)]
         [] name = "MUL32"  -> AnswerDEHL(u, (t * r) % Dword)
         [] name = "DIVU32" -> AnswerDEHL(u, r \div t)
         [] name = "MODU32" -> AnswerDEHL(u, r % t)
         [] name = "DIVI32" -> AnswerDEHL(u, Divide(r, t, Dword))
         [] name = "MODI32" -> AnswerDEHL(u, Remainder(r, t, Dword))
         [] name = "MULF16" -> AnswerDEHL(u, Product(t, r))
         [] name = "DIVF16" -> AnswerDEHL(u, Quotient(t, r))
         [] name = "MODF16" -> AnswerDEHL(u, Modulus(t, r))
         [] name = "BOR32"  -> AnswerDEHL(u, t | r)
         [] name = "BAND32" -> AnswerDEHL(u, t & r)
         [] name = "BXOR32" -> AnswerDEHL(u, t ^^ r)
         [] name = "LTI32"  -> AnswerA(u, Bit(Signed(t, Dword) < Signed(r, Dword)))
         [] name = "LEI32"  -> AnswerA(u, Bit(Signed(t, Dword) <= Signed(r, Dword)))
         [] name = "EQ32"   -> AnswerA(u, Bit(t = r))
         [] name = "OR32"   -> AnswerA(u, AllOr(t) | AllOr(r))
         [] name = "AND32"  -> AnswerA(u, IF r = 0 THEN 0 ELSE AllOr(t))
         [] name = "XOR32"  -> AnswerA(u, IF (t = 0) # (r = 0) THEN Byte - 1 ELSE 0)

Double(s, r) == SetPair(SetPair(s, "hl", LoWord(r)), "de", HiWord(r))
Written(s, p, n) ==
    [s EXCEPT !.mem = (p :> Lo(n)) @@ (p + 1 :> Hi(n)) @@ (p + 2 :> Lo(n \div Word))
                      @@ (p + 3 :> Hi(n \div Word)) @@ @]
\* The value to store is in DE and BC.
ToStore(s) == Pair(s, "de") * Word + Pair(s, "bc")

OneDword(s, name) ==
    LET r == InRegs(s)   hl == Pair(s, "hl")
    IN CASE name = "NEGF"   -> Lost(s)
         [] name = "NOT32"  -> AnswerA(s, IF r = 0 THEN Byte - 1 ELSE 0)
         [] name = "BNOT32" -> AnswerDEHL(s, Dword - 1 - r)
         [] name = "NEG32"  -> AnswerDEHL(s, (Dword - r) % Dword)
         [] name = "ABS32"  -> AnswerDEHL(s, Abs(Signed(r, Dword)))
         [] name = "SHRL32" -> [Double(s, r \div 2) EXCEPT !.cf = r % 2]
         [] name = "SHRA32" -> [Double(s, (Signed(r, Dword) \div 2) % Dword) EXCEPT !.cf = r % 2]
         [] name = "SHL32"  -> [Double(s, (2 * r) % Dword) EXCEPT !.cf = Bit(2 * r >= Dword)]
         [] name = "SWAP32" -> [Double(SetPair(s, "bc", 1), OnStack(s)) EXCEPT !.stk =
                                  Taken(s).stk \o <<<<s.d, s.e>>, <<s.h, s.l>>>>]
         [] name = "ILOAD32" -> [Double(s, WordAt(s, hl + 2) * Word + WordAt(s, hl)) EXCEPT !.a = 1]
         [] name = "STORE32" -> [Written(s, hl, ToStore(s)) EXCEPT !.h = 1]
         [] name = "ISTORE32" -> [Written(s, WordAt(s, hl), ToStore(s)) EXCEPT !.h = 1]

Takes == {"SUB32", "MUL32", "DIVU32", "MODU32", "DIVI32", "MODI32",
          "MULF16", "DIVF16", "MODF16", "BOR32", "BAND32", "BXOR32", "LTI32", "LEI32", "EQ32", "OR32", "AND32", "XOR32"}
Runtime(s, name) == CASE SizeOf(q.type) # Dword -> RuntimeShort(s, name)
                      [] SizeOf(q.type) = Dword /\ name \in Takes -> TwoDwords(s, name)
                      [] SizeOf(q.type) = Dword /\ name \notin Takes -> OneDword(s, name)

-----------------------------------------------------------------------------
(* A run of the code.                                                      *)

\* Where things are in the memory: x and y, the place that is stored to, a
\* pointer variable with its address, and the place itself.
AtX == 1
AtY == 6
AtPlace == 11
AtPointer == 16
AtTarget == 19
Memory == 0..23

\* A number on the stack: a byte is pushed as AF, with the flags beside it, a
\* double word with its low word on top.
Entry(n, size) == CASE size = Byte  -> <<<<n, 3>>>>
                    [] size = Word  -> <<<<Hi(n), Lo(n)>>>>
                    [] size = Dword -> <<<<Hi(n \div Word), Lo(n \div Word)>>, <<Hi(n), Lo(n)>>>>
Part(n, k) == (n \div Byte ^ k) % Byte
InMemory(addr, n) == [p \in addr..(addr + 3) |-> Part(n, p - addr)]

Op(k, v) == [kind |-> k, v |-> v]
NoOperand == Op("none", 0)
ValuesOf(type) == CASE type = "8" -> Bytes [] type = "16" -> WordValues
                    [] type = "32" -> DwordValues [] type = "f16" -> FixedValues
\* The type of the second operand.
Type2(op, type) == IF op \in Shifts THEN "8" ELSE type
\* A number stands in a quad as the type of the operation has it.
AsConst(op, type, n) ==
    Op("const", IF op \in SignedOps \/ type = "f16" THEN Signed(n, SizeOf(type)) ELSE n)
Direct(op, type, n, addr) == {AsConst(op, type, n), Op("imm", n), Op("var", addr), Op("temp", 0)}
Indirect(op) == IF op \in Moves THEN {Op("pvar", AtPointer), Op("ptemp", AtTarget),
                                      Op("pimm", AtTarget)} ELSE {}
Destinations == {Op("const", AtPlace), Op("var", AtPlace), Op("imm", AtPlace),
                 Op("temp", AtTarget), Op("pvar", AtPointer), Op("ptemp", AtPointer)}

\* The quads of a program: the operations on two operands, on one, stores and
\* conversions.
Quad(op, type, to, x, y, a, b, c) ==
    q = [op |-> op, type |-> type, to |-> to, x |-> x, y |-> y, a |-> a, b |-> b, cf |-> c]
AQuad == \E type \in Types :
    \/ \E op \in OpsOf(type, Binaries \cup Compares), a \in ValuesOf(type) :
         \E b \in ValuesOf(Type2(op, type)) :
           \E x \in Direct(op, type, a, AtX), y \in Direct(op, type, b, AtY) :
             Quad(op, type, type, x, y, a, b, 1)
    \/ \E op \in OpsOf(type, Unaries), a \in ValuesOf(type), c \in {0, 1} :
         \E x \in Direct(op, type, a, AtX) \cup Indirect(op) :
           Quad(op, type, type, x, NoOperand, a, 0, c)
    \/ \E b \in ValuesOf(type) :
         \E x \in Destinations, y \in Direct("store", type, b, AtY) :
           Quad("store", type, type, x, y, 1, b, 0)
    \/ \E op \in OpsOf(type, Casts), to \in Types, a \in ValuesOf(type) :
         \E x \in Direct(op, type, a, AtX) : Quad(op, type, to, x, NoOperand, a, 0, 1)

IsNumber(o, n) == IsInt(o) /\ o.v = n
AllOnes(o) == IsNumber(o, Word - 1)

\* The quads the code is wrong for, by the name of what is wrong.
Wrong(e) ==
    CASE e = "byte dividend" ->          \* div8.asm loses the sign, a shift rounds down
           q.op = "divi" /\ q.type = "8" /\ Signed(q.a, Byte) < 0
      [] e = "word dividend" ->          \* a shift rounds down
           q.op = "divi" /\ q.type = "16" /\ Signed(q.a, Word) < 0
      [] e = "remainder by one" ->       \* the compiler stops
           q.op = "modu" /\ q.type = "16" /\ IsNumber(q.y, 1)
      [] e = "left in place" ->          \* the operand stays where it is: right for a temporary
           /\ q.type = "16"
           /\ \/ q.op \in Shifts /\ IsNumber(q.y, 0) /\ q.x.kind # "temp"
              \/ q.op = "band" /\ AllOnes(q.x) /\ q.y.kind # "temp"
              \/ q.op = "band" /\ ~IsInt(q.x) /\ AllOnes(q.y) /\ q.x.kind # "temp"
      [] e = "complement" ->             \* negates instead
           q.op = "bxor" /\ q.type = "16" /\ (AllOnes(q.x) \/ (~IsInt(q.x) /\ AllOnes(q.y)))
      [] e = "shift by one" ->           \* brings in a 0 instead of the sign
           q.op = "shri" /\ q.type = "16" /\ IsNumber(q.y, 1) /\ q.a >= Word \div 2
      [] e = "swapped anyway" ->         \* the operands did not change places
           /\ q.op \in {"sub", "ltu", "lti", "gtu", "gti", "leu", "lei", "geu", "gei"} \cup Divisions
           /\ q.type = "32" /\ q.x.kind = "imm" /\ q.y.kind = "temp"
      [] e = "fixed address" ->          \* popped from the stack instead, or swapped anyway
           /\ q.type = "f16"
           /\ \/ q.x.kind = "imm" /\ q.op \notin {"add", "neg", "not", "abs", "store", "eq", "ne", "or", "and", "xor"}
              \/ q.y.kind = "imm" /\ q.op \in {"mul", "divi", "modi"}
      [] e = "fixed by minus one" ->     \* pops the number -1, or negates as if five bytes long
           /\ q.type = "f16"
           /\ \/ q.op = "mul" /\ IsNumber(q.x, -Word)
              \/ q.op = "divi" /\ IsNumber(q.y, -Word)
      [] e = "fixed remainder by one" -> \* 0 whatever the fraction
           q.op = "modi" /\ q.type = "f16" /\ IsNumber(q.y, Word)

Exceptions == {"byte dividend", "word dividend", "remainder by one", "left in place", "complement",
               "shift by one", "swapped anyway", "fixed address", "fixed by minus one",
               "fixed remainder by one"}

\* What has no meaning the code could miss: a division by 0, and the remainder
\* of a negative number, whose sign differs from type to type.
Undefined == \/ q.op \in Divisions /\ q.b = 0
             \/ q.op = "modi" /\ Signed(q.a, SizeOf(q.type)) < 0
LeftOut == Undefined \/ \E e \in Exceptions \ Tried : Wrong(e)

Temporary(o, n, size) == CASE o.kind = "temp"  -> Entry(n, size)
                           [] o.kind = "ptemp" -> Entry(o.v, Word)
                           [] OTHER -> <<>>
\* The temporaries are above what the stack held; a store has an address below.
Stacked == (IF q.op = "store" THEN Temporary(q.x, q.x.v, Word)
                              ELSE Temporary(q.x, q.a, SizeOf(q.type)))
           \o Temporary(q.y, q.b, SizeOf(Type2(q.op, q.type)))

Init ==
    /\ AQuad
    /\ ~LeftOut
    /\ m = [a |-> 5, b |-> 6, c |-> 7, d |-> 1, e |-> 2, h |-> 3, l |-> 4,
            cf |-> q.cf, zf |-> 0, stk |-> Base \o Stacked,
            mem |-> InMemory(AtX, q.a) @@ InMemory(AtY, q.b) @@ InMemory(AtTarget, q.a)
                    @@ (AtPointer :> Lo(AtTarget)) @@ (AtPointer + 1 :> Hi(AtTarget))
                    @@ [p \in Memory |-> 5]]
    /\ pc = 1
    /\ out = "runs"

Fetched == Code[pc]
Target(l) == CHOOSE k \in 1..Len(Code) : Code[k] = Label(l)
JumpsOut(s, op) == CASE op = "jp" -> TRUE       [] op = "jpz" -> s.zf = 1
                     [] op = "jpnz" -> s.zf = 0 [] op = "jpnc" -> s.cf = 0
Running == out = "runs" /\ pc <= Len(Code)
Jumps == {"jp", "jpz", "jpnz", "jpnc"}

\* An instruction of the processor that goes on with the next.
Step ==
    /\ Running
    /\ Fetched.op \notin Jumps \cup {"jrz", "djnz", "call", "label"}
    /\ Fetched.op = "pop" => Len(m.stk) > 0
    /\ m' = Execute(m, Fetched)
    /\ pc' = pc + 1
    /\ UNCHANGED <<q, out>>

Calls ==
    /\ Running /\ Fetched.op = "call"
    /\ m' = Runtime(m, Fetched.r)
    /\ pc' = pc + 1
    /\ UNCHANGED <<q, out>>

Passes ==
    /\ Running /\ Fetched.op = "label"
    /\ pc' = pc + 1
    /\ UNCHANGED <<q, m, out>>

\* jr z and djnz.
Branch ==
    /\ Running /\ Fetched.op \in {"jrz", "djnz"}
    /\ LET s == IF Fetched.op = "djnz" THEN [m EXCEPT !.b = (@ - 1) % Byte] ELSE m
           taken == IF Fetched.op = "djnz" THEN s.b # 0 ELSE m.zf = 1
       IN m' = s /\ pc' = IF taken THEN Target(Fetched.r) ELSE pc + 1
    /\ UNCHANGED <<q, out>>

\* A jump to a label of the program.
Leaves ==
    /\ Running /\ Fetched.op \in Jumps
    /\ out' = IF JumpsOut(m, Fetched.op) THEN "jumped" ELSE out
    /\ pc' = pc + 1
    /\ UNCHANGED <<q, m>>

FallsThrough ==
    /\ out = "runs" /\ pc > Len(Code)
    /\ out' = "fell"
    /\ UNCHANGED <<q, m, pc>>

Ended == out # "runs" /\ UNCHANGED vars

Next == Step \/ Calls \/ Passes \/ Branch \/ Leaves \/ FallsThrough \/ Ended
Spec == Init /\ [][Next]_vars

-----------------------------------------------------------------------------
(* What the quads mean.                                                    *)

Size == SizeOf(q.type)
ResultSize == SizeOf(q.to)
S(n) == Signed(n, Size)
Power(n) == 2 ^ n

\* The number a conversion gives: without its fraction, or as a fixed one.
Converted == LET n == IF q.op = "casti" THEN S(q.a) ELSE q.a
             IN CASE q.type = q.to  -> n
                  [] q.type = "f16" /\ q.to # "f16" -> n \div Word
                  [] q.type # "f16" /\ q.to = "f16" -> n * Word
                  [] q.type # q.to /\ "f16" \notin {q.type, q.to} -> n

\* The number an operation on numbers gives, before it is cut to size.
Number ==
    LET a == q.a   b == q.b
    IN CASE q.op \in Casts -> Converted
         [] q.op = "add" -> a + b
         [] q.op = "sub" -> a - b
         [] q.op = "mul" -> IF q.type = "f16" THEN Product(a, b) ELSE a * b
         [] q.op = "divu" -> a \div b
         [] q.op = "modu" -> a % b
         [] q.op = "divi" /\ q.type = "f16" -> Quotient(a, b)
         [] q.op = "modi" /\ q.type = "f16" -> Modulus(a, b)
         [] q.op = "divi" /\ q.type # "f16" -> LET d == Abs(S(a)) \div Abs(S(b))
                             IN IF (S(a) < 0) # (S(b) < 0) THEN 0 - d ELSE d
         [] q.op = "modi" /\ q.type # "f16" -> Abs(S(a)) % Abs(S(b))
         [] q.op = "bor" -> a | b
         [] q.op = "band" -> a & b
         [] q.op = "bxor" -> a ^^ b
         [] q.op = "shl" -> a * Power(b)
         [] q.op = "shru" -> a \div Power(b)
         [] q.op = "shri" -> S(a) \div Power(b)
         [] q.op = "bnot" -> Size - 1 - a
         [] q.op = "neg" -> 0 - a
         [] q.op = "abs" -> Abs(S(a))
         [] q.op \in Moves \cup {"ret"} -> a

Truth ==
    LET a == q.a   b == q.b
    IN CASE q.op = "ltu" -> a < b            [] q.op = "gtu" -> a > b
         [] q.op = "leu" -> a <= b           [] q.op = "geu" -> a >= b
         [] q.op = "lti" -> S(a) < S(b)      [] q.op = "gti" -> S(a) > S(b)
         [] q.op = "lei" -> S(a) <= S(b)     [] q.op = "gei" -> S(a) >= S(b)
         [] q.op = "eq" -> a = b             [] q.op = "ne" -> a # b
         [] q.op = "or" -> a # 0 \/ b # 0    [] q.op = "and" -> a # 0 /\ b # 0
         [] q.op = "xor" -> (a # 0) # (b # 0)
         [] q.op \in {"not", "jzero"} -> a = 0
         [] q.op = "jnzero" -> a # 0
         [] q.op \in {"jgezerou", "ret"} -> TRUE
         [] q.op = "jgezeroi" -> S(a) >= 0

\* Where a store begins, and the places it may write.
PlaceStart == IF q.x.kind \in {"const", "var", "imm"} THEN AtPlace ELSE AtTarget
Place == IF q.op # "store" THEN {}
         ELSE CASE Size = Byte  -> {PlaceStart}
                [] Size = Word  -> PlaceStart..(PlaceStart + 1)
                [] Size = Dword -> PlaceStart..(PlaceStart + 3)

\* The value the code left on the stack, and the one in the registers.
Result == CASE ResultSize = Byte -> Top(m)[1] [] ResultSize = Word -> TopWord(m)
            [] ResultSize = Dword -> OnStack(m)
InRegisters == CASE Size = Byte -> m.a [] Size = Word -> Pair(m, "hl") [] Size = Dword -> InRegs(m)

-----------------------------------------------------------------------------
(* Properties.                                                             *)

\* The registers, the stack and the memory hold bytes, and no run leaves the
\* code but at its end: a number is cut to size before it is an operand.
TypeOK ==
    /\ \A r \in Regs : m[r] \in Bytes
    /\ {m.cf, m.zf} \subseteq {0, 1}
    /\ \A k \in DOMAIN m.stk : m.stk[k] \in Bytes \X Bytes
    /\ m.mem \in [Memory -> Bytes]
    /\ pc \in 1..(Len(Code) + 1)
    /\ out \in {"runs", "fell", "jumped"}

\* However the operands come (a number, a variable, a temporary, an address
\* the assembler knows), whatever is done instead of the general code and
\* whatever the flags were before, the code of an operation leaves what the
\* operation means: a number cut to its size, an answer that is not 0 exactly
\* if it is true, a jump exactly if its condition holds, the value in A, HL or DEHL,
\* the value at the place it is stored to.
ResultAsSpecified ==
    out # "runs" =>
      /\ q.op \in Values => Result = Number % ResultSize
      /\ q.op \in Answers => (Top(m)[1] # 0 <=> Truth)
      /\ q.op \in Branches => (out = "jumped" <=> Truth)
      /\ q.op \in InRegister => InRegisters = Number
      /\ \A p \in Place : m.mem[p] = Part(q.b, p - PlaceStart)

\* The code takes from the stack its temporaries and nothing of the code
\* around it, and leaves there its result and nothing else, on every path
\* through its jumps and loops.
StackKept ==
    /\ Len(m.stk) >= Len(Base)
    /\ SubSeq(m.stk, 1, Len(Base)) = Base
    /\ out # "runs" =>
         Len(m.stk) = Len(Base) + CASE q.op \in Answers -> 1
                                    [] q.op \in Values -> IF ResultSize = Dword THEN 2 ELSE 1
                                    [] q.op \notin Answers \cup Values -> 0

\* No instruction of a quad writes the memory anywhere but where the quad
\* stores, however the place is given.
OnlyTargetWritten == [][\A p \in Memory : m.mem'[p] # m.mem[p] => p \in Place]_vars

\* __DIVI8_FAST is a signed division: the quotient is negative exactly if one
\* of its operands is ("bit 7 of A = 1 if result is negative").
QuotientSigned ==
    out # "runs" /\ q.op = "divi" /\ q.type = "8" /\ q.y.kind # "const" => Top(m)[1] = Number % Byte
=============================================================================

--------------------------------- MODULE Z80 ---------------------------------
(***************************************************************************)
(* The processor the compiler generates code for, as far as that code uses *)
(* it: a byte has Byte values and a word Byte^2.  A machine is a record of *)
(* registers, the carry and zero flags, a stack of words <<high, low>> and *)
(* a memory of bytes; an instruction is a record with an "op".  The        *)
(* processor itself is not part of the repository.                         *)
(***************************************************************************)
EXTENDS Integers, Sequences, FiniteSets, TLC, Bitwise

CONSTANT Byte                \* values of a byte: 256

ASSUME ByteAssumption == Byte \in {2, 4, 8, 16, 32, 64, 128, 256}

Word == Byte * Byte
Bytes == 0..(Byte - 1)
Words == 0..(Word - 1)
Hi(w) == (w \div Byte) % Byte
Lo(w) == w % Byte
Signed(n, size) == IF n >= size \div 2 THEN n - size ELSE n
Bit(b) == IF b THEN 1 ELSE 0

Regs == {"a", "b", "c", "d", "e", "h", "l"}
High == [af |-> "a", bc |-> "b", de |-> "d", hl |-> "h"]
Low == [bc |-> "c", de |-> "e", hl |-> "l"]

Pair(m, rr) == m[High[rr]] * Byte + m[Low[rr]]
SetPair(m, rr, w) == [m EXCEPT ![High[rr]] = Hi(w), ![Low[rr]] = Lo(w)]
At(m, p) == m.mem[p % Word]
WordAt(m, p) == At(m, p) + Byte * At(m, p + 1)
Top(m) == m.stk[Len(m.stk)]
Under(m) == SubSeq(m.stk, 1, Len(m.stk) - 1)

-----------------------------------------------------------------------------
(* Instructions.                                                           *)

Ins(o) == [op |-> o]
R(o, r) == [op |-> o, r |-> r]
N(o, r, n) == [op |-> o, r |-> r, n |-> n]
Call(name) == [op |-> "call", r |-> name]
Label(l) == [op |-> "label", r |-> l]

\* The operand of an arithmetic instruction: a register, or a number if r is "n".
Operand(m, i) == IF i.r = "n" THEN i.n ELSE m[i.r]

Flagged(m, r) == [m EXCEPT !.a = r % Byte, !.zf = Bit(r % Byte = 0)]
Sum(m, n) == [Flagged(m, m.a + n) EXCEPT !.cf = Bit(m.a + n >= Byte)]
Difference(m, n) == [Flagged(m, m.a - n) EXCEPT !.cf = Bit(m.a < n)]
Logic(m, r) == [Flagged(m, r) EXCEPT !.cf = 0]
Count(m, r, n) == [m EXCEPT ![r] = n % Byte, !.zf = Bit(n % Byte = 0)]

Shifted(m, r, high) ==
    LET v == (m[r] \div 2) + high * (Byte \div 2)
    IN [m EXCEPT ![r] = v, !.cf = m[r] % 2, !.zf = Bit(v = 0)]

Arithmetic(m, i) ==
    CASE i.op = "add" -> Sum(m, Operand(m, i))
      [] i.op = "adc" -> Sum(m, Operand(m, i) + m.cf)
      [] i.op = "sub" -> Difference(m, Operand(m, i))
      [] i.op = "sbc" -> Difference(m, Operand(m, i) + m.cf)
      [] i.op = "cp"  -> [Difference(m, Operand(m, i)) EXCEPT !.a = m.a]
      [] i.op = "and" -> Logic(m, m.a & Operand(m, i))
      [] i.op = "or"  -> Logic(m, m.a | Operand(m, i))
      [] i.op = "xor" -> Logic(m, m.a ^^ Operand(m, i))
      [] i.op = "neg" -> [Flagged(m, 0 - m.a) EXCEPT !.cf = Bit(m.a # 0)]
      [] i.op = "cpl" -> [m EXCEPT !.a = Byte - 1 - @]
      [] i.op = "ccf" -> [m EXCEPT !.cf = 1 - @]
      [] i.op = "inc" -> Count(m, i.r, m[i.r] + 1)
      [] i.op = "dec" -> Count(m, i.r, m[i.r] - 1)
      [] i.op = "srl" -> Shifted(m, i.r, 0)
      [] i.op = "sra" -> Shifted(m, i.r, m[i.r] \div (Byte \div 2))
      [] i.op = "rr"  -> Shifted(m, i.r, m.cf)

WideArithmetic(m, i) ==
    CASE i.op = "incw" -> SetPair(m, i.r, Pair(m, i.r) + 1)
      [] i.op = "decw" -> SetPair(m, i.r, Pair(m, i.r) - 1)
      [] i.op = "addhl" -> LET s == Pair(m, "hl") + Pair(m, i.r)
                           IN [SetPair(m, "hl", s) EXCEPT !.cf = Bit(s >= Word)]
      [] i.op = "adchl" -> LET s == Pair(m, "hl") + Pair(m, i.r) + m.cf
                           IN [SetPair(m, "hl", s) EXCEPT !.cf = Bit(s >= Word),
                                                          !.zf = Bit(s % Word = 0)]
      [] i.op = "sbchl" -> LET s == Pair(m, "hl") - Pair(m, i.r) - m.cf
                           IN [SetPair(m, "hl", s) EXCEPT !.cf = Bit(s < 0),
                                                          !.zf = Bit(s % Word = 0)]
      [] i.op = "mul"    -> SetPair(m, "de", m.d * m.e)
      [] i.op = "exdehl" -> SetPair(SetPair(m, "hl", Pair(m, "de")), "de", Pair(m, "hl"))

\* The low byte of AF on the stack holds the two flags.
Loads(m, i) ==
    CASE i.op = "ldn"  -> [m EXCEPT ![i.r] = i.n]                 \* ld r, n
      [] i.op = "ld"   -> [m EXCEPT ![i.r] = m[i.n]]              \* ld r, r'
      [] i.op = "lda"  -> [m EXCEPT !.a = At(m, i.n)]             \* ld a, (n)
      [] i.op = "sta"  -> [m EXCEPT !.mem[i.n % Word] = m.a]      \* ld (n), a
      [] i.op = "ldi"  -> [m EXCEPT ![i.r] = At(m, Pair(m, i.n))] \* ld r, (rr)
      [] i.op = "sti"  -> [m EXCEPT !.mem[Pair(m, i.n)] = m[i.r]] \* ld (rr), r
      [] i.op = "ldw"  -> SetPair(m, i.r, i.n)                    \* ld rr, n
      [] i.op = "ldwm" -> SetPair(m, i.r, WordAt(m, i.n))         \* ld rr, (n)
      [] i.op = "stw"  -> [m EXCEPT !.mem = (i.n :> m[Low[i.r]])
                                               @@ (i.n + 1 :> m[High[i.r]]) @@ @]   \* ld (n), rr
      [] i.op = "push" -> [m EXCEPT !.stk = Append(@, <<m[High[i.r]],
                             IF i.r = "af" THEN m.cf + 2 * m.zf ELSE m[Low[i.r]]>>)]
      [] i.op = "pop"  -> IF i.r = "af"
           THEN [m EXCEPT !.stk = Under(m), !.a = Top(m)[1],
                          !.cf = Top(m)[2] % 2, !.zf = (Top(m)[2] \div 2) % 2]
           ELSE [SetPair(m, i.r, Top(m)[1] * Byte + Top(m)[2]) EXCEPT !.stk = Under(m)]

IsWide(i) == i.op \in {"incw", "decw", "addhl", "adchl", "sbchl", "mul", "exdehl"}
IsLoad(i) == i.op \in {"ldn", "ld", "lda", "sta", "ldi", "sti", "ldw", "ldwm", "stw",
                       "push", "pop"}

Execute(m, i) == IF IsLoad(i) THEN Loads(m, i)
                 ELSE IF IsWide(i) THEN WideArithmetic(m, i)
                 ELSE Arithmetic(m, i)
=============================================================================

-------------------------------- MODULE AyFx --------------------------------
(***************************************************************************)
(* The channel table of the AYFX sound effects engine in                   *)
(* Scripts/nextlib_ints.bas: three channels, each the address of the next  *)
(* frame of an effect and the time it has played, 16 bits in two bytes.    *)
(* InitSFX resets the table, PlaySFXSys gives an effect to a channel and   *)
(* AFXFRAME, once a frame, moves every playing channel on.  All three run  *)
(* with interrupts off (module NextLibInts), so each is one step.          *)
(*                                                                         *)
(* An address is abstracted to the frames the effect still has, the end    *)
(* mark included; 0 stands for a high byte of 11 or less: not playing.     *)
(* Byte is the number of values of a byte, 256 in the code.                *)
(***************************************************************************)
EXTENDS Integers

CONSTANTS Byte, Lengths   \* Lengths: frames, end mark included, of the effects in the bank

ASSUME ByteAssumption == Byte \in Nat /\ Byte > 3
ASSUME LengthsAssumption == Lengths \subseteq Nat \ {0}

VARIABLES
    left,     \* frames left on each channel: bytes 0 and 1 of the descriptor
    lo, hi    \* bytes 2 and 3 of the descriptor: playing time

vars == <<left, lo, hi>>

Channels == 1 .. 3      \* in the order both loops visit them
Free == {c \in Channels : left[c] = 0}

MarkByte == Byte - 3    \* $fd: the byte the end of an effect leaves in b and c

----------------------------------------------------------------------------
(* InitSFX: $00 $00 $ff $ff in every descriptor.                           *)
Reset(l, t, u) ==
    /\ l = [c \in Channels |-> 0]
    /\ t = [c \in Channels |-> Byte - 1]
    /\ u = [c \in Channels |-> Byte - 1]

Init == Reset(left, lo, hi)
InitSFX == Reset(left', lo', hi')

(* A slip of Best: only the high bytes are compared.                       *)
BestByHighByte(b, c) ==
    IF hi[c] < b.hi THEN b ELSE [ch |-> c, lo |-> lo[c], hi |-> hi[c]]

(* afxPlay0: a channel replaces the best one so far unless its low byte,   *)
(* or else its high byte, is smaller; bytes are compared on their own.     *)
Best(b, c) ==
    IF lo[c] < b.lo \/ hi[c] < b.hi THEN b
    ELSE [ch |-> c, lo |-> lo[c], hi |-> hi[c]]

Chosen == Best(Best(Best([ch |-> 0, lo |-> 0, hi |-> 0], 1), 2), 3).ch

(* PlaySFXSys: the effect goes to the chosen channel, its time to zero.    *)
PlaySFX(n) ==
    /\ left' = [left EXCEPT ![Chosen] = n]
    /\ lo' = [lo EXCEPT ![Chosen] = 0]
    /\ hi' = [hi EXCEPT ![Chosen] = 0]

Ends(c) == left[c] = 1

(* A slip of AfxFrame: silent channels are moved on too.                   *)
AfxFrameAll ==
    /\ left' = [c \in Channels |-> left[c] - 1]
    /\ lo' = [c \in Channels |-> IF Ends(c) THEN MarkByte ELSE (lo[c] + 1) % Byte]
    /\ hi' = [c \in Channels |-> IF Ends(c) THEN MarkByte
                                 ELSE IF lo[c] = Byte - 1 THEN (hi[c] + 1) % Byte
                                 ELSE hi[c]]

(* A slip of AfxFrame: the time of an effect that ends is left as it is.   *)
AfxFrameNoMark ==
    /\ left' = [c \in Channels |-> IF c \in Free THEN 0 ELSE left[c] - 1]
    /\ lo' = [c \in Channels |-> IF c \in Free \/ Ends(c) THEN lo[c]
                                 ELSE (lo[c] + 1) % Byte]
    /\ hi' = [c \in Channels |-> IF c \in Free \/ Ends(c) THEN hi[c]
                                 ELSE IF lo[c] = Byte - 1 THEN (hi[c] + 1) % Byte
                                 ELSE hi[c]]

(* AFXFRAME: a channel that reaches the end mark stores a low address and, *)
(* as "ld b,c" follows "ld b,$ff", its own port byte $fd in both bytes of  *)
(* the time; any other playing channel counts 16 bits up.                  *)
AfxFrame ==
    /\ left' = [c \in Channels |-> IF c \in Free THEN 0 ELSE left[c] - 1]
    /\ lo' = [c \in Channels |-> IF c \in Free THEN lo[c]
                                 ELSE IF Ends(c) THEN MarkByte
                                 ELSE (lo[c] + 1) % Byte]
    /\ hi' = [c \in Channels |-> IF c \in Free THEN hi[c]
                                 ELSE IF Ends(c) THEN MarkByte
                                 ELSE IF lo[c] = Byte - 1 THEN (hi[c] + 1) % Byte
                                 ELSE hi[c]]

Next ==
    \/ InitSFX
    \/ \E n \in Lengths : PlaySFX(n)
    \/ AfxFrame

Spec == Init /\ [][Next]_vars

----------------------------------------------------------------------------
(* Frames and time bytes keep their ranges.                                *)
TypeOK ==
    /\ left \in [Channels -> Nat]
    /\ lo \in [Channels -> 0 .. Byte - 1]
    /\ hi \in [Channels -> 0 .. Byte - 1]

(* "Launch the effect on a free channel": a new effect never cuts one off  *)
(* while a channel is silent.                                              *)
TakesFreeChannel == Free # {} => Chosen \in Free

(* "Without free channels is selected the longest sounding": with three    *)
(* effects playing the one that has played most frames is cut off.         *)
Age(c) == hi[c] * Byte + lo[c]
StealsLongest ==
    Free = {} => Chosen \in Channels /\ \A c \in Channels : Age(c) <= Age(Chosen)
=============================================================================

----------------------------- MODULE AyFxProofs -----------------------------
(***************************************************************************)
(* Proofs about AyFx for every width of a byte and every bank of effects.  *)
(***************************************************************************)
EXTENDS AyFx, TLAPS

(* The longest effect whose channel can still be told from a free one:     *)
(* the time it reaches, n - 1, is at most the mark byte, $fd.              *)
ShortEffects == \A n \in Lengths : n <= Byte - 2

(* A free channel has the same large byte twice; a playing one is younger  *)
(* than the frames it leaves allow.                                        *)
AgeInv ==
    \A c \in Channels :
        /\ left[c] = 0 => lo[c] \in {MarkByte, Byte - 1} /\ hi[c] = lo[c]
        /\ left[c] # 0 => hi[c] = 0 /\ lo[c] + left[c] <= Byte - 2

(* The scan over the descriptors always ends on one of the three channels: *)
(* the first one beats the empty start value.                              *)
LEMMA ChosenIsChannel == TypeOK => Chosen \in Channels
<1> USE ByteAssumption DEF TypeOK, Channels
<1>1. SUFFICES ASSUME TypeOK PROVE Chosen \in Channels
  OBVIOUS
<1>2. Best([ch |-> 0, lo |-> 0, hi |-> 0], 1) = [ch |-> 1, lo |-> lo[1], hi |-> hi[1]]
  BY <1>1 DEF Best
<1> QED BY <1>2 DEF Chosen, Best

(* The table keeps its type: InitSFX, PlaySFXSys and AFXFRAME store bytes. *)
LEMMA TypeStep == TypeOK /\ [Next]_vars => TypeOK'
<1> SUFFICES ASSUME TypeOK, [Next]_vars PROVE TypeOK'
  OBVIOUS
<1> USE ByteAssumption, LengthsAssumption
<1>1. CASE InitSFX
  BY <1>1 DEF InitSFX, Reset, TypeOK
<1>2. ASSUME NEW n \in Lengths, PlaySFX(n) PROVE TypeOK'
  BY <1>2, ChosenIsChannel DEF PlaySFX, TypeOK
<1>3. CASE AfxFrame
  <2>1. left' \in [Channels -> Nat]
    BY <1>3 DEF AfxFrame, Free, TypeOK
  <2>2. lo' \in [Channels -> 0 .. Byte - 1]
    BY <1>3 DEF AfxFrame, MarkByte, TypeOK
  <2>3. hi' \in [Channels -> 0 .. Byte - 1]
    BY <1>3 DEF AfxFrame, MarkByte, TypeOK
  <2> QED BY <2>1, <2>2, <2>3 DEF TypeOK
<1>4. CASE UNCHANGED vars
  BY <1>4 DEF vars, TypeOK
<1> QED BY <1>1, <1>2, <1>3, <1>4 DEF Next

(* The table keeps its type for effects of any length.                     *)
THEOREM TableTyped == Spec => []TypeOK
<1>1. Init => TypeOK
  BY ByteAssumption DEF Init, Reset, TypeOK
<1> QED BY <1>1, TypeStep, PTL DEF Spec

(* With short effects every step keeps free and playing channels apart.    *)
LEMMA AgeStep ==
    ASSUME ShortEffects, TypeOK, AgeInv, [Next]_vars
    PROVE  AgeInv'
<1> USE ByteAssumption, LengthsAssumption
<1>1. CASE InitSFX
  BY <1>1 DEF InitSFX, Reset, AgeInv
<1>2. ASSUME NEW n \in Lengths, PlaySFX(n) PROVE AgeInv'
  BY <1>2, ChosenIsChannel DEF PlaySFX, AgeInv, TypeOK, ShortEffects
<1>3. CASE AfxFrame
  <2> SUFFICES ASSUME NEW c \in Channels
               PROVE  /\ left'[c] = 0 => lo'[c] \in {MarkByte, Byte - 1} /\ hi'[c] = lo'[c]
                      /\ left'[c] # 0 => hi'[c] = 0 /\ lo'[c] + left'[c] <= Byte - 2
    BY DEF AgeInv
  <2>1. CASE c \in Free
    BY <1>3, <2>1 DEF AfxFrame, AgeInv, Free
  <2>2. CASE c \notin Free /\ left[c] = 1
    BY <1>3, <2>2 DEF AfxFrame, AgeInv, Ends
  <2>3. CASE c \notin Free /\ left[c] # 1
    <3>1. /\ left[c] \in Nat /\ left[c] > 1 /\ hi[c] = 0
          /\ lo[c] \in Nat /\ lo[c] + left[c] <= Byte - 2
      BY <2>3 DEF AgeInv, Free, TypeOK
    <3>2. (lo[c] + 1) % Byte = lo[c] + 1
      BY <3>1
    <3> QED BY <1>3, <2>3, <3>1, <3>2 DEF AfxFrame, Ends
  <2> QED BY <2>1, <2>2, <2>3
<1>4. CASE UNCHANGED vars
  BY <1>4 DEF vars, AgeInv
<1> QED BY <1>1, <1>2, <1>3, <1>4 DEF Next

(* The bytewise comparison then orders channels as the comment over        *)
(* PlaySFXSys says: free before playing, longer before shorter.            *)
LEMMA ChoiceIsRight ==
    ASSUME TypeOK, AgeInv
    PROVE  TakesFreeChannel /\ StealsLongest
<1> USE ByteAssumption
<1>1. \A c \in Channels : /\ left[c] \in Nat /\ lo[c] \in Nat /\ hi[c] \in Nat
                          /\ lo[c] < Byte /\ hi[c] < Byte
  BY DEF TypeOK
<1>2. 1 \in Channels /\ 2 \in Channels /\ 3 \in Channels
  BY DEF Channels
<1>3. \A c \in Channels : c = 1 \/ c = 2 \/ c = 3
  BY DEF Channels
<1>4. Best([ch |-> 0, lo |-> 0, hi |-> 0], 1) = [ch |-> 1, lo |-> lo[1], hi |-> hi[1]]
  BY <1>1, <1>2 DEF Best
<1> DEFINE second == Best([ch |-> 1, lo |-> lo[1], hi |-> hi[1]], 2).ch
<1>5. /\ second \in {1, 2}
      /\ Best([ch |-> 1, lo |-> lo[1], hi |-> hi[1]], 2)
         = [ch |-> second, lo |-> lo[second], hi |-> hi[second]]
      /\ second = 1 => lo[2] < lo[1] \/ hi[2] < hi[1]
      /\ second = 2 => lo[2] >= lo[1] /\ hi[2] >= hi[1]
  BY <1>1, <1>2 DEF Best
<1>6. /\ Chosen \in {second, 3}
      /\ Chosen = second => Chosen = 3 \/ lo[3] < lo[second] \/ hi[3] < hi[second]
      /\ Chosen = 3 => lo[3] >= lo[second] /\ hi[3] >= hi[second]
  BY <1>1, <1>2, <1>4, <1>5 DEF Chosen, Best
<1> HIDE DEF second
<1>7. TakesFreeChannel
  BY <1>1, <1>2, <1>3, <1>5, <1>6 DEF TakesFreeChannel, AgeInv, Free, MarkByte
<1>8. ASSUME Free = {} PROVE \A c \in Channels : hi[c] = 0 /\ Age(c) = lo[c]
  BY <1>1, <1>8 DEF Free, AgeInv, Age
<1>9. StealsLongest
  BY <1>1, <1>2, <1>3, <1>5, <1>6, <1>8 DEF StealsLongest
<1> QED BY <1>7, <1>9

(* While no effect in the bank is longer than 254 frames, PlaySFX does     *)
(* what its comment says: a free channel if there is one.                  *)
THEOREM FreeChannelFirst ==
    ASSUME ShortEffects
    PROVE  Spec => []TakesFreeChannel
<1>1. Init => TypeOK /\ AgeInv
  BY ByteAssumption DEF Init, Reset, TypeOK, AgeInv
<1>2. TypeOK /\ AgeInv /\ [Next]_vars => TypeOK' /\ AgeInv'
  BY TypeStep, AgeStep
<1>3. TypeOK /\ AgeInv => TakesFreeChannel
  BY ChoiceIsRight
<1> QED BY <1>1, <1>2, <1>3, PTL DEF Spec

(* And without one, the effect that has sounded longest.                   *)
THEOREM LongestIsStolen ==
    ASSUME ShortEffects
    PROVE  Spec => []StealsLongest
<1>1. Init => TypeOK /\ AgeInv
  BY ByteAssumption DEF Init, Reset, TypeOK, AgeInv
<1>2. TypeOK /\ AgeInv /\ [Next]_vars => TypeOK' /\ AgeInv'
  BY TypeStep, AgeStep
<1>3. TypeOK /\ AgeInv => StealsLongest
  BY ChoiceIsRight
<1> QED BY <1>1, <1>2, <1>3, PTL DEF Spec
=============================================================================

------------------------- MODULE NextLibCtc2Proofs -------------------------
(***************************************************************************)
(* Proofs about NextLibCtc2 for every choice of banks, effects, pages,     *)
(* registers, wrappers and sample tables.                                  *)
(***************************************************************************)
EXTENDS NextLibCtc2, TLAPS

(* Bank arithmetic stays in a byte: inc a and $50 + slot.                  *)
LEMMA BankFacts ==
    /\ \A b \in Bank : NextBank(b) \in Bank
    /\ NR(1) \in Bank /\ NR(2) \in Bank /\ INTCTL \in Bank
    /\ 255 \in Bank /\ 10 \in Bank /\ 0 \in Bank /\ \A s \in Slots : s \in Bank
    /\ 0 \in Slots /\ 1 \in Slots /\ 2 \in Slots /\ 0 \in Bit /\ 1 \in Bit
BY DEF Bank, Bit, Slots, NR, INTCTL, NextBank

(* 16-bit arithmetic, and which of the three slots an address lies in.     *)
LEMMA WordFacts ==
    /\ \A n \in Nat : n < 65536 => n % 65536 = n
    /\ \A n \in Nat : (n + 1) % 65536 \in Word
    /\ \A n \in Nat : n < 24576 => n \div 8192 \in Slots
    /\ \A n \in Nat : n < 24576 => n \in Word
    /\ \A n \in Nat : n % 8192 \in InBank
<1>1. \A n \in Nat : n < 65536 => n % 65536 = n
  OBVIOUS
<1>2. \A n \in Nat : (n + 1) % 65536 \in Word
  BY DEF Word
<1>3. \A n \in Nat : n < 24576 => n \div 8192 \in Slots
  BY DEF Slots
<1>4. \A n \in Nat : n % 8192 \in InBank
  BY DEF InBank
<1>5. \A n \in Nat : n < 24576 => n \in Word
  BY DEF Word
<1> QED BY <1>1, <1>2, <1>3, <1>4, <1>5

(* An entry of ctc_sample_table, or the zeroes before the first request.   *)
LEMMA EntryFacts ==
    ASSUME NEW n \in Samples
    PROVE  /\ Entry0(n).bank \in Bank /\ Entry0(n).start \in Nat
           /\ Entry0(n).length \in Nat
           /\ Entry0(n).start + Entry0(n).length < 24576
           /\ Entry0(n).start \in Word
<1>1. CASE n = 0
  BY <1>1, BankFacts DEF Entry0, Word
<1>2. CASE n # 0
  <2>1. n \in DOMAIN Table /\ Entry0(n) = Table[n]
    BY <1>2 DEF Entry0, Samples
  <2>2. /\ Table[n].bank \in Bank /\ Table[n].start \in Nat /\ Table[n].length \in Nat
        /\ Table[n].start + Table[n].length < 24576
    BY <2>1, ConstantsAssumption
  <2> QED BY <2>1, <2>2 DEF Word
<1> QED BY <1>1, <1>2

(* What pages slots keeps the type of hw: over one, two or all three.      *)
LEMMA HwPaged ==
    ASSUME hw \in HwType, NEW a \in Bank, NEW b \in Bank
    PROVE  /\ [hw EXCEPT !.slot[1] = a, !.slot[2] = b] \in HwType
           /\ [hw EXCEPT !.slot[0] = a, !.slot[1] = b] \in HwType
           /\ \A c \in Bank : /\ [hw EXCEPT !.slot[1] = a, !.slot[2] = b, !.sel = c] \in HwType
                             /\ [hw EXCEPT !.slot[0] = a, !.slot[1] = b, !.sel = c] \in HwType
                             /\ \A d \in Bank :
                                  [hw EXCEPT !.slot[0] = a, !.slot[1] = b, !.slot[2] = d,
                                             !.sel = c] \in HwType
<1>1. \A s \in [Slots -> Bank] : /\ [hw EXCEPT !.slot = s] \in HwType
                               /\ \A c \in Bank : [hw EXCEPT !.slot = s, !.sel = c] \in HwType
  BY DEF HwType
<1>2. hw.slot \in [Slots -> Bank]
  BY DEF HwType
<1>3. /\ [hw.slot EXCEPT ![1] = a, ![2] = b] \in [Slots -> Bank]
      /\ [hw.slot EXCEPT ![0] = a, ![1] = b] \in [Slots -> Bank]
  BY <1>2
<1>4. \A d \in Bank : [hw.slot EXCEPT ![0] = a, ![1] = b, ![2] = d] \in [Slots -> Bank]
  BY <1>2
<1>5. /\ [hw EXCEPT !.slot[1] = a, !.slot[2] = b] \in HwType
      /\ [hw EXCEPT !.slot[0] = a, !.slot[1] = b] \in HwType
  <2>1. \A s \in [Slots -> Bank] : [hw EXCEPT !.slot = s] \in HwType
    BY <1>1
  <2> QED BY <2>1, <1>3
<1>6. ASSUME NEW c \in Bank
      PROVE  /\ [hw EXCEPT !.slot[1] = a, !.slot[2] = b, !.sel = c] \in HwType
             /\ [hw EXCEPT !.slot[0] = a, !.slot[1] = b, !.sel = c] \in HwType
  <2>1. \A s \in [Slots -> Bank] : [hw EXCEPT !.slot = s, !.sel = c] \in HwType
    BY <1>1
  <2> QED BY <2>1, <1>3
<1>7. ASSUME NEW c \in Bank, NEW d \in Bank
      PROVE  [hw EXCEPT !.slot[0] = a, !.slot[1] = b, !.slot[2] = d, !.sel = c] \in HwType
  <2>1. \A s \in [Slots -> Bank] : [hw EXCEPT !.slot = s, !.sel = c] \in HwType
    BY <1>1
  <2>2. [hw.slot EXCEPT ![0] = a, ![1] = b, ![2] = d] \in [Slots -> Bank]
    BY <1>4
  <2> QED BY <2>1, <2>2
<1> QED BY <1>5, <1>6, <1>7

(* One store of the program into the cells of ram.                         *)
LEMMA RamStored ==
    ASSUME ram \in RamType
    PROVE  /\ \A on \in Bit : [ram EXCEPT !.sfxOn = on] \in RamType
           /\ \A m \in 0 .. 2 : [ram EXCEPT !.music = m] \in RamType
           /\ \A n \in Effects : [ram EXCEPT !.mail = n] \in RamType
           /\ \A n \in DOMAIN Table : [ram EXCEPT !.request = n] \in RamType
           /\ [ram EXCEPT !.sfxOn = 0, !.music = 0] \in RamType
           /\ \A t \in TuneBanks : [ram EXCEPT !.musicBank = t, !.music = 3] \in RamType
<1>1. /\ \A on \in Bit : [ram EXCEPT !.sfxOn = on] \in RamType
      /\ \A m \in 0 .. 3 : [ram EXCEPT !.music = m] \in RamType
      /\ \A n \in Effects : [ram EXCEPT !.mail = n] \in RamType
      /\ \A n \in Samples : [ram EXCEPT !.request = n] \in RamType
  BY DEF RamType
<1>2. \A on \in Bit, m \in 0 .. 3 : [ram EXCEPT !.sfxOn = on, !.music = m] \in RamType
  BY DEF RamType
<1>3. \A t \in TuneBanks, m \in 0 .. 3 :
         [ram EXCEPT !.musicBank = t, !.music = m] \in RamType
  BY DEF RamType
<1>5. DOMAIN Table \subseteq Samples
  BY DEF Samples
<1>4. 0 \in Bit /\ 0 \in 0 .. 3 /\ 3 \in 0 .. 3 /\ 0 .. 2 \subseteq 0 .. 3
  BY DEF Bit
<1> QED BY <1>1, <1>2, <1>3, <1>4, <1>5

(* A table entry ends inside the three slots, and ctc0 reads no byte       *)
(* behind it: nothing stores to the cells between the test of Sounding and *)
(* the load.                                                               *)
InReach ==
    /\ smp.start + smp.length < 24576
    /\ ipc = "byte" => smp.offset < 24576

LEMMA ReachStep ==
    ASSUME TypeOK, InReach, [Next]_vars
    PROVE  InReach'
<1>1. smp \in SmpType /\ ram \in RamType
  BY DEF TypeOK
<1>2. CASE Main \/ LineInterrupt \/ CtcInterrupt
  <2>1. smp' = smp /\ ipc' # "byte"
    BY <1>2 DEF Main, LineInterrupt, CtcInterrupt, InitSFX, InitMusic, SetUpCTC, SetUpIM,
       DisableIM, NewMusic, Store, Page, Select, ReadSelected, At
  <2> QED BY <2>1 DEF InReach
<1>3. CASE ISR
  <2>1. CASE TakeSample
    <3>1. ram.request \in Samples
      BY <1>1 DEF RamType
    <3>2. /\ smp'.start = Entry0(ram.request).start
          /\ smp'.length = Entry0(ram.request).length /\ ipc' = "exit"
      BY <2>1 DEF TakeSample, Handler
    <3>3. Entry0(ram.request).start + Entry0(ram.request).length < 24576
      BY ONLY <3>1, EntryFacts
    <3> QED BY <3>2, <3>3 DEF InReach
  <2>2. CASE ~TakeSample
    <3>1. smp' = smp /\ ipc' # "byte"
      BY <1>3, <2>2 DEF ISR, Entry, NoMail, Launch, LaunchEnd, NoEffects, EffectsFrame,
         EffectsEnd, NoMusic, MusicFrame, MusicEnd, NoSample, Exit, Handler
    <3> QED BY <3>1 DEF InReach
  <2> QED BY <2>1, <2>2
<1>4. CASE CTC0
  <2>1. CASE PageSample
    <3>1. smp' = smp /\ Sounding
      BY <2>1 DEF PageSample
    <3>2. smp.start \in Nat /\ smp.length \in Nat /\ smp.offset \in Nat
      BY <1>1 DEF SmpType, Word
    <3>3. smp.offset < 24576
      BY <3>1, <3>2, WordFacts DEF InReach, Sounding
    <3> QED BY <3>1, <3>3 DEF InReach
  <2>2. CASE SoundByte
    <3>1. smp'.start = smp.start /\ smp'.length = smp.length /\ ipc' = "ctcEnd"
      BY <1>1, <2>2 DEF SoundByte, Handler, SmpType
    <3> QED BY <3>1 DEF InReach
  <2>3. CASE Silent \/ CtcEnd
    <3>1. smp' = smp /\ ipc' # "byte"
      BY <2>3 DEF Silent, CtcEnd, Handler
    <3> QED BY <3>1 DEF InReach
  <2> QED BY <1>4, <2>1, <2>2, <2>3 DEF CTC0
<1>5. CASE UNCHANGED vars
  BY <1>5 DEF vars, InReach
<1> QED BY <1>2, <1>3, <1>4, <1>5 DEF Next

(* Main, both interrupts, ._ISR and ctc0 keep every variable in its type;  *)
(* among it that ctc0 never reads a byte through a fourth slot, whatever   *)
(* the table says, and that the offset stays 16 bits wide.                 *)
THEOREM TypeCorrect == Spec => []TypeOK
<1>1. Init => TypeOK
  <2> SUFFICES ASSUME Init PROVE TypeOK
    OBVIOUS
  <2> USE BankFacts, ConstantsAssumption
  <2>1. hw \in HwType /\ own \in [Slots -> Bank] /\ ownSel \in Bank /\ want \in Bit
    BY DEF Init, HwType, Bit
  <2>2. smp \in SmpType /\ ram \in RamType
    <3>1. 0 \in Samples /\ 0 \in Word /\ 0 \in Nat
      BY DEF Samples, Word
    <3> QED BY <3>1 DEF Init, SmpType
  <2>3. cell \in CellType
    BY DEF Init, CellType
  <2> QED BY <2>1, <2>2, <2>3 DEF Init, TypeOK
<1>2. TypeOK /\ InReach /\ [Next]_vars => TypeOK'
  <2> SUFFICES ASSUME TypeOK, InReach, [Next]_vars PROVE TypeOK'
    OBVIOUS
  <2>hw. hw \in HwType
    BY DEF TypeOK
  <2>ram. ram \in RamType
    BY DEF TypeOK
  <2>smp. smp \in SmpType
    BY DEF TypeOK
  <2>cell. cell \in CellType
    BY DEF TypeOK
  <2>1. ASSUME NEW b \in SfxBanks, InitSFX(b) PROVE TypeOK'
    <3>1. hw' \in HwType
      BY <2>hw, <2>1, BankFacts DEF InitSFX, HwType
    <3>2. ram' \in RamType
      BY <2>ram, <2>1 DEF InitSFX, RamType
    <3> QED BY <2>1, <3>1, <3>2, BankFacts DEF TypeOK, InitSFX, At, Then
  <2>2. ASSUME NEW p \in PlayerBanks, NEW t \in TuneBanks, InitMusic(p, t)
        PROVE TypeOK'
    <3>1. hw' \in HwType
      BY <2>hw, <2>2, BankFacts DEF InitMusic, HwType
    <3>2. ram' \in RamType
      BY <2>ram, <2>2 DEF InitMusic, RamType
    <3>3. cell' \in CellType
      BY <2>hw, <2>cell, <2>2 DEF InitMusic, CellType, HwType
    <3> QED BY <2>2, <3>1, <3>2, <3>3, BankFacts DEF TypeOK, InitMusic, At, Then
  <2>3. CASE SetUpCTC
    <3>1. hw' \in HwType
      BY <2>hw, <2>3, BankFacts DEF SetUpCTC, HwType
    <3> QED BY <2>3, <3>1, BankFacts DEF TypeOK, SetUpCTC, At, Then
  <2>4. CASE SetUpIM
    <3>1. hw' \in HwType
      BY <2>hw, <2>4, BankFacts DEF SetUpIM, HwType
    <3> QED BY <2>4, <3>1, BankFacts DEF TypeOK, SetUpIM, At, Then
  <2>5. CASE DisableIM
    <3>1. hw' \in HwType
      BY <2>hw, <2>5, BankFacts DEF DisableIM, HwType
    <3>2. ram' \in RamType
      BY <2>5, RamStored, BankFacts, <2>ram DEF DisableIM
    <3> QED BY <2>5, <3>1, <3>2, BankFacts DEF TypeOK, DisableIM, At
  <2>6. ASSUME NEW t \in TuneBanks, NewMusic(t) PROVE TypeOK'
    <3>1. hw' \in HwType
      BY <2>hw, <2>6, BankFacts DEF NewMusic, HwType
    <3>2. ram' \in RamType
      BY <2>6, RamStored, <2>ram DEF NewMusic
    <3> QED BY <2>6, <3>1, <3>2, BankFacts DEF TypeOK, NewMusic, At
  <2>7. CASE Store
    <3>1. ram' \in RamType
      BY <2>7, RamStored, <2>ram DEF Store
    <3> QED BY <2>7, <3>1 DEF TypeOK, Store, At, history
  <2>8. ASSUME NEW pg \in Pages, Page(pg[1], pg[2]) PROVE TypeOK'
    <3>1. pg[1] \in Slots /\ pg[2] \in Bank
      BY ConstantsAssumption
    <3>2. hw' \in HwType
      BY <2>8, <3>1, <2>hw DEF Page, HwType
    <3>3. own' \in [Slots -> Bank]
      BY <2>8, <3>1 DEF Page, TypeOK
    <3> QED BY <2>8, <3>2, <3>3 DEF TypeOK, Page
  <2>9. ASSUME NEW r \in Regs, Select(r) PROVE TypeOK'
    <3>1. r \in Bank
      BY ConstantsAssumption
    <3>2. hw' \in HwType
      BY <2>9, <3>1, <2>hw DEF Select, HwType
    <3> QED BY <2>9, <3>1, <3>2 DEF TypeOK, Select, At
  <2>10. CASE ReadSelected
    BY <2>10 DEF ReadSelected, TypeOK, At, history
  <2>11. CASE LineInterrupt
    <3>1. hw' \in HwType
      BY <2>11, <2>hw, BankFacts DEF LineInterrupt, HwType
    <3> QED BY <2>11, <3>1 DEF LineInterrupt, TypeOK, history
  <2>12. CASE CtcInterrupt
    <3>1. hw' \in HwType
      BY <2>12, <2>hw, BankFacts DEF CtcInterrupt, HwType
    <3> QED BY <2>12, <3>1 DEF CtcInterrupt, TypeOK, history
  <2>13. CASE Entry
    <3>1. cell' \in CellType
      BY <2>13, <2>hw, <2>cell DEF Entry, HwType, CellType
    <3> QED BY <2>13, <3>1 DEF Entry, TypeOK, Handler
  <2>14. CASE NoMail \/ NoEffects \/ NoMusic \/ NoSample
    BY <2>14 DEF NoMail, NoEffects, NoMusic, NoSample, TypeOK, Handler
  <2>15. EffectsPaged \in HwType
    <3>1. ram.sfxBank \in Bank /\ NextBank(ram.sfxBank) \in Bank
      BY <2>ram, BankFacts, ConstantsAssumption DEF RamType
    <3> QED BY <3>1, <2>hw, BankFacts, HwPaged DEF EffectsPaged
  <2>16. Slots12 \in Bank \X Bank
    BY <2>hw, BankFacts DEF Slots12, HwType
  <2>17. ASSUME NEW c \in Bank \X Bank PROVE PagedBack(c) \in HwType
    <3>1. c[1] \in Bank /\ c[2] \in Bank
      OBVIOUS
    <3> QED BY <3>1, <2>hw, HwPaged, BankFacts DEF PagedBack
  <2>18. CASE Launch
    <3>1. ram' \in RamType
      BY <2>18, <2>ram DEF Launch, RamType
    <3>2. cell' \in CellType
      BY <2>18, <2>16, <2>cell DEF Launch, CellType
    <3> QED BY <2>18, <2>15, <3>1, <3>2 DEF Launch, TypeOK, Handler
  <2>19. CASE LaunchEnd
    <3>1. cell.launch \in Bank \X Bank
      BY <2>cell DEF CellType
    <3> QED BY <2>19, <2>17, <3>1 DEF LaunchEnd, TypeOK, Handler
  <2>20. CASE EffectsFrame
    <3>1. cell' \in CellType
      BY <2>20, <2>16, <2>cell DEF EffectsFrame, CellType
    <3> QED BY <2>20, <2>15, <3>1 DEF EffectsFrame, TypeOK, Handler
  <2>21. CASE EffectsEnd
    <3>1. cell.frame \in Bank \X Bank
      BY <2>cell DEF CellType
    <3> QED BY <2>21, <2>17, <3>1 DEF EffectsEnd, TypeOK, Handler
  <2>22. CASE MusicFrame
    <3>1. /\ ram.musicBank \in Bank /\ NextBank(ram.musicBank) \in Bank
          /\ ram.playerBank \in Bank
      BY <2>ram, BankFacts, ConstantsAssumption DEF RamType
    <3>2. hw' \in HwType
      BY <2>22, <3>1, <2>hw, BankFacts, HwPaged DEF MusicFrame
    <3>3. cell' \in CellType
      BY <2>22, <2>hw, <2>cell DEF MusicFrame, CellType, HwType
    <3> QED BY <2>22, <3>2, <3>3 DEF MusicFrame, TypeOK, Handler
  <2>23. CASE MusicEnd
    <3>1. hw' \in HwType
      BY <2>23, <2>hw, <2>cell DEF MusicEnd, HwType, CellType
    <3>2. ram' \in RamType
      BY <2>23, <2>ram DEF MusicEnd, RamType
    <3> QED BY <2>23, <3>1, <3>2 DEF MusicEnd, TypeOK, Handler
  <2>24. CASE TakeSample
    <3>1. ram.request \in Samples
      BY <2>ram DEF RamType
    <3>2. /\ Entry0(ram.request).bank \in Bank /\ Entry0(ram.request).start \in Word
          /\ Entry0(ram.request).start \in Nat /\ Entry0(ram.request).length \in Nat
      BY <3>1, EntryFacts
    <3>5. smp' \in SmpType
      BY <2>24, <3>1, <3>2 DEF TakeSample, SmpType
    <3>3. ram' \in RamType
      BY <2>24, <2>ram DEF TakeSample, RamType, Samples
    <3>4. heard' \in Seq(Bank \X InBank)
      BY <2>24 DEF TakeSample
    <3> QED BY <2>24, <3>3, <3>4, <3>5 DEF TakeSample, TypeOK, Handler
  <2>25. CASE Exit
    <3>0. /\ cell.isrSel \in Bank
          /\ (IF hw.vector = "raster_line" THEN 1 ELSE hw.iff) \in Bit
      BY <2>hw, <2>cell, BankFacts DEF HwType, CellType
    <3>1. hw' \in HwType
      BY <2>25, <2>hw, <3>0 DEF Exit, HwType
    <3> QED BY <2>25, <3>1 DEF Exit, TypeOK, Handler
  <2>26. CASE Silent
    <3>1. cell' \in CellType
      BY <2>26, <2>hw, <2>cell DEF Silent, HwType, CellType
    <3> QED BY <2>26, <3>1 DEF Silent, TypeOK, Handler
  <2>27. CASE PageSample
    <3>1. smp.bank \in Bank /\ NextBank(smp.bank) \in Bank
      BY <2>smp, BankFacts DEF SmpType
    <3>2. hw' \in HwType
      BY <2>27, <3>1, <2>hw, BankFacts, HwPaged DEF PageSample
    <3>4. /\ hw.sel \in Bank /\ <<hw.slot[0], hw.slot[1]>> \in Bank \X Bank
      BY <2>hw, BankFacts DEF HwType
    <3>3. cell' \in CellType
      BY <2>27, <3>4, <2>cell DEF PageSample, CellType
    <3> QED BY <2>27, <3>2, <3>3 DEF PageSample, TypeOK, Handler
  <2>28. CASE SoundByte
    <3>1. smp.offset \in Nat /\ smp.offset < 24576
      BY <2>28, <2>smp DEF SoundByte, Handler, InReach, SmpType, Word
    <3>2. smp.offset \div 8192 \in Slots /\ smp.offset % 8192 \in InBank
      BY <3>1, WordFacts
    <3>3. hw.slot[smp.offset \div 8192] \in Bank
      BY <2>hw, <3>2 DEF HwType
    <3>4. heard' \in Seq(Bank \X InBank)
      BY <2>28, <3>2, <3>3 DEF SoundByte, TypeOK
    <3>5. (smp.offset + 1) % 65536 \in Word
      BY <3>1, WordFacts
    <3>6. smp' \in SmpType
      BY <2>28, <2>smp, <3>5 DEF SoundByte, SmpType
    <3>7. cell.sound[1] \in Bank /\ cell.sound[2] \in Bank
      BY <2>cell DEF CellType
    <3>8. hw' \in HwType
      <4>1. hw' = [hw EXCEPT !.slot[0] = cell.sound[1], !.slot[1] = cell.sound[2]]
        BY <2>28 DEF SoundByte
      <4> QED BY <4>1, <2>hw, <3>7, HwPaged
    <3> QED BY <2>28, <3>4, <3>6, <3>8 DEF SoundByte, TypeOK, Handler
  <2>29. CASE CtcEnd
    <3>1. hw' \in HwType
      BY <2>29, <2>hw, <2>cell, BankFacts DEF CtcEnd, HwType, CellType
    <3> QED BY <2>29, <3>1 DEF CtcEnd, TypeOK, Handler
  <2>30. CASE UNCHANGED vars BY <2>30 DEF vars, TypeOK
  <2>31. CASE Main
    BY <2>31, <2>1, <2>2, <2>3, <2>4, <2>5, <2>6, <2>7, <2>8, <2>9, <2>10 DEF Main
  <2>32. CASE ISR
    BY <2>32, <2>13, <2>14, <2>18, <2>19, <2>20, <2>21, <2>22, <2>23, <2>24, <2>25 DEF ISR
  <2>33. CASE CTC0
    BY <2>33, <2>26, <2>27, <2>28, <2>29 DEF CTC0
  <2> QED
    BY <2>11, <2>12, <2>30, <2>31, <2>32, <2>33 DEF Next
<1>3. Init => InReach
  BY DEF Init, InReach
<1>4. TypeOK /\ InReach /\ [Next]_vars => InReach'
  BY ReachStep
<1> QED BY <1>1, <1>2, <1>3, <1>4, PTL DEF Spec

----------------------------------------------------------------------------
(* Where the paging and the register select the program left are kept      *)
(* while a handler runs: in the hardware itself or in the operands of the  *)
(* routine under way, each routine its own.                                *)
KeptInv ==
    /\ ipc \in {"idle", "entry", "ctc0"} => hw.slot = own /\ hw.sel = ownSel
    /\ ipc \in {"mail", "effects", "music", "sample", "exit"} =>
           hw.slot = own /\ cell.isrSel = ownSel
    /\ ipc = "launch" => /\ hw.slot[0] = own[0] /\ cell.isrSel = ownSel
                         /\ cell.launch = <<own[1], own[2]>>
    /\ ipc = "frame" => /\ hw.slot[0] = own[0] /\ cell.isrSel = ownSel
                        /\ cell.frame = <<own[1], own[2]>>
    /\ ipc = "player" => cell.exit = own /\ cell.isrSel = ownSel
    /\ ipc = "byte" => /\ hw.slot[2] = own[2] /\ cell.ctcSel = ownSel
                       /\ cell.sound = <<own[0], own[1]>>
    /\ ipc = "ctcEnd" => hw.slot = own /\ cell.ctcSel = ownSel

(* No step of the program, ._ISR or ctc0 loses them.                       *)
LEMMA KeptStep ==
    ASSUME TypeOK, KeptInv, [Next]_vars
    PROVE  KeptInv'
<1>hw. hw \in HwType
  BY DEF TypeOK
<1>cell. cell \in CellType
  BY DEF TypeOK
<1>own. own \in [Slots -> Bank]
  BY DEF TypeOK
<1>slot. hw.slot \in [Slots -> Bank]
  BY <1>hw DEF HwType
<1>1. ASSUME NEW b \in SfxBanks, InitSFX(b) PROVE KeptInv'
  BY <1>1, <1>hw DEF InitSFX, HwType, At, KeptInv
<1>2. ASSUME NEW p \in PlayerBanks, NEW t \in TuneBanks, InitMusic(p, t)
      PROVE KeptInv'
  BY <1>2, <1>hw DEF InitMusic, HwType, At, KeptInv
<1>3. CASE SetUpCTC BY <1>3, <1>hw DEF SetUpCTC, HwType, At, KeptInv
<1>4. CASE SetUpIM BY <1>4, <1>hw DEF SetUpIM, HwType, At, KeptInv
<1>5. CASE DisableIM BY <1>5, <1>hw DEF DisableIM, HwType, At, KeptInv
<1>6. ASSUME NEW t \in TuneBanks, NewMusic(t) PROVE KeptInv'
  BY <1>6, <1>hw DEF NewMusic, HwType, At, KeptInv
<1>7. CASE Store BY <1>7 DEF Store, At, KeptInv, history
<1>8. ASSUME NEW pg \in Pages, Page(pg[1], pg[2]) PROVE KeptInv'
  <2>1. /\ hw'.slot = [hw.slot EXCEPT ![pg[1]] = pg[2]] /\ hw'.sel = hw.sel
        /\ own' = [own EXCEPT ![pg[1]] = pg[2]] /\ ipc = "idle" /\ ipc' = "idle"
        /\ ownSel' = ownSel
    BY <1>8, <1>hw DEF Page, HwType, At
  <2> QED BY <2>1 DEF KeptInv
<1>9. ASSUME NEW r \in Regs, Select(r) PROVE KeptInv'
  BY <1>9, <1>hw DEF Select, HwType, At, KeptInv
<1>10. CASE ReadSelected BY <1>10 DEF ReadSelected, At, KeptInv, history
<1>11. CASE LineInterrupt BY <1>11, <1>hw DEF LineInterrupt, HwType, KeptInv, history
<1>12. CASE CtcInterrupt BY <1>12, <1>hw DEF CtcInterrupt, HwType, KeptInv, history
<1>13. CASE Entry BY <1>13, <1>cell DEF Entry, Handler, CellType, KeptInv
<1>14. CASE NoMail \/ NoEffects \/ NoMusic \/ NoSample
  BY <1>14 DEF NoMail, NoEffects, NoMusic, NoSample, Handler, KeptInv
<1>15. EffectsPaged.slot[0] = hw.slot[0]
  BY <1>hw, <1>slot DEF EffectsPaged, HwType, Slots
<1>16. ASSUME NEW c, c = <<own[1], own[2]>>, hw.slot[0] = own[0]
       PROVE  PagedBack(c).slot = own
  <2>1. c[1] = own[1] /\ c[2] = own[2]
    BY <1>16
  <2>2. PagedBack(c).slot = [hw.slot EXCEPT ![1] = c[1], ![2] = c[2]]
    BY <1>hw DEF PagedBack, HwType
  <2> QED BY <2>1, <2>2, <1>16, <1>slot, <1>own DEF Slots
<1>17. CASE Launch
  <2>1. cell'.launch = Slots12 /\ cell'.isrSel = cell.isrSel /\ hw' = EffectsPaged
    BY <1>17, <1>cell DEF Launch, CellType
  <2>2. hw.slot = own /\ cell.isrSel = ownSel
    BY <1>17 DEF Launch, Handler, KeptInv
  <2> QED BY <1>15, <1>17, <2>1, <2>2 DEF Launch, Handler, KeptInv, Slots12
<1>18. CASE LaunchEnd
  <2>1. hw'.slot = own
    BY <1>16, <1>18 DEF LaunchEnd, Handler, KeptInv
  <2> QED BY <1>18, <2>1 DEF LaunchEnd, Handler, KeptInv
<1>19. CASE EffectsFrame
  <2>1. cell'.frame = Slots12 /\ cell'.isrSel = cell.isrSel /\ hw' = EffectsPaged
    BY <1>19, <1>cell DEF EffectsFrame, CellType
  <2>2. hw.slot = own /\ cell.isrSel = ownSel
    BY <1>19 DEF EffectsFrame, Handler, KeptInv
  <2> QED BY <1>15, <1>19, <2>1, <2>2 DEF EffectsFrame, Handler, KeptInv, Slots12
<1>20. CASE EffectsEnd
  <2>1. hw'.slot = own
    BY <1>16, <1>20 DEF EffectsEnd, Handler, KeptInv
  <2> QED BY <1>20, <2>1 DEF EffectsEnd, Handler, KeptInv
<1>21. CASE MusicFrame
  BY <1>21, <1>cell DEF MusicFrame, Handler, CellType, KeptInv
<1>22. CASE MusicEnd
  BY <1>22, <1>hw DEF MusicEnd, Handler, HwType, KeptInv
<1>23. CASE TakeSample BY <1>23 DEF TakeSample, Handler, KeptInv
<1>24. CASE Exit BY <1>24, <1>hw DEF Exit, Handler, HwType, KeptInv
<1>25. CASE Silent BY <1>25, <1>cell DEF Silent, Handler, CellType, KeptInv
<1>26. CASE PageSample
  <2>1. cell'.ctcSel = hw.sel /\ cell'.sound = <<hw.slot[0], hw.slot[1]>>
    BY <1>26, <1>cell DEF PageSample, CellType
  <2>2. hw'.slot[2] = hw.slot[2]
    BY <1>26, <1>hw, <1>slot DEF PageSample, HwType, Slots
  <2>3. hw.slot = own /\ hw.sel = ownSel
    BY <1>26 DEF PageSample, Handler, KeptInv
  <2> QED BY <1>26, <2>1, <2>2, <2>3 DEF PageSample, Handler, KeptInv
<1>27. CASE SoundByte
  <2>1. hw.slot[2] = own[2] /\ cell.sound[1] = own[0] /\ cell.sound[2] = own[1]
    BY <1>27 DEF SoundByte, Handler, KeptInv
  <2>2. hw'.slot = [hw.slot EXCEPT ![0] = cell.sound[1], ![1] = cell.sound[2]]
    BY <1>27, <1>hw DEF SoundByte, HwType
  <2>3. hw'.slot = own
    BY <2>1, <2>2, <1>slot, <1>own DEF Slots
  <2> QED BY <1>27, <2>3 DEF SoundByte, Handler, KeptInv
<1>28. CASE CtcEnd BY <1>28, <1>hw DEF CtcEnd, Handler, HwType, KeptInv
<1>29. CASE UNCHANGED vars BY <1>29 DEF vars, KeptInv
<1>30. CASE Main
  BY <1>30, <1>1, <1>2, <1>3, <1>4, <1>5, <1>6, <1>7, <1>8, <1>9, <1>10 DEF Main
<1>31. CASE ISR
  BY <1>31, <1>13, <1>14, <1>17, <1>18, <1>19, <1>20, <1>21, <1>22, <1>23, <1>24 DEF ISR
<1>32. CASE CTC0
  BY <1>32, <1>25, <1>26, <1>27, <1>28 DEF CTC0
<1> QED BY <1>11, <1>12, <1>29, <1>30, <1>31, <1>32 DEF Next

(* The program never sees which handler ran: at every one of its steps the *)
(* slots and the register select are as it left them.                      *)
THEOREM HandlersTransparent == Spec => []Transparent
<1>1. Init => KeptInv
  BY DEF Init, KeptInv
<1>2. TypeOK /\ KeptInv /\ [Next]_vars => KeptInv'
  BY KeptStep
<1>3. KeptInv => Transparent
  BY DEF KeptInv, Transparent
<1> QED BY <1>1, <1>2, <1>3, TypeCorrect, PTL DEF Spec

(* The cells of PlayCTC hold one entry of the table, the offset stands     *)
(* behind what was heard of it, ctc0 reads a byte only with the entry's    *)
(* two banks paged; and what was heard of a sample that fits in its two    *)
(* banks is its bytes in order.                                            *)
Fits(n) == Entry0(n).start + Entry0(n).length < 16384
ByteOf(n, o) == <<(Entry0(n).bank + o \div 8192) % 256, o % 8192>>
SampleInv ==
    /\ smp.bank = Entry0(smp.number).bank /\ smp.start = Entry0(smp.number).start
    /\ smp.length = Entry0(smp.number).length
    /\ smp.offset = smp.start + Len(heard)
    /\ Len(heard) <= smp.length + 1
    /\ ipc = "byte" => /\ Len(heard) <= smp.length
                       /\ hw.slot[0] = smp.bank /\ hw.slot[1] = NextBank(smp.bank)
    /\ Fits(smp.number) =>
           \A i \in 1 .. Len(heard) : heard[i] = ByteOf(smp.number, smp.start + i - 1)

(* No step of the program, ._ISR or ctc0 breaks that.                      *)
LEMMA SampleStep ==
    ASSUME TypeOK, SampleInv, [Next]_vars
    PROVE  SampleInv'
<1>types. hw \in HwType /\ ram \in RamType /\ smp \in SmpType
  BY DEF TypeOK
<1>fields. /\ smp.number \in Samples /\ smp.bank \in Bank /\ smp.start \in Nat
           /\ smp.length \in Nat /\ smp.offset \in Nat /\ smp.offset < 65536
  BY <1>types DEF SmpType, Word
<1>heard. heard \in Seq(Bank \X InBank) /\ Len(heard) \in Nat
  BY DEF TypeOK
<1>entry. smp.start + smp.length < 24576
  BY <1>fields, EntryFacts DEF SampleInv
<1>slot. hw.slot \in [Slots -> Bank]
  BY <1>types DEF HwType
<1>1. ASSUME smp' = smp, heard' = heard, ipc' # "byte" PROVE SampleInv'
  BY <1>1 DEF SampleInv
<1>2. CASE Main \/ LineInterrupt \/ CtcInterrupt
  <2>1. smp' = smp /\ heard' = heard /\ ipc' # "byte"
    BY <1>2 DEF Main, LineInterrupt, CtcInterrupt, InitSFX, InitMusic, SetUpCTC, SetUpIM,
       DisableIM, NewMusic, Store, Page, Select, ReadSelected, At, history
  <2> QED BY <2>1, <1>1
<1>3. CASE TakeSample
  <2>1. ram.request \in Samples
    BY <1>types DEF RamType
  <2>2. /\ smp' = [number |-> ram.request, bank |-> Entry0(ram.request).bank,
                   start |-> Entry0(ram.request).start,
                   length |-> Entry0(ram.request).length,
                   offset |-> Entry0(ram.request).start]
        /\ heard' = << >> /\ ipc' = "exit"
    BY <1>3 DEF TakeSample, Handler
  <2>3. Len(heard') = 0
    BY <2>2
  <2>4. Entry0(ram.request).start \in Nat /\ Entry0(ram.request).length \in Nat
    BY <2>1, EntryFacts
  <2> QED BY <2>2, <2>3, <2>4 DEF SampleInv
<1>4. CASE ISR /\ ~TakeSample
  <2>1. smp' = smp /\ heard' = heard /\ ipc' # "byte"
    BY <1>4 DEF ISR, Entry, NoMail, Launch, LaunchEnd, NoEffects, EffectsFrame, EffectsEnd,
       NoMusic, MusicFrame, MusicEnd, NoSample, Exit, Handler
  <2> QED BY <2>1, <1>1
<1>5. CASE Silent \/ CtcEnd
  <2>1. smp' = smp /\ heard' = heard /\ ipc' # "byte"
    BY <1>5 DEF Silent, CtcEnd, Handler
  <2> QED BY <2>1, <1>1
<1>6. CASE PageSample
  <2>1. smp' = smp /\ heard' = heard /\ Sounding
    BY <1>6 DEF PageSample
  <2>2. smp.start + smp.length >= smp.offset
    BY <2>1, <1>fields, <1>entry, WordFacts DEF Sounding
  <2>3. Len(heard) <= smp.length
    BY <2>2, <1>fields, <1>heard DEF SampleInv
  <2>4. hw'.slot = [hw.slot EXCEPT ![0] = smp.bank, ![1] = NextBank(smp.bank)]
    BY <1>6, <1>types DEF PageSample, HwType
  <2>5. hw'.slot[0] = smp.bank /\ hw'.slot[1] = NextBank(smp.bank)
    BY <2>4, <1>slot DEF Slots
  <2> QED BY <2>1, <2>3, <2>5 DEF SampleInv
<1>7. CASE SoundByte
  <2> DEFINE byte == <<hw.slot[smp.offset \div 8192], smp.offset % 8192>>
  <2>1. /\ smp' = [smp EXCEPT !.offset = (@ + 1) % 65536]
        /\ heard' = Append(heard, byte) /\ ipc = "byte" /\ ipc' = "ctcEnd"
    BY <1>7 DEF SoundByte, Handler
  <2>2. /\ smp'.number = smp.number /\ smp'.bank = smp.bank /\ smp'.start = smp.start
        /\ smp'.length = smp.length /\ smp'.offset = (smp.offset + 1) % 65536
    BY <2>1, <1>types DEF SmpType
  <2>3. Len(heard') = Len(heard) + 1
    BY <2>1, <1>heard
  <2>4. smp.offset = smp.start + Len(heard) /\ Len(heard) <= smp.length
    BY <2>1 DEF SampleInv
  <2>5. smp'.offset = smp.offset + 1
    <3>1. smp.offset + 1 \in Nat /\ smp.offset + 1 < 65536
      BY <2>4, <1>fields, <1>heard, <1>entry
    <3> QED BY <3>1, <2>2, WordFacts
  <2>6. smp'.offset = smp'.start + Len(heard') /\ Len(heard') <= smp'.length + 1
    <3>1. /\ smp.offset + 1 = smp.start + (Len(heard) + 1)
          /\ Len(heard) + 1 <= smp.length + 1
      BY <2>4, <1>fields, <1>heard
    <3> QED BY <2>2, <2>3, <2>5, <3>1
  <2>7. ASSUME Fits(smp.number)
        PROVE  byte = ByteOf(smp.number, smp.start + Len(heard))
    <3>1. smp.offset < 16384
      BY <2>4, <2>7, <1>fields, <1>heard DEF Fits, SampleInv
    <3>2. hw.slot[0] = smp.bank /\ hw.slot[1] = (smp.bank + 1) % 256
      BY <2>1 DEF SampleInv, NextBank
    <3>3. smp.bank = (smp.bank + 0) % 256
      BY <1>fields DEF Bank
    <3>4. smp.offset \div 8192 = 0 \/ smp.offset \div 8192 = 1
      BY <3>1, <1>fields
    <3>5. hw.slot[smp.offset \div 8192] = (smp.bank + smp.offset \div 8192) % 256
      BY <3>2, <3>3, <3>4
    <3>6. Entry0(smp.number).bank = smp.bank
      BY DEF SampleInv
    <3> QED BY <3>5, <3>6, <2>4 DEF ByteOf
  <2>8. ASSUME Fits(smp.number), NEW i \in 1 .. Len(heard')
        PROVE  heard'[i] = ByteOf(smp.number, smp.start + i - 1)
    <3>1. CASE i = Len(heard) + 1
      <4>1. heard'[i] = byte
        BY <2>1, <3>1, <1>heard
      <4>2. smp.start + i - 1 = smp.start + Len(heard)
        BY <3>1, <1>fields, <1>heard
      <4> QED BY <4>1, <4>2, <2>7, <2>8
    <3>2. CASE i # Len(heard) + 1
      <4>1. i \in 1 .. Len(heard)
        BY <2>3, <3>2, <1>heard
      <4>2. heard'[i] = heard[i]
        BY <2>1, <4>1, <1>heard
      <4> QED BY <4>1, <4>2, <2>8 DEF SampleInv
    <3> QED BY <3>1, <3>2
  <2>9. Fits(smp'.number) =>
           \A i \in 1 .. Len(heard') : heard'[i] = ByteOf(smp'.number, smp'.start + i - 1)
    BY <2>2, <2>8
  <2>10. /\ smp'.bank = Entry0(smp'.number).bank /\ smp'.start = Entry0(smp'.number).start
         /\ smp'.length = Entry0(smp'.number).length
    BY <2>2 DEF SampleInv
  <2>11. ipc' # "byte"
    BY <2>1
  <2> HIDE DEF byte
  <2> QED BY <2>6, <2>9, <2>10, <2>11 DEF SampleInv
<1>8. CASE UNCHANGED vars
  BY <1>8 DEF vars, SampleInv
<1>9. CASE CTC0
  BY <1>9, <1>5, <1>6, <1>7 DEF CTC0
<1> QED BY <1>2, <1>3, <1>4, <1>8, <1>9 DEF Next

(* Any sample of any table that fits in its two banks is heard in order,   *)
(* whatever the other entries are.                                         *)
THEOREM SampleHeardInOrder == Spec => [](Fits(smp.number) => SampleInOrder)
<1>1. Init => SampleInv
  BY DEF Init, SampleInv, Entry0
<1>2. TypeOK /\ SampleInv /\ [Next]_vars => SampleInv'
  BY SampleStep
<1>3. TypeOK /\ SampleInv => (Fits(smp.number) => SampleInOrder)
  <2> SUFFICES ASSUME TypeOK, SampleInv, Fits(smp.number)
               PROVE  SampleInOrder
    OBVIOUS
  <2>1. DOMAIN heard = 1 .. Len(heard)
    BY DEF TypeOK
  <2> QED BY <2>1 DEF SampleInv, SampleInOrder, ByteOf
<1> QED BY <1>1, <1>2, <1>3, TypeCorrect, PTL DEF Spec
=============================================================================

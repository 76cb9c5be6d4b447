---------------------------- MODULE NextLibCtc2 ----------------------------
(***************************************************************************)
(* The engine of the module demos, Scripts/nextlib_ints_ctc2.bas.  Beside  *)
(* the raster line, which enters ._ISR as in NextLibInts, channel 0 of the *)
(* CTC interrupts for every byte of a sample and enters ctc0, which pages  *)
(* the sample over slots 0 and 1, reads a byte and sends it to the DAC.    *)
(* The two handlers share the MMU, the register select and the cells of    *)
(* PlayCTC: ._ISR takes the requested sample over, ctc0 plays it.  Both    *)
(* run with the interrupts off, so they follow each other and the program, *)
(* in any order.                                                           *)
(*                                                                         *)
(* Programs without MyCustomISR (module NextLibInts has it) and samples    *)
(* the table holds.  The AYFX channels are module AyFx.                    *)
(***************************************************************************)
EXTENDS Integers, Sequences

CONSTANTS
    SfxBanks, PlayerBanks, TuneBanks,   \* banks of effects, player and tunes
    Effects, None,                      \* effect numbers; $ff, no effect asked for
    Table,                              \* ctc_sample_table: number -> [bank, start, length]
    Pages, Regs,                        \* <<slot, bank>> and NextRegs of the program itself
    Wrappers,                           \* SetUpCTC, SetUpIM or both
    Again                               \* what the program calls again later: InitSFX, InitMusic

VARIABLES
    hw,      \* slot, sel, iff; line, ctc: may interrupt; vector: what the line enters
    ram,     \* sfxOn, music, sfxBank, playerBank, musicBank, mail, request
    smp,     \* the cells of PlayCTC: number, bank, start, length, offset
    cell,    \* operands that keep slots and selects: exit, isrSel, launch, frame, sound, ctcSel
    mpc, ipc,            \* program counters of the program and of the handler
    own, ownSel, want,   \* history: slots, select and interrupts as the program left them
    heard                \* history: what was sent to the DAC of the sample in smp

vars == <<hw, ram, smp, cell, mpc, ipc, own, ownSel, want, heard>>
history == <<own, ownSel, want, heard>>

Slots == 0 .. 2
Bit   == 0 .. 1
Bank  == 0 .. 255
Word   == {n \in Nat : n < 65536}     \* 16 bits
InBank == {n \in Nat : n < 8192}      \* a place in a bank
NR(s) == 80 + s                     \* MMU slot s is NextReg $50 + s
INTCTL == 192
NextBank(b) == (b + 1) % 256        \* inc a

ASSUME ConstantsAssumption ==
    /\ SfxBanks \subseteq Bank /\ PlayerBanks \subseteq Bank /\ TuneBanks \subseteq Bank
    /\ None \notin Effects
    /\ Pages \subseteq Slots \X Bank /\ Regs \subseteq Bank
    /\ DOMAIN Table \subseteq 1 .. 255
    /\ \A n \in DOMAIN Table :
          /\ Table[n].bank \in Bank /\ Table[n].start \in Nat /\ Table[n].length \in Nat
          /\ Table[n].start + Table[n].length < 24576
    /\ Wrappers \subseteq {"SetUpCTC", "SetUpIM"}
    /\ Again \subseteq {"InitSFX", "InitMusic"}

(* The cells before the first request are zero.                            *)
Samples == {0} \cup DOMAIN Table
Entry0(n) == IF n = 0 THEN [bank |-> 0, start |-> 0, length |-> 0] ELSE Table[n]

RamType == [sfxOn : Bit, music : 0 .. 3, sfxBank : SfxBanks, playerBank : PlayerBanks,
            musicBank : TuneBanks, mail : Effects \cup {None},
            request : Samples]

Init ==
    /\ \E r \in Regs : hw = [slot |-> [s \in Slots |-> IF s = 2 THEN 10 ELSE 255], sel |-> r,
             iff |-> 1, line |-> 0, ctc |-> 0, vector |-> "none"]
    /\ ram \in RamType
    /\ smp = [number |-> 0, bank |-> 0, start |-> 0, length |-> 0, offset |-> 0]
    /\ cell = [exit |-> [s \in Slots |-> IF s = 2 THEN 10 ELSE s], isrSel |-> 0,
               launch |-> <<255, 10>>, frame |-> <<255, 10>>,
               sound |-> <<255, 255>>, ctcSel |-> 0]
    /\ mpc = "boot" /\ ipc = "idle"
    /\ own = hw.slot /\ ownSel = hw.sel /\ want = 1
    /\ heard = << >>

----------------------------------------------------------------------------
(* The program.                                                            *)

At(p) == ipc = "idle" /\ mpc = p
Then(p, q) == mpc' = IF mpc = p THEN q ELSE mpc

(* InitSFX ends with the interrupts off: checkints, DI and no ReenableInts. *)
InitSFX(b) ==
    /\ At("boot") \/ (At("run") /\ "InitSFX" \in Again)
    /\ ram' = [ram EXCEPT !.sfxBank = b]
    /\ hw' = [hw EXCEPT !.iff = 0, !.sel = NR(2)]
    /\ ownSel' = NR(2) /\ want' = 0
    /\ Then("boot", "boot2")
    /\ UNCHANGED <<smp, cell, ipc, own, heard>>

(* InitMusic too; it leaves its slots in the operands at exitplayernl.     *)
InitMusic(p, t) ==
    /\ At("boot2") \/ (At("run") /\ "InitMusic" \in Again)
    /\ ram' = [ram EXCEPT !.playerBank = p, !.musicBank = t]
    /\ hw' = [hw EXCEPT !.iff = 0, !.sel = NR(1)]
    /\ cell' = [cell EXCEPT !.exit = hw.slot]
    /\ ownSel' = NR(1) /\ want' = 0
    /\ Then("boot2", "boot3")
    /\ UNCHANGED <<smp, ipc, own, heard>>

(* SetUpCTC: vector table, line and CTC channel 0, EI.                     *)
SetUpCTC ==
    /\ "SetUpCTC" \in Wrappers
    /\ At("boot3") \/ At("run")
    /\ hw' = [hw EXCEPT !.line = 1, !.ctc = 1, !.vector = "raster_line", !.iff = 1,
                        !.sel = INTCTL]
    /\ ownSel' = INTCTL /\ want' = 1
    /\ Then("boot3", "run")
    /\ UNCHANGED <<ram, smp, cell, ipc, own, heard>>

(* SetUpIM: every vector is ._ISR itself.                                  *)
SetUpIM ==
    /\ "SetUpIM" \in Wrappers
    /\ At("boot3") \/ At("run")
    /\ hw' = [hw EXCEPT !.line = 1, !.vector = "_ISR", !.iff = 1]
    /\ want' = 1
    /\ Then("boot3", "run")
    /\ UNCHANGED <<ram, smp, cell, ipc, own, ownSel, heard>>

DisableIM ==                        \* the CTC channel stays on
    /\ At("run")
    /\ ram' = [ram EXCEPT !.sfxOn = 0, !.music = 0]
    /\ hw' = [hw EXCEPT !.line = 0, !.iff = 0]
    /\ want' = 0
    /\ UNCHANGED <<smp, cell, mpc, ipc, own, ownSel, heard>>

NewMusic(t) ==                      \* DI, store bank and request, EI
    /\ At("run")
    /\ ram' = [ram EXCEPT !.musicBank = t, !.music = 3]
    /\ hw' = [hw EXCEPT !.iff = 1]
    /\ want' = 1
    /\ UNCHANGED <<smp, cell, mpc, ipc, own, ownSel, heard>>

(* EnableSFX, DisableSFX; EnableMusic, PlayMusic, StopMusic, DisableMusic; *)
(* PlaySFX; PlaySample: one store each.                                    *)
Store ==
    /\ At("run")
    /\ \/ \E on \in Bit : ram' = [ram EXCEPT !.sfxOn = on]
       \/ \E m \in 0 .. 2 : ram' = [ram EXCEPT !.music = m]
       \/ \E n \in Effects : ram' = [ram EXCEPT !.mail = n]
       \/ \E n \in DOMAIN Table : ram' = [ram EXCEPT !.request = n]
    /\ UNCHANGED <<hw, smp, cell, mpc, ipc, history>>

Page(s, b) ==
    /\ At("run")
    /\ hw' = [hw EXCEPT !.slot[s] = b]
    /\ own' = [own EXCEPT ![s] = b]
    /\ UNCHANGED <<ram, smp, cell, mpc, ipc, ownSel, want, heard>>

(* GetReg and GetMMU select a NextReg and read it an instruction later.    *)
Select(r) ==
    /\ At("run")
    /\ hw' = [hw EXCEPT !.sel = r]
    /\ ownSel' = r
    /\ mpc' = "selected"
    /\ UNCHANGED <<ram, smp, cell, ipc, own, want, heard>>

ReadSelected ==
    /\ At("selected")
    /\ mpc' = "run"
    /\ UNCHANGED <<hw, ram, smp, cell, ipc, history>>

Main ==
    \/ \E b \in SfxBanks : InitSFX(b)
    \/ \E p \in PlayerBanks, t \in TuneBanks : InitMusic(p, t)
    \/ SetUpCTC \/ SetUpIM \/ DisableIM
    \/ \E t \in TuneBanks : NewMusic(t)
    \/ Store
    \/ \E pg \in Pages : Page(pg[1], pg[2])
    \/ \E r \in Regs : Select(r)
    \/ ReadSelected

----------------------------------------------------------------------------
(* Interrupts: taken between two instructions of the program, with EI.     *)

LineInterrupt ==
    /\ ipc = "idle" /\ hw.iff = 1 /\ hw.line = 1
    /\ hw' = [hw EXCEPT !.iff = 0]
    /\ ipc' = "entry"
    /\ UNCHANGED <<ram, smp, cell, mpc, history>>

CtcInterrupt ==
    /\ ipc = "idle" /\ hw.iff = 1 /\ hw.ctc = 1
    /\ hw' = [hw EXCEPT !.iff = 0]
    /\ ipc' = IF hw.vector = "_ISR" THEN "entry" ELSE "ctc0"
    /\ UNCHANGED <<ram, smp, cell, mpc, history>>

(* What every step of a handler leaves alone.                              *)
Handler(p, q) == ipc = p /\ ipc' = q /\ UNCHANGED <<mpc, own, ownSel, want>>

----------------------------------------------------------------------------
(* ._ISR                                                                   *)

Entry ==
    /\ Handler("entry", "mail")
    /\ cell' = [cell EXCEPT !.isrSel = hw.sel]
    /\ UNCHANGED <<hw, ram, smp, heard>>

(* PlaySFXSys and CallbackSFX keep slots 1 and 2 in operands of their own  *)
(* and page the effects there.                                             *)
EffectsPaged == [hw EXCEPT !.slot[1] = ram.sfxBank, !.slot[2] = NextBank(ram.sfxBank),
                           !.sel = NR(2)]
PagedBack(c) == [hw EXCEPT !.slot[1] = c[1], !.slot[2] = c[2]]
Slots12 == <<hw.slot[1], hw.slot[2]>>

NoMail == Handler("mail", "effects") /\ ram.mail = None
          /\ UNCHANGED <<hw, ram, smp, cell, heard>>

(* PlaySFXSys empties the mailbox and gives the effect a channel.          *)
Launch ==
    /\ Handler("mail", "launch") /\ ram.mail # None
    /\ ram' = [ram EXCEPT !.mail = None]
    /\ cell' = [cell EXCEPT !.launch = Slots12]
    /\ hw' = EffectsPaged
    /\ UNCHANGED <<smp, heard>>

LaunchEnd ==
    /\ Handler("launch", "effects")
    /\ hw' = PagedBack(cell.launch)
    /\ UNCHANGED <<ram, smp, cell, heard>>

NoEffects == Handler("effects", "music") /\ ram.sfxOn = 0
             /\ UNCHANGED <<hw, ram, smp, cell, heard>>

(* CallbackSFX: a frame of effects.                                        *)
EffectsFrame ==
    /\ Handler("effects", "frame") /\ ram.sfxOn = 1
    /\ cell' = [cell EXCEPT !.frame = Slots12]
    /\ hw' = EffectsPaged
    /\ UNCHANGED <<ram, smp, heard>>

EffectsEnd ==
    /\ Handler("frame", "music")
    /\ hw' = PagedBack(cell.frame)
    /\ UNCHANGED <<ram, smp, cell, heard>>

NoMusic == Handler("music", "sample") /\ ram.music = 0
           /\ UNCHANGED <<hw, ram, smp, cell, heard>>

(* playmusicnl: slots into the operands at exitplayernl, player and tune   *)
(* paged; then mute and forget, start the new tune, or play a frame.       *)
MusicFrame ==
    /\ Handler("music", "player") /\ ram.music # 0
    /\ cell' = [cell EXCEPT !.exit = hw.slot]
    /\ hw' = [hw EXCEPT !.slot[0] = ram.musicBank, !.slot[1] = NextBank(ram.musicBank),
                        !.slot[2] = ram.playerBank, !.sel = NR(1)]
    /\ UNCHANGED <<ram, smp, heard>>

MusicEnd ==
    /\ Handler("player", "sample")
    /\ ram' = [ram EXCEPT !.music = IF @ = 2 THEN 0 ELSE 1]
    /\ hw' = [hw EXCEPT !.slot = cell.exit]
    /\ UNCHANGED <<smp, cell, heard>>

NoSample == Handler("sample", "exit") /\ ram.request = 0
            /\ UNCHANGED <<hw, ram, smp, cell, heard>>

(* A slip of TakeSample: "xor a" left out before the request is cleared, A *)
(* still holding the low byte of the start.                                *)
TakeSampleKeepsA ==
    /\ Handler("sample", "exit") /\ ram.request # 0
    /\ smp' = [number |-> ram.request, bank |-> Entry0(ram.request).bank,
               start |-> Entry0(ram.request).start, length |-> Entry0(ram.request).length,
               offset |-> Entry0(ram.request).start]
    /\ ram' = [ram EXCEPT !.request = Entry0(ram.request).start % 256]
    /\ heard' = << >>
    /\ UNCHANGED <<hw, cell>>

(* A slip of TakeSample: "ld (sample_offset),hl" left out.                 *)
TakeSampleKeepsOffset ==
    /\ Handler("sample", "exit") /\ ram.request # 0
    /\ smp' = [number |-> ram.request, bank |-> Entry0(ram.request).bank,
               start |-> Entry0(ram.request).start, length |-> Entry0(ram.request).length,
               offset |-> smp.offset]
    /\ ram' = [ram EXCEPT !.request = 0]
    /\ heard' = << >>
    /\ UNCHANGED <<hw, cell>>

(* play_sample: the entry of the table into the cells, request done.       *)
TakeSample ==
    /\ Handler("sample", "exit") /\ ram.request # 0
    /\ smp' = [number |-> ram.request, bank |-> Entry0(ram.request).bank,
               start |-> Entry0(ram.request).start, length |-> Entry0(ram.request).length,
               offset |-> Entry0(ram.request).start]
    /\ ram' = [ram EXCEPT !.request = 0]
    /\ heard' = << >>
    /\ UNCHANGED <<hw, cell>>

(* isr_replace_port, registers, ret: raster_line follows with EI and RETI, *)
(* nothing does when the vector is ._ISR.                                  *)
Exit ==
    /\ Handler("exit", "idle")
    /\ hw' = [hw EXCEPT !.sel = cell.isrSel,
                        !.iff = IF hw.vector = "raster_line" THEN 1 ELSE hw.iff]
    /\ UNCHANGED <<ram, smp, cell, heard>>

ISR ==
    \/ Entry \/ NoMail \/ Launch \/ LaunchEnd \/ NoEffects \/ EffectsFrame \/ EffectsEnd
    \/ NoMusic \/ MusicFrame \/ MusicEnd \/ NoSample \/ TakeSample \/ Exit

----------------------------------------------------------------------------
(* ctc0 and play_ctc_sample                                                *)

(* add hl,de : sbc hl,de : jr nc,playing.  The byte at start + length is   *)
(* played too, and what follows the jr c is never reached: no sample loops. *)
Sounding == (smp.start + smp.length) % 65536 >= smp.offset

Silent ==
    /\ Handler("ctc0", "ctcEnd") /\ ~Sounding
    /\ cell' = [cell EXCEPT !.ctcSel = hw.sel]
    /\ UNCHANGED <<hw, ram, smp, heard>>

PageSample ==
    /\ Handler("ctc0", "byte") /\ Sounding
    /\ cell' = [cell EXCEPT !.ctcSel = hw.sel, !.sound = <<hw.slot[0], hw.slot[1]>>]
    /\ hw' = [hw EXCEPT !.slot[0] = smp.bank, !.slot[1] = NextBank(smp.bank), !.sel = NR(1)]
    /\ UNCHANGED <<ram, smp, heard>>

(* ld a,(de) : nextreg $2d,a : the next offset stored; playbankout.        *)
SoundByte ==
    /\ Handler("byte", "ctcEnd")
    /\ heard' = Append(heard, <<hw.slot[smp.offset \div 8192], smp.offset % 8192>>)
    /\ smp' = [smp EXCEPT !.offset = (@ + 1) % 65536]
    /\ hw' = [hw EXCEPT !.slot[0] = cell.sound[1], !.slot[1] = cell.sound[2]]
    /\ UNCHANGED <<ram, cell>>

(* A slip of CtcEnd: done_playing behind the "out (c),a" to $243B.         *)
CtcEndKeepsSelect ==
    /\ Handler("ctcEnd", "idle")
    /\ hw' = [hw EXCEPT !.iff = 1]
    /\ UNCHANGED <<ram, smp, cell, heard>>

(* A slip of CtcEnd: RETI without EI.                                      *)
CtcEndNoEI ==
    /\ Handler("ctcEnd", "idle")
    /\ hw' = [hw EXCEPT !.sel = cell.ctcSel]
    /\ UNCHANGED <<ram, smp, cell, heard>>

CtcEnd ==                           \* done_playing: select, registers, EI, RETI
    /\ Handler("ctcEnd", "idle")
    /\ hw' = [hw EXCEPT !.sel = cell.ctcSel, !.iff = 1]
    /\ UNCHANGED <<ram, smp, cell, heard>>

CTC0 == Silent \/ PageSample \/ SoundByte \/ CtcEnd

Next == Main \/ LineInterrupt \/ CtcInterrupt \/ ISR \/ CTC0

(* In hardware IM2 an interrupt not taken at once stays pending, and each  *)
(* source is quiet for longer than the handlers run: whatever the flip-    *)
(* flop lets through again and again is taken.  Handlers run to their end. *)
(* Of the program nothing is assumed.                                      *)
Spec ==
    /\ Init /\ [][Next]_vars
    /\ SF_vars(LineInterrupt) /\ SF_vars(CtcInterrupt)
    /\ WF_vars(ISR \/ CTC0)

----------------------------------------------------------------------------
HwType == [slot : [Slots -> Bank], sel : Bank, iff : Bit, line : Bit, ctc : Bit,
           vector : {"none", "raster_line", "_ISR"}]
SmpType == [number : Samples, bank : Bank, start : Nat, length : Nat,
            offset : Word]
CellType == [exit : [Slots -> Bank], isrSel : Bank, launch : Bank \X Bank,
             frame : Bank \X Bank, sound : Bank \X Bank, ctcSel : Bank]

(* Every variable keeps its type.                                          *)
TypeOK ==
    /\ hw \in HwType /\ ram \in RamType /\ smp \in SmpType /\ cell \in CellType
    /\ mpc \in {"boot", "boot2", "boot3", "run", "selected"}
    /\ ipc \in {"idle", "entry", "mail", "launch", "effects", "frame", "music", "player",
                "sample", "exit", "ctc0", "byte", "ctcEnd"}
    /\ own \in [Slots -> Bank] /\ ownSel \in Bank /\ want \in Bit
    /\ heard \in Seq(Bank \X InBank)

(* Whenever the program executes, the slots and the register select are    *)
(* those it left, whichever of the two handlers ran last and whatever it   *)
(* paged: also between the two instructions of GetReg.                     *)
Transparent == ipc = "idle" => hw.slot = own /\ hw.sel = ownSel

(* What has gone to the DAC since a sample was taken over is that sample   *)
(* from its start, byte by byte, out of its own two banks, and ends with   *)
(* the byte behind it: no frame of effects or music in between, no store   *)
(* of the program and no later request shows in it.                        *)
SampleInOrder ==
    LET s == Entry0(smp.number)
        Byte(o) == <<(s.bank + o \div 8192) % 256, o % 8192>>
    IN  /\ Len(heard) <= s.length + 1
        /\ \A i \in DOMAIN heard : heard[i] = Byte(s.start + i - 1)

(* After SetUpCTC, while the program wants interrupts and the line is on,  *)
(* an effect and a sample that were asked for are taken up and a sample    *)
(* with bytes left goes on: both handlers always give the interrupts back. *)
Wanted == want = 1 /\ hw.line = 1 /\ hw.vector = "raster_line"
RequestsServed ==
    /\ ram.mail # None ~> ram.mail = None \/ ~Wanted
    /\ ram.request # 0 ~> ram.request = 0 \/ ~Wanted
    /\ \A n \in DOMAIN Table : \A i \in 0 .. Table[n].length - 1 :
          (smp.number = n /\ Len(heard) = i) ~> (smp.number # n \/ Len(heard) # i \/ ~Wanted)

(* The same after SetUpIM: not so, ._ISR returns without EI.               *)
ServedAfterSetUpIM ==
    ram.mail # None ~> ram.mail = None \/ want = 0 \/ hw.vector # "_ISR"

(* The sample ends where it ends: line 1094 asks whether the offset is     *)
(* before the end, the code also plays when it is the end.                 *)
SampleEndsAtItsEnd == Len(heard) <= Entry0(smp.number).length
=============================================================================

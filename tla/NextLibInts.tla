---------------------------- MODULE NextLibInts ----------------------------
(***************************************************************************)
(* The standard interrupt engine of NextBuild, Scripts/nextlib_ints.bas:   *)
(* a BASIC program runs with interrupts on while a raster-line interrupt   *)
(* enters ._ISR once a frame to launch queued sound effects, run the AYFX  *)
(* frame callback and call the music player.  Both sides page 8K banks     *)
(* through the same MMU slots (NextRegs $50-$52), drive the same register  *)
(* select port ($243B) and the same AY chip select, and talk through       *)
(* single bytes of RAM: sampletoplay, sfxenablednl, sfxenablednl+1.        *)
(*                                                                         *)
(* mpc is the program counter of the BASIC program, ipc that of the        *)
(* interrupt routine.  A step of the program is what cannot be             *)
(* interrupted: one store, one NEXTREG, or a whole routine under DI.       *)
(***************************************************************************)
EXTENDS Integers

CONSTANTS
    SfxBanks,        \* banks an .afb file is loaded in (the pair b, b+1)
    PlayerBanks,     \* banks holding the music player
    TuneBanks,       \* banks holding a tune (the pair b, b+1)
    Effects,         \* sound effect numbers the program asks for
    None,            \* $ff: sampletoplay is empty
    MainPages,       \* <<slot, bank>> the program itself pages
    MainRegs,        \* NextRegs the program reads with GetReg/GetMMU
    WorkBank,        \* bank a banked routine (LoadSDBank, ...) maps at $52
    CustomOps,       \* what MyCustomISR may do: "none", "chip", "page", "banked"
    LineDuringSetUp, \* may the raster line fall inside SetUpIM's own ISR() call
    Hasty            \* may the program overwrite a NewMusic request the ISR has not seen

VARIABLES
    slot,        \* MMU slots $50, $51, $52 as 0..2 -> bank
    sel,         \* register select port $243B
    ay,          \* AY chip select: 255, 254 or 253
    iff,         \* interrupt flip-flop
    line,        \* NR $22 lets the raster line interrupt, IM2 vector installed
    sfxOn,       \* sfxenablednl
    music,       \* sfxenablednl+1: 0 off, 1 play, 2 stop requested, 3 new tune requested
    sfxBank,     \* ayfxbankinplaycode
    playerBank,  \* bankbuffersplayernl
    musicBank,   \* bankbuffersplayernl+1
    mailbox,     \* sampletoplay
    itbuff,      \* result of the last checkints
    exitSlot,    \* operands of the three nextregs at exitplayernl
    selCell,     \* operand of the load at skipmusicplayer
    launchCell,  \* operands at ayfxrestoreslot of PlaySFXSys (slots 1, 2)
    frameCell,   \* operands at ayfxrestoreslot of CallbackSFX (slots 1, 2)
    slot6,       \* operand at slot6 of the banked routine
    mpc, ipc,    \* the two program counters
    tune,        \* what the player was last initialised with (state of the player)
    own, ownSel, \* history: paging and register select as the program left them
    caller       \* history: iff when the banked routine was called

hw      == <<slot, sel, ay, iff, line>>
flags   == <<sfxOn, music>>
banks   == <<sfxBank, playerBank, musicBank>>
cells   == <<exitSlot, selCell, launchCell, frameCell>>
history == <<own, ownSel, caller>>
vars == <<slot, sel, ay, iff, line, sfxOn, music, sfxBank, playerBank,
          musicBank, mailbox, itbuff, exitSlot, selCell, launchCell, frameCell,
          slot6, mpc, ipc, tune, own, ownSel, caller>>

Slots == 0 .. 2
Bit   == 0 .. 1
Bank  == 0 .. 255
NR(s) == 80 + s                     \* MMU slot s is NextReg $50 + s
NoTune == None

ASSUME ConstantsAssumption ==
    /\ SfxBanks \subseteq Bank /\ PlayerBanks \subseteq Bank
    /\ TuneBanks \subseteq Bank /\ WorkBank \in Bank
    /\ MainPages \subseteq Slots \X Bank
    /\ MainRegs \subseteq Bank
    /\ None \notin Effects
    /\ CustomOps \subseteq {"none", "chip", "page", "banked"}
    /\ LineDuringSetUp \in BOOLEAN /\ Hasty \in BOOLEAN

NextBank(b) == (b + 1) % 256        \* inc a

SfxPaged ==                         \* nextreg $51,a : inc a : nextreg $52,a
    [slot EXCEPT ![1] = sfxBank, ![2] = NextBank(sfxBank)]

MusicPaged(p, m) ==                 \* player in $52, tune in $50 and $51
    [slot EXCEPT ![2] = p, ![0] = m, ![1] = NextBank(m)]

----------------------------------------------------------------------------
(* Before the set up calls the fixed RAM cells hold whatever is there.     *)
Init ==
    /\ slot = [s \in Slots |-> IF s = 2 THEN 10 ELSE 255]
    /\ sel \in MainRegs /\ ay = 255 /\ iff \in Bit /\ line = 0
    /\ sfxOn \in Bit /\ music \in 0 .. 3
    /\ sfxBank \in SfxBanks /\ playerBank \in PlayerBanks /\ musicBank \in TuneBanks
    /\ mailbox \in Effects \cup {None}
    /\ itbuff = 0
    /\ exitSlot = [s \in Slots |-> IF s = 2 THEN 10 ELSE s]
    /\ selCell = 0
    /\ launchCell = [s \in {1, 2} |-> 255] /\ frameCell = [s \in {1, 2} |-> s - 1]
    /\ slot6 = 0
    /\ mpc = "boot" /\ ipc = "idle"
    /\ tune = NoTune
    /\ own = slot /\ ownSel = sel /\ caller = 0

----------------------------------------------------------------------------
(* The BASIC program.                                                      *)

Running == ipc = "idle"             \* the CPU executes the program

(* A slip of InitSFX: the bank is stored after "inc a".                    *)
InitSFXStoresNext(b) ==
    /\ Running /\ mpc \in {"boot", "run"}
    /\ itbuff' = iff /\ iff' = 0
    /\ sfxBank' = NextBank(b)
    /\ sel' = NR(2) /\ ownSel' = NR(2)
    /\ mpc' = IF mpc = "boot" THEN "boot2" ELSE "run"
    /\ UNCHANGED <<slot, ay, line, flags, playerBank, musicBank, mailbox, cells,
                   slot6, ipc, tune, own, caller>>

(* InitSFX: checkints, DI, page the effects, reset, page back; the         *)
(* interrupts stay off.  The channel table it resets is module AyFx.       *)
InitSFX(b) ==
    /\ Running /\ mpc \in {"boot", "run"}
    /\ itbuff' = iff /\ iff' = 0
    /\ sfxBank' = b
    /\ sel' = NR(2) /\ ownSel' = NR(2)
    /\ mpc' = IF mpc = "boot" THEN "boot2" ELSE "run"
    /\ UNCHANGED <<slot, ay, line, flags, playerBank, musicBank, mailbox, cells,
                   slot6, ipc, tune, own, caller>>

(* InitMusic: DI, page the player and the tune, call $4003, page back; the *)
(* interrupts stay off and it leaves its operands at exitplayernl.         *)
InitMusic(p, m) ==
    /\ Running /\ mpc \in {"boot2", "run"}
    /\ iff' = 0
    /\ playerBank' = p /\ musicBank' = m
    /\ exitSlot' = slot
    /\ tune' = <<p, m>>
    /\ sel' = NR(1) /\ ownSel' = NR(1)
    /\ mpc' = IF mpc = "boot2" THEN "boot3" ELSE "run"
    /\ UNCHANGED <<slot, ay, line, flags, sfxBank, mailbox, itbuff, selCell,
                   launchCell, frameCell, slot6, ipc, own, caller>>

(* SetUpIM: under DI install the vector and the raster line, EI, and then  *)
(* call ISR() like any routine, interrupts on.                             *)
SetUpIM ==
    /\ Running /\ mpc \in {"boot3", "run"}
    /\ line' = 1 /\ iff' = 1
    /\ mpc' = "setup" /\ ipc' = "entry"
    /\ UNCHANGED <<slot, sel, ay, flags, banks, mailbox, itbuff, cells, slot6,
                   tune, history>>

DisableIM ==
    /\ Running /\ mpc = "run"
    /\ music = 3 => Hasty
    /\ sfxOn' = 0 /\ music' = 0
    /\ line' = 0 /\ iff' = 0
    /\ UNCHANGED <<slot, sel, ay, banks, mailbox, itbuff, cells, slot6, mpc, ipc,
                   tune, history>>

SetSfx(on) ==                       \* EnableSFX, DisableSFX
    /\ Running /\ mpc = "run"
    /\ sfxOn' = on
    /\ UNCHANGED <<hw, music, banks, mailbox, itbuff, cells, slot6, mpc, ipc,
                   tune, history>>

(* EnableMusic and PlayMusic store 1, StopMusic 2, DisableMusic 0.         *)
SetMusic(m) ==
    /\ Running /\ mpc = "run"
    /\ music = 3 => Hasty
    /\ music' = m
    /\ UNCHANGED <<hw, sfxOn, banks, mailbox, itbuff, cells, slot6, mpc, ipc,
                   tune, history>>

(* NewMusic: DI, store the bank and the request, EI whatever it was.       *)
NewMusic(m) ==
    /\ Running /\ mpc = "run"
    /\ musicBank' = m /\ music' = 3
    /\ iff' = 1
    /\ UNCHANGED <<slot, sel, ay, line, sfxOn, sfxBank, playerBank, mailbox, itbuff,
                   cells, slot6, mpc, ipc, tune, history>>

PlaySFX(n) ==
    /\ Running /\ mpc = "run"
    /\ mailbox' = n
    /\ UNCHANGED <<hw, flags, banks, itbuff, cells, slot6, mpc, ipc, tune, history>>

Page(s, b) ==                       \* NextReg($5s, b) or MMU8(s, b)
    /\ Running /\ mpc = "run"
    /\ slot' = [slot EXCEPT ![s] = b]
    /\ own' = [own EXCEPT ![s] = b]
    /\ UNCHANGED <<sel, ay, iff, line, flags, banks, mailbox, itbuff, cells, slot6,
                   mpc, ipc, tune, ownSel, caller>>

(* GetReg and GetMMU: write the number to $243B, then read $253B.  Only    *)
(* the first half changes state; the value read is that of register sel.  *)
Select(r) ==
    /\ Running /\ mpc = "run"
    /\ sel' = r /\ ownSel' = r
    /\ mpc' = "selected"
    /\ UNCHANGED <<slot, ay, iff, line, flags, banks, mailbox, itbuff, cells, slot6,
                   ipc, tune, own, caller>>

ReadSelected ==
    /\ Running /\ mpc = "selected"
    /\ mpc' = "run"
    /\ UNCHANGED <<hw, flags, banks, mailbox, itbuff, cells, slot6, ipc, tune, history>>

(* A banked routine of nextlib.bas (LoadSDBank and its like): checkints,   *)
(* DI, save slot 2 in its own code and map a bank there; then page back    *)
(* and ReenableInts.  A failing load pages back and loops forever.         *)
CheckInts ==
    /\ Running /\ mpc = "run"
    /\ itbuff' = iff /\ caller' = iff
    /\ mpc' = "checked"
    /\ UNCHANGED <<hw, flags, banks, mailbox, cells, slot6, ipc, tune, own, ownSel>>

BankedBody ==
    /\ Running /\ mpc = "checked"
    /\ iff' = 0
    /\ slot6' = slot[2]
    /\ slot' = [slot EXCEPT ![2] = WorkBank]
    /\ sel' = NR(2) /\ ownSel' = NR(2)
    /\ mpc' = "mapped"
    /\ UNCHANGED <<ay, line, flags, banks, mailbox, itbuff, cells, ipc, tune, own,
                   caller>>

(* A slip of BankedReturn: a plain "ei" instead of ReenableInts.           *)
BankedReturnPlainEI ==
    /\ Running /\ mpc = "mapped"
    /\ slot' = [slot EXCEPT ![2] = slot6]
    /\ iff' = 1
    /\ mpc' = "run"
    /\ UNCHANGED <<sel, ay, line, flags, banks, mailbox, itbuff, cells, slot6, ipc,
                   tune, history>>

BankedReturn ==
    /\ Running /\ mpc = "mapped"
    /\ slot' = [slot EXCEPT ![2] = slot6]
    /\ iff' = IF itbuff = 0 THEN iff ELSE 1    \* ReenableInts
    /\ mpc' = "run"
    /\ UNCHANGED <<sel, ay, line, flags, banks, mailbox, itbuff, cells, slot6, ipc,
                   tune, history>>

BankedError ==
    /\ Running /\ mpc = "mapped"
    /\ slot' = [slot EXCEPT ![2] = slot6]
    /\ mpc' = "mloop"
    /\ UNCHANGED <<sel, ay, iff, line, flags, banks, mailbox, itbuff, cells, slot6,
                   ipc, tune, history>>

ErrorLoop ==                        \* mloop: flash the border, jp mloop
    /\ Running /\ mpc = "mloop"
    /\ UNCHANGED vars

Main ==
    \/ \E b \in SfxBanks : InitSFX(b)
    \/ \E p \in PlayerBanks, m \in TuneBanks : InitMusic(p, m)
    \/ SetUpIM \/ DisableIM
    \/ \E on \in Bit : SetSfx(on)
    \/ \E m \in 0 .. 2 : SetMusic(m)
    \/ \E m \in TuneBanks : NewMusic(m)
    \/ \E n \in Effects : PlaySFX(n)
    \/ \E pg \in MainPages : Page(pg[1], pg[2])
    \/ \E r \in MainRegs : Select(r)
    \/ ReadSelected
    \/ CheckInts \/ BankedBody \/ BankedReturn \/ BankedError \/ ErrorLoop

----------------------------------------------------------------------------
(* The interrupt routine.                                                  *)

(* The CPU takes the raster line interrupt.  SetUpIM's direct call runs    *)
(* ._ISR with interrupts on: a line inside it enters ._ISR again, whose    *)
(* ld sp,temp_isr_sp pushes over the registers and the return addresses    *)
(* the first activation still has there.  (At "entry" it has not switched  *)
(* stacks yet; a line there only makes ._ISR run twice and is left out.)   *)
Interrupt ==
    /\ iff = 1 /\ line = 1
    /\ \/ ipc = "idle" /\ ipc' = "entry"
       \/ ipc \notin {"idle", "entry", "lost"} /\ LineDuringSetUp /\ ipc' = "lost"
    /\ iff' = 0
    /\ UNCHANGED <<slot, sel, ay, line, flags, banks, mailbox, itbuff, cells, slot6,
                   mpc, tune, history>>

(* Save the register select at skipmusicplayer and the slots at            *)
(* exitplayernl; the three getregs leave $51 selected.                     *)
Entry ==
    /\ ipc = "entry"
    /\ selCell' = sel
    /\ exitSlot' = slot
    /\ sel' = NR(1)
    /\ ipc' = "custom"
    /\ UNCHANGED <<slot, ay, iff, line, flags, banks, mailbox, itbuff, launchCell,
                   frameCell, slot6, mpc, tune, history>>

(* MyCustomISR: nothing; select another AY chip; page slots 0 and 1; call  *)
(* a banked routine, which runs checkints with the interrupts off.         *)
Custom ==
    /\ ipc = "custom"
    /\ ipc' = "mail"
    /\ \/ "none" \in CustomOps /\ UNCHANGED <<slot, ay, itbuff, sel, slot6>>
       \/ "chip" \in CustomOps /\ ay' = 254 /\ UNCHANGED <<slot, itbuff, sel, slot6>>
       \/ /\ "page" \in CustomOps
          /\ slot' = [slot EXCEPT ![0] = 255, ![1] = 255]
          /\ UNCHANGED <<ay, itbuff, sel, slot6>>
       \/ /\ "banked" \in CustomOps
          /\ itbuff' = iff /\ sel' = NR(2) /\ slot6' = slot[2]
          /\ UNCHANGED <<slot, ay>>
    /\ UNCHANGED <<iff, line, flags, banks, mailbox, cells, mpc, tune, history>>

NoMail ==
    /\ ipc = "mail" /\ mailbox = None
    /\ ipc' = "sfx"
    /\ UNCHANGED <<hw, flags, banks, mailbox, itbuff, cells, slot6, mpc, tune, history>>

(* A slip of Launch: "ld (sampletoplay),a" of $ff left out.                *)
LaunchKeepsMail ==
    /\ ipc = "mail" /\ mailbox # None
    /\ launchCell' = [s \in {1, 2} |-> slot[s]]
    /\ slot' = SfxPaged
    /\ sel' = NR(2)
    /\ ipc' = "launch"
    /\ UNCHANGED <<ay, iff, line, flags, banks, mailbox, itbuff, exitSlot, selCell,
                   frameCell, slot6, mpc, tune, history>>

(* PlaySFXSys: empty the mailbox, page the effects and give the effect to  *)
(* a channel; LaunchEnd is ayfxrestoreslot.                                *)
Launch ==
    /\ ipc = "mail" /\ mailbox # None
    /\ mailbox' = None
    /\ launchCell' = [s \in {1, 2} |-> slot[s]]
    /\ slot' = SfxPaged
    /\ sel' = NR(2)
    /\ ipc' = "launch"
    /\ UNCHANGED <<ay, iff, line, flags, banks, itbuff, exitSlot, selCell, frameCell,
                   slot6, mpc, tune, history>>

(* A slip of LaunchEnd: one ayfxrestoreslot shared with CallbackSFX.       *)
LaunchEndOtherCell ==
    /\ ipc = "launch"
    /\ slot' = [slot EXCEPT ![1] = frameCell[1], ![2] = frameCell[2]]
    /\ ipc' = "sfx"
    /\ UNCHANGED <<sel, ay, iff, line, flags, banks, mailbox, itbuff, cells, slot6,
                   mpc, tune, history>>

LaunchEnd ==
    /\ ipc = "launch"
    /\ slot' = [slot EXCEPT ![1] = launchCell[1], ![2] = launchCell[2]]
    /\ ipc' = "sfx"
    /\ UNCHANGED <<sel, ay, iff, line, flags, banks, mailbox, itbuff, cells, slot6,
                   mpc, tune, history>>

NoSfx ==
    /\ ipc = "sfx" /\ sfxOn = 0
    /\ ipc' = "music"
    /\ UNCHANGED <<hw, flags, banks, mailbox, itbuff, cells, slot6, mpc, tune, history>>

(* CallbackSFX: page the effects, select AY 253 and run AFXFRAME; then     *)
(* page back and select AY 255.                                            *)
SfxFrame ==
    /\ ipc = "sfx" /\ sfxOn = 1
    /\ frameCell' = [s \in {1, 2} |-> slot[s]]
    /\ slot' = SfxPaged
    /\ sel' = NR(2) /\ ay' = 253
    /\ ipc' = "frame"
    /\ UNCHANGED <<iff, line, flags, banks, mailbox, itbuff, exitSlot, selCell,
                   launchCell, slot6, mpc, tune, history>>

SfxFrameEnd ==
    /\ ipc = "frame"
    /\ slot' = [slot EXCEPT ![1] = frameCell[1], ![2] = frameCell[2]]
    /\ ay' = 255
    /\ ipc' = "music"
    /\ UNCHANGED <<sel, iff, line, flags, banks, mailbox, itbuff, cells, slot6, mpc,
                   tune, history>>

NoMusic ==
    /\ ipc = "music" /\ music = 0
    /\ ipc' = "exit"
    /\ UNCHANGED <<hw, flags, banks, mailbox, itbuff, cells, slot6, mpc, tune, history>>

(* playmusicnl: select AY 255, save the slots at exitplayernl once more,   *)
(* page the player and the tune and look at the request.                   *)
MusicFrame ==
    /\ ipc = "music" /\ music # 0
    /\ exitSlot' = slot
    /\ slot' = MusicPaged(playerBank, musicBank)
    /\ sel' = NR(1) /\ ay' = 255
    /\ ipc' = CASE music = 2 -> "mute" [] music = 3 -> "reinit" [] OTHER -> "play"
    /\ UNCHANGED <<iff, line, flags, banks, mailbox, itbuff, selCell, launchCell,
                   frameCell, slot6, mpc, tune, history>>

Play ==                             \* call $4005
    /\ ipc = "play"
    /\ ipc' = "back"
    /\ UNCHANGED <<hw, flags, banks, mailbox, itbuff, cells, slot6, mpc, tune, history>>

Mute ==                             \* mustplayernl: store 0, call $4008
    /\ ipc = "mute"
    /\ music' = 0
    /\ ipc' = "back"
    /\ UNCHANGED <<hw, sfxOn, banks, mailbox, itbuff, cells, slot6, mpc, tune, history>>

(* A slip of ReInit: the new tune is played without call $4003.            *)
ReInitMuteOnly ==
    /\ ipc = "reinit"
    /\ music' = 1
    /\ ipc' = "back"
    /\ UNCHANGED <<hw, sfxOn, banks, mailbox, itbuff, cells, slot6, mpc, tune, history>>

ReInit ==                           \* re_init_music: store 1, call $4008 and $4003
    /\ ipc = "reinit"
    /\ music' = 1
    /\ tune' = <<slot[2], slot[0]>>
    /\ ipc' = "back"
    /\ UNCHANGED <<hw, sfxOn, banks, mailbox, itbuff, cells, slot6, mpc, history>>

MusicEnd ==                         \* exitplayernl
    /\ ipc = "back"
    /\ slot' = exitSlot
    /\ ipc' = "exit"
    /\ UNCHANGED <<sel, ay, iff, line, flags, banks, mailbox, itbuff, cells, slot6,
                   mpc, tune, history>>

(* A slip of Exit: "out (c),a" to $243B left out.                          *)
ExitKeepsSelect ==
    /\ ipc = "exit"
    /\ iff' = 1
    /\ ipc' = "idle"
    /\ mpc' = IF mpc = "setup" THEN "run" ELSE mpc
    /\ UNCHANGED <<slot, sel, ay, line, flags, banks, mailbox, itbuff, cells, slot6,
                   tune, history>>

(* skipmusicplayer: restore $243B and the registers, EI, RET.              *)
Exit ==
    /\ ipc = "exit"
    /\ sel' = selCell
    /\ iff' = 1
    /\ ipc' = "idle"
    /\ mpc' = IF mpc = "setup" THEN "run" ELSE mpc
    /\ UNCHANGED <<slot, ay, line, flags, banks, mailbox, itbuff, cells, slot6, tune,
                   history>>

ISR ==
    \/ Entry \/ Custom \/ NoMail \/ Launch \/ LaunchEnd \/ NoSfx \/ SfxFrame
    \/ SfxFrameEnd \/ NoMusic \/ MusicFrame \/ Play \/ Mute \/ ReInit \/ MusicEnd
    \/ Exit

Next == Main \/ Interrupt \/ ISR

(* The CPU executes what it is in, and the raster line comes every frame:  *)
(* an interrupt the flip-flop lets through for good is taken.  Nothing is  *)
(* assumed of the program, which may stop anywhere or loop for ever.       *)
Spec == Init /\ [][Next]_vars /\ WF_vars(Interrupt) /\ WF_vars(ISR)

----------------------------------------------------------------------------
(* Every variable keeps its type.                                          *)
TypeOK ==
    /\ slot \in [Slots -> Bank] /\ sel \in Bank /\ ay \in {253, 254, 255}
    /\ iff \in Bit /\ line \in Bit /\ sfxOn \in Bit /\ music \in 0 .. 3
    /\ sfxBank \in SfxBanks /\ playerBank \in PlayerBanks /\ musicBank \in TuneBanks
    /\ mailbox \in Effects \cup {None} /\ itbuff \in Bit
    /\ exitSlot \in [Slots -> Bank] /\ selCell \in Bank
    /\ launchCell \in [{1, 2} -> Bank] /\ frameCell \in [{1, 2} -> Bank]
    /\ slot6 \in Bank
    /\ mpc \in {"boot", "boot2", "boot3", "setup", "run", "selected", "checked",
                "mapped", "mloop"}
    /\ ipc \in {"idle", "entry", "custom", "mail", "launch", "sfx", "frame", "music",
                "play", "mute", "reinit", "back", "exit", "lost"}
    /\ tune \in {NoTune} \cup (Bank \X Bank)
    /\ own \in [Slots -> Bank] /\ ownSel \in Bank /\ caller \in Bit

(* Whenever the program executes, the MMU slots and the register select    *)
(* are those it left itself: no interrupt, whatever the effects and the    *)
(* player paged over and whichever NextRegs they read, shows in them.      *)
Transparent ==
    Running => /\ mpc # "mapped" => slot = own
               /\ sel = ownSel

(* The same of a machine whose MyCustomISR pages slots 0 and 1 and calls   *)
(* banked routines, as the repository's custom ISR demo does: the slot the *)
(* player is paged in and the register select still survive.               *)
TransparentUnderCustom ==
    Running => /\ mpc # "mapped" => slot[2] = own[2]
               /\ sel = ownSel

(* A frame of music is only played with the player and the tune paged that *)
(* the player was last initialised for, and on the first AY chip.          *)
PlaysTheTuneItKnows ==
    ipc = "play" => /\ tune = <<slot[2], slot[0]>>
                    /\ slot[1] = NextBank(slot[0])
                    /\ ay = 255

(* ._ISR has one stack and one set of operand cells: it is never entered   *)
(* while an activation of it is unfinished.                                *)
SingleActivation == ipc # "lost"

(* ReenableInts leaves the interrupts as the caller of the banked routine  *)
(* had them, on or off.                                                    *)
InterruptsRestored == [][mpc = "mapped" /\ mpc' = "run" => iff' = caller]_vars

(* An effect or a tune requested while the raster line interrupts is       *)
(* picked up by the ISR, unless the program turns the interrupts off or the *)
(* ISR was entered a second time from SetUpIM and the machine is lost.     *)
Listening == line = 1 /\ ipc # "lost" /\ (iff = 1 \/ ipc # "idle")
RequestsServed ==
    /\ mailbox # None ~> (mailbox = None \/ ~Listening)
    /\ music = 3 ~> (music # 3 \/ ~Listening)
=============================================================================

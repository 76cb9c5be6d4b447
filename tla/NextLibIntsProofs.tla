------------------------- MODULE NextLibIntsProofs -------------------------
(***************************************************************************)
(* Proofs about NextLibInts for every choice of banks, effects, pages and  *)
(* registers.                                                              *)
(***************************************************************************)
EXTENDS NextLibInts, TLAPS

(* Bank arithmetic stays in a byte: inc a and $50 + slot.                  *)
LEMMA BankFacts ==
    /\ \A b \in Bank : NextBank(b) \in Bank
    /\ NR(1) \in Bank /\ NR(2) \in Bank
    /\ 255 \in Bank /\ 10 \in Bank /\ \A s \in Slots : s \in Bank
    /\ 0 \in Slots /\ 1 \in Slots /\ 2 \in Slots
BY DEF Bank, Slots, NR, NextBank

(* Main, Interrupt and ISR keep every variable in its type (the whole      *)
(* engine: every store of the program and of ._ISR).                       *)
THEOREM TypeCorrect == Spec => []TypeOK
<1>1. Init => TypeOK
  BY ConstantsAssumption DEF Init, TypeOK, Slots, Bank, Bit, NoTune
<1>2. TypeOK /\ [Next]_vars => TypeOK'
  <2> SUFFICES ASSUME TypeOK, [Next]_vars PROVE TypeOK'
    OBVIOUS
  <2> USE BankFacts, ConstantsAssumption DEF TypeOK, Bit, hw, flags, banks, cells, history
  <2>1. ASSUME NEW b \in SfxBanks, InitSFX(b) PROVE TypeOK'
    BY <2>1 DEF InitSFX
  <2>2. ASSUME NEW p \in PlayerBanks, NEW m \in TuneBanks, InitMusic(p, m)
        PROVE TypeOK'
    <3>1. p \in Bank /\ m \in Bank /\ tune' = <<p, m>>
      BY <2>2 DEF InitMusic
    <3>2. tune' \in Bank \X Bank
      BY <3>1
    <3> QED BY <2>2, <3>2 DEF InitMusic
  <2>3. CASE SetUpIM BY <2>3 DEF SetUpIM
  <2>4. CASE DisableIM BY <2>4 DEF DisableIM
  <2>5. ASSUME NEW on \in Bit, SetSfx(on) PROVE TypeOK'
    BY <2>5 DEF SetSfx
  <2>6. ASSUME NEW m \in 0 .. 2, SetMusic(m) PROVE TypeOK'
    BY <2>6 DEF SetMusic
  <2>7. ASSUME NEW m \in TuneBanks, NewMusic(m) PROVE TypeOK'
    BY <2>7 DEF NewMusic
  <2>8. ASSUME NEW n \in Effects, PlaySFX(n) PROVE TypeOK'
    BY <2>8 DEF PlaySFX
  <2>9. ASSUME NEW pg \in MainPages, Page(pg[1], pg[2]) PROVE TypeOK'
    <3>1. pg[1] \in Slots /\ pg[2] \in Bank
      OBVIOUS
    <3>2. slot' \in [Slots -> Bank] /\ own' \in [Slots -> Bank]
      BY <2>9, <3>1 DEF Page
    <3>3. UNCHANGED <<sel, ay, iff, line, sfxOn, music, sfxBank, playerBank, musicBank,
                      mailbox, itbuff, exitSlot, selCell, launchCell, frameCell, slot6,
                      mpc, ipc, tune, ownSel, caller>>
      BY <2>9 DEF Page
    <3> QED BY <3>2, <3>3
  <2>10. ASSUME NEW r \in MainRegs, Select(r) PROVE TypeOK'
    BY <2>10 DEF Select
  <2>11. CASE ReadSelected BY <2>11 DEF ReadSelected
  <2>12. CASE CheckInts BY <2>12 DEF CheckInts
  <2>13. CASE BankedBody BY <2>13 DEF BankedBody
  <2>14. CASE BankedReturn BY <2>14 DEF BankedReturn
  <2>15. CASE BankedError BY <2>15 DEF BankedError
  <2>16. CASE Interrupt BY <2>16 DEF Interrupt
  <2>17. CASE Entry BY <2>17 DEF Entry
  <2>18. CASE Custom BY <2>18 DEF Custom
  <2>19. CASE NoMail BY <2>19 DEF NoMail
  <2>20. CASE Launch BY <2>20 DEF Launch, SfxPaged
  <2>21. CASE LaunchEnd
    <3>1. launchCell[1] \in Bank /\ launchCell[2] \in Bank
      OBVIOUS
    <3>2. slot' \in [Slots -> Bank]
      BY <2>21, <3>1 DEF LaunchEnd
    <3> QED BY <2>21, <3>2 DEF LaunchEnd
  <2>22. CASE NoSfx BY <2>22 DEF NoSfx
  <2>23. CASE SfxFrame BY <2>23 DEF SfxFrame, SfxPaged
  <2>24. CASE SfxFrameEnd
    <3>1. frameCell[1] \in Bank /\ frameCell[2] \in Bank
      OBVIOUS
    <3>2. slot' \in [Slots -> Bank]
      BY <2>24, <3>1 DEF SfxFrameEnd
    <3> QED BY <2>24, <3>2 DEF SfxFrameEnd
  <2>25. CASE NoMusic BY <2>25 DEF NoMusic
  <2>26. CASE MusicFrame
    <3>0. playerBank \in Bank /\ musicBank \in Bank /\ NextBank(musicBank) \in Bank
      OBVIOUS
    <3>1. slot' \in [Slots -> Bank]
      BY <2>26, <3>0 DEF MusicFrame, MusicPaged
    <3> QED BY <2>26, <3>1 DEF MusicFrame
  <2>27. CASE Play BY <2>27 DEF Play
  <2>28. CASE Mute BY <2>28 DEF Mute
  <2>29. CASE ReInit BY <2>29 DEF ReInit
  <2>30. CASE MusicEnd BY <2>30 DEF MusicEnd
  <2>31. CASE Exit BY <2>31 DEF Exit
  <2>32. CASE UNCHANGED vars BY <2>32 DEF vars
  <2>33. CASE ErrorLoop BY <2>33 DEF ErrorLoop, vars
  <2> HIDE DEF TypeOK, Bit, hw, flags, banks, cells, history
  <2>34. CASE Main
    BY <2>34, <2>1, <2>2, <2>3, <2>4, <2>5, <2>6, <2>7, <2>8, <2>9, <2>10, <2>11,
       <2>12, <2>13, <2>14, <2>15, <2>33 DEF Main
  <2>35. CASE ISR
    BY <2>35, <2>17, <2>18, <2>19, <2>20, <2>21, <2>22, <2>23, <2>24, <2>25, <2>26,
       <2>27, <2>28, <2>29, <2>30, <2>31 DEF ISR
  <2> QED
    BY <2>16, <2>32, <2>34, <2>35 DEF Next
<1> QED BY <1>1, <1>2, PTL DEF Spec

----------------------------------------------------------------------------
(* Paging back what was saved of slots 1 and 2 restores the whole paging   *)
(* when slot 0 was not touched.                                            *)
LEMMA PageBack ==
    ASSUME NEW f \in [Slots -> Bank], NEW g \in [Slots -> Bank], f[0] = g[0],
           NEW c, c = [s \in {1, 2} |-> g[s]]
    PROVE  [f EXCEPT ![1] = c[1], ![2] = c[2]] = g
<1>1. c[1] = g[1] /\ c[2] = g[2]
  OBVIOUS
<1> QED BY <1>1 DEF Slots

(* Where the paging the program left is kept while the ISR runs: in the    *)
(* slots themselves, or in the operand cells of the routine under way.     *)
PagingInv ==
    /\ ipc = "idle" => sel = ownSel /\ (mpc # "mapped" => slot = own)
    /\ ipc = "entry" => slot = own /\ sel = ownSel
    /\ ipc \notin {"idle", "entry"} => selCell = ownSel
    /\ ipc \in {"custom", "mail", "sfx", "music", "exit"} => slot = own
    /\ ipc = "launch" => slot[0] = own[0] /\ launchCell = [s \in {1, 2} |-> own[s]]
    /\ ipc = "frame" => slot[0] = own[0] /\ frameCell = [s \in {1, 2} |-> own[s]]
    /\ ipc \in {"play", "mute", "reinit", "back"} => exitSlot = own
    /\ mpc = "mapped" => /\ ipc = "idle" /\ iff = 0
                         /\ slot6 = own[2] /\ slot = [own EXCEPT ![2] = WorkBank]
    /\ ipc # "lost"

(* No step of the program or of ._ISR loses the paging, as long as         *)
(* MyCustomISR pages nothing and the raster line spares SetUpIM's call.    *)
LEMMA PagingStep ==
    ASSUME "page" \notin CustomOps, LineDuringSetUp = FALSE,
           TypeOK, TypeOK', PagingInv, [Next]_vars
    PROVE  PagingInv'
<1> USE DEF PagingInv, hw, flags, banks, cells, history, Running
<1>0. slot \in [Slots -> Bank] /\ own \in [Slots -> Bank]
  BY DEF TypeOK
<1>1. ASSUME NEW b \in SfxBanks, InitSFX(b) PROVE PagingInv'
  BY <1>1 DEF InitSFX
<1>2. ASSUME NEW p \in PlayerBanks, NEW m \in TuneBanks, InitMusic(p, m)
      PROVE PagingInv'
  BY <1>2 DEF InitMusic
<1>3. CASE SetUpIM BY <1>3 DEF SetUpIM
<1>4. CASE DisableIM BY <1>4 DEF DisableIM
<1>5. ASSUME NEW on \in Bit, SetSfx(on) PROVE PagingInv'
  BY <1>5 DEF SetSfx
<1>6. ASSUME NEW m \in 0 .. 2, SetMusic(m) PROVE PagingInv'
  BY <1>6 DEF SetMusic
<1>7. ASSUME NEW m \in TuneBanks, NewMusic(m) PROVE PagingInv'
  BY <1>7 DEF NewMusic
<1>8. ASSUME NEW n \in Effects, PlaySFX(n) PROVE PagingInv'
  BY <1>8 DEF PlaySFX
<1>9. ASSUME NEW pg \in MainPages, Page(pg[1], pg[2]) PROVE PagingInv'
  BY <1>9 DEF Page
<1>10. ASSUME NEW r \in MainRegs, Select(r) PROVE PagingInv'
  BY <1>10 DEF Select
<1>11. CASE ReadSelected BY <1>11 DEF ReadSelected
<1>12. CASE CheckInts BY <1>12 DEF CheckInts
<1>13. CASE BankedBody BY <1>13 DEF BankedBody
<1>14. mpc = "mapped" => [slot EXCEPT ![2] = slot6] = own
  <2> SUFFICES ASSUME mpc = "mapped" PROVE [slot EXCEPT ![2] = slot6] = own
    OBVIOUS
  <2>1. slot = [own EXCEPT ![2] = WorkBank] /\ slot6 = own[2]
    OBVIOUS
  <2> QED BY <1>0, <2>1 DEF Slots
<1>15. CASE BankedReturn BY <1>15, <1>14 DEF BankedReturn
<1>16. CASE BankedError BY <1>16, <1>14 DEF BankedError
<1>17. CASE ErrorLoop BY <1>17 DEF ErrorLoop, vars
<1>18. CASE Interrupt BY <1>18 DEF Interrupt
<1>19. CASE Entry BY <1>19 DEF Entry
<1>20. CASE Custom BY <1>20 DEF Custom
<1>21. CASE NoMail BY <1>21 DEF NoMail
<1>22. CASE Launch
  <2>1. slot = own /\ selCell = ownSel /\ mpc # "mapped"
    BY <1>22 DEF Launch
  <2>2. slot'[0] = own[0]
    BY <1>0, <1>22, <2>1 DEF Launch, SfxPaged, Slots
  <2> QED BY <1>22, <2>1, <2>2 DEF Launch
<1>23. CASE LaunchEnd
  <2>1. slot' = own
    BY <1>0, <1>23, PageBack DEF LaunchEnd
  <2> QED BY <1>23, <2>1 DEF LaunchEnd
<1>24. CASE NoSfx BY <1>24 DEF NoSfx
<1>25. CASE SfxFrame
  <2>1. slot = own /\ selCell = ownSel /\ mpc # "mapped"
    BY <1>25 DEF SfxFrame
  <2>2. slot'[0] = own[0]
    BY <1>0, <1>25, <2>1 DEF SfxFrame, SfxPaged, Slots
  <2> QED BY <1>25, <2>1, <2>2 DEF SfxFrame
<1>26. CASE SfxFrameEnd
  <2>1. slot' = own
    BY <1>0, <1>26, PageBack DEF SfxFrameEnd
  <2> QED BY <1>26, <2>1 DEF SfxFrameEnd
<1>27. CASE NoMusic BY <1>27 DEF NoMusic
<1>28. CASE MusicFrame BY <1>28 DEF MusicFrame
<1>29. CASE Play BY <1>29 DEF Play
<1>30. CASE Mute BY <1>30 DEF Mute
<1>31. CASE ReInit BY <1>31 DEF ReInit
<1>32. CASE MusicEnd BY <1>32 DEF MusicEnd
<1>33. CASE Exit BY <1>33 DEF Exit
<1>34. CASE UNCHANGED vars BY <1>34 DEF vars
<1> HIDE DEF PagingInv
<1>35. CASE Main
  BY <1>35, <1>1, <1>2, <1>3, <1>4, <1>5, <1>6, <1>7, <1>8, <1>9, <1>10, <1>11,
     <1>12, <1>13, <1>15, <1>16, <1>17 DEF Main
<1>36. CASE ISR
  BY <1>36, <1>19, <1>20, <1>21, <1>22, <1>23, <1>24, <1>25, <1>26, <1>27, <1>28,
     <1>29, <1>30, <1>31, <1>32, <1>33 DEF ISR
<1> QED
  BY <1>18, <1>34, <1>35, <1>36 DEF Next

(* The program never sees the paging or the register select the ISR works  *)
(* with: at every one of its steps both are as it left them.               *)
THEOREM ISRTransparent ==
    ASSUME "page" \notin CustomOps, LineDuringSetUp = FALSE
    PROVE  Spec => []Transparent
<1>1. Init => PagingInv
  BY DEF Init, PagingInv
<1>2. TypeOK /\ TypeOK' /\ PagingInv /\ [Next]_vars => PagingInv'
  BY PagingStep
<1>3. PagingInv => Transparent
  BY DEF PagingInv, Transparent, Running
<1> QED BY <1>1, <1>2, <1>3, TypeCorrect, PTL DEF Spec

----------------------------------------------------------------------------
(* The same for what MyCustomISR cannot spoil: the slot the player is      *)
(* paged in and the register select.  ._ISR saves them whatever the custom *)
(* code did to slots 0 and 1; a machine lost in a second activation never  *)
(* runs the program again.                                                 *)
PlayerSlotInv ==
    /\ ipc = "idle" => sel = ownSel /\ (mpc # "mapped" => slot[2] = own[2])
    /\ ipc = "entry" => slot[2] = own[2] /\ sel = ownSel
    /\ ipc \notin {"idle", "entry", "lost"} => selCell = ownSel
    /\ ipc \in {"custom", "mail", "sfx", "music", "exit"} => slot[2] = own[2]
    /\ ipc = "launch" => launchCell[2] = own[2]
    /\ ipc = "frame" => frameCell[2] = own[2]
    /\ ipc \in {"play", "mute", "reinit", "back"} => exitSlot[2] = own[2]
    /\ mpc = "mapped" => ipc = "idle" /\ iff = 0 /\ slot6 = own[2]

(* No step of the program, of ._ISR or of MyCustomISR loses them.          *)
LEMMA PlayerSlotStep ==
    ASSUME TypeOK, PlayerSlotInv, [Next]_vars
    PROVE  PlayerSlotInv'
<1> USE DEF PlayerSlotInv, hw, flags, banks, cells, history, Running
<1>0. slot \in [Slots -> Bank] /\ own \in [Slots -> Bank] /\ 2 \in Slots
  BY DEF TypeOK, Slots
<1>1. ASSUME NEW b \in SfxBanks, InitSFX(b) PROVE PlayerSlotInv'
  BY <1>1 DEF InitSFX
<1>2. ASSUME NEW p \in PlayerBanks, NEW m \in TuneBanks, InitMusic(p, m)
      PROVE PlayerSlotInv'
  BY <1>2 DEF InitMusic
<1>3. CASE SetUpIM BY <1>3 DEF SetUpIM
<1>4. CASE DisableIM BY <1>4 DEF DisableIM
<1>5. ASSUME NEW on \in Bit, SetSfx(on) PROVE PlayerSlotInv'
  BY <1>5 DEF SetSfx
<1>6. ASSUME NEW m \in 0 .. 2, SetMusic(m) PROVE PlayerSlotInv'
  BY <1>6 DEF SetMusic
<1>7. ASSUME NEW m \in TuneBanks, NewMusic(m) PROVE PlayerSlotInv'
  BY <1>7 DEF NewMusic
<1>8. ASSUME NEW n \in Effects, PlaySFX(n) PROVE PlayerSlotInv'
  BY <1>8 DEF PlaySFX
<1>9. ASSUME NEW pg \in MainPages, Page(pg[1], pg[2]) PROVE PlayerSlotInv'
  <2>1. slot[2] = own[2] /\ sel = ownSel /\ ipc = "idle" /\ mpc = "run"
    BY <1>9 DEF Page
  <2>2. slot'[2] = own'[2]
    BY <1>0, <1>9, <2>1 DEF Page
  <2> QED BY <1>9, <2>1, <2>2 DEF Page
<1>10. ASSUME NEW r \in MainRegs, Select(r) PROVE PlayerSlotInv'
  BY <1>10 DEF Select
<1>11. CASE ReadSelected BY <1>11 DEF ReadSelected
<1>12. CASE CheckInts BY <1>12 DEF CheckInts
<1>13. CASE BankedBody BY <1>0, <1>13 DEF BankedBody
<1>15. CASE BankedReturn BY <1>0, <1>15 DEF BankedReturn
<1>16. CASE BankedError BY <1>0, <1>16 DEF BankedError
<1>17. CASE ErrorLoop BY <1>17 DEF ErrorLoop, vars
<1>18. CASE Interrupt BY <1>18 DEF Interrupt
<1>19. CASE Entry BY <1>19 DEF Entry
<1>20. CASE Custom BY <1>0, <1>20 DEF Custom
<1>21. CASE NoMail BY <1>21 DEF NoMail
<1>22. CASE Launch BY <1>22 DEF Launch
<1>23. CASE LaunchEnd BY <1>0, <1>23 DEF LaunchEnd
<1>24. CASE NoSfx BY <1>24 DEF NoSfx
<1>25. CASE SfxFrame BY <1>25 DEF SfxFrame
<1>26. CASE SfxFrameEnd BY <1>0, <1>26 DEF SfxFrameEnd
<1>27. CASE NoMusic BY <1>27 DEF NoMusic
<1>28. CASE MusicFrame BY <1>28 DEF MusicFrame
<1>29. CASE Play BY <1>29 DEF Play
<1>30. CASE Mute BY <1>30 DEF Mute
<1>31. CASE ReInit BY <1>31 DEF ReInit
<1>32. CASE MusicEnd BY <1>32 DEF MusicEnd
<1>33. CASE Exit BY <1>33 DEF Exit
<1>34. CASE UNCHANGED vars BY <1>34 DEF vars
<1> HIDE DEF PlayerSlotInv
<1>35. CASE Main
  BY <1>35, <1>1, <1>2, <1>3, <1>4, <1>5, <1>6, <1>7, <1>8, <1>9, <1>10, <1>11,
     <1>12, <1>13, <1>15, <1>16, <1>17 DEF Main
<1>36. CASE ISR
  BY <1>36, <1>19, <1>20, <1>21, <1>22, <1>23, <1>24, <1>25, <1>26, <1>27, <1>28,
     <1>29, <1>30, <1>31, <1>32, <1>33 DEF ISR
<1> QED
  BY <1>18, <1>34, <1>35, <1>36 DEF Next

(* Whatever MyCustomISR does of what CustomOps lists and whenever the      *)
(* raster line comes, the program finds slot 2 and the register select as  *)
(* it left them: no hypothesis on the constants.                           *)
THEOREM CustomISRTransparent == Spec => []TransparentUnderCustom
<1>1. Init => PlayerSlotInv
  BY DEF Init, PlayerSlotInv
<1>2. TypeOK /\ PlayerSlotInv /\ [Next]_vars => PlayerSlotInv'
  BY PlayerSlotStep
<1>3. PlayerSlotInv => TransparentUnderCustom
  BY DEF PlayerSlotInv, TransparentUnderCustom, Running
<1> QED BY <1>1, <1>2, <1>3, TypeCorrect, PTL DEF Spec

----------------------------------------------------------------------------
(* Outside a request for a new tune the player is initialised for the tune *)
(* at bankbuffersplayernl, and inside playmusicnl that tune is paged.      *)
TuneInv ==
    /\ mpc \in {"boot", "boot2", "boot3"} => ipc = "idle" /\ line = 0
    /\ mpc \notin {"boot", "boot2"} /\ music # 3 => tune = <<playerBank, musicBank>>
    /\ ipc \in {"play", "mute", "reinit"} =>
           /\ slot[2] = playerBank /\ slot[0] = musicBank
           /\ slot[1] = NextBank(musicBank) /\ ay = 255
    /\ ipc \in {"play", "mute"} => music # 3

(* A program that leaves NewMusic requests to the ISR cannot make any step *)
(* lose the match of player and tune.                                      *)
LEMMA TuneStep ==
    ASSUME Hasty = FALSE, TypeOK, TuneInv, [Next]_vars
    PROVE  TuneInv'
<1> USE DEF TuneInv, hw, flags, banks, cells, history, Running
<1>0. slot \in [Slots -> Bank] /\ own \in [Slots -> Bank]
  BY DEF TypeOK
<1>1. ASSUME NEW b \in SfxBanks, InitSFX(b) PROVE TuneInv'
  BY <1>1 DEF InitSFX
<1>2. ASSUME NEW p \in PlayerBanks, NEW m \in TuneBanks, InitMusic(p, m)
      PROVE TuneInv'
  BY <1>2 DEF InitMusic
<1>3. CASE SetUpIM BY <1>3 DEF SetUpIM
<1>4. CASE DisableIM BY <1>4 DEF DisableIM
<1>5. ASSUME NEW on \in Bit, SetSfx(on) PROVE TuneInv'
  BY <1>5 DEF SetSfx
<1>6. ASSUME NEW m \in 0 .. 2, SetMusic(m) PROVE TuneInv'
  BY <1>6 DEF SetMusic
<1>7. ASSUME NEW m \in TuneBanks, NewMusic(m) PROVE TuneInv'
  BY <1>7 DEF NewMusic
<1>8. ASSUME NEW n \in Effects, PlaySFX(n) PROVE TuneInv'
  BY <1>8 DEF PlaySFX
<1>9. ASSUME NEW pg \in MainPages, Page(pg[1], pg[2]) PROVE TuneInv'
  BY <1>9 DEF Page
<1>10. ASSUME NEW r \in MainRegs, Select(r) PROVE TuneInv'
  BY <1>10 DEF Select
<1>11. CASE ReadSelected BY <1>11 DEF ReadSelected
<1>12. CASE CheckInts BY <1>12 DEF CheckInts
<1>13. CASE BankedBody BY <1>13 DEF BankedBody
<1>15. CASE BankedReturn BY <1>15 DEF BankedReturn
<1>16. CASE BankedError BY <1>16 DEF BankedError
<1>17. CASE ErrorLoop BY <1>17 DEF ErrorLoop, vars
<1>18. CASE Interrupt BY <1>18 DEF Interrupt
<1>19. CASE Entry BY <1>19 DEF Entry
<1>20. CASE Custom BY <1>20 DEF Custom
<1>21. CASE NoMail BY <1>21 DEF NoMail
<1>22. CASE Launch BY <1>22 DEF Launch
<1>23. CASE LaunchEnd BY <1>23 DEF LaunchEnd
<1>24. CASE NoSfx BY <1>24 DEF NoSfx
<1>25. CASE SfxFrame BY <1>25 DEF SfxFrame
<1>26. CASE SfxFrameEnd BY <1>26 DEF SfxFrameEnd
<1>27. CASE NoMusic BY <1>27 DEF NoMusic
<1>28. CASE MusicFrame
  <2>1. /\ slot'[2] = playerBank /\ slot'[0] = musicBank
        /\ slot'[1] = NextBank(musicBank) /\ ay' = 255
    BY <1>0, <1>28 DEF MusicFrame, MusicPaged, Slots
  <2> QED BY <1>28, <2>1 DEF MusicFrame
<1>29. CASE Play BY <1>29 DEF Play
<1>30. CASE Mute BY <1>30 DEF Mute
<1>31. CASE ReInit BY <1>31 DEF ReInit
<1>32. CASE MusicEnd BY <1>32 DEF MusicEnd
<1>33. CASE Exit BY <1>33 DEF Exit
<1>34. CASE UNCHANGED vars BY <1>34 DEF vars
<1> HIDE DEF TuneInv
<1>35. CASE Main
  BY <1>35, <1>1, <1>2, <1>3, <1>4, <1>5, <1>6, <1>7, <1>8, <1>9, <1>10, <1>11,
     <1>12, <1>13, <1>15, <1>16, <1>17 DEF Main
<1>36. CASE ISR
  BY <1>36, <1>19, <1>20, <1>21, <1>22, <1>23, <1>24, <1>25, <1>26, <1>27, <1>28,
     <1>29, <1>30, <1>31, <1>32, <1>33 DEF ISR
<1> QED
  BY <1>18, <1>34, <1>35, <1>36 DEF Next

(* The player is only ever run on the tune it was initialised for, whether *)
(* or not MyCustomISR pages and whenever the raster line comes, as long as *)
(* the program lets the ISR see each NewMusic request.                     *)
THEOREM PlayerMatchesTune ==
    ASSUME Hasty = FALSE
    PROVE  Spec => []PlaysTheTuneItKnows
<1>1. Init => TuneInv
  BY DEF Init, TuneInv
<1>2. TypeOK /\ TuneInv /\ [Next]_vars => TuneInv'
  BY TuneStep
<1>3. TuneInv => PlaysTheTuneItKnows
  BY DEF TuneInv, PlaysTheTuneItKnows
<1> QED BY <1>1, <1>2, <1>3, TypeCorrect, PTL DEF Spec

----------------------------------------------------------------------------
(* itbuff holds the interrupt state of the banked routine's caller from    *)
(* checkints to ReenableInts, and DI holds while its bank is mapped.       *)
MaskInv ==
    /\ mpc \in {"checked", "mapped"} => itbuff = caller
    /\ mpc = "mapped" => ipc = "idle" /\ iff = 0

(* Neither the program nor ._ISR overwrites itbuff under a banked routine. *)
LEMMA MaskStep ==
    ASSUME "banked" \notin CustomOps, MaskInv, [Next]_vars
    PROVE  MaskInv'
<1> USE DEF MaskInv, hw, flags, banks, cells, history, Running
<1>1. CASE Main
  <2>1. CASE SetUpIM \/ DisableIM \/ ReadSelected \/ CheckInts \/ BankedBody
    BY <2>1 DEF SetUpIM, DisableIM, ReadSelected, CheckInts, BankedBody
  <2>2. CASE BankedReturn \/ BankedError \/ ErrorLoop
    BY <2>2 DEF BankedReturn, BankedError, ErrorLoop, vars
  <2>3. CASE \/ \E b \in SfxBanks : InitSFX(b)
             \/ \E p \in PlayerBanks, m \in TuneBanks : InitMusic(p, m)
             \/ \E on \in Bit : SetSfx(on)
    BY <2>3 DEF InitSFX, InitMusic, SetSfx
  <2>4. CASE \/ \E m \in 0 .. 2 : SetMusic(m)
             \/ \E m \in TuneBanks : NewMusic(m)
             \/ \E n \in Effects : PlaySFX(n)
    BY <2>4 DEF SetMusic, NewMusic, PlaySFX
  <2>5. CASE \/ \E pg \in MainPages : Page(pg[1], pg[2])
             \/ \E r \in MainRegs : Select(r)
    BY <2>5 DEF Page, Select
  <2> QED BY <1>1, <2>1, <2>2, <2>3, <2>4, <2>5 DEF Main
<1>2. CASE Interrupt BY <1>2 DEF Interrupt
<1>3. CASE ISR
  <2>1. CASE Entry \/ NoMail \/ Launch \/ LaunchEnd \/ NoSfx \/ SfxFrame
    BY <2>1 DEF Entry, NoMail, Launch, LaunchEnd, NoSfx, SfxFrame
  <2>2. CASE Custom BY <2>2 DEF Custom
  <2>3. CASE SfxFrameEnd \/ NoMusic \/ MusicFrame \/ Play \/ Mute
    BY <2>3 DEF SfxFrameEnd, NoMusic, MusicFrame, Play, Mute
  <2>4. CASE ReInit \/ MusicEnd \/ Exit
    BY <2>4 DEF ReInit, MusicEnd, Exit
  <2> QED BY <1>3, <2>1, <2>2, <2>3, <2>4 DEF ISR
<1>4. CASE UNCHANGED vars BY <1>4 DEF vars
<1> QED BY <1>1, <1>2, <1>3, <1>4 DEF Next

(* A banked routine returns with the interrupts as it found them, unless   *)
(* MyCustomISR itself runs checkints.                                      *)
THEOREM ReenableIntsCorrect ==
    ASSUME "banked" \notin CustomOps
    PROVE  Spec => InterruptsRestored
<1>1. Init => MaskInv
  BY DEF Init, MaskInv
<1>2. MaskInv /\ [Next]_vars => MaskInv'
  BY MaskStep
<1>3. TypeOK /\ MaskInv /\ [Next]_vars
      => [mpc = "mapped" /\ mpc' = "run" => iff' = caller]_vars
  <2> SUFFICES ASSUME TypeOK, MaskInv, [Next]_vars, mpc = "mapped", mpc' = "run"
               PROVE  iff' = caller
    OBVIOUS
  <2>1. ipc = "idle" /\ iff = 0 /\ itbuff = caller /\ caller \in Bit
    BY DEF MaskInv, TypeOK
  <2>2. ~ISR
    BY <2>1 DEF ISR, Entry, Custom, NoMail, Launch, LaunchEnd, NoSfx, SfxFrame,
       SfxFrameEnd, NoMusic, MusicFrame, Play, Mute, ReInit, MusicEnd, Exit
  <2>3. ~Interrupt
    BY <2>1 DEF Interrupt
  <2>4. BankedReturn
    BY <2>2, <2>3 DEF Next, Main, vars, InitSFX, InitMusic, SetUpIM, DisableIM,
       SetSfx, SetMusic, NewMusic, PlaySFX, Page, Select, ReadSelected, CheckInts,
       BankedBody, BankedError, ErrorLoop
  <2> QED BY <2>1, <2>4 DEF BankedReturn, Bit
<1> QED BY <1>1, <1>2, <1>3, TypeCorrect, PTL DEF Spec, InterruptsRestored
=============================================================================

CONSTANTS
    SfxBanks = {38}
    PlayerBanks = {37}
    TuneBanks = {25, 28}
    Effects = {1}
    None = None
    MainPages <- MCPages
    MainRegs = {7}
    WorkBank = 30
    CustomOps = {"none", "chip"}
    LineDuringSetUp = FALSE
    Hasty = FALSE
SPECIFICATION Spec
INVARIANTS TypeOK Transparent PlaysTheTuneItKnows
PROPERTY InterruptsRestored

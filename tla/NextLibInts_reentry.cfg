CONSTANTS
    SfxBanks = {38}
    PlayerBanks = {37}
    TuneBanks = {25}
    Effects = {1}
    None = None
    MainPages <- NoPages
    MainRegs = {7}
    WorkBank = 30
    CustomOps = {"none", "chip"}
    LineDuringSetUp = TRUE
    Hasty = FALSE
SPECIFICATION Spec
INVARIANT SingleActivation

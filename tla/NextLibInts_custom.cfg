CONSTANTS
    SfxBanks = {38}
    PlayerBanks = {37}
    TuneBanks = {25}
    Effects = {1}
    None = None
    MainPages <- MCPages
    MainRegs = {7}
    WorkBank = 30
    CustomOps = {"page", "banked"}
    LineDuringSetUp = TRUE
    Hasty = TRUE
SPECIFICATION Spec
INVARIANT TransparentUnderCustom
CHECK_DEADLOCK FALSE
PROPERTY RequestsServed

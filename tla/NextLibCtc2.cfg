CONSTANTS
    SfxBanks = {38}
    PlayerBanks = {37}
    TuneBanks = {24}
    Effects = {3}
    None = None
    Table <- MCTable
    Pages <- MCPages
    Regs = {81}
    Wrappers = {"SetUpCTC", "SetUpIM"}
    Again = {"InitMusic"}
SPECIFICATION Spec
INVARIANTS
    TypeOK
    Transparent
    SampleInOrder
PROPERTY RequestsServed

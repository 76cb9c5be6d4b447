CONSTANTS
    Page = 2
    Banks = 14
    Units = {"Main", "Other", "Module1"}
    Targets = {"Main", "Module1"}
    Modules = {"Module1"}
    OddModules = {}
    Programs <- MCPrograms
    Parts <- MCParts
    HeadLines = 3
    MaxVersion = 2
    HandWritten <- MCHandWritten
    None = None
SPECIFICATION Spec
INVARIANTS TypeOK ImageAsPromised ScreensKept
PROPERTIES  ModulesUpToDate EmulatorRunsThisBuild

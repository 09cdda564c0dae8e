SPECIFICATION MgrSpec
CONSTANTS
    LevelNames <- TemplateNames
    Configs <- TemplateOnly
INVARIANTS DefaultLevels
CHECK_DEADLOCK FALSE

CONSTANTS
    Rosbags <- MCRosbags
    Texts <- MCTexts
    MaxChanges = 1
    Names = {"", "a"}
    Instants <- MCInstants
    MaxCalls = 6
    Frames <- MCFrames
    Bags <- MCBags
    Configs <- MCConfigs
    MaxRuns = 2
SPECIFICATION ScriptSpec
INVARIANTS
    ContextIsOfItsSources
    RegistryTellsTheTruth
    MetadataIsSound
    ChainIsCurrent
CHECK_DEADLOCK FALSE

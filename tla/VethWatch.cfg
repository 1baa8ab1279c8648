SPECIFICATION FairSpec
CONSTANTS
    Index = {1, 2}
    Plugins = {"http", "kafka"}
    ChCap = 1
    MaxChanges = 2
CHECK_DEADLOCK FALSE
INVARIANTS TypeOK ProbesFollowLinks OneFilter
PROPERTIES RefreshCompletes ProbesConverge

SPECIFICATION Spec
CONSTANTS
    Dirs <- MCDirs
    Files <- MCFiles
    MaxVolumes = 4
CHECK_DEADLOCK FALSE
INVARIANTS
    SyncsWhatIsMounted

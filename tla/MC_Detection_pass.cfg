SPECIFICATION Spec
CONSTANTS
    Calls <- MCCalls
    Memories <- MCMemories
    Hours <- MCHours
    None = None
INVARIANTS TypeOK GarbageIsHarmless EscalatedExecIsHigh SetuidToRootIsHigh FlagNeverLowersLevel NightNeverLowersLevel
CHECK_DEADLOCK FALSE

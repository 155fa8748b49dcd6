SPECIFICATION Spec
CONSTANTS
    Calls <- MCCalls
    Memories <- MCMemories
    Hours <- MCHours
    None = None
INVARIANTS RootTransitionIsRecorded
CHECK_DEADLOCK FALSE

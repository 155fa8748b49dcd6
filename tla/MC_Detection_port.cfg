SPECIFICATION Spec
CONSTANTS
    Calls <- MCCalls
    Memories <- MCMemories
    Hours <- MCHours
    None = None
INVARIANTS PortIsDecoded
CHECK_DEADLOCK FALSE

SPECIFICATION Spec
CONSTANTS
    MaxEvents = 3
    EarlierEvents <- MCEarlierEvents
    MaxAccidents = 2
    Missing = Missing
    TornText = TornText
INVARIANTS
    TypeOK
    CompleteIsOneRecording
    PublishedIsAccepted
CHECK_DEADLOCK FALSE

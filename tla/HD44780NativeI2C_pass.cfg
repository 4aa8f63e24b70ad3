SPECIFICATION Spec
CONSTANTS
    CtrlStart <- MC_CtrlStart
    Garbage <- MC_Garbage
    InstrBytes <- MC_InstrBytes
    DataBytes <- MC_DataBytes
    ContrastValues <- MC_ContrastValues
    WriteFails = FALSE
INVARIANTS
    OLEDCommandSetExited
    ContrastAsRequested
PROPERTIES
    InitLeavesFundamentalSet

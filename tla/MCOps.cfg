SPECIFICATION MCSpec
INVARIANTS
     EdgeHolds    IpcHolds CodecHolds
    PolicyHolds
CHECK_DEADLOCK FALSE

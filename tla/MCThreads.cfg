SPECIFICATION MCSpec
CONSTANTS
    NumLatest = 2
    EventCapacity = 1
    EventByteCapacity = 2
    MaxPayload = 1
    Lengths = {1, 2}
    Publisher = {p1}
    CounterModulus = 4
    RefJoints = {"elbow"}
    MaxTxn = 2
    MaxMishaps = 1
    MaxOrders = 1
    MaxDeferred = 1
INVARIANTS ConnectedMeansLiveReader OutboxAdds ThreadsHold
PROPERTIES NoAdmissionAfterClose ThreadsAnswer
CHECK_DEADLOCK FALSE

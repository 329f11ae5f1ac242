SPECIFICATION DriversSpec
CONSTANTS
    Drivers = {"mempubsub", "gcppubsub", "gcppubsubv2", "awssnssqs", "azuresb", "rabbitpubsub"}
    Msgs = {m1, m2}
    MaxIds = 4
    MaxNacks = 1
    MaxLate = 1
    MaxFaults = 1
    MaxChannels = 2
    Partitions = {1, 2}
    Length <- MCLength
    MaxRebalances = 1
    Calls = {c1, c2}
    Size = 2
    MaxSendChannels = 3
    MaxSendFaults = 2
    Senders = {"kafkapubsub", "gcppubsub", "gcppubsubv2", "awssns", "awssqs", "azuresb", "natspubsub", "mempubsub"}
    BatchSize = 3
INVARIANTS GoneMeansAcked CommittedMeansAcked OkMeansSent SendsReported
PROPERTIES AllDone AllCommitted SendsReturn
CHECK_DEADLOCK FALSE

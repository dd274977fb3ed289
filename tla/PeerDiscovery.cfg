SPECIFICATION MCSpec
CONSTANTS
    Peers = {p1}
    Self = self
    BootstrapNodes = 1
    EventCapacity = 1
    ManagerCapacity = 1
    MaxCalls = 2
    MaxEvents = 2
    Nodes = {n1, n2}
    StreamTopics = {t1}
    max_peers = 1
    MaxConnections = 2
INVARIANTS TypeOK LostOnlyWhenReplaced StopIsThorough AnswersWereReported
PROPERTIES StopReturns DepartedForgotten
CHECK_DEADLOCK FALSE

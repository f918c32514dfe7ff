SPECIFICATION FairSpec
CONSTANTS
    wifi = wifi
    Port = 8765
    Ifaces <- OneIface
    Unroutable = {"local"}
    AddrLists <- Lists
    Hosts = {"any", "loopback", "a2"}
    Questions <- SomeQuestions
    Announcements = 2
    MaxReadErrors = 2
    MaxQueries = 1
    MaxErrors = 1
    MaxStarts = 2
    MaxMoves = 1
INVARIANTS TypeOK PublishedIsServed AnswerSuffices
PROPERTIES GoodbyeForgets CloseEnds
CHECK_DEADLOCK FALSE

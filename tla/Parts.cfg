SPECIFICATION PartsSpec
CONSTANTS
    Width = 8
    MaxChars = 3
    MaxWrites = 3
    MaxCrashes = 1
    Files <- FilesDef
    Segments <- SegsDef
    Keys <- KeysDef
    Values <- ValuesDef
    Notes <- NotesDef
    LevelNames <- LevelPair
    Configs <- ConfigsDef
    MicroPerMilli = 2
    MilliPerSecond = 2
    SecondPerMinute = 2
    MinutePerHour = 2
    HourPerDay = 2
    TimeZone <- Zone
    FirstDay = 725
    LastDay = 800
    s1 = s1
    s2 = s2
    h1 = h1
    h2 = h2
    Sockets = {s1, s2}
    Hosts = {h1, h2}
    MaxQueued = 1
    W = 32
    Epoch = 61
    AskedInterval = 1
    MinInterval = 2
    MaxInterval = 5
    Reset = 3
    MinRto = 3
    DefRto = 3
    MaxRto = 6
    ProbeInit = 3
    ProbeLimit = 5
    FastResend = 2
    FastLimit = 2
    SndWnd = 2
    Gap = 1
    SetBack = {1, 8}
    MaxSegs = 2
    Life = 3
    Copies = 2
    Horizon = 6
SYMMETRY Symmetry
INVARIANTS FlushOnTime NothingOverdue TextAgrees InMemory CalendarAgrees LevelsLinked AnswersSender
PROPERTIES EarlyWhenPassed StoreSpec
CHECK_DEADLOCK FALSE

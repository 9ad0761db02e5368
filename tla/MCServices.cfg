SPECIFICATION Spec
CONSTANTS
    Askers = {w1, w2}
    Programs = {build}
    Moves = {upload}
    NoTask = NoTask
    Spans = {1}
    Tolerance = 2
    LastSecond = 1
    MaxStarts = 2
    Hands = {h1, h2}
    QueueLimit = 1
    Kinds = {clip}
    MaxOpens = 2
    MaxRequests = 2
    MaxTokens = 1
    MaxSessions = 2
    Devices = {lamp}
    Settings = {on, off}
    CallLimit = 1
    EventLimit = 2
    MaxCalls = 2
    MaxLinks = 2
    MaxChanges = 1
    MaxBreaks = 1
    MaxRestarts = 2
    DarkThemes = {night}
    LightThemes = {day}
    Default = night
    Darkens = {2}
    Lightens = {}
    Window = 0
    Polar = "light"
    FirstHour = 2
    LastHour = 3
    Generations = {1, 2, 3, 4}
    NoFile = NoFile
    MaxCommands = 2
    MaxFaults = 2
    MaxBuilds = 1
    Others = {child}
    CaptureModes <- FourModes
    Inputs = {1}
    OutputLimit = 1
    MaxWritten = 1
    a = a
    b = b
    Calendars = {work, home}
    Accounts = {a, b}
    work = work
    home = home
    OwnerOf <- CalendarOwners
    PrimaryOf <- CalendarPrimaries
    NoAccount = NoAccount
    Reach = 1
    WindowLimit = 1
    Today = 2
    LastDay = 2
    Browsed = {4}
    MaxSignins = 1
    MaxMishaps = 1
INVARIANTS SessionsAccounted ShownIsAsked PanelIsTrue PublishedIsWhole CallsEndClean
PROPERTIES EndsForItsReason SessionsEnd BusyEnds AnswersAreConfirmed RequestsEnd ThemeSettles CallsReturn SelectionCompletes
CHECK_DEADLOCK FALSE

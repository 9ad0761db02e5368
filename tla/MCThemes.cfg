SPECIFICATION MCSpec
CONSTANTS
    DarkThemes = {night}
    LightThemes = {day}
    Default = night
    Darkens = {2, 4}
    Lightens = {3}
    Window = 1
    Polar = "dark"
    FirstHour = 2
    LastHour = 4
    Generations = {1, 2, 3}
    NoFile = NoFile
    MaxCommands = 2
    MaxFaults = 0
    MaxBuilds = 1
PROPERTIES ChoiceHolds
CHECK_DEADLOCK FALSE

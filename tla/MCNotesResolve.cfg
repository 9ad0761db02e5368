SPECIFICATION NotesSpec
CONSTANTS
    Names = {n1, n2}
    NoName = NoName
    Texts = {Blank, t1, t2}
    Blank = Blank
    Absent = Absent
    MaxTyped = 2
    MaxSends = 2
    MaxEvents = 1
PROPERTY ResolvesKeepBoth
CHECK_DEADLOCK FALSE

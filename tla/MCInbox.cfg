SPECIFICATION FairSpec
CONSTANTS
    Rows = {r1, r2}
    src = src
    Sources = {src}
    SourceOf <- Of
    Contents <- TwoContents
    Nothing = Nothing
    Threads = {t1, t2}
    Nobody = Nobody
    TaskLimit = 2
    Capacity = 1
    MaxRevision = 2
INVARIANTS OneTaskPerRow SavedBeforeShown RevisionNamesContent AlertOnce
PROPERTIES TasksEnd

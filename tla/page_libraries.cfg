\* A loader, six calls of the http helpers, an engine with two states.
SPECIFICATION LibrariesSpec
CONSTANTS
    File = {"index", "a", "b", "c"}
    Document <- Documents
    Known <- Registered
    Unknowns = 1
    InitialNames <- Starts
    MaxNamed = 8
    Call <- Calls6
    Helper <- Helpers
    Urls <- UrlCounts
    OnSuccess = {"json", "picture", "none", "three"}
    OnError = {"json", "three"}
    State = {"menu", "game"}
    Pushed <- Pushes
    Later = {"tick", "app"}
    MaxChanges = 3
    MaxCreated = 5
    MaxDepth = 6
INVARIANTS LoadsInOrder SectionsTold EndsOnce ListedAreLoaded Running FreshList
PROPERTY CallsEnd
\* A page may stop, and changes and files are bounded.
CHECK_DEADLOCK FALSE

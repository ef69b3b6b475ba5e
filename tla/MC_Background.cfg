SPECIFICATION BackgroundSpec
CONSTANTS
    Tabs = {t1, t2}
    MaxTokens = 5
    Senders = {s1, s2}
    Accounts = {alice, bob}
    NoSender = NoSender
    NoAccount = NoAccount
    MaxAttempts = 2
    MaxRegistrations = 2
    MaxStalls = 1
    Parent = p
    Children = {c1, c2}
    Flushes = {f1, f2}
    MaxStarts = 4
    MaxDrops = 1
    Automations = {a1}
    Dispatchers = {d1, d2}
    Workspaces = {w1, w2}
    NoDispatcher = NoDispatcher
    NoAutomation = NoAutomation
    NoWorkspace = NoWorkspace
    Crons = {{2, 3}, {1}}
    Horizon = 4
    Fold = 3
    Repeated = 1
    Clients = {k1, k2}
    NoClient = NoClient
    Sandbox = Sandbox
    MaxRecords = 2
    MaxPtys = 2
    MaxStops = 2
    MaxDevices = 2
    Threads = {x1, x2, x3}
    SideViews = {"editor"}
    MaxPanes = 3
    MaxDeletes = 1
CHECK_DEADLOCK FALSE
INVARIANTS
    BackgroundTypeOK
    SessionsSafe
    
    WindowSafe
    SlotFiresOnce
PROPERTIES
    PushSettles
    ReportsArrive
    OnlyBrokenDisabled
    ClosingKeepsPanes

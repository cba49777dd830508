SPECIFICATION PartSpec
CONSTANTS
    Off = Off
    None = None
    Unregistered = Unregistered
    Missing = Missing
    Bad = Bad
    c1 = c1
    c2 = c2
    shell = shell
    fetch = fetch
    echo = echo
    x = x
    y = y
    q1 = q1
    q2 = q2
    q3 = q3
    v1 = v1
    v2 = v2
    Attempts = {v1, v2}
    Addrs = {1, 2, 3, 4}
    Limit = 2
    Inputs = {0}
    Outputs = {1}
    MaxSpend = 2
    MaxDepth = 2
    MaxTotal = 2
CONSTRAINT FewScopes
SYMMETRY Symmetry
CHECK_DEADLOCK FALSE
PROPERTY BudgetSound
PROPERTY CrewSound
PROPERTY TaskSound
PROPERTY AgentTurnSound
PROPERTY ProviderSound
PROPERTY CommandSound

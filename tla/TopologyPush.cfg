SPECIFICATION Spec
CONSTANTS
    Client = {c1, c2}
    Node = {n1, n2}
    Key <- Scopes
    Default = "all"
    PollerBuilds <- AsAsked
    NewCount = 2
    RemovalCount = 1
    MinChange = 1
    LossySends = TRUE
INVARIANTS
    TypeOK
    

    
SYMMETRY Symmetry
CHECK_DEADLOCK FALSE

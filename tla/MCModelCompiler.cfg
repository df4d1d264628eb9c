SPECIFICATION Editing
CONSTANTS
    None = None
    NoResource = NoResource
    BadName = {5}
    Plain = {1, 2, 3, 4}
    Type <- MCType
    TopologyEdits <- MCTopologyEdits
    RoleEdits <- MCRoleEdits
    PermissionEdits <- MCPermissionEdits
    MaxModules = 2
    MaxEdits = 5
CHECK_DEADLOCK FALSE
INVARIANTS
    OrderIndependent
    NoLooseEnds
    Isolated
    CyclesNeedRoles
    RefusedBeyondSchema

CONSTANTS
    Owners = {o1}
    Visitors = {v1}
    NoHolder = NoHolder
    First = First
    MaxVersions = 2
    MaxDeployFaults = 0

SPECIFICATION DeploySpec
PROPERTIES VersionsStand
CHECK_DEADLOCK FALSE

SPECIFICATION TrafficSpec
CONSTANTS
    r1 = r1
    Roles = {"Administrator", "Accountant"}
    SecurityRole <- MCSecurityRole
    Grants <- MCGrants
    Requests = {r1}
    Calls <- ClientCalls
    Sample <- MCSample
CHECK_DEADLOCK FALSE
INVARIANTS
    ContractHolds
    ServedByPermission
    ServedIsAudited
PROPERTIES
    StaleRoleExpires

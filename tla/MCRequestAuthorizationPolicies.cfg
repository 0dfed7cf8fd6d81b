\* Behind RuntimeRouter only.
SPECIFICATION Spec
CONSTANTS
    None = None
    User = "u1"
    Credentials = {"jwt", "api-key"}
    Strategies = {"jwt", "api-key"}
    Policies = {"manage-users", "view-user"}
    Controllers <- MCControllers
    Calls <- MCCalls
    Roles = {"admin", "staff"}
    Permissions <- MCPermissions
    Grants <- MCGrants
    Routers = {"runtime"}
INVARIANTS
    PoliciesGrant

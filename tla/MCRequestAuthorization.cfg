\* Every route of the sample and eight more, behind RuntimeRouter and behind a
\* router that hands over every requirement.
SPECIFICATION Spec
CONSTANTS
    None = None
    User = "u1"
    Credentials = {"jwt", "api-key"}
    Strategies = {"jwt", "api-key"}
    Policies = {"manage-users", "view-user"}
    Controllers <- MCControllers
    Calls <- MCCalls
    Roles = {"admin", "staff"}
    Permissions <- MCPermissions
    Grants <- MCGrants
    Routers = {"runtime", "whole"}
INVARIANTS
    AdmittedByTheDatabase
    OutcomesAreAudited

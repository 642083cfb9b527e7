SPECIFICATION Spec
CONSTANTS
    None = none
    Nothing = nothing
CHECK_DEADLOCK FALSE
PROPERTIES
    PackagesRead ServersRead HarnessRead AgentsRead CommandsRead

SPECIFICATION Spec
CONSTANTS
    None = none
    Nothing = nothing
CHECK_DEADLOCK FALSE
INVARIANT PermissionsLossless

\* The variables of a residential lease, in the preview and on the server.
SPECIFICATION Spec
CONSTANTS
    Variants = {"residential_lease"}
    Kinds = {"issued"}
    OneBlank = TRUE
INVARIANTS
    PreviewedIsIssued
CHECK_DEADLOCK FALSE

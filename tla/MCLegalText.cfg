\* The nine contracts; every preview variable and every answer is a topic.
\* A topic whose answers no field of the wizard asks for has no step.
SPECIFICATION Spec
CONSTANTS
    Variants = {"residential_lease", "commercial_lease", "administrative_lease",
                "preliminary_sale", "registrable_sale", "inherited_sale",
                "visual_identity_design", "website_development", "social_media_management"}
    Kinds = {"variable", "answer"}
    OneBlank = TRUE
INVARIANTS
    TypeOK
    ValidDraftIsComplete
    HiddenAnswerStaysOut
    WrittenAnswerIsPrinted
CHECK_DEADLOCK FALSE

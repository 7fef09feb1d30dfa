SPECIFICATION RenderSpec
CONSTANTS
    MaxLength = 4
    MaxEntities = 4
INVARIANTS RenderTypeOK ShownRight
CHECK_DEADLOCK FALSE

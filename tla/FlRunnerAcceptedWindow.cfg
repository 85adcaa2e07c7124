SPECIFICATION Spec
CONSTANTS
  PermanentCodes = {"NotFound", "InvalidArgument", "Unimplemented"}
  MultipleTaskFlags = {FALSE}
INVARIANT AcceptedWindowKept
CHECK_DEADLOCK FALSE

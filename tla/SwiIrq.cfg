SPECIFICATION BootSpec
CONSTANTS
  Points <- SafeLines
  MaxNesting = 3
  Args <- ArgLists
  handler_at <- TwoHandlers
INVARIANTS UserInUserMode UserKeepsRegisters HandlersInPlace ArgumentsArrive
PROPERTY IrqRestoresCpsr

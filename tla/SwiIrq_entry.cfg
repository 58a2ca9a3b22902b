SPECIFICATION BootSpec
CONSTANTS
  Points <- EntryLines
  MaxNesting = 3
  Args <- ArgLists
  handler_at <- TwoHandlers
INVARIANT UserInUserMode

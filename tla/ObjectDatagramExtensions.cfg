SPECIFICATION Spec
CONSTANTS
    Numbers <- MCNumbers
    Priorities <- MCPriorities
    Extensions <- MCExtensions
    Statuses <- MCStatuses
    Payloads <- MCPayloads
    MaxOptions = 6
    MaxValueLength = 2
INVARIANT DecodedIsAnObject
CHECK_DEADLOCK FALSE

SPECIFICATION PackSpec
CONSTANTS
    None = None
    create = create startA = startA startB = startB cancelA = cancelA cancelB = cancelB
    turnA = turnA turnB = turnB
    Creates = {create}
    Starts = {startA, startB}
    Cancels = {cancelA, cancelB}
    Turns = {turnA, turnB}
    TurnOf <- MCTurnOf
    Calls = {1, 2}
    MaxTries <- MCMaxTries
    MaxRounds = 1
    MaxTools <- MCMaxTools
    MaxDeltas <- MCMaxDeltas
    Capacity = 1
    Runs = {startA}
    Cmds <- MCCmds
    InitialRules <- MCRules
    Policy = "on_request"
    MaxProcs = 2
    MaxTurns = 2
    MaxWrites = 1
INVARIANTS SessionSound ProcessesAccounted
PROPERTIES  CancelledTurnEnds TurnQuiets
CHECK_DEADLOCK FALSE

SPECIFICATION Spec
CONSTANTS
    draft = draft
    done = done
    number = number
    alice = alice
    blank = blank
    NumAgents = 2
    States <- MCStates
    Strings <- MCStrings
    Names <- MCNames
    BlankNames <- MCBlankNames
    Accepted <- MCAccepted
    Breaking = {}
    IterationBound = 1
INVARIANTS
    OnlyTurnsTellStates

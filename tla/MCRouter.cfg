SPECIFICATION Spec
CONSTANTS
    Size = 3
    Saturation = 4
    Prompts <- MCPrompts
    Tasks <- MCTasks
    Offers <- MCOffers
    Ceilings <- MCCeilings
    DefaultCeiling = 1
    Budgets <- MCBudgets
INVARIANTS
    RespectsLimits
    ReasoningIsNotSimple
    DowngradeSaves
PROPERTIES
    FailoverClimbs
CHECK_DEADLOCK FALSE

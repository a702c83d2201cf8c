SPECIFICATION Spec
CONSTANTS
    script = script
    Task = {t1}
    Agent = {a1, a2}
    Retried = {t1}
    ScriptOf <- MCScriptOf
    CanRun <- MCCanRun
    RetryMax <- MCRetryMax
    MaxPull = 1
SYMMETRY AgentSymmetry
INVARIANTS TypeOK RowConsistent ExecutionBound BudgetSpent FinishFenced
PROPERTIES TerminalIsFinal ReclaimJustified ImplementsAbstract

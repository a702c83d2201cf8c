SPECIFICATION FairSpec
CONSTANTS
    script = script
    Task = {t1, t2}
    Agent = {a1}
    Retried = {}
    ScriptOf <- MCScriptOf
    CanRun <- MCCanRun
    RetryMax <- MCRetryMax
    MaxPull = 1
PROPERTY EventuallyEnds

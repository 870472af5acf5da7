\* One machine that enrols, one call at a time, and an administrator.
CONSTANTS
    Handlers = {h1}
    Ids = {d1}
    Machines = {m1}
    Licences = {l1, l2}
    Commands = {}
    Limit <- MCLimit
    MaxSecrets = 3
    MaxMishaps = 0
    None = None
SPECIFICATION Spec
PROPERTY KilledStaysKilled
CHECK_DEADLOCK FALSE

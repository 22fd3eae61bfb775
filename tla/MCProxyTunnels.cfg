\* One connection of every kind, two items each way, two changes of the settings.
CONSTANTS
    Hosts <- MCHosts
    RulePool <- MCRules
    Modes = {"auto", "pure", "lockdown"}
    MaxItems = 2
    MaxEdits = 2
SPECIFICATION Spec
INVARIANTS NothingForbiddenConnects DataArrives
PROPERTIES TunnelsEnd
CHECK_DEADLOCK FALSE

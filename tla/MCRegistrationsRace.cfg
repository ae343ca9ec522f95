\* Two setups of different releases at once; nothing fails and nobody edits.
CONSTANTS
    Clients = {1}
    Versions = {1, 2}
    Operators = {p1, p2}
    MaxBegins = 2
    MaxEdits = 0
    MaxMishaps = 0
SPECIFICATION RegistrationsSpec
PROPERTY SetupNeverGoesBack
CHECK_DEADLOCK FALSE

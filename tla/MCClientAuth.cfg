CONSTANTS
    Clients = {c1, c2}
    Nobody = Nobody
    MaxAttempts = 3
    Byte = 8
    MaxPins = 3
    MaxNonces = 3
SPECIFICATION AuthSpec
SYMMETRY ClientsAreAlike
CHECK_DEADLOCK FALSE
INVARIANTS
    AccountsAreTrue
PROPERTIES
    CredentialsWorkOnce

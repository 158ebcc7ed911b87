CONSTANTS
    Users = {ana, bia}
    Passwords = {p, q}
    LoginLimit = 1
    MaxLinks = 2
    MaxCommands = 1
SPECIFICATION Spec
SYMMETRY Interchangeable
CONSTRAINT Uncrossed
INVARIANTS
    DeactivatedHasNoSession

SPECIFICATION InstallSpec
CONSTANTS
    Tags = {v1, v2}
    InstallHappens = {}
INVARIANT InstallersConfigGoes

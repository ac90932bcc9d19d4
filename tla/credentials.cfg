\* Both platforms: setup, uninstall and replaced tokens of both modules on Linux,
\* where the consent page saves without the guard; on Windows every operation of
\* the terminal and of the desktop on Jira's account and two tokens.
SPECIFICATION PlatformSpec
CONSTANTS
    Processes = {p1, p2}
    Modules = {"jira", "bitbucket"}
    Accounts = {mine, former}
    Tokens = {old, new}
    Kinds = {"setup", "uninstall", "replaceToken", "connect", "disconnect", "consent"}
    MaxEdits = 1
SYMMETRY Symmetry
INVARIANTS TypeOK RollbackRestores SuccessIsComplete
PROPERTIES SafeToInterrupt

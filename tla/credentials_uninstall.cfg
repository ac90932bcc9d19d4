\* Uninstalling after a module was switched off.
SPECIFICATION Spec
CONSTANTS
    Processes = {tui, other}
    Modules = {"jira", "bitbucket"}
    Accounts = {mine, former}
    Tokens = {token}
    Kinds = {"setup", "uninstall"}
    MaxEdits = 0
INVARIANTS UninstallRemovesCredential

\* An editor of the terminal saves while the desktop changes a grant.
SPECIFICATION Spec
CONSTANTS
    Processes = {tui, other}
    Modules = {"jira"}
    Accounts = {mine, former}
    Tokens = {token}
    Kinds = {"consent"}
    MaxEdits = 1
PROPERTIES UpdatesNotInterleaved

\* An open editor of the terminal and the preferences of the desktop.
SPECIFICATION AllSpec
CONSTANTS
    desktop = desktop
    jira = jira
    bitbucket = bitbucket
    consent = consent
    language = language
    uninstall = uninstall
    Frontends = {desktop, jira}
    Kind <- KindOfThese
    Values = {old, new}
    MaxRevision = 3
PROPERTIES StaleEditorRejected

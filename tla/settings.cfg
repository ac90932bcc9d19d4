\* Pairs of frontends that save at the same time; every save runs to its end.
SPECIFICATION GroupSpec
CONSTANTS
    desktop = desktop
    jira = jira
    bitbucket = bitbucket
    consent = consent
    language = language
    uninstall = uninstall
    Frontends = {desktop, jira, bitbucket, consent, language}
    Kind <- KindOfThese
    Values = {old, new}
    MaxRevision = 2
INVARIANTS TypeOK
PROPERTIES PreferencesNeverGrant ForeignSectionsKept RevisionsNameDocuments LockComesFree

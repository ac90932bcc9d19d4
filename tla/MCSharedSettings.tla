------------------------- MODULE MCSharedSettings -------------------------
(* Small instances of the shared settings for TLC.                          *)
EXTENDS SharedSettings, TLC

CONSTANTS desktop, jira, bitbucket, consent, language, uninstall

Everyone == desktop :> "preferences" @@ jira :> "jiraEditor"
            @@ bitbucket :> "bitbucketEditor" @@ consent :> "consent"
            @@ language :> "language" @@ uninstall :> "uninstall"

KindOfThese == [f \in Frontends |-> Everyone[f]]

\* The frontends that are opened in a behaviour: the desktop's preferences with
\* its consent page or with a change of the language, or the two editors of the
\* terminal, which write each other's sections when they apply.
Groups == {{desktop, consent}, {desktop, language}, {jira, bitbucket}}

VARIABLE opened

GroupInit == Init /\ opened \in Groups

GroupSpec ==
    /\ GroupInit
    /\ [][/\ opened' = opened
          /\ Next
          /\ \A f \in Frontends \ opened : pc'[f] = "closed"]_<<vars, opened>>
    /\ \A f \in Frontends : WF_vars(Saving(f))

\* All frontends at once.
AllInit == Init /\ opened = Frontends

AllSpec == AllInit /\ [][Next /\ opened' = opened]_<<vars, opened>>
=============================================================================

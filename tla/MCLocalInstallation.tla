------------------------ MODULE MCLocalInstallation ------------------------
(* Small instances of the local installation for TLC.                       *)
EXTENDS LocalInstallation, TLC

Alike == Permutations(Processes)

\* What a behaviour is about: the registrations, while the skills stay as they
\* are, or the skills, after registrations that nobody else changes.
VARIABLE suite

Started == {work'[p] : p \in {q \in Processes : work[q] = Idle /\ work'[q] # Idle}}

Active == {p \in Processes : work'[p] # Idle}

\* The bounds: two commands on registrations at once while nobody else makes a
\* change, one from the menu and one from the menu or of the uninstallation, and
\* one command at a time with a change of others, or two changes of the skills.
Within ==
    /\ Cardinality(Active) > 1 =>
         /\ edits' = 0
         /\ \A p \in Active : work'[p].kind \in {"manage", "uninstall"}
         /\ \E p \in Active : work'[p].kind = "manage"
    /\ CASE suite = "registrations" ->
              /\ skill' = skill
              /\ edits' <= 1
              /\ \A w \in Started : ~w.skills
         [] suite = "skills" ->
              /\ edits' # edits => skill' # skill
              /\ \A w \in Started : w.skills /\ w.named \in {{}, Files}
              /\ Cardinality(Active) <= 1

SuiteInit ==
    /\ Init
    /\ \/ suite = "registrations" /\ skill = NoSnapshot
       \/ suite = "skills" /\ server /\ client = [c \in Clients |-> NoOriginal]

SuiteSpec == SuiteInit /\ [][Next /\ suite' = suite /\ Within]_<<vars, suite>>
=============================================================================

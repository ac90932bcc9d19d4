---------------------- MODULE MCCredentialTransactions ----------------------
(* Small instances of the credential transactions for TLC.  Processes,      *)
(* accounts and tokens are interchangeable.                                 *)
EXTENDS CredentialTransactions, FiniteSets, TLC

Symmetry == Permutations(Processes) \cup Permutations(Accounts) \cup Permutations(Tokens)

\* The bounds: on Linux the terminal's operations on both modules, with one token;
\* on Windows every operation on Jira's account, with two tokens.
TokensUsed == {secret'[key] : key \in Keys}
              \cup {tx'[p].job.token : p \in {q \in Processes :
                      tx'[q] # Idle /\ "token" \in DOMAIN tx'[q].job}}

Within ==
    IF windows
    THEN /\ settings'.account["bitbucket"] = None /\ "bitbucket" \notin settings'.enabled
         /\ \A p \in Processes : tx'[p] # Idle /\ "module" \in DOMAIN tx'[p].job
                                 => tx'[p].job.module = "jira"
    ELSE /\ Cardinality(TokensUsed \ {None}) <= 1
         /\ \A p \in Processes : tx'[p] # Idle => tx'[p].job.kind \notin {"connect", "disconnect"}

PlatformSpec == Init /\ [][Next /\ Within]_vars
=============================================================================

----------------------- MODULE CredentialTransactions -----------------------
(***************************************************************************)
(* The API tokens in the credential store, the accounts and grants of      *)
(* settings.json that refer to them, and the operations that change both   *)
(* under the credential transaction guard: setup of Jira and Bitbucket,    *)
(* uninstall, connecting and disconnecting the desktop, the desktop's MCP  *)
(* consent (guarded on Windows only), and replacing a token in the         *)
(* terminal's settings.  The editors of the terminal save settings without *)
(* the guard at any time.                                                  *)
(*                                                                         *)
(* An operation is a program: a sequence of steps, each with the undo list *)
(* that its error path runs.  Reading, writing and undoing are separate    *)
(* actions, each write may fail, and the process may end between any two.  *)
(* How one save of settings.json meets another is SharedSettings; here it  *)
(* is one action, or it fails.                                             *)
(***************************************************************************)
EXTENDS Naturals, Sequences

CONSTANTS Processes,   \* running terminals and desktops
          Modules,     \* the integration modules
          Accounts,    \* canonical coordinates: a site and an email
          Tokens,
          Kinds,       \* the operations of this instance
          MaxEdits     \* bound: editor saves during one transaction

None == "none"   \* no account, no token
Free == "free"   \* the guard when nobody holds it

ASSUME CredentialAssumption ==
    /\ "jira" \in Modules /\ Modules \subseteq {"jira", "bitbucket"}
    /\ None \notin Accounts \cup Tokens
    /\ Free \notin Processes
    /\ MaxEdits \in Nat

Keys == ({"mcp"} \X Modules \X Accounts) \cup ({"desktop"} \X {"jira"} \X Accounts)

McpKey(m, account) == <<"mcp", m, account>>
DesktopKey(account) == <<"desktop", "jira", account>>

\* settings.json: the account of each module, None while its section is
\* incomplete, and the modules that MCP may use.
Documents == [account : [Modules -> Accounts \cup {None}], enabled : SUBSET Modules]

NoConfiguration == [account |-> [m \in Modules |-> None], enabled |-> {}]

\* from_shared: a runtime configuration exists when a module is enabled and
\* every enabled one is complete.
Configuration(document) ==
    IF document.enabled # {} /\ \A m \in document.enabled : document.account[m] # None
    THEN document ELSE NoConfiguration

\* configured_jira, configured_bitbucket, and the drafts of the editors.
WithModule(document, m, account, on) ==
    [account |-> [document.account EXCEPT ![m] = account],
     enabled |-> IF on THEN document.enabled \cup {m} ELSE document.enabled \ {m}]

\* ConfigurationStore::save puts the sections of the configuration and its
\* modules on the document; clear, which only drops the modules, is saving
\* NoConfiguration.
Saved(document, configuration) ==
    [account |-> [m \in Modules |-> IF configuration.account[m] = None THEN document.account[m]
                                    ELSE configuration.account[m]],
     enabled |-> configuration.enabled]

-----------------------------------------------------------------------------
(* Operations and steps *)

Jobs == {job \in
       [kind : {"setup", "replaceToken"}, module : Modules, account : Accounts,
        token : Tokens, on : BOOLEAN]
  \cup [kind : {"consent"}, module : Modules, account : Accounts, on : BOOLEAN]
  \cup [kind : {"connect"}, account : Accounts, token : Tokens]
  \cup [kind : {"uninstall", "disconnect"}] : job.kind \in Kinds}

\* One write: a token is stored or (None) deleted; a configuration is saved;
\* the desktop publishes its account; an editor saves its draft; and what
\* may fail without writing here.
Put(key, token) == [do |-> "put", key |-> key, token |-> token]
Write(configuration) == [do |-> "write", configuration |-> configuration]
Publish(account) == [do |-> "publish", account |-> account]
Draft(m, account, on) == [do |-> "draft", module |-> m, account |-> account, on |-> on]
Check(holds) == [do |-> "check", holds |-> holds]

Writes == [do : {"put"}, key : Keys, token : Tokens \cup {None}]
     \cup [do : {"write"}, configuration : Documents]
     \cup [do : {"publish"}, account : Accounts]
     \cup [do : {"draft"}, module : Modules, account : Accounts, on : BOOLEAN]
     \cup [do : {"check"}, holds : BOOLEAN]

Step(write, undo) == [write |-> write, undo |-> undo]

-----------------------------------------------------------------------------
VARIABLES guard,      \* who holds the credential transaction guard
          settings,   \* settings.json
          secret,     \* the credential store
          tx,         \* what each process is doing
          edits,      \* editor saves during the transaction, bounded by MaxEdits
          windows     \* the computer runs Windows, not Linux

vars == <<guard, settings, secret, tx, edits, windows>>

Idle == [stage |-> "idle"]

\* todo: the steps left.  undo: what is left of the error path.
\* read: the configuration as last read.  History: the tokens (before) and
\* settings (start) at the snapshot, whether the settings are still what was
\* read (fresh), and whether no change was left without being undone (exact).
Transactions ==
    [stage : {"snapshot", "forward", "undo"}, job : Jobs, read : Documents,
     todo : Seq([write : Writes, undo : Seq(Writes)]), undo : Seq(Writes),
     before : [Keys -> Tokens \cup {None}], start : Documents,
     fresh : BOOLEAN, exact : BOOLEAN]

Init == /\ guard = Free
        /\ settings = NoConfiguration
        /\ secret = [key \in Keys |-> None]
        /\ tx = [p \in Processes |-> Idle]
        /\ edits = 0
        /\ windows \in BOOLEAN

-----------------------------------------------------------------------------
(* The programs *)

Undoing(key) == Put(key, secret[key])   \* the token as it is at the snapshot

\* setup_coordinates_match, bitbucket_coordinates_match.
Replaces(job, found) == found.account[job.module] \notin {None, job.account}

\* Mutant: the rollback forgets the configuration.
RollbackOfTokens(job, found) ==
    <<Undoing(McpKey(job.module, found.account[job.module])),
      Undoing(McpKey(job.module, job.account))>>

\* rollback_setup, rollback_bitbucket_setup.
Rollback(job, found) ==
    <<Undoing(McpKey(job.module, found.account[job.module])),
      Undoing(McpKey(job.module, job.account)),
      Write(found)>>

\* Mutant: the configuration is saved before its token.
SetupStepsTokenLast(job, found, configuration) ==
    LET key == McpKey(job.module, job.account)
    IN  <<Step(Write(configuration), <<>>), Step(Put(key, job.token), <<Write(found)>>)>>

\* save_setup, save_bitbucket_setup.
SetupSteps(job, found, configuration) ==
    LET key == McpKey(job.module, job.account)
    IN  <<Step(Put(key, job.token), <<>>), Step(Write(configuration), <<Undoing(key)>>)>>
        \o IF Replaces(job, found)
           THEN <<Step(Put(McpKey(job.module, found.account[job.module]), None),
                       Rollback(job, found))>>
           ELSE <<>>

\* configured_credential_backups.
BackedUp(found) ==
    LET backup(m) == IF m \in Modules /\ found.account[m] # None
                     THEN <<McpKey(m, found.account[m])>> ELSE <<>>
    IN  backup("jira") \o backup("bitbucket")

\* uninstall: the clients, then clear_secure_installation.
UninstallSteps(found) ==
    LET keys == BackedUp(found)
        restore == [i \in DOMAIN keys |-> Undoing(keys[i])] \o <<Write(found)>>
    IN  <<Step(Check(TRUE), <<>>), Step(Write(NoConfiguration), <<>>)>>
        \o [i \in DOMAIN keys |-> Step(Put(keys[i], None), restore)]

\* Mutant: the token is not put back.
ConnectStepsNotUndone(job) ==
    <<Step(Put(DesktopKey(job.account), job.token), <<>>), Step(Publish(job.account), <<>>)>>

\* persist.
ConnectSteps(job) ==
    LET key == DesktopKey(job.account)
    IN  <<Step(Put(key, job.token), <<>>), Step(Publish(job.account), <<Undoing(key)>>)>>

\* disconnect: clearing the settings does nothing while they are shared.
DisconnectSteps ==
    LET account == settings.account["jira"]
        key == DesktopKey(account)
    IN  IF account = None THEN <<>>
        ELSE <<Step(Put(key, None), <<Undoing(key), Publish(account)>>)>>

\* mcp_configuration: MCP's own Jira account, or else the desktop's; a
\* capability of a module without account is refused.
Consented(job, found) ==
    LET own == found.account["jira"]
    IN  WithModule([found EXCEPT !.account["jira"] = IF own = None THEN job.account ELSE own],
                   job.module,
                   IF job.module # "jira" THEN found.account[job.module]
                   ELSE IF own = None THEN job.account ELSE own,
                   job.on)

Consentable(job, found) == job.on => Consented(job, found).account[job.module] # None

\* Mutant: the token stays when Jira is switched off.
CredentialActionKeeping(job, configuration) ==
    LET account == configuration.account["jira"]
        desktop == secret[DesktopKey(account)]
    IN  IF "jira" \notin configuration.enabled \/ secret[McpKey("jira", account)] # None
        THEN Check(TRUE)
        ELSE IF account = job.account /\ desktop # None THEN Put(McpKey("jira", account), desktop)
        ELSE Check(FALSE)

\* jira_credential_action, apply_jira_credential_action: delete, preserve,
\* transfer, or reject.
CredentialAction(job, configuration) ==
    LET account == configuration.account["jira"]
        desktop == secret[DesktopKey(account)]
    IN  IF "jira" \notin configuration.enabled THEN Put(McpKey("jira", account), None)
        ELSE IF secret[McpKey("jira", account)] # None THEN Check(TRUE)
        ELSE IF account = job.account /\ desktop # None THEN Put(McpKey("jira", account), desktop)
        ELSE Check(FALSE)

\* persist_configuration on Windows.
ConsentSteps(job, found) ==
    LET configuration == Consented(job, found)
        key == McpKey("jira", configuration.account["jira"])
    IN  IF Consentable(job, found)
        THEN <<Step(Write(configuration), <<>>),
               Step(CredentialAction(job, configuration), <<Undoing(key), Write(found)>>)>>
        ELSE <<Step(Check(FALSE), <<>>)>>

\* replace_token of the editors; Bitbucket's saves its draft when the guard
\* is released already.
ReplaceTokenSteps(job) ==
    <<Step(Put(McpKey(job.module, job.account), job.token), <<>>)>>
    \o IF job.module = "jira" THEN <<Step(Draft("jira", job.account, job.on), <<>>)>> ELSE <<>>

\* What an operation will do, from what it read first (read) and from the
\* snapshot.
Program(job, read) ==
    LET found == Configuration(settings)
    IN  CASE job.kind = "setup" ->
                SetupSteps(job, found, WithModule(read, job.module, job.account, job.on))
          [] job.kind = "uninstall"    -> UninstallSteps(found)
          [] job.kind = "connect"      -> ConnectSteps(job)
          [] job.kind = "disconnect"   -> DisconnectSteps
          [] job.kind = "consent"      -> ConsentSteps(job, found)
          [] job.kind = "replaceToken" -> ReplaceTokenSteps(job)

-----------------------------------------------------------------------------
(* Actions *)

\* Mutant: the lock file is opened in shared mode.
GuardShared == TRUE

\* CredentialTransactionGuard::acquire, without waiting; otherwise the
\* operation ends in TransactionBusy and nothing happened.
GuardAvailable == guard = Free

\* The guard is dropped on every way out, and by the operating system.
GuardAfter == Free

\* The guard is taken; setup reads the configuration that it will extend.
Begin(p, job) ==
    /\ tx[p] = Idle
    /\ job.kind = "consent" => windows
    /\ GuardAvailable
    /\ guard' = p
    /\ tx' = [tx EXCEPT ![p] = [stage |-> "snapshot", job |-> job,
                                read |-> IF job.kind = "setup" THEN Configuration(settings)
                                         ELSE NoConfiguration,
                                todo |-> <<>>, undo |-> <<>>, before |-> secret,
                                start |-> NoConfiguration, fresh |-> TRUE, exact |-> TRUE]]
    /\ edits' = 0
    /\ UNCHANGED <<settings, secret, windows>>

\* The tokens and the configuration are read for the rollback.
Snapshot(p) ==
    /\ tx[p].stage = "snapshot"
    /\ tx' = [tx EXCEPT ![p].stage = "forward",
                        ![p].todo = Program(tx[p].job, tx[p].read),
                        ![p].read = Configuration(settings),
                        ![p].start = settings,
                        ![p].fresh = @ \/ tx[p].job.kind # "setup"]
    /\ UNCHANGED <<guard, settings, secret, edits, windows>>

\* What a write leaves: the document, the tokens, and whether it can succeed.
\* The desktop saves against the revision it read.
DocumentAfter(write) ==
    CASE write.do = "write"   -> Saved(settings, write.configuration)
      [] write.do = "publish" -> [settings EXCEPT !.account["jira"] = write.account]
      [] write.do = "draft"   -> WithModule(settings, write.module, write.account, write.on)
      [] OTHER                -> settings

SecretAfter(write) ==
    IF write.do = "put" THEN [secret EXCEPT ![write.key] = write.token] ELSE secret

CanSucceed(p, write) == CASE write.do = "check"   -> write.holds
                          [] write.do = "publish" -> tx[p].fresh
                          [] OTHER                -> TRUE

\* protect_written_token on Linux: when the new file cannot be protected it
\* is removed, or even that fails.  Nothing else leaves a trace.
SecretsAfterFailure(write) ==
    IF write.do = "put" /\ write.token # None /\ ~windows
    THEN {[secret EXCEPT ![write.key] = token] : token \in {secret[write.key], None, write.token}}
    ELSE {secret}

Forward(p) ==
    /\ tx[p].stage = "forward"
    /\ tx[p].todo # <<>>
    /\ LET write == Head(tx[p].todo).write
       IN  /\ CanSucceed(p, write)
           /\ settings' = DocumentAfter(write)
           /\ secret' = SecretAfter(write)
    /\ tx' = [tx EXCEPT ![p].todo = Tail(@)]
    /\ UNCHANGED <<guard, edits, windows>>

\* The step fails, and its error path begins.
Fail(p) ==
    /\ tx[p].stage = "forward"
    /\ tx[p].todo # <<>>
    /\ secret' \in SecretsAfterFailure(Head(tx[p].todo).write)
    /\ tx' = [tx EXCEPT ![p].stage = "undo",
                        ![p].todo = <<>>,
                        ![p].undo = Head(tx[p].todo).undo,
                        ![p].exact = secret' = secret \/ Head(tx[p].todo).undo # <<>>]
    /\ UNCHANGED <<guard, settings, edits, windows>>

\* One part of the rollback; the others are attempted whatever becomes of it.
Undo(p) ==
    /\ tx[p].stage = "undo"
    /\ tx[p].undo # <<>>
    /\ LET write == Head(tx[p].undo)
       IN  \/ /\ CanSucceed(p, write)
              /\ settings' = DocumentAfter(write)
              /\ secret' = SecretAfter(write)
              /\ tx' = [tx EXCEPT ![p].undo = Tail(@)]
           \/ /\ secret' \in SecretsAfterFailure(write)
              /\ tx' = [tx EXCEPT ![p].undo = Tail(@), ![p].exact = FALSE]
              /\ UNCHANGED settings
    /\ UNCHANGED <<guard, edits, windows>>

Succeeded(p) == tx[p].stage = "forward" /\ tx[p].todo = <<>>
Failed(p) == tx[p].stage = "undo" /\ tx[p].undo = <<>>

\* The operation returns.  Nothing was done yet when the snapshot fails.
Release(p) ==
    /\ Succeeded(p) \/ Failed(p) \/ tx[p].stage = "snapshot"
    /\ guard' = GuardAfter
    /\ tx' = [tx EXCEPT ![p] = Idle]
    /\ edits' = 0
    /\ UNCHANGED <<settings, secret, windows>>

\* The process ends at any moment.
Crash(p) ==
    /\ tx[p] # Idle
    /\ guard' = GuardAfter
    /\ tx' = [tx EXCEPT ![p] = Idle]
    /\ edits' = 0
    /\ UNCHANGED <<settings, secret, windows>>

\* Settings are saved by someone who does not hold the guard.
SavedUnguarded(document) ==
    /\ settings' = document
    /\ IF guard = Free THEN edits' = edits ELSE edits < MaxEdits /\ edits' = edits + 1
    /\ tx' = [p \in Processes |-> IF tx[p] = Idle THEN Idle ELSE [tx[p] EXCEPT !.fresh = FALSE]]
    /\ UNCHANGED <<guard, secret, windows>>

\* save of the terminal's editors: the draft, and when the account has its
\* token the runtime configuration as well.
EditorSaves(m, account, on) ==
    LET draft == WithModule(settings, m, account, on)
    IN  \/ SavedUnguarded(draft)
        \/ /\ account # None
           /\ secret[McpKey(m, account)] # None
           /\ SavedUnguarded(Saved(draft, WithModule(Configuration(draft), m, account, on)))

\* configure on Linux: neither guard nor credentials.
ConsentWithoutGuard(job) ==
    /\ ~windows
    /\ job.kind = "consent"
    /\ Consentable(job, Configuration(settings))
    /\ SavedUnguarded(Saved(settings, Consented(job, Configuration(settings))))

Works(p) == Snapshot(p) \/ Forward(p) \/ Fail(p) \/ Undo(p) \/ Release(p)

Next == \/ \E p \in Processes : (\E job \in Jobs : Begin(p, job)) \/ Works(p) \/ Crash(p)
        \/ \E m \in Modules, account \in Accounts \cup {None}, on \in BOOLEAN :
              EditorSaves(m, account, on)
        \/ \E job \in Jobs : ConsentWithoutGuard(job)

Spec == Init /\ [][Next]_vars

-----------------------------------------------------------------------------
(* Properties *)

\* Every variable has its type, and a transaction is under way exactly in the
\* process that holds the guard.
TypeOK ==
    /\ guard \in Processes \cup {Free}
    /\ settings \in Documents
    /\ secret \in [Keys -> Tokens \cup {None}]
    /\ tx \in [Processes -> Transactions \cup {Idle}]
    /\ edits \in 0 .. MaxEdits
    /\ windows \in BOOLEAN
    /\ \A p \in Processes : (guard = p) = (tx[p] # Idle)

\* The rollbacks are complete: an operation that failed leaves every token as
\* it was, unless undoing failed as well or a failing first save destroyed
\* the old token.  (Replacing a token has no rollback.)
TokensRestored ==
    \A p \in Processes :
        Failed(p) /\ tx[p].exact /\ tx[p].job.kind # "replaceToken" => secret = tx[p].before

\* What MCP runs with.
Running(document) ==
    LET configuration == Configuration(document)
    IN  [m \in configuration.enabled |-> configuration.account[m]]

\* The settings as well, if nobody else saved meanwhile.  The consent page puts
\* back what MCP runs with; an incomplete document it cannot restore.
SettingsRestored ==
    \A p \in Processes :
        Failed(p) /\ tx[p].exact /\ tx[p].fresh /\ tx[p].job.kind # "replaceToken" =>
            IF tx[p].job.kind = "consent" THEN Running(settings) = Running(tx[p].start)
            ELSE settings = tx[p].start

\* What failed is undone: the token (TokensRestored) and the settings
\* (SettingsRestored), whichever of the steps it was.
RollbackRestores == TokensRestored /\ SettingsRestored

\* An operation that reports success left the token and the account together:
\* what it was given is stored, what it replaced, cleared or disconnected is
\* gone, and a consented Jira has a token, a revoked one none.
SuccessIsComplete ==
    \A p \in Processes : Succeeded(p) =>
        LET job == tx[p].job
            read == tx[p].read
            undisturbed == tx[p].fresh
        IN  CASE job.kind = "setup" ->
                   /\ secret[McpKey(job.module, job.account)] = job.token
                   /\ read.account[job.module] \notin {None, job.account}
                      => secret[McpKey(job.module, read.account[job.module])] = None
                   /\ undisturbed => /\ settings.account[job.module] = job.account
                                     /\ (job.module \in settings.enabled) = job.on
              [] job.kind = "uninstall" ->
                   /\ \A m \in Modules : read.account[m] # None
                                         => secret[McpKey(m, read.account[m])] = None
                   /\ undisturbed => settings.enabled = {}
              [] job.kind = "connect" ->
                   /\ secret[DesktopKey(job.account)] = job.token
                   /\ undisturbed => settings.account["jira"] = job.account
              [] job.kind = "disconnect" ->
                   tx[p].start.account["jira"] # None
                   => secret[DesktopKey(tx[p].start.account["jira"])] = None
              [] job.kind = "consent" ->
                   LET account == Consented(job, read).account["jira"]
                   IN  ("jira" \in Consented(job, read).enabled)
                       = (secret[McpKey("jira", account)] # None)
              [] job.kind = "replaceToken" -> secret[McpKey(job.module, job.account)] = job.token

\* Every module that MCP runs with has its token.
Backed ==
    \A m \in Configuration(settings).enabled : secret[McpKey(m, settings.account[m])] # None

\* Setup and uninstall write in an order that is safe to interrupt: no step of
\* theirs leaves an enabled module without its token, so a process that ends
\* between two steps leaves a configuration that works.  (Rollbacks and the
\* consent page have no such order.)
SafeToInterrupt ==
    [][\A p \in Processes :
         /\ tx[p] # Idle /\ tx[p].stage = "forward"
         /\ tx[p].job.kind \in {"setup", "uninstall"}
         /\ tx[p].fresh
         /\ tx[p].todo # <<>> /\ tx'[p] # Idle /\ tx'[p].stage = "forward"
         /\ tx'[p].todo # tx[p].todo
         /\ Backed
         => Backed']_vars

\* As packages/setup/README.md puts it, uninstall removes the MCP credential:
\* afterwards there is none for an account that the settings name.
UninstallRemovesCredential ==
    \A p \in Processes : Succeeded(p) /\ tx[p].job.kind = "uninstall" =>
        \A m \in Modules : settings.account[m] # None
                           => secret[McpKey(m, settings.account[m])] = None

\* As docs/tools.md puts it, the lock keeps the terminal and the desktop from
\* interleaving partial updates: settings are not written from a reading that
\* another frontend's save has outdated.
UpdatesNotInterleaved ==
    [][\A p \in Processes :
         tx[p] # Idle /\ tx'[p] # Idle /\ ~tx[p].fresh /\ edits' = edits => settings' = settings]_vars
=============================================================================

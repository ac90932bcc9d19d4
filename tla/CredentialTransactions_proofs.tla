-------------------- MODULE CredentialTransactions_proofs --------------------
(* Whatever step of an operation on credentials fails, and whoever saves    *)
(* settings meanwhile: what was done is undone, what succeeds is complete,  *)
(* and setup and uninstall may be interrupted.                              *)
EXTENDS CredentialTransactions, SequenceTheorems, TLAPS

Secrets == [Keys -> Tokens \cup {None}]

\* What holds of a transaction T when settings.json is d and the tokens are s.
(* ------------------------------ The rollback ---------------------------- *)

Has(list, write) == \E x \in DOMAIN list : list[x] = write
Puts(write, key) == write.do = "put" /\ write.key = key
ChangesDocument(write) == write.do \in {"write", "publish", "draft"}

\* The document after a write (DocumentAfter).
After(d, write) ==
    CASE write.do = "write"   -> Saved(d, write.configuration)
      [] write.do = "publish" -> [d EXCEPT !.account["jira"] = write.account]
      [] write.do = "draft"   -> WithModule(d, write.module, write.account, write.on)
      [] OTHER                -> d

\* A part of an error path: a token as it was, what was configured, or the account
\* that the desktop had.
IsUndo(T, write) ==
    \/ write.do = "put" /\ write.token = T.before[write.key]
    \/ write = Write(T.read)
    \/ write.do = "publish" /\ write.account = T.start.account["jira"]

\* An error path that brings every token back.
Covers(T, list, s) ==
    /\ \A x \in DOMAIN list : IsUndo(T, list[x])
    /\ \A key \in Keys : s[key] # T.before[key] => Has(list, Put(key, T.before[key]))

\* The error path of a step also covers what the steps before it will have put,
\* and its own put unless it has none.
PutBefore(T, i, key) ==
    \E j \in DOMAIN T.todo : /\ Puts(T.todo[j].write, key)
                             /\ j < i \/ (j = i /\ T.todo[i].undo # <<>>)

TokensUndoable(T, s) ==
    \A i \in DOMAIN T.todo :
        /\ Covers(T, T.todo[i].undo, s)
        /\ \A key \in Keys : PutBefore(T, i, key)
                             => Has(T.todo[i].undo, Put(key, T.before[key]))

\* The settings are what they were, as far as the operation can tell.
Settled(T, d) == IF T.job.kind = "consent" THEN Running(d) = Running(T.start) ELSE d = T.start

\* Saving what was configured settles them: what that says nothing of is as it was.
Near(T, d) ==
    \/ T.job.kind = "consent"
    \/ /\ T.read.enabled = T.start.enabled
       /\ \A m \in Modules : IF T.read.account[m] = None THEN d.account[m] = T.start.account[m]
                                                         ELSE T.read.account[m] = T.start.account[m]

Close(T, configuration) ==
    \/ T.job.kind = "consent"
    \/ \A m \in Modules : T.read.account[m] = None
                          => configuration.account[m] \in {None, T.start.account[m]}

\* An error path that settles the settings.
Mends(T, list, d) ==
    /\ Settled(T, d) \/ Has(list, Write(T.read))
    /\ Has(list, Write(T.read)) => Near(T, d)
    /\ \A x \in DOMAIN list : list[x].do = "publish" => Settled(T, d) /\ T.job.kind = "disconnect"

SettingsUndoable(T, d) ==
    \A i \in DOMAIN T.todo :
        /\ Mends(T, T.todo[i].undo, d)
        /\ \A j \in DOMAIN T.todo : j < i /\ ChangesDocument(T.todo[j].write) =>
             /\ T.todo[j].write.do = "write" /\ Close(T, T.todo[j].write.configuration)
             /\ Has(T.todo[i].undo, Write(T.read))
             /\ \A x \in DOMAIN T.todo[i].undo : T.todo[i].undo[x].do # "publish"

(* ------------------------------- Success -------------------------------- *)

\* The steps left give a key one of the tokens, or leave one of them there.
WillBe(T, s, key, tokens) ==
    /\ \A j \in DOMAIN T.todo : Puts(T.todo[j].write, key) => T.todo[j].write.token \in tokens
    /\ s[key] \in tokens \/ \E j \in DOMAIN T.todo : Puts(T.todo[j].write, key)

TokensFollow(T, s) ==
    LET job == T.job
        own == McpKey("jira", Consented(job, T.read).account["jira"])
    IN  CASE job.kind \in {"setup", "replaceToken"} ->
               /\ WillBe(T, s, McpKey(job.module, job.account), {job.token})
               /\ job.kind = "setup" /\ Replaces(job, T.read) =>
                    WillBe(T, s, McpKey(job.module, T.read.account[job.module]), {None})
          [] job.kind = "uninstall" ->
               \A m \in Modules : T.read.account[m] # None =>
                   WillBe(T, s, McpKey(m, T.read.account[m]), {None})
          [] job.kind = "connect" -> WillBe(T, s, DesktopKey(job.account), {job.token})
          [] job.kind = "disconnect" ->
               T.start.account["jira"] # None =>
                   WillBe(T, s, DesktopKey(T.start.account["jira"]), {None})
          [] job.kind = "consent" ->
               \/ \E j \in DOMAIN T.todo : T.todo[j].write = Check(FALSE)
               \/ WillBe(T, s, own, IF "jira" \in Consented(job, T.read).enabled THEN Tokens
                                                                                 ELSE {None})

\* What a success promises of the settings.
Intended(T, d) ==
    CASE T.job.kind = "setup"     -> /\ d.account[T.job.module] = T.job.account
                                     /\ (T.job.module \in d.enabled) = T.job.on
      [] T.job.kind = "uninstall" -> d.enabled = {}
      [] T.job.kind = "connect"   -> d.account["jira"] = T.job.account
      [] OTHER                    -> TRUE

SettingsFollow(T, d) ==
    /\ Intended(T, d) \/ \E j \in DOMAIN T.todo : ChangesDocument(T.todo[j].write)
    /\ \A j \in DOMAIN T.todo : ChangesDocument(T.todo[j].write) =>
         \A e \in Documents : Intended(T, After(e, T.todo[j].write))

(* ----------------------------- Interruption ----------------------------- *)

\* MCP runs without this token.
Spare(d, key) == \A m \in Configuration(d).enabled : McpKey(m, d.account[m]) # key

Deletes(write, key) == Puts(write, key) /\ write.token = None

\* The configuration that a step saves needs no other tokens than those that are used
\* now, and the one of the setup, which is there by then; a token is deleted when it
\* is used no more.
Ordered(T, d, s) ==
    \A i \in DOMAIN T.todo :
        /\ ChangesDocument(T.todo[i].write) =>
             LET saved == After(d, T.todo[i].write)
                 key == McpKey(T.job.module, T.job.account)
             IN  /\ T.todo[i].write.do = "write"
                 /\ \A m \in T.todo[i].write.configuration.enabled :
                      \/ m \in Configuration(d).enabled /\ saved.account[m] = d.account[m]
                      \/ /\ T.job.kind = "setup" /\ m = T.job.module
                         /\ saved.account[m] = T.job.account
                         /\ s[key] # None \/ \E j \in DOMAIN T.todo : j < i /\ Puts(T.todo[j].write, key)
                 /\ \A j \in DOMAIN T.todo : i # j => ~ChangesDocument(T.todo[j].write)
        /\ \A key \in Keys : Deletes(T.todo[i].write, key) =>
             /\ Spare(d, key) \/ \E j \in DOMAIN T.todo : j < i /\ ChangesDocument(T.todo[j].write)
             /\ \A j \in DOMAIN T.todo : j < i /\ ChangesDocument(T.todo[j].write) =>
                  Spare(After(d, T.todo[j].write), key)
             /\ T.job.kind = "setup" => key # McpKey(T.job.module, T.job.account)

(* ---------------------------- The invariant ----------------------------- *)

ForwardInv(T, d, s) ==
    /\ T.read = Configuration(T.start)
    /\ T.job.kind # "replaceToken" => TokensUndoable(T, s)
    /\ T.job.kind # "replaceToken" /\ T.fresh => SettingsUndoable(T, d)
    /\ TokensFollow(T, s)
    /\ T.fresh => SettingsFollow(T, d)
    /\ T.fresh /\ T.job.kind \in {"setup", "uninstall"} => Ordered(T, d, s)

UndoInv(T, d, s) ==
    /\ T.read = Configuration(T.start)
    /\ T.job.kind # "replaceToken" /\ T.exact => Covers(T, T.undo, s)
    /\ T.job.kind # "replaceToken" /\ T.exact /\ T.fresh => Mends(T, T.undo, d)

TransactionInv(T, d, s) ==
    CASE T.stage = "snapshot" -> /\ s = T.before
                                 /\ T.job.kind = "setup" /\ T.fresh => T.read = Configuration(d)
      [] T.stage = "forward"  -> ForwardInv(T, d, s)
      [] T.stage = "undo"     -> UndoInv(T, d, s)

CredentialInv ==
    /\ TypeOK
    /\ \A p \in Processes : tx[p] # Idle => TransactionInv(tx[p], settings, secret)

-----------------------------------------------------------------------------
(* Types.                                                                   *)

LEMMA KeysAre ==
    /\ \A m \in Modules, a \in Accounts : McpKey(m, a) \in Keys
    /\ \A a \in Accounts : DesktopKey(a) \in Keys
    /\ \A m, n, a, b : McpKey(m, a) = McpKey(n, b) <=> m = n /\ a = b
BY DEF Keys, McpKey, DesktopKey

LEMMA AssumedConstants ==
    /\ "jira" \in Modules /\ Modules \subseteq {"jira", "bitbucket"}
    /\ None \notin Accounts /\ None \notin Tokens
    /\ Free \notin Processes /\ MaxEdits \in Nat
BY CredentialAssumption DEF CredentialAssumption

LEMMA EmptyConfiguration ==
    /\ NoConfiguration \in Documents /\ NoConfiguration.enabled = {}
    /\ \A m \in Modules : NoConfiguration.account[m] = None
BY DEF NoConfiguration, Documents

LEMMA ConfigurationIs ==
    ASSUME NEW d \in Documents
    PROVE  /\ Configuration(d) \in Documents
           /\ Configuration(d) = d \/ Configuration(d) = NoConfiguration
           /\ \A m \in Configuration(d).enabled : /\ Configuration(d) = d /\ m \in Modules
                                                  /\ d.account[m] \in Accounts
           /\ \A m \in Modules : Configuration(d).account[m] # None => Configuration(d) = d
BY EmptyConfiguration DEF Configuration, Documents

LEMMA WithModuleIs ==
    ASSUME NEW d \in Documents, NEW m \in Modules, NEW a \in Accounts \cup {None},
           NEW on \in BOOLEAN
    PROVE  /\ WithModule(d, m, a, on) \in Documents
           /\ WithModule(d, m, a, on).account[m] = a
           /\ \A n \in Modules \ {m} : WithModule(d, m, a, on).account[n] = d.account[n]
           /\ m \in WithModule(d, m, a, on).enabled <=> on
           /\ \A n \in Modules \ {m} : n \in WithModule(d, m, a, on).enabled <=> n \in d.enabled
<1>1. [d.account EXCEPT ![m] = a] \in [Modules -> Accounts \cup {None}]
  BY DEF Documents
<1>2. (IF on THEN d.enabled \cup {m} ELSE d.enabled \ {m}) \in SUBSET Modules
  BY DEF Documents
<1>. QED
  BY <1>1, <1>2 DEF WithModule, Documents

LEMMA SavedIs ==
    ASSUME NEW d \in Documents, NEW c \in Documents
    PROVE  /\ Saved(d, c) \in Documents /\ Saved(d, c).enabled = c.enabled
           /\ \A m \in Modules : Saved(d, c).account[m]
                                 = IF c.account[m] = None THEN d.account[m] ELSE c.account[m]
BY DEF Saved, Documents

LEMMA WritesAre ==
    /\ \A key \in Keys, token \in Tokens \cup {None} :
         /\ Put(key, token) \in Writes /\ Put(key, token).do = "put"
         /\ Put(key, token).key = key /\ Put(key, token).token = token
    /\ \A c \in Documents : /\ Write(c) \in Writes /\ Write(c).do = "write"
                            /\ Write(c).configuration = c
    /\ \A a \in Accounts : /\ Publish(a) \in Writes /\ Publish(a).do = "publish"
                           /\ Publish(a).account = a
    /\ \A m \in Modules, a \in Accounts, on \in BOOLEAN :
         Draft(m, a, on) \in Writes /\ Draft(m, a, on).do = "draft"
    /\ \A holds \in BOOLEAN : /\ Check(holds) \in Writes /\ Check(holds).do = "check"
                              /\ Check(holds).holds = holds
BY DEF Writes, Put, Write, Publish, Draft, Check

LEMMA AfterIs ==
    ASSUME NEW d \in Documents, NEW write \in Writes
    PROVE  /\ After(d, write) \in Documents
           /\ ~ChangesDocument(write) => After(d, write) = d
           /\ write.do = "write" => /\ write.configuration \in Documents
                                    /\ After(d, write) = Saved(d, write.configuration)
           /\ write.do = "publish" => After(d, write) = [d EXCEPT !.account["jira"] = write.account]
<1>1. CASE write.do = "put"
  BY <1>1 DEF After, ChangesDocument
<1>2. CASE write.do = "check"
  BY <1>2 DEF After, ChangesDocument
<1>3. CASE write.do = "write"
  <2>1. write.configuration \in Documents
    BY <1>3 DEF Writes
  <2>. QED
    BY <1>3, <2>1, SavedIs DEF After, ChangesDocument
<1>4. CASE write.do = "publish"
  <2>1. write.account \in Accounts
    BY <1>4 DEF Writes
  <2>. QED
    BY <1>4, <2>1, AssumedConstants DEF After, ChangesDocument, Documents
<1>5. CASE write.do = "draft"
  <2>1. write.module \in Modules /\ write.account \in Accounts /\ write.on \in BOOLEAN
    BY <1>5 DEF Writes
  <2>. QED
    BY <1>5, <2>1, WithModuleIs DEF After, ChangesDocument
<1>. QED
  BY <1>1, <1>2, <1>3, <1>4, <1>5 DEF Writes

\* What a write does to the tokens (SecretAfter).
Kept(s, write) == IF write.do = "put" THEN [s EXCEPT ![write.key] = write.token] ELSE s

LEMMA KeptIs ==
    ASSUME NEW s \in Secrets, NEW write \in Writes
    PROVE  /\ Kept(s, write) \in Secrets
           /\ \A key \in Keys : Kept(s, write)[key] = IF Puts(write, key) THEN write.token ELSE s[key]
           /\ write.do # "put" => Kept(s, write) = s
<1>1. CASE write.do = "put"
  <2>1. write.key \in Keys /\ write.token \in Tokens \cup {None}
    BY <1>1 DEF Writes
  <2>. QED
    BY <1>1, <2>1 DEF Kept, Puts, Secrets
<1>2. CASE write.do # "put"
  BY <1>2 DEF Kept, Puts
<1>. QED
  BY <1>1, <1>2

Steps == [write : Writes, undo : Seq(Writes)]

\* The steps after the first one.
LEMMA StepsLeft ==
    ASSUME NEW S, NEW list \in Seq(S), list # <<>>
    PROVE  /\ Tail(list) \in Seq(S) /\ Head(list) \in S
           /\ 1 \in DOMAIN list /\ list[1] = Head(list)
           /\ \A i \in DOMAIN Tail(list) : /\ i \in Nat /\ i >= 1 /\ i + 1 \in DOMAIN list
                                           /\ Tail(list)[i] = list[i + 1]
           /\ \A i \in DOMAIN list : i \in Nat /\ (i = 1 \/ (i > 1 /\ i - 1 \in DOMAIN Tail(list)
                                                     /\ Tail(list)[i - 1] = list[i]))
<1>1. Len(list) \in Nat /\ Len(list) >= 1 /\ DOMAIN list = 1 .. Len(list)
  BY EmptySeq
<1>2. /\ Tail(list) \in Seq(S) /\ Head(list) = list[1]
      /\ DOMAIN Tail(list) = 1 .. Len(list) - 1
      /\ \A i \in 1 .. Len(list) - 1 : Tail(list)[i] = list[i + 1]
  BY <1>1, HeadTailProperties
<1>. QED
  BY <1>1, <1>2

-----------------------------------------------------------------------------
(* A step that succeeds.                                                    *)

\* A is the transaction T after the step at the head of its list, whose write is w.
Advances(T, A, w) ==
    /\ T \in Transactions /\ A \in Transactions /\ w \in Writes
    /\ A.stage = T.stage /\ A.job = T.job /\ A.read = T.read /\ A.before = T.before
    /\ A.start = T.start /\ A.fresh = T.fresh /\ A.exact = T.exact /\ A.undo = T.undo
    /\ 1 \in DOMAIN T.todo /\ T.todo[1].write = w
    /\ \A i \in DOMAIN T.todo :
         /\ i \in Nat /\ T.todo[i].write \in Writes /\ T.todo[i].undo \in Seq(Writes)
         /\ i = 1 \/ (i > 1 /\ i - 1 \in DOMAIN A.todo /\ A.todo[i - 1] = T.todo[i])
    /\ \A i \in DOMAIN A.todo :
         i \in Nat /\ i >= 1 /\ i + 1 \in DOMAIN T.todo /\ A.todo[i] = T.todo[i + 1]

LEMMA AdvancedIs ==
    ASSUME NEW T \in Transactions, T.todo # <<>>
    PROVE  Advances(T, [T EXCEPT !.todo = Tail(@)], Head(T.todo).write)
<1>. DEFINE A == [T EXCEPT !.todo = Tail(@)]
<1>1. T.todo \in Seq(Steps)
  BY DEF Transactions, Steps
<1>2. \A i \in DOMAIN T.todo : T.todo[i] \in Steps
  BY <1>1, ElementOfSeq, LenProperties
<1>3. /\ Tail(T.todo) \in Seq(Steps) /\ Head(T.todo) \in Steps
      /\ 1 \in DOMAIN T.todo /\ T.todo[1] = Head(T.todo)
      /\ \A i \in DOMAIN Tail(T.todo) : /\ i \in Nat /\ i >= 1 /\ i + 1 \in DOMAIN T.todo
                                        /\ Tail(T.todo)[i] = T.todo[i + 1]
      /\ \A i \in DOMAIN T.todo :
           i \in Nat /\ (i = 1 \/ (i > 1 /\ i - 1 \in DOMAIN Tail(T.todo)
                                   /\ Tail(T.todo)[i - 1] = T.todo[i]))
  BY <1>1, StepsLeft
<1>4. \A step \in Steps : step.write \in Writes /\ step.undo \in Seq(Writes)
  BY DEF Steps
<1>5. /\ A \in Transactions
      /\ A.todo = Tail(T.todo)
      /\ A.stage = T.stage /\ A.job = T.job
      /\ A.read = T.read /\ A.before = T.before
      /\ A.start = T.start /\ A.fresh = T.fresh
      /\ A.exact = T.exact /\ A.undo = T.undo
  BY <1>3 DEF Transactions, Steps
<1>. HIDE DEF A
<1>6. Advances(T, A, Head(T.todo).write)
  BY <1>2, <1>3, <1>4, <1>5 DEF Advances
<1>. QED
  BY <1>6 DEF A

LEMMA TokensStayUndoable ==
    ASSUME NEW T, NEW A, NEW w, Advances(T, A, w), NEW s \in Secrets, TokensUndoable(T, s)
    PROVE  TokensUndoable(A, Kept(s, w))
<1>. DEFINE t == Kept(s, w)
<1>0. \A key \in Keys : t[key] = IF Puts(w, key) THEN w.token ELSE s[key]
  BY KeptIs DEF Advances
<1>. HIDE DEF t
<1>1. \A i \in DOMAIN A.todo, key \in Keys : PutBefore(A, i, key) => PutBefore(T, i + 1, key)
  <2>. SUFFICES ASSUME NEW i \in DOMAIN A.todo, NEW key \in Keys,
                       NEW j \in DOMAIN A.todo, Puts(A.todo[j].write, key),
                       j < i \/ (j = i /\ A.todo[i].undo # <<>>)
                PROVE  PutBefore(T, i + 1, key)
    BY DEF PutBefore
  <2>1. /\ j + 1 \in DOMAIN T.todo /\ T.todo[j + 1] = A.todo[j] /\ T.todo[i + 1] = A.todo[i]
        /\ i \in Nat /\ j \in Nat
    BY DEF Advances
  <2>2. j + 1 < i + 1 \/ (j + 1 = i + 1 /\ T.todo[i + 1].undo # <<>>)
    BY <2>1
  <2>. QED
    BY <2>1, <2>2 DEF PutBefore
<1>2. \A i \in DOMAIN A.todo, key \in Keys : Puts(w, key) => PutBefore(T, i + 1, key)
  <2>. SUFFICES ASSUME NEW i \in DOMAIN A.todo, NEW key \in Keys, Puts(w, key)
                PROVE  PutBefore(T, i + 1, key)
    OBVIOUS
  <2>1. 1 \in DOMAIN T.todo /\ T.todo[1].write = w /\ 1 < i + 1
    BY DEF Advances
  <2>. QED
    BY <2>1 DEF PutBefore
<1>. SUFFICES ASSUME NEW i \in DOMAIN A.todo
              PROVE  /\ Covers(A, A.todo[i].undo, t)
                     /\ \A key \in Keys : PutBefore(A, i, key)
                                          => Has(A.todo[i].undo, Put(key, A.before[key]))
  BY DEF TokensUndoable, t
<1>3. /\ i + 1 \in DOMAIN T.todo /\ T.todo[i + 1] = A.todo[i] /\ A.before = T.before
      /\ A.read = T.read /\ A.start = T.start
  BY DEF Advances
<1>4. /\ Covers(T, A.todo[i].undo, s)
      /\ \A key \in Keys : PutBefore(T, i + 1, key) => Has(A.todo[i].undo, Put(key, T.before[key]))
  BY <1>3 DEF TokensUndoable
<1>5. ASSUME NEW key \in Keys, t[key] # T.before[key]
      PROVE  Has(A.todo[i].undo, Put(key, T.before[key]))
  <2>1. CASE Puts(w, key)
    BY <1>2, <1>4, <2>1
  <2>2. CASE ~Puts(w, key)
    BY <1>0, <2>2, <1>4, <1>5 DEF Covers
  <2>. QED
    BY <2>1, <2>2
<1>6. \A x \in DOMAIN A.todo[i].undo : IsUndo(A, A.todo[i].undo[x])
  BY <1>3, <1>4 DEF Covers, IsUndo
<1>7. Covers(A, A.todo[i].undo, t)
  BY <1>3, <1>5, <1>6 DEF Covers
<1>. QED
  BY <1>1, <1>3, <1>4, <1>7

\* Saving keeps the settings within reach of the rollback.
LEMMA NearStays ==
    ASSUME NEW T \in Transactions, NEW d \in Documents, NEW c \in Documents,
           Near(T, d), Close(T, c)
    PROVE  Near(T, Saved(d, c))
BY SavedIs DEF Near, Close

\* Saving what was configured settles the settings.
LEMMA SavingSettles ==
    ASSUME NEW T \in Transactions, NEW d \in Documents, T.read = Configuration(T.start), Near(T, d)
    PROVE  Settled(T, Saved(d, T.read)) /\ Near(T, Saved(d, T.read))
<1>. DEFINE e == Saved(d, T.read)
<1>1. T.read \in Documents /\ T.start \in Documents
  BY DEF Transactions
<1>2. /\ e \in Documents /\ e.enabled = T.read.enabled
      /\ \A m \in Modules : e.account[m] = IF T.read.account[m] = None THEN d.account[m]
                                           ELSE T.read.account[m]
  BY <1>1, SavedIs
<1>. HIDE DEF e
<1>3. CASE T.job.kind # "consent"
  <2>1. e.enabled = T.start.enabled /\ \A m \in Modules : e.account[m] = T.start.account[m]
    BY <1>2, <1>3 DEF Near
  <2>2. e.account \in [Modules -> Accounts \cup {None}]
        /\ T.start.account \in [Modules -> Accounts \cup {None}]
    BY <1>1, <1>2 DEF Documents
  <2>3. e.account = T.start.account
    BY <2>1, <2>2
  <2>4. e = T.start
    <3>1. /\ e = [account |-> e.account, enabled |-> e.enabled]
          /\ T.start = [account |-> T.start.account, enabled |-> T.start.enabled]
      BY <1>1, <1>2 DEF Documents
    <3>. QED
      BY <2>1, <2>3, <3>1
  <2>. QED
    BY <1>3, <2>4, <2>1, <1>2 DEF Settled, Near, e
<1>4. CASE T.job.kind = "consent"
  <2>1. Near(T, e)
    BY <1>4 DEF Near
  <2>2. Running(e) = Running(T.start)
    <3>1. Configuration(e).enabled = T.read.enabled
          /\ \A m \in T.read.enabled : Configuration(e).account[m] = T.read.account[m]
      <4>1. CASE T.read.enabled = {}
        BY <4>1, <1>2, EmptyConfiguration DEF Configuration
      <4>2. CASE T.read.enabled # {}
        <5>1. \A m \in T.read.enabled : m \in Modules /\ T.read.account[m] # None
          BY <1>1, ConfigurationIs, AssumedConstants
        <5>. QED
          BY <4>2, <5>1, <1>2 DEF Configuration
      <4>. QED
        BY <4>1, <4>2
    <3>. QED
      BY <3>1 DEF Running
  <2>. QED
    BY <2>1, <2>2, <1>4 DEF Settled, e
<1>. QED
  BY <1>3, <1>4

LEMMA SettingsStayUndoable ==
    ASSUME NEW T, NEW A, NEW w, Advances(T, A, w), NEW d \in Documents, SettingsUndoable(T, d)
    PROVE  SettingsUndoable(A, After(d, w))
<1>. DEFINE e == After(d, w)
<1>0. /\ ~ChangesDocument(w) => e = d
      /\ w.do = "write" => w.configuration \in Documents /\ e = Saved(d, w.configuration)
  BY AfterIs DEF Advances
<1>. HIDE DEF e
<1>1. A.job = T.job /\ A.read = T.read /\ A.start = T.start /\ T \in Transactions
  BY DEF Advances
<1>2. \A c : Settled(A, c) = Settled(T, c) /\ Near(A, c) = Near(T, c) /\ Close(A, c) = Close(T, c)
  BY <1>1 DEF Settled, Near, Close
<1>. SUFFICES ASSUME NEW i \in DOMAIN A.todo
              PROVE  /\ Mends(A, A.todo[i].undo, e)
                     /\ \A j \in DOMAIN A.todo : j < i /\ ChangesDocument(A.todo[j].write) =>
                          /\ A.todo[j].write.do = "write" /\ Close(A, A.todo[j].write.configuration)
                          /\ Has(A.todo[i].undo, Write(A.read))
                          /\ \A x \in DOMAIN A.todo[i].undo : A.todo[i].undo[x].do # "publish"
  BY DEF SettingsUndoable, e
<1>3. /\ i + 1 \in DOMAIN T.todo /\ T.todo[i + 1] = A.todo[i] /\ i \in Nat
      /\ 1 \in DOMAIN T.todo /\ T.todo[1].write = w /\ 1 < i + 1
  BY DEF Advances
<1>4. Mends(T, A.todo[i].undo, e)
  <2>1. Mends(T, A.todo[i].undo, d)
    BY <1>3 DEF SettingsUndoable
  <2>2. CASE ChangesDocument(w)
    <3>1. /\ w.do = "write" /\ Close(T, w.configuration) /\ Has(A.todo[i].undo, Write(T.read))
          /\ \A x \in DOMAIN A.todo[i].undo : A.todo[i].undo[x].do # "publish"
      BY <1>3, <2>2 DEF SettingsUndoable
    <3>2. Near(T, e)
      BY <1>0, <1>1, <2>1, <3>1, NearStays DEF Mends
    <3>. QED
      BY <3>1, <3>2 DEF Mends
  <2>. QED
    BY <1>0, <2>1, <2>2
<1>5. \A j \in DOMAIN A.todo : j < i =>
        j + 1 \in DOMAIN T.todo /\ T.todo[j + 1] = A.todo[j] /\ j + 1 < i + 1
  BY <1>3 DEF Advances
<1>. QED
  BY <1>1, <1>2, <1>3, <1>4, <1>5 DEF SettingsUndoable, Mends

LEMMA WillStillBe ==
    ASSUME NEW T, NEW A, NEW w, Advances(T, A, w), NEW s \in Secrets, NEW key \in Keys, NEW tokens,
           WillBe(T, s, key, tokens)
    PROVE  WillBe(A, Kept(s, w), key, tokens)
<1>1. Kept(s, w)[key] = IF Puts(w, key) THEN w.token ELSE s[key]
  BY KeptIs DEF Advances
<1>2. \A j \in DOMAIN A.todo : Puts(A.todo[j].write, key) => A.todo[j].write.token \in tokens
  BY DEF Advances, WillBe
<1>3. CASE Puts(w, key)
  <2>1. w.token \in tokens
    BY <1>3 DEF Advances, WillBe
  <2>. QED
    BY <1>1, <1>2, <1>3, <2>1 DEF WillBe
<1>4. CASE ~Puts(w, key)
  BY <1>1, <1>2, <1>4 DEF Advances, WillBe
<1>. QED
  BY <1>3, <1>4

\* The account whose token a consent transfers.
LEMMA ConsentedIs ==
    ASSUME NEW job \in Jobs, job.kind = "consent", NEW found \in Documents
    PROVE  /\ Consented(job, found).account["jira"] =
                  IF found.account["jira"] = None THEN job.account ELSE found.account["jira"]
           /\ Consented(job, found).account["jira"] \in Accounts
           /\ \A m \in Modules : found.account[m] # None =>
                Consented(job, found).account[m] = found.account[m]
           /\ Consented(job, found) \in Documents
<1>1. /\ job.module \in Modules /\ job.account \in Accounts /\ job.on \in BOOLEAN
  BY DEF Jobs
<1>2. "jira" \in Modules /\ None \notin Accounts
  BY AssumedConstants
<1>. DEFINE own == found.account["jira"]
            account == IF own = None THEN job.account ELSE own
            with == [found EXCEPT !.account["jira"] = account]
            its == IF job.module # "jira" THEN found.account[job.module] ELSE account
<1>3. found.account \in [Modules -> Accounts \cup {None}]
  BY DEF Documents
<1>4. own \in Accounts \cup {None} /\ account \in Accounts
  BY <1>1, <1>2, <1>3
<1>5. /\ with \in Documents /\ with.account["jira"] = account
      /\ \A m \in Modules : m # "jira" => with.account[m] = found.account[m]
  BY <1>2, <1>4 DEF Documents
<1>6. its \in Accounts \cup {None}
  BY <1>1, <1>3, <1>4
<1>7. Consented(job, found) = WithModule(with, job.module, its, job.on)
  BY DEF Consented
<1>. HIDE DEF its, with
<1>8. /\ Consented(job, found) \in Documents
      /\ Consented(job, found).account[job.module] = its
      /\ \A m \in Modules \ {job.module} : Consented(job, found).account[m] = with.account[m]
  BY <1>1, <1>5, <1>6, <1>7, WithModuleIs
<1>. QED
  BY <1>1, <1>2, <1>4, <1>5, <1>8 DEF its

LEMMA JobsAre ==
    ASSUME NEW job \in Jobs
    PROVE  /\ job.kind \in {"setup", "replaceToken", "consent", "connect", "uninstall", "disconnect"}
           /\ job.kind \in {"setup", "replaceToken"} =>
                /\ job.module \in Modules /\ job.account \in Accounts /\ job.token \in Tokens
                /\ job.on \in BOOLEAN
           /\ job.kind = "consent" => /\ job.module \in Modules /\ job.account \in Accounts
                                      /\ job.on \in BOOLEAN
           /\ job.kind = "connect" => job.account \in Accounts /\ job.token \in Tokens
BY DEF Jobs

LEMMA TokensStillFollow ==
    ASSUME NEW T, NEW A, NEW w, Advances(T, A, w), NEW s \in Secrets, TokensFollow(T, s),
           w.do = "check" => w.holds
    PROVE  TokensFollow(A, Kept(s, w))
<1>. DEFINE job == T.job
<1>1. A.job = T.job /\ A.read = T.read /\ A.start = T.start /\ T \in Transactions /\ w \in Writes
  BY DEF Advances
<1>2. job \in Jobs /\ T.read \in Documents /\ T.start \in Documents
  BY <1>1 DEF Transactions
<1>3. /\ \A m \in Modules : T.read.account[m] # None => T.read.account[m] \in Accounts
      /\ T.start.account["jira"] # None => T.start.account["jira"] \in Accounts
  BY <1>2, AssumedConstants DEF Documents
<1>4. CASE job.kind \in {"setup", "replaceToken"}
  <2>1. McpKey(job.module, job.account) \in Keys
    BY <1>2, <1>4, JobsAre, KeysAre
  <2>2. job.kind = "setup" /\ Replaces(job, T.read) =>
          McpKey(job.module, T.read.account[job.module]) \in Keys
    BY <1>2, <1>3, <1>4, JobsAre, KeysAre DEF Replaces
  <2>. QED
    BY <1>1, <1>4, <2>1, <2>2, WillStillBe DEF TokensFollow
<1>5. CASE job.kind = "uninstall"
  <2>1. \A m \in Modules : T.read.account[m] # None => McpKey(m, T.read.account[m]) \in Keys
    BY <1>3, KeysAre
  <2>. QED
    BY <1>1, <1>5, <2>1, WillStillBe DEF TokensFollow
<1>6. CASE job.kind = "connect"
  <2>1. DesktopKey(job.account) \in Keys
    BY <1>2, <1>6, JobsAre, KeysAre
  <2>. QED
    BY <1>1, <1>6, <2>1, WillStillBe DEF TokensFollow
<1>7. CASE job.kind = "disconnect"
  <2>1. T.start.account["jira"] # None => DesktopKey(T.start.account["jira"]) \in Keys
    BY <1>3, KeysAre
  <2>. QED
    BY <1>1, <1>7, <2>1, WillStillBe DEF TokensFollow
<1>8. CASE job.kind = "consent"
  <2>. DEFINE own == McpKey("jira", Consented(job, T.read).account["jira"])
              tokens == IF "jira" \in Consented(job, T.read).enabled THEN Tokens ELSE {None}
  <2>1. own \in Keys
    BY <1>2, <1>8, ConsentedIs, KeysAre, AssumedConstants
  <2>2. CASE WillBe(T, s, own, tokens)
    <3>1. WillBe(A, Kept(s, w), own, tokens)
      BY <2>1, <2>2, WillStillBe
    <3>. QED
      BY <1>1, <1>8, <3>1 DEF TokensFollow
  <2>3. CASE \E j \in DOMAIN T.todo : T.todo[j].write = Check(FALSE)
    <3>1. PICK j \in DOMAIN T.todo : T.todo[j].write = Check(FALSE)
      BY <2>3
    <3>2. w # Check(FALSE)
      BY WritesAre
    <3>3. j - 1 \in DOMAIN A.todo /\ A.todo[j - 1].write = Check(FALSE)
      BY <3>1, <3>2 DEF Advances
    <3>. QED
      BY <1>1, <1>8, <3>3 DEF TokensFollow
  <2>. QED
    BY <1>8, <2>2, <2>3 DEF TokensFollow
<1>. QED
  BY <1>2, <1>4, <1>5, <1>6, <1>7, <1>8, JobsAre

LEMMA SettingsStillFollow ==
    ASSUME NEW T, NEW A, NEW w, Advances(T, A, w), NEW d \in Documents, SettingsFollow(T, d)
    PROVE  SettingsFollow(A, After(d, w))
<1>1. A.job = T.job
  BY DEF Advances
<1>2. \A e : Intended(A, e) = Intended(T, e)
  BY <1>1 DEF Intended
<1>3. ~ChangesDocument(w) => After(d, w) = d
  BY AfterIs DEF Advances
<1>4. ChangesDocument(w) => Intended(T, After(d, w))
  BY DEF Advances, SettingsFollow
<1>5. CASE ChangesDocument(w)
  BY <1>2, <1>4, <1>5 DEF Advances, SettingsFollow
<1>6. CASE ~ChangesDocument(w)
  <2>1. Intended(T, d) \/ \E j \in DOMAIN A.todo : ChangesDocument(A.todo[j].write)
    <3>1. CASE \E j \in DOMAIN T.todo : ChangesDocument(T.todo[j].write)
      <4>1. PICK j \in DOMAIN T.todo : ChangesDocument(T.todo[j].write)
        BY <3>1
      <4>2. j - 1 \in DOMAIN A.todo /\ A.todo[j - 1] = T.todo[j]
        BY <1>6, <4>1 DEF Advances
      <4>. QED
        BY <4>1, <4>2
    <3>. QED
      BY <3>1 DEF SettingsFollow
  <2>. QED
    BY <1>2, <1>3, <1>6, <2>1 DEF Advances, SettingsFollow
<1>. QED
  BY <1>5, <1>6

LEMMA OrderStays ==
    ASSUME NEW T, NEW A, NEW w, Advances(T, A, w), NEW d \in Documents, NEW s \in Secrets,
           T.job.kind \in {"setup", "uninstall"}, Ordered(T, d, s)
    PROVE  Ordered(A, After(d, w), Kept(s, w))
<1>. DEFINE e == After(d, w)
            t == Kept(s, w)
            own == McpKey(T.job.module, T.job.account)
<1>1. A.job = T.job /\ w \in Writes
  BY DEF Advances
<1>2. ~ChangesDocument(w) => e = d
  BY <1>1, AfterIs
<1>3. \A key \in Keys : t[key] = IF Puts(w, key) THEN w.token ELSE s[key]
  BY <1>1, KeptIs
<1>4. T.job.kind = "setup" => own \in Keys
  <2>1. T.job \in Jobs
    BY DEF Advances, Transactions
  <2>. QED
    BY <2>1, JobsAre, KeysAre
<1>. HIDE DEF e, t
\* A token that the setup is to store is not deleted.
<1>5. T.job.kind = "setup" /\ Puts(w, own) => w.token # None
  BY <1>4 DEF Advances, Ordered, Deletes
<1>. SUFFICES ASSUME NEW i \in DOMAIN A.todo
              PROVE  /\ ChangesDocument(A.todo[i].write) =>
                          LET saved == After(e, A.todo[i].write)
                          IN  /\ A.todo[i].write.do = "write"
                              /\ \A m \in A.todo[i].write.configuration.enabled :
                                   \/ m \in Configuration(e).enabled /\ saved.account[m] = e.account[m]
                                   \/ /\ T.job.kind = "setup" /\ m = T.job.module
                                      /\ saved.account[m] = T.job.account
                                      /\ \/ t[own] # None
                                         \/ \E j \in DOMAIN A.todo : j < i /\ Puts(A.todo[j].write, own)
                              /\ \A j \in DOMAIN A.todo : i # j => ~ChangesDocument(A.todo[j].write)
                     /\ \A key \in Keys : Deletes(A.todo[i].write, key) =>
                          /\ \/ Spare(e, key)
                             \/ \E j \in DOMAIN A.todo : j < i /\ ChangesDocument(A.todo[j].write)
                          /\ \A j \in DOMAIN A.todo : j < i /\ ChangesDocument(A.todo[j].write) =>
                               Spare(After(e, A.todo[j].write), key)
                          /\ T.job.kind = "setup" => key # own
  BY <1>1 DEF Ordered, e, t
<1>6. /\ i + 1 \in DOMAIN T.todo /\ T.todo[i + 1] = A.todo[i] /\ i \in Nat /\ i >= 1
      /\ 1 \in DOMAIN T.todo /\ T.todo[1].write = w
  BY DEF Advances
<1>7. \A j \in DOMAIN A.todo : /\ j \in Nat /\ j + 1 \in DOMAIN T.todo /\ T.todo[j + 1] = A.todo[j]
                               /\ (i = j) = (i + 1 = j + 1) /\ (j < i) = (j + 1 < i + 1)
  BY DEF Advances
<1>8. \A j \in DOMAIN T.todo : j = 1 \/ (/\ j \in Nat /\ j - 1 \in DOMAIN A.todo
                                         /\ A.todo[j - 1] = T.todo[j] /\ (j < i + 1) = (j - 1 < i))
  BY DEF Advances
<1>9. ASSUME ChangesDocument(A.todo[i].write)
      PROVE  LET saved == After(e, A.todo[i].write)
             IN  /\ A.todo[i].write.do = "write"
                 /\ \A m \in A.todo[i].write.configuration.enabled :
                      \/ m \in Configuration(e).enabled /\ saved.account[m] = e.account[m]
                      \/ /\ T.job.kind = "setup" /\ m = T.job.module
                         /\ saved.account[m] = T.job.account
                         /\ \/ t[own] # None
                            \/ \E j \in DOMAIN A.todo : j < i /\ Puts(A.todo[j].write, own)
                 /\ \A j \in DOMAIN A.todo : i # j => ~ChangesDocument(A.todo[j].write)
  <2>1. LET saved == After(d, A.todo[i].write)
        IN  /\ A.todo[i].write.do = "write"
            /\ \A m \in A.todo[i].write.configuration.enabled :
                 \/ m \in Configuration(d).enabled /\ saved.account[m] = d.account[m]
                 \/ /\ T.job.kind = "setup" /\ m = T.job.module
                    /\ saved.account[m] = T.job.account
                    /\ \/ s[own] # None
                       \/ \E j \in DOMAIN T.todo : j < i + 1 /\ Puts(T.todo[j].write, own)
            /\ \A j \in DOMAIN T.todo : i + 1 # j => ~ChangesDocument(T.todo[j].write)
    BY <1>6, <1>9 DEF Ordered
  <2>2. e = d
    <3>1. i + 1 # 1
      BY <1>6
    <3>. QED
      BY <1>2, <1>6, <2>1, <3>1
  <2>3. T.job.kind = "setup" /\ (s[own] # None
                                 \/ \E j \in DOMAIN T.todo : j < i + 1 /\ Puts(T.todo[j].write, own))
        => t[own] # None \/ \E j \in DOMAIN A.todo : j < i /\ Puts(A.todo[j].write, own)
    BY <1>3, <1>4, <1>5, <1>6, <1>8
  <2>. QED
    BY <1>7, <2>1, <2>2, <2>3
<1>10. ASSUME NEW key \in Keys, Deletes(A.todo[i].write, key)
       PROVE  /\ \/ Spare(e, key)
                 \/ \E j \in DOMAIN A.todo : j < i /\ ChangesDocument(A.todo[j].write)
              /\ \A j \in DOMAIN A.todo : j < i /\ ChangesDocument(A.todo[j].write) =>
                   Spare(After(e, A.todo[j].write), key)
              /\ T.job.kind = "setup" => key # own
  <2>1. /\ \/ Spare(d, key)
           \/ \E j \in DOMAIN T.todo : j < i + 1 /\ ChangesDocument(T.todo[j].write)
        /\ \A j \in DOMAIN T.todo : j < i + 1 /\ ChangesDocument(T.todo[j].write) =>
             Spare(After(d, T.todo[j].write), key)
        /\ T.job.kind = "setup" => key # own
    BY <1>6, <1>10 DEF Ordered
  <2>2. ChangesDocument(w) => Spare(e, key)
    BY <1>6, <2>1 DEF e
  <2>3. \A j \in DOMAIN A.todo : ChangesDocument(A.todo[j].write) => ~ChangesDocument(w)
    <3>. SUFFICES ASSUME NEW j \in DOMAIN A.todo, ChangesDocument(A.todo[j].write)
                  PROVE  ~ChangesDocument(w)
      OBVIOUS
    <3>1. j + 1 \in DOMAIN T.todo /\ ChangesDocument(T.todo[j + 1].write) /\ 1 # j + 1
      BY <1>7 DEF Advances
    <3>. QED
      BY <1>6, <3>1 DEF Ordered
  <2>4. Spare(e, key) \/ \E j \in DOMAIN A.todo : j < i /\ ChangesDocument(A.todo[j].write)
    BY <1>2, <1>6, <1>8, <2>1, <2>2
  <2>. QED
    BY <1>2, <1>7, <2>1, <2>3, <2>4
<1>. QED
  BY <1>9, <1>10

\* Whether every module that MCP runs with has its token (Backed).
IsBacked(d, s) == \A m \in Configuration(d).enabled : s[McpKey(m, d.account[m])] # None

\* The step itself leaves no module without its token.
LEMMA OrderedStepIsSafe ==
    ASSUME NEW T, NEW A, NEW w, Advances(T, A, w), NEW d \in Documents, NEW s \in Secrets,
           T.job.kind \in {"setup", "uninstall"}, Ordered(T, d, s), IsBacked(d, s)
    PROVE  IsBacked(After(d, w), Kept(s, w))
<1>1. 1 \in DOMAIN T.todo /\ T.todo[1].write = w /\ w \in Writes
      /\ \A j \in DOMAIN T.todo : ~(j < 1)
  BY DEF Advances
<1>2. CASE ChangesDocument(w)
  <2>. DEFINE e == After(d, w)
              own == McpKey(T.job.module, T.job.account)
  <2>1. /\ w.do = "write"
        /\ \A m \in w.configuration.enabled :
             \/ m \in Configuration(d).enabled /\ e.account[m] = d.account[m]
             \/ /\ T.job.kind = "setup" /\ m = T.job.module
                /\ e.account[m] = T.job.account /\ s[own] # None
    BY <1>1, <1>2 DEF Ordered
  <2>2. Kept(s, w) = s /\ w.configuration \in Documents /\ e = Saved(d, w.configuration) /\ e \in Documents
    BY <1>1, <2>1, KeptIs, AfterIs
  <2>. HIDE DEF e
  <2>3. \A m \in Configuration(e).enabled : m \in w.configuration.enabled
    BY <2>2, SavedIs, ConfigurationIs
  <2>4. \A m \in Configuration(e).enabled : s[McpKey(m, e.account[m])] # None
    BY <2>1, <2>3 DEF IsBacked
  <2>. QED
    BY <2>2, <2>4 DEF IsBacked, e
<1>3. CASE ~ChangesDocument(w)
  <2>1. After(d, w) = d
    BY <1>1, <1>3, AfterIs
  <2>2. ASSUME NEW m \in Configuration(d).enabled
        PROVE  Kept(s, w)[McpKey(m, d.account[m])] # None
    <3>. DEFINE key == McpKey(m, d.account[m])
    <3>1. key \in Keys
      BY ConfigurationIs, KeysAre
    <3>2. ~Deletes(w, key)
      BY <1>1, <3>1 DEF Ordered, Spare
    <3>. HIDE DEF key
    <3>3. s[key] # None
      BY DEF IsBacked, key
    <3>4. Kept(s, w)[key] # None
      BY <1>1, <3>1, <3>2, <3>3, KeptIs DEF Deletes
    <3>. QED
      BY <3>4 DEF key
  <2>. QED
    BY <2>1, <2>2 DEF IsBacked
<1>. QED
  BY <1>2, <1>3

LEMMA ForwardKeeps ==
    ASSUME NEW T, NEW A, NEW w, Advances(T, A, w), NEW d \in Documents, NEW s \in Secrets,
           ForwardInv(T, d, s), w.do = "check" => w.holds
    PROVE  ForwardInv(A, After(d, w), Kept(s, w))
<1>1. A.job = T.job /\ A.read = T.read /\ A.start = T.start /\ A.fresh = T.fresh
  BY DEF Advances
<1>. QED
  BY <1>1, TokensStayUndoable, SettingsStayUndoable, TokensStillFollow, SettingsStillFollow,
     OrderStays DEF ForwardInv

-----------------------------------------------------------------------------
(* A step that fails, and the error path.                                   *)

\* The tokens that a failing write may leave (SecretsAfterFailure).
LostIs(s, t, write) ==
    /\ t \in Secrets
    /\ \A key \in Keys : t[key] # s[key] => Puts(write, key)

LEMMA FailureIs ==
    ASSUME secret \in Secrets, NEW write \in Writes, NEW t \in SecretsAfterFailure(write)
    PROVE  LostIs(secret, t, write)
<1>1. CASE write.do = "put" /\ write.token # None /\ ~windows
  <2>1. write.key \in Keys /\ write.token \in Tokens \cup {None}
    BY <1>1 DEF Writes
  <2>2. secret[write.key] \in Tokens \cup {None}
    BY <2>1 DEF Secrets
  <2>3. PICK token \in Tokens \cup {None} : t = [secret EXCEPT ![write.key] = token]
    BY <1>1, <2>1, <2>2 DEF SecretsAfterFailure
  <2>4. t \in Secrets
    BY <2>1, <2>3 DEF Secrets
  <2>5. \A key \in Keys : t[key] # secret[key] => Puts(write, key)
    BY <1>1, <2>1, <2>3 DEF Secrets, Puts
  <2>. QED
    BY <2>4, <2>5 DEF LostIs
<1>2. CASE ~(write.do = "put" /\ write.token # None /\ ~windows)
  <2>1. t = secret
    BY <1>2 DEF SecretsAfterFailure
  <2>. QED
    BY <2>1 DEF LostIs
<1>. QED
  BY <1>1, <1>2

\* B is the transaction T whose step at the head of its list has failed.
FailsInto(T, B) ==
    /\ T \in Transactions /\ B \in Transactions
    /\ B.job = T.job /\ B.read = T.read /\ B.before = T.before
    /\ B.start = T.start /\ B.fresh = T.fresh
    /\ 1 \in DOMAIN T.todo /\ B.undo = T.todo[1].undo

LEMMA FailureLeadsToUndo ==
    ASSUME NEW T, NEW B, FailsInto(T, B), NEW d \in Documents, NEW s \in Secrets, NEW t,
           LostIs(s, t, T.todo[1].write), ForwardInv(T, d, s),
           B.exact => t = s \/ B.undo # <<>>
    PROVE  UndoInv(B, d, t)
<1>1. /\ B.job = T.job /\ B.read = T.read /\ B.before = T.before
      /\ B.start = T.start /\ B.fresh = T.fresh
      /\ 1 \in DOMAIN T.todo /\ B.undo = T.todo[1].undo
  BY DEF FailsInto
<1>2. ASSUME T.job.kind # "replaceToken", B.exact
      PROVE  Covers(B, B.undo, t)
  <2>1. /\ Covers(T, B.undo, s)
        /\ \A key \in Keys : PutBefore(T, 1, key) => Has(B.undo, Put(key, T.before[key]))
    BY <1>1, <1>2 DEF ForwardInv, TokensUndoable
  <2>2. ASSUME NEW key \in Keys, t[key] # T.before[key]
        PROVE  Has(B.undo, Put(key, T.before[key]))
    <3>1. CASE t[key] = s[key]
      BY <2>1, <2>2, <3>1 DEF Covers
    <3>2. CASE t[key] # s[key]
      <4>1. Puts(T.todo[1].write, key) /\ T.todo[1].undo # <<>>
        BY <1>1, <1>2, <3>2 DEF LostIs
      <4>. QED
        BY <1>1, <2>1, <4>1 DEF PutBefore
    <3>. QED
      BY <3>1, <3>2
  <2>3. \A x \in DOMAIN B.undo : IsUndo(B, B.undo[x])
    BY <1>1, <2>1 DEF Covers, IsUndo
  <2>. QED
    BY <1>1, <2>2, <2>3 DEF Covers
<1>3. ASSUME T.job.kind # "replaceToken", B.fresh
      PROVE  Mends(B, B.undo, d)
  <2>1. Mends(T, B.undo, d)
    BY <1>1, <1>3 DEF ForwardInv, SettingsUndoable
  <2>. QED
    BY <1>1, <2>1 DEF Mends, Settled, Near
<1>. QED
  BY <1>1, <1>2, <1>3 DEF UndoInv, ForwardInv

\* C is the transaction T after the part at the head of its error path, which is w.
Undoes(T, C, w) ==
    /\ T \in Transactions /\ C \in Transactions /\ w \in Writes
    /\ C.stage = T.stage /\ C.job = T.job /\ C.read = T.read /\ C.before = T.before
    /\ C.start = T.start /\ C.fresh = T.fresh
    /\ 1 \in DOMAIN T.undo /\ T.undo[1] = w
    /\ \A x \in DOMAIN T.undo :
         x = 1 \/ (x > 1 /\ x - 1 \in DOMAIN C.undo /\ C.undo[x - 1] = T.undo[x])
    /\ \A x \in DOMAIN C.undo : x + 1 \in DOMAIN T.undo /\ C.undo[x] = T.undo[x + 1]

LEMMA UndoesIs ==
    ASSUME NEW T \in Transactions, T.undo # <<>>
    PROVE  /\ Undoes(T, [T EXCEPT !.undo = Tail(@)], Head(T.undo))
           /\ Undoes(T, [T EXCEPT !.undo = Tail(@), !.exact = FALSE], Head(T.undo))
<1>. DEFINE C == [T EXCEPT !.undo = Tail(@)]
            D == [T EXCEPT !.undo = Tail(@), !.exact = FALSE]
<1>1. T.undo \in Seq(Writes)
  BY DEF Transactions
<1>2. /\ Tail(T.undo) \in Seq(Writes) /\ Head(T.undo) \in Writes
      /\ 1 \in DOMAIN T.undo /\ T.undo[1] = Head(T.undo)
      /\ \A i \in DOMAIN Tail(T.undo) : /\ i \in Nat /\ i >= 1 /\ i + 1 \in DOMAIN T.undo
                                        /\ Tail(T.undo)[i] = T.undo[i + 1]
      /\ \A i \in DOMAIN T.undo :
           i \in Nat /\ (i = 1 \/ (i > 1 /\ i - 1 \in DOMAIN Tail(T.undo)
                                   /\ Tail(T.undo)[i - 1] = T.undo[i]))
  BY <1>1, StepsLeft
<1>3. /\ C \in Transactions /\ C.undo = Tail(T.undo)
      /\ C.stage = T.stage /\ C.job = T.job /\ C.read = T.read /\ C.before = T.before
      /\ C.start = T.start /\ C.fresh = T.fresh
  BY <1>2 DEF Transactions
<1>4. /\ D \in Transactions /\ D.undo = Tail(T.undo)
      /\ D.stage = T.stage /\ D.job = T.job /\ D.read = T.read /\ D.before = T.before
      /\ D.start = T.start /\ D.fresh = T.fresh
  BY <1>2 DEF Transactions
<1>. HIDE DEF C, D
<1>5. Undoes(T, C, Head(T.undo)) /\ Undoes(T, D, Head(T.undo))
  BY <1>2, <1>3, <1>4 DEF Undoes
<1>. QED
  BY <1>5 DEF C, D

LEMMA UndoKeepsCovering ==
    ASSUME NEW T, NEW C, NEW w, Undoes(T, C, w), NEW s \in Secrets, Covers(T, T.undo, s)
    PROVE  Covers(C, C.undo, Kept(s, w))
<1>1. /\ C.read = T.read /\ C.before = T.before /\ C.start = T.start /\ w \in Writes
      /\ 1 \in DOMAIN T.undo /\ T.undo[1] = w
  BY DEF Undoes
<1>2. \A x \in DOMAIN C.undo : IsUndo(C, C.undo[x])
  BY <1>1 DEF Undoes, Covers, IsUndo
<1>3. ASSUME NEW key \in Keys, Kept(s, w)[key] # T.before[key]
      PROVE  Has(C.undo, Put(key, T.before[key]))
  <2>1. ~Puts(w, key)
    <3>1. IsUndo(T, w)
      BY <1>1 DEF Covers
    <3>2. Puts(w, key) => w.token = T.before[key]
      BY <3>1 DEF IsUndo, Puts, Write
    <3>. QED
      BY <1>1, <1>3, <3>2, KeptIs
  <2>2. s[key] # T.before[key]
    BY <1>1, <1>3, <2>1, KeptIs
  <2>3. PICK x \in DOMAIN T.undo : T.undo[x] = Put(key, T.before[key])
    BY <2>2 DEF Covers, Has
  <2>4. x # 1
    BY <1>1, <2>1, <2>3 DEF Put, Puts
  <2>. QED
    BY <2>3, <2>4 DEF Undoes, Has
<1>. QED
  BY <1>1, <1>2, <1>3 DEF Covers

LEMMA UndoKeepsMending ==
    ASSUME NEW T, NEW C, NEW w, Undoes(T, C, w), NEW d \in Documents, Mends(T, T.undo, d),
           IsUndo(T, w), T.read = Configuration(T.start)
    PROVE  Mends(C, C.undo, After(d, w))
<1>1. /\ C.read = T.read /\ C.job = T.job /\ C.start = T.start /\ w \in Writes
      /\ T \in Transactions /\ 1 \in DOMAIN T.undo /\ T.undo[1] = w
  BY DEF Undoes
<1>2. T.read \in Documents /\ T.start \in Documents
  BY <1>1 DEF Transactions
<1>3. \A c : Settled(C, c) = Settled(T, c) /\ Near(C, c) = Near(T, c)
  BY <1>1 DEF Settled, Near
<1>4. /\ Has(C.undo, Write(T.read)) => Has(T.undo, Write(T.read))
      /\ Has(T.undo, Write(T.read)) /\ w # Write(T.read) => Has(C.undo, Write(T.read))
      /\ \A x \in DOMAIN C.undo : x + 1 \in DOMAIN T.undo /\ C.undo[x] = T.undo[x + 1]
  <2>1. Has(C.undo, Write(T.read)) => Has(T.undo, Write(T.read))
    BY DEF Undoes, Has
  <2>2. ASSUME Has(T.undo, Write(T.read)), w # Write(T.read)
        PROVE  Has(C.undo, Write(T.read))
    <3>1. PICK x \in DOMAIN T.undo : T.undo[x] = Write(T.read)
      BY <2>2 DEF Has
    <3>. QED
      BY <1>1, <2>2, <3>1 DEF Undoes, Has
  <2>. QED
    BY <2>1, <2>2 DEF Undoes
<1>5. CASE w = Write(T.read)
  <2>1. Near(T, d)
    BY <1>1, <1>5 DEF Mends, Has
  <2>2. After(d, w) = Saved(d, T.read)
    BY <1>5 DEF After, Write
  <2>3. Settled(T, After(d, w)) /\ Near(T, After(d, w))
    BY <1>1, <2>1, <2>2, SavingSettles
  <2>. QED
    BY <1>1, <1>3, <1>4, <2>3 DEF Mends
<1>6. CASE w # Write(T.read)
  <2>1. After(d, w) = d
    <3>1. CASE w.do = "put"
      BY <1>1, <3>1, AfterIs DEF ChangesDocument
    <3>2. CASE w.do = "publish" /\ w.account = T.start.account["jira"]
      <4>1. d = T.start
        BY <1>1, <3>2 DEF Mends, Settled
      <4>2. After(d, w) = [d EXCEPT !.account["jira"] = d.account["jira"]]
        BY <1>1, <3>2, <4>1, AfterIs
      <4>3. [d.account EXCEPT !["jira"] = d.account["jira"]] = d.account
        BY AssumedConstants DEF Documents
      <4>4. [d EXCEPT !.account["jira"] = d.account["jira"]] = [d EXCEPT !.account = d.account]
        BY <4>3
      <4>5. [d EXCEPT !.account = d.account] = d
        BY DEF Documents
      <4>. QED
        BY <4>2, <4>4, <4>5
    <3>. QED
      BY <1>6, <3>1, <3>2 DEF IsUndo
  <2>. QED
    BY <1>1, <1>3, <1>4, <1>6, <2>1 DEF Mends
<1>. QED
  BY <1>5, <1>6

-----------------------------------------------------------------------------
(* The programs: each is undoable, orderly and complete when it is planned. *)

LEMMA ShortLists ==
    /\ DOMAIN <<>> = {}
    /\ \A a : DOMAIN <<a>> = {1} /\ <<a>>[1] = a
    /\ \A a, b : DOMAIN <<a, b>> = {1, 2} /\ <<a, b>>[1] = a /\ <<a, b>>[2] = b
    /\ \A a, b, c : /\ DOMAIN <<a, b, c>> = {1, 2, 3}
                    /\ <<a, b, c>>[1] = a /\ <<a, b, c>>[2] = b /\ <<a, b, c>>[3] = c
    /\ \A S : <<>> \in Seq(S)
    /\ \A S : \A a \in S : <<a>> \in Seq(S)
    /\ \A S : \A a, b \in S : <<a, b>> \in Seq(S)
    /\ \A S : \A a, b, c \in S : <<a, b, c>> \in Seq(S)
OBVIOUS

LEMMA Appended ==
    /\ \A a, b : <<a, b>> \o <<>> = <<a, b>>
    /\ \A a, b, c : <<a, b>> \o <<c>> = <<a, b, c>>
    /\ \A a : <<a>> \o <<>> = <<a>>
    /\ \A a, b : <<a>> \o <<b>> = <<a, b>>
<1>1. ASSUME NEW a, NEW b, NEW c
      PROVE  /\ <<a, b>> \o <<>> = <<a, b>> /\ <<a>> \o <<>> = <<a>>
             /\ <<a, b>> \o <<c>> = <<a, b, c>> /\ <<a>> \o <<b>> = <<a, b>>
  <2>. DEFINE S == {a, b, c}
  <2>1. /\ <<a>> \in Seq(S) /\ <<b>> \in Seq(S) /\ <<c>> \in Seq(S) /\ <<a, b>> \in Seq(S)
        /\ <<a, b, c>> \in Seq(S)
    OBVIOUS
  <2>2. <<a, b>> \o <<>> = <<a, b>> /\ <<a>> \o <<>> = <<a>>
    BY <2>1, ConcatEmptySeq
  <2>3. <<a, b>> \o <<c>> = <<a, b, c>>
    <3>1. /\ <<a, b>> \o <<c>> \in Seq(S) /\ Len(<<a, b>> \o <<c>>) = 3
          /\ \A i \in 1 .. 3 : (<<a, b>> \o <<c>>)[i] = IF i <= 2 THEN <<a, b>>[i] ELSE <<c>>[i - 2]
      BY <2>1, ConcatProperties
    <3>2. \A i \in 1 .. 3 : (<<a, b>> \o <<c>>)[i] = <<a, b, c>>[i]
      BY <3>1
    <3>. HIDE DEF S
    <3>. QED
      BY <2>1, <3>1, <3>2, SeqEqual
  <2>4. <<a>> \o <<b>> = <<a, b>>
    <3>1. /\ <<a>> \o <<b>> \in Seq(S) /\ Len(<<a>> \o <<b>>) = 2
          /\ \A i \in 1 .. 2 : (<<a>> \o <<b>>)[i] = IF i <= 1 THEN <<a>>[i] ELSE <<b>>[i - 1]
      BY <2>1, ConcatProperties
    <3>2. \A i \in 1 .. 2 : (<<a>> \o <<b>>)[i] = <<a, b>>[i]
      BY <3>1
    <3>. HIDE DEF S
    <3>. QED
      BY <2>1, <3>1, <3>2, SeqEqual
  <2>. QED
    BY <2>2, <2>3, <2>4
<1>. QED
  BY <1>1

LEMMA StepIs ==
    ASSUME NEW write \in Writes, NEW undo \in Seq(Writes)
    PROVE  Step(write, undo) \in Steps /\ Step(write, undo).write = write /\ Step(write, undo).undo = undo
BY DEF Step, Steps

\* What the operation found when it planned its steps.
StateTyped == settings \in Documents /\ secret \in Secrets

Planned(T) ==
    /\ T.job \in Jobs /\ StateTyped
    /\ T.before = secret /\ T.start = settings /\ T.read = Configuration(settings)

LEMMA UndoingIs ==
    ASSUME StateTyped, NEW key \in Keys
    PROVE  /\ Undoing(key) \in Writes /\ Undoing(key) = Put(key, secret[key])
           /\ Undoing(key).do = "put" /\ Undoing(key).key = key /\ Undoing(key).token = secret[key]
<1>1. secret[key] \in Tokens \cup {None}
  BY DEF StateTyped, Secrets
<1>. QED
  BY <1>1, WritesAre DEF Undoing

LEMMA PlannedIs ==
    ASSUME NEW T, Planned(T)
    PROVE  /\ T.job \in Jobs /\ Configuration(settings) \in Documents
           /\ T.read = Configuration(T.start) /\ Settled(T, settings)
           /\ Configuration(settings) = settings => Near(T, settings)
<1>1. Configuration(settings) \in Documents /\ T.job \in Jobs
  BY ConfigurationIs DEF Planned, StateTyped
<1>. QED
  BY <1>1 DEF Planned, Settled, Near

LEMMA SetupProgram ==
    ASSUME StateTyped, NEW job \in Jobs, job.kind = "setup", NEW read \in Documents
    PROVE  LET found == Configuration(settings)
               key == McpKey(job.module, job.account)
               old == McpKey(job.module, found.account[job.module])
               conf == WithModule(read, job.module, job.account, job.on)
               P == Program(job, read)
           IN  /\ P \in Seq(Steps) /\ key \in Keys /\ conf \in Documents
               /\ DOMAIN P = IF Replaces(job, found) THEN {1, 2, 3} ELSE {1, 2}
               /\ P[1].write = Put(key, job.token) /\ P[1].undo = <<>>
               /\ P[2].write = Write(conf) /\ P[2].undo = <<Undoing(key)>>
               /\ Replaces(job, found) =>
                    /\ old \in Keys /\ old # key /\ found = settings
                    /\ P[3].write = Put(old, None)
                    /\ P[3].undo = <<Undoing(old), Undoing(key), Write(found)>>
<1>. DEFINE found == Configuration(settings)
            key == McpKey(job.module, job.account)
            old == McpKey(job.module, found.account[job.module])
            conf == WithModule(read, job.module, job.account, job.on)
            P == Program(job, read)
            a == Step(Put(key, job.token), <<>>)
            b == Step(Write(conf), <<Undoing(key)>>)
            c == Step(Put(old, None), <<Undoing(old), Undoing(key), Write(found)>>)
<1>1. /\ job.module \in Modules /\ job.account \in Accounts /\ job.token \in Tokens
      /\ job.on \in BOOLEAN
  BY JobsAre
<1>2. key \in Keys /\ conf \in Documents /\ found \in Documents
  BY <1>1, KeysAre, WithModuleIs, ConfigurationIs DEF StateTyped
<1>3. P = <<a, b>> \o IF Replaces(job, found) THEN <<c>> ELSE <<>>
  BY DEF Program, SetupSteps, Rollback
<1>4. Replaces(job, found) => old \in Keys /\ old # key /\ found = settings
  <2>1. Replaces(job, found) => found.account[job.module] \in Accounts /\ found.account[job.module] # job.account
    BY <1>1, <1>2 DEF Replaces, Documents
  <2>2. Replaces(job, found) => found = settings
    BY <1>1, ConfigurationIs DEF Replaces, StateTyped
  <2>. QED
    BY <1>1, <2>1, <2>2, KeysAre
<1>. HIDE DEF key, conf, found, old
<1>5. /\ a \in Steps /\ a.write = Put(key, job.token) /\ a.undo = <<>>
      /\ b \in Steps /\ b.write = Write(conf) /\ b.undo = <<Undoing(key)>>
  <2>1. Put(key, job.token) \in Writes /\ Write(conf) \in Writes /\ Undoing(key) \in Writes
    BY <1>1, <1>2, WritesAre, UndoingIs
  <2>. QED
    BY <2>1, StepIs, ShortLists
<1>6. Replaces(job, found) => /\ c \in Steps /\ c.write = Put(old, None)
                              /\ c.undo = <<Undoing(old), Undoing(key), Write(found)>>
  <2>1. Replaces(job, found) => /\ Put(old, None) \in Writes /\ Undoing(old) \in Writes
                                /\ Undoing(key) \in Writes /\ Write(found) \in Writes
    BY <1>2, <1>4, WritesAre, UndoingIs
  <2>. QED
    BY <2>1, StepIs, ShortLists
<1>. HIDE DEF a, b, c
<1>7. CASE Replaces(job, found)
  <2>1. P = <<a, b, c>>
    BY <1>3, <1>7, Appended
  <2>2. P \in Seq(Steps) /\ DOMAIN P = {1, 2, 3} /\ P[1] = a /\ P[2] = b /\ P[3] = c
    BY <2>1, <1>5, <1>6, <1>7, ShortLists
  <2>. HIDE DEF P
  <2>. QED
    BY <1>2, <1>4, <1>5, <1>6, <1>7, <2>2 DEF key, conf, found, old, P
<1>8. CASE ~Replaces(job, found)
  <2>1. P = <<a, b>>
    BY <1>3, <1>8, Appended
  <2>2. P \in Seq(Steps) /\ DOMAIN P = {1, 2} /\ P[1] = a /\ P[2] = b
    BY <2>1, <1>5, <1>8, ShortLists
  <2>. HIDE DEF P
  <2>. QED
    BY <1>2, <1>5, <1>8, <2>2 DEF key, conf, found, old, P
<1>. QED
  BY <1>7, <1>8

LEMMA ListsOfOne ==
    ASSUME NEW a, NEW list, list = <<a>>
    PROVE  /\ \A w : Has(list, w) <=> w = a
           /\ \A x \in DOMAIN list : list[x] = a
BY ShortLists DEF Has

LEMMA ListsOfTwo ==
    ASSUME NEW a, NEW b, NEW list, list = <<a, b>>
    PROVE  /\ \A w : Has(list, w) <=> w = a \/ w = b
           /\ \A x \in DOMAIN list : list[x] = a \/ list[x] = b
BY ShortLists DEF Has

LEMMA ListsOfThree ==
    ASSUME NEW a, NEW b, NEW c, NEW list, list = <<a, b, c>>
    PROVE  /\ \A w : Has(list, w) <=> w = a \/ w = b \/ w = c
           /\ \A x \in DOMAIN list : list[x] = a \/ list[x] = b \/ list[x] = c
BY ShortLists DEF Has

LEMMA ListsOfNone ==
    ASSUME NEW list, list = <<>>
    PROVE  (\A w : ~Has(list, w)) /\ DOMAIN list = {}
BY ShortLists DEF Has

\* When the steps are planned every token is as it was.
LEMMA CoversWhenPlanned ==
    ASSUME NEW T, Planned(T), NEW list, \A x \in DOMAIN list : IsUndo(T, list[x])
    PROVE  Covers(T, list, secret)
BY DEF Covers, Planned

LEMMA UndoingIsUndo ==
    ASSUME NEW T, Planned(T)
    PROVE  /\ \A key \in Keys : IsUndo(T, Undoing(key)) /\ Undoing(key) = Put(key, T.before[key])
           /\ IsUndo(T, Write(T.read))
BY UndoingIs DEF IsUndo, Planned

LEMMA SetupPlanned ==
    ASSUME NEW T, Planned(T), T.job.kind = "setup", NEW read \in Documents,
           T.todo = Program(T.job, read), T.fresh => read = Configuration(settings)
    PROVE  ForwardInv(T, settings, secret)
<1>. DEFINE job == T.job
            found == Configuration(settings)
            key == McpKey(job.module, job.account)
            old == McpKey(job.module, found.account[job.module])
            conf == WithModule(read, job.module, job.account, job.on)
            P == T.todo
<1>1. /\ job \in Jobs /\ found \in Documents /\ T.read = found /\ T.before = secret
      /\ T.start = settings /\ T.read = Configuration(T.start) /\ Settled(T, settings)
      /\ found = settings => Near(T, settings)
      /\ StateTyped
  BY PlannedIs DEF Planned
<1>2. /\ P \in Seq(Steps) /\ key \in Keys /\ conf \in Documents
      /\ DOMAIN P = IF Replaces(job, found) THEN {1, 2, 3} ELSE {1, 2}
      /\ P[1].write = Put(key, job.token) /\ P[1].undo = <<>>
      /\ P[2].write = Write(conf) /\ P[2].undo = <<Undoing(key)>>
      /\ Replaces(job, found) =>
           /\ old \in Keys /\ old # key /\ found = settings
           /\ P[3].write = Put(old, None)
           /\ P[3].undo = <<Undoing(old), Undoing(key), Write(found)>>
  BY <1>1, SetupProgram
<1>3. /\ job.module \in Modules /\ job.account \in Accounts /\ job.account # None
      /\ job.token \in Tokens /\ job.token # None /\ job.on \in BOOLEAN
  BY <1>1, JobsAre, AssumedConstants
<1>4. /\ \A k : Puts(P[1].write, k) <=> k = key
      /\ ~ChangesDocument(P[1].write) /\ P[1].write.token = job.token
      /\ \A k : ~Puts(P[2].write, k)
      /\ ChangesDocument(P[2].write) /\ P[2].write.do = "write" /\ P[2].write.configuration = conf
      /\ Replaces(job, found) => /\ \A k : Puts(P[3].write, k) <=> k = old
                                 /\ ~ChangesDocument(P[3].write) /\ P[3].write.token = None
  BY <1>2 DEF Puts, ChangesDocument, Put, Write
<1>5. /\ conf.account[job.module] = job.account
      /\ \A n \in Modules \ {job.module} : conf.account[n] = read.account[n]
      /\ job.module \in conf.enabled <=> job.on
      /\ \A n \in Modules \ {job.module} : n \in conf.enabled <=> n \in read.enabled
  BY <1>3, WithModuleIs
<1>6. Replaces(job, found) => found.account[job.module] # None /\ found.account[job.module] # job.account
  BY DEF Replaces
<1>7. /\ Undoing(key) = Put(key, T.before[key]) /\ IsUndo(T, Undoing(key)) /\ IsUndo(T, Write(T.read))
      /\ Replaces(job, found) => Undoing(old) = Put(old, T.before[old]) /\ IsUndo(T, Undoing(old))
  BY <1>2, UndoingIsUndo
<1>. HIDE DEF job, key, conf, found, old, P
\* The three error paths.
<1>e. ASSUME NEW i \in DOMAIN P
      PROVE  \/ i = 1 /\ P[i].undo = <<>>
             \/ i = 2 /\ P[i].undo = <<Undoing(key)>>
             \/ /\ i = 3 /\ Replaces(job, found)
                /\ P[i].undo = <<Undoing(old), Undoing(key), Write(found)>>
  BY <1>2
<1>f. ASSUME NEW i \in DOMAIN P
      PROVE  /\ \A x \in DOMAIN P[i].undo :
                  \/ P[i].undo[x] = Undoing(key)
                  \/ Replaces(job, found) /\ P[i].undo[x] \in {Undoing(old), Write(found)}
             /\ i \in {2, 3} => Has(P[i].undo, Undoing(key))
             /\ i = 3 /\ Replaces(job, found) =>
                  Has(P[i].undo, Undoing(old)) /\ Has(P[i].undo, Write(found))
             /\ \A w : Has(P[i].undo, w) =>
                  w = Undoing(key) \/ (i = 3 /\ Replaces(job, found) /\ w \in {Undoing(old), Write(found)})
  <2>1. CASE i = 1 /\ P[i].undo = <<>>
    BY <2>1, ListsOfNone
  <2>2. CASE i = 2 /\ P[i].undo = <<Undoing(key)>>
    BY <2>2, ListsOfOne
  <2>3. CASE i = 3 /\ Replaces(job, found) /\ P[i].undo = <<Undoing(old), Undoing(key), Write(found)>>
    BY <2>3, ListsOfThree
  <2>. QED
    BY <1>e, <2>1, <2>2, <2>3
<1>8. TokensUndoable(T, secret)
  <2>. SUFFICES ASSUME NEW i \in DOMAIN P
                PROVE  /\ Covers(T, P[i].undo, secret)
                       /\ \A k \in Keys : PutBefore(T, i, k) => Has(P[i].undo, Put(k, T.before[k]))
    BY DEF TokensUndoable, P
  <2>1. \A x \in DOMAIN P[i].undo : IsUndo(T, P[i].undo[x])
    BY <1>1, <1>7, <1>f
  <2>2. ASSUME NEW k \in Keys, PutBefore(T, i, k)
        PROVE  Has(P[i].undo, Put(k, T.before[k]))
    <3>1. PICK j \in DOMAIN P : Puts(P[j].write, k) /\ (j < i \/ (j = i /\ P[i].undo # <<>>))
      BY <2>2 DEF PutBefore, P
    <3>2. CASE i = 1
      BY <1>e, <1>2, <3>1, <3>2
    <3>3. CASE i = 2
      <4>1. k = key
        BY <1>2, <1>4, <3>1, <3>3
      <4>. QED
        BY <1>7, <1>f, <3>3, <4>1
    <3>4. CASE i = 3 /\ Replaces(job, found)
      <4>1. k \in {key, old}
        BY <1>2, <1>4, <3>1, <3>4
      <4>. QED
        BY <1>7, <1>f, <3>4, <4>1
    <3>. QED
      BY <1>e, <3>2, <3>3, <3>4
  <2>. QED
    BY <2>1, <2>2, CoversWhenPlanned
<1>9. ASSUME T.fresh
      PROVE  SettingsUndoable(T, settings)
  <2>. SUFFICES ASSUME NEW i \in DOMAIN P
                PROVE  /\ Mends(T, P[i].undo, settings)
                       /\ \A j \in DOMAIN P : j < i /\ ChangesDocument(P[j].write) =>
                            /\ P[j].write.do = "write" /\ Close(T, P[j].write.configuration)
                            /\ Has(P[i].undo, Write(T.read))
                            /\ \A x \in DOMAIN P[i].undo : P[i].undo[x].do # "publish"
    BY DEF SettingsUndoable, P
  <2>1. /\ Undoing(key).do = "put" /\ Write(T.read).do = "write"
        /\ Replaces(job, found) => Undoing(old).do = "put"
    BY <1>7 DEF Put, Write
  <2>2. \A x \in DOMAIN P[i].undo : P[i].undo[x].do # "publish"
    BY <1>1, <1>f, <2>1
  <2>3. Has(P[i].undo, Write(T.read)) <=> Replaces(job, found) /\ i = 3
    <3>1. Write(T.read) # Undoing(key) /\ (Replaces(job, found) => Write(T.read) # Undoing(old))
      BY <2>1
    <3>. QED
      BY <1>1, <1>f, <3>1
  <2>4. Mends(T, P[i].undo, settings)
    BY <1>1, <1>2, <2>2, <2>3 DEF Mends
  <2>5. Replaces(job, found) => Close(T, conf)
    BY <1>1, <1>5, <1>6, <1>9 DEF Close, found
  <2>. QED
    BY <1>2, <1>4, <2>2, <2>3, <2>4, <2>5
<1>10. TokensFollow(T, secret)
  <2>1. WillBe(T, secret, key, {job.token})
    BY <1>2, <1>4 DEF WillBe, P
  <2>2. Replaces(job, found) => WillBe(T, secret, old, {None})
    BY <1>2, <1>4 DEF WillBe, P
  <2>. QED
    BY <1>1, <2>1, <2>2 DEF TokensFollow, key, old, job, found
<1>11. SettingsFollow(T, settings)
  <2>1. \A e \in Documents : Intended(T, After(e, P[2].write))
    <3>. SUFFICES ASSUME NEW e \in Documents
                  PROVE  Intended(T, After(e, P[2].write))
      OBVIOUS
    <3>1. After(e, P[2].write) = Saved(e, conf)
      BY <1>4 DEF After
    <3>2. /\ Saved(e, conf).account[job.module] = job.account
          /\ (job.module \in Saved(e, conf).enabled) = job.on
      BY <1>2, <1>3, <1>5, SavedIs
    <3>. QED
      BY <3>1, <3>2 DEF Intended, job
  <2>. QED
    BY <1>2, <1>4, <2>1 DEF SettingsFollow, P
<1>12. ASSUME T.fresh
       PROVE  Ordered(T, settings, secret)
  <2>. DEFINE saved == After(settings, P[2].write)
  <2>1. saved = Saved(settings, conf) /\ settings \in Documents
    BY <1>1, <1>4 DEF After, StateTyped
  <2>2. /\ saved \in Documents /\ saved.account[job.module] = job.account
        /\ \A n \in Modules \ {job.module} : n \in Configuration(settings).enabled =>
             saved.account[n] = settings.account[n]
    <3>1. \A n \in Configuration(settings).enabled : found = settings /\ n \in Modules
      BY <2>1, ConfigurationIs DEF found
    <3>2. read = found
      BY <1>12 DEF found
    <3>. QED
      BY <1>2, <1>3, <1>5, <2>1, <3>1, <3>2, SavedIs
  <2>. HIDE DEF saved
  <2>3. \A n \in conf.enabled : n = job.module \/ (n \in Modules \ {job.module} /\ n \in found.enabled)
    <3>1. \A n \in conf.enabled : n \in Modules
      BY <1>2 DEF Documents
    <3>. QED
      BY <1>5, <1>12, <3>1 DEF found
  <2>4. \A n \in conf.enabled :
          \/ n \in Configuration(settings).enabled /\ saved.account[n] = settings.account[n]
          \/ n = job.module /\ saved.account[n] = job.account
    BY <2>2, <2>3 DEF found
  <2>5. \A k \in Keys : ~Deletes(P[1].write, k) /\ ~Deletes(P[2].write, k)
    BY <1>3, <1>4 DEF Deletes
  <2>6. Replaces(job, found) => Spare(saved, old)
    <3>. SUFFICES ASSUME Replaces(job, found), NEW m \in Configuration(saved).enabled
                  PROVE  McpKey(m, saved.account[m]) # old
      BY DEF Spare
    <3>. QED
      BY <1>6, <2>2, KeysAre DEF old
  <2>7. \A k \in Keys : Replaces(job, found) /\ Deletes(P[3].write, k) => k = old
    BY <1>4 DEF Deletes
  <2>8. \A i \in DOMAIN P : ChangesDocument(P[i].write) => i = 2
    BY <1>2, <1>4
  <2>. SUFFICES ASSUME NEW i \in DOMAIN P
                PROVE  /\ ChangesDocument(P[i].write) =>
                            /\ P[i].write.do = "write"
                            /\ \A m \in P[i].write.configuration.enabled :
                                 \/ /\ m \in Configuration(settings).enabled
                                    /\ After(settings, P[i].write).account[m] = settings.account[m]
                                 \/ /\ m = job.module
                                    /\ After(settings, P[i].write).account[m] = job.account
                                    /\ \E j \in DOMAIN P : j < i /\ Puts(P[j].write, key)
                            /\ \A j \in DOMAIN P : i # j => ~ChangesDocument(P[j].write)
                       /\ \A k \in Keys : Deletes(P[i].write, k) =>
                            /\ \E j \in DOMAIN P : j < i /\ ChangesDocument(P[j].write)
                            /\ \A j \in DOMAIN P : j < i /\ ChangesDocument(P[j].write) =>
                                 Spare(After(settings, P[j].write), k)
                            /\ k # key
    BY DEF Ordered, P, job, key
  <2>9. ASSUME ChangesDocument(P[i].write)
        PROVE  /\ P[i].write.do = "write"
               /\ \A m \in P[i].write.configuration.enabled :
                    \/ /\ m \in Configuration(settings).enabled
                       /\ After(settings, P[i].write).account[m] = settings.account[m]
                    \/ /\ m = job.module
                       /\ After(settings, P[i].write).account[m] = job.account
                       /\ \E j \in DOMAIN P : j < i /\ Puts(P[j].write, key)
               /\ \A j \in DOMAIN P : i # j => ~ChangesDocument(P[j].write)
    <3>1. i = 2
      BY <2>8, <2>9
    <3>2. \E j \in DOMAIN P : j < i /\ Puts(P[j].write, key)
      BY <1>2, <1>4, <3>1
    <3>3. \A j \in DOMAIN P : i # j => ~ChangesDocument(P[j].write)
      BY <2>8, <3>1
    <3>. QED
      BY <1>4, <2>4, <3>1, <3>2, <3>3 DEF saved
  <2>10. ASSUME NEW k \in Keys, Deletes(P[i].write, k)
         PROVE  /\ \E j \in DOMAIN P : j < i /\ ChangesDocument(P[j].write)
                /\ \A j \in DOMAIN P : j < i /\ ChangesDocument(P[j].write) =>
                     Spare(After(settings, P[j].write), k)
                /\ k # key
    <3>1. i = 3 /\ Replaces(job, found)
      BY <1>2, <2>5, <2>10
    <3>2. k = old
      BY <2>7, <2>10, <3>1
    <3>3. \A j \in DOMAIN P : ChangesDocument(P[j].write) => Spare(After(settings, P[j].write), k)
      BY <2>6, <2>8, <3>1, <3>2 DEF saved
    <3>4. \E j \in DOMAIN P : j < i /\ ChangesDocument(P[j].write)
      BY <1>2, <1>4, <3>1
    <3>. QED
      BY <1>2, <3>1, <3>2, <3>3, <3>4
  <2>. QED
    BY <2>9, <2>10
<1>. QED
  BY <1>1, <1>8, <1>9, <1>10, <1>11, <1>12 DEF ForwardInv

LEMMA ConnectPlanned ==
    ASSUME NEW T, Planned(T), T.job.kind = "connect", NEW read,
           T.todo = Program(T.job, read)
    PROVE  Program(T.job, read) \in Seq(Steps) /\ ForwardInv(T, settings, secret)
<1>. DEFINE job == T.job
            key == DesktopKey(job.account)
            P == T.todo
            a == Step(Put(key, job.token), <<>>)
            b == Step(Publish(job.account), <<Undoing(key)>>)
<1>1. /\ job \in Jobs /\ T.read = Configuration(T.start) /\ Settled(T, settings) /\ StateTyped
  BY PlannedIs DEF Planned
<1>2. job.account \in Accounts /\ job.token \in Tokens /\ key \in Keys
  BY <1>1, JobsAre, KeysAre
<1>3. P = <<a, b>>
  BY DEF Program, ConnectSteps
<1>4. Undoing(key) = Put(key, T.before[key]) /\ IsUndo(T, Undoing(key)) /\ Undoing(key).do = "put"
      /\ Undoing(key) \in Writes
  BY <1>1, <1>2, UndoingIsUndo, UndoingIs
<1>. HIDE DEF job, key, P
<1>5. /\ a \in Steps /\ a.write = Put(key, job.token) /\ a.undo = <<>>
      /\ b \in Steps /\ b.write = Publish(job.account) /\ b.undo = <<Undoing(key)>>
  <2>1. Put(key, job.token) \in Writes /\ Publish(job.account) \in Writes
    BY <1>2, WritesAre
  <2>2. <<>> \in Seq(Writes) /\ <<Undoing(key)>> \in Seq(Writes)
    BY <1>4, ShortLists
  <2>. QED
    BY <2>1, <2>2, StepIs
<1>. HIDE DEF a, b
<1>6. P \in Seq(Steps) /\ DOMAIN P = {1, 2} /\ P[1] = a /\ P[2] = b
  BY <1>3, <1>5, ShortLists
<1>7. /\ \A k : Puts(P[1].write, k) <=> k = key
      /\ ~ChangesDocument(P[1].write) /\ P[1].write.token = job.token
      /\ \A k : ~Puts(P[2].write, k)
      /\ ChangesDocument(P[2].write) /\ P[2].write.do = "publish" /\ P[2].write.account = job.account
  BY <1>5, <1>6 DEF Puts, ChangesDocument, Put, Publish
<1>8. ASSUME NEW i \in DOMAIN P
      PROVE  /\ \A w : Has(P[i].undo, w) <=> i = 2 /\ w = Undoing(key)
             /\ \A x \in DOMAIN P[i].undo : P[i].undo[x] = Undoing(key)
             /\ i = 1 => P[i].undo = <<>>
  <2>1. CASE i = 1 /\ P[i].undo = <<>>
    BY <2>1, ListsOfNone
  <2>2. CASE i = 2 /\ P[i].undo = <<Undoing(key)>>
    BY <2>2, ListsOfOne
  <2>. QED
    BY <1>5, <1>6, <2>1, <2>2
<1>9. TokensUndoable(T, secret)
  <2>. SUFFICES ASSUME NEW i \in DOMAIN P
                PROVE  /\ Covers(T, P[i].undo, secret)
                       /\ \A k \in Keys : PutBefore(T, i, k) => Has(P[i].undo, Put(k, T.before[k]))
    BY DEF TokensUndoable, P
  <2>1. Covers(T, P[i].undo, secret)
    BY <1>4, <1>8, CoversWhenPlanned
  <2>2. ASSUME NEW k \in Keys, PutBefore(T, i, k)
        PROVE  Has(P[i].undo, Put(k, T.before[k]))
    <3>1. PICK j \in DOMAIN P : Puts(P[j].write, k) /\ (j < i \/ (j = i /\ P[i].undo # <<>>))
      BY <2>2 DEF PutBefore, P
    <3>2. i = 2 /\ k = key
      BY <1>6, <1>7, <1>8, <3>1
    <3>. QED
      BY <1>4, <1>8, <3>2
  <2>. QED
    BY <2>1, <2>2
<1>10. SettingsUndoable(T, settings)
  <2>1. \A i \in DOMAIN P : Mends(T, P[i].undo, settings)
    <3>1. Undoing(key) # Write(T.read)
      BY <1>4 DEF Write
    <3>. QED
      BY <1>1, <1>4, <1>8, <3>1 DEF Mends
  <2>2. \A i, j \in DOMAIN P : j < i => ~ChangesDocument(P[j].write)
    BY <1>6, <1>7
  <2>. QED
    BY <2>1, <2>2 DEF SettingsUndoable, P
<1>11. TokensFollow(T, secret)
  <2>1. WillBe(T, secret, key, {job.token})
    BY <1>6, <1>7 DEF WillBe, P
  <2>. QED
    BY <2>1 DEF TokensFollow, key, job
<1>12. SettingsFollow(T, settings)
  <2>1. \A e \in Documents : Intended(T, After(e, P[2].write))
    <3>. SUFFICES ASSUME NEW e \in Documents
                  PROVE  Intended(T, After(e, P[2].write))
      OBVIOUS
    <3>1. After(e, P[2].write) = [e EXCEPT !.account["jira"] = job.account]
      BY <1>7 DEF After
    <3>2. After(e, P[2].write).account["jira"] = job.account
      BY <3>1, AssumedConstants DEF Documents
    <3>. QED
      BY <3>2 DEF Intended, job
  <2>. QED
    BY <1>6, <1>7, <2>1 DEF SettingsFollow, P
<1>. QED
  BY <1>1, <1>6, <1>9, <1>10, <1>11, <1>12 DEF ForwardInv, P, job

LEMMA DisconnectPlanned ==
    ASSUME NEW T, Planned(T), T.job.kind = "disconnect", NEW read,
           T.todo = Program(T.job, read)
    PROVE  Program(T.job, read) \in Seq(Steps) /\ ForwardInv(T, settings, secret)
<1>. DEFINE account == settings.account["jira"]
            key == DesktopKey(account)
            P == T.todo
            a == Step(Put(key, None), <<Undoing(key), Publish(account)>>)
<1>1. /\ T.read = Configuration(T.start) /\ Settled(T, settings) /\ StateTyped /\ T.start = settings
  BY PlannedIs DEF Planned
<1>2. Intended(T, settings)
  BY DEF Intended
<1>3. CASE account = None
  <2>1. P = <<>>
    BY <1>3 DEF Program, DisconnectSteps
  <2>2. P \in Seq(Steps) /\ DOMAIN P = {}
    BY <2>1, ShortLists
  <2>. HIDE DEF P
  <2>3. TokensUndoable(T, secret) /\ SettingsUndoable(T, settings) /\ SettingsFollow(T, settings)
    BY <1>2, <2>2 DEF TokensUndoable, SettingsUndoable, SettingsFollow, P
  <2>4. TokensFollow(T, secret)
    BY <1>1, <1>3 DEF TokensFollow
  <2>. QED
    BY <1>1, <2>2, <2>3, <2>4 DEF ForwardInv, P
<1>4. CASE account # None
  <2>1. account \in Accounts /\ key \in Keys
    <3>1. account \in Accounts
      BY <1>1, <1>4, AssumedConstants DEF StateTyped, Documents
    <3>. QED
      BY <3>1, KeysAre
  <2>2. P = <<a>>
    BY <1>4 DEF Program, DisconnectSteps
  <2>3. /\ Undoing(key) = Put(key, T.before[key]) /\ IsUndo(T, Undoing(key))
        /\ Undoing(key).do = "put" /\ Undoing(key) \in Writes
        /\ Publish(account) \in Writes /\ Publish(account).do = "publish" /\ IsUndo(T, Publish(account))
    <3>1. Publish(account) \in Writes /\ Publish(account).do = "publish" /\ Publish(account).account = account
      BY <2>1, WritesAre
    <3>2. IsUndo(T, Publish(account))
      BY <1>1, <3>1 DEF IsUndo
    <3>. QED
      BY <1>1, <2>1, <3>1, <3>2, UndoingIsUndo, UndoingIs
  <2>. HIDE DEF key, P, account
  <2>4. a \in Steps /\ a.write = Put(key, None) /\ a.undo = <<Undoing(key), Publish(account)>>
    <3>1. Put(key, None) \in Writes /\ <<Undoing(key), Publish(account)>> \in Seq(Writes)
      BY <2>1, <2>3, WritesAre, ShortLists
    <3>. QED
      BY <3>1, StepIs
  <2>. HIDE DEF a
  <2>5. P \in Seq(Steps) /\ DOMAIN P = {1} /\ P[1] = a
    BY <2>2, <2>4, ShortLists
  <2>6. /\ \A k : Puts(P[1].write, k) <=> k = key
        /\ ~ChangesDocument(P[1].write) /\ P[1].write.token = None
    BY <2>4, <2>5 DEF Puts, ChangesDocument, Put
  <2>7. /\ \A w : Has(P[1].undo, w) <=> w = Undoing(key) \/ w = Publish(account)
        /\ \A x \in DOMAIN P[1].undo : P[1].undo[x] = Undoing(key) \/ P[1].undo[x] = Publish(account)
    <3>1. P[1].undo = <<Undoing(key), Publish(account)>>
      BY <2>4, <2>5
    <3>. QED
      BY <3>1, ListsOfTwo
  <2>8. TokensUndoable(T, secret)
    <3>1. Covers(T, P[1].undo, secret)
      BY <2>3, <2>7, CoversWhenPlanned
    <3>2. \A k \in Keys : PutBefore(T, 1, k) => Has(P[1].undo, Put(k, T.before[k]))
      BY <2>3, <2>5, <2>6, <2>7 DEF PutBefore, P
    <3>. QED
      BY <2>5, <3>1, <3>2 DEF TokensUndoable, P
  <2>9. SettingsUndoable(T, settings)
    <3>1. Mends(T, P[1].undo, settings)
      <4>1. ~Has(P[1].undo, Write(T.read))
        BY <2>3, <2>7 DEF Write
      <4>. QED
        BY <1>1, <4>1 DEF Mends
    <3>. QED
      BY <2>5, <2>6, <3>1 DEF SettingsUndoable, P
  <2>10. TokensFollow(T, secret)
    <3>1. WillBe(T, secret, key, {None})
      BY <2>5, <2>6 DEF WillBe, P
    <3>. QED
      BY <1>1, <3>1 DEF TokensFollow, key, account
  <2>11. SettingsFollow(T, settings)
    BY <1>2, <2>5, <2>6 DEF SettingsFollow, P
  <2>. QED
    BY <1>1, <2>5, <2>8, <2>9, <2>10, <2>11 DEF ForwardInv, P
<1>. QED
  BY <1>3, <1>4

LEMMA ReplaceTokenPlanned ==
    ASSUME NEW T, Planned(T), T.job.kind = "replaceToken", NEW read,
           T.todo = Program(T.job, read)
    PROVE  Program(T.job, read) \in Seq(Steps) /\ ForwardInv(T, settings, secret)
<1>. DEFINE job == T.job
            key == McpKey(job.module, job.account)
            P == T.todo
            a == Step(Put(key, job.token), <<>>)
            b == Step(Draft("jira", job.account, job.on), <<>>)
<1>1. job \in Jobs /\ T.read = Configuration(T.start)
  BY PlannedIs DEF Planned
<1>2. /\ job.module \in Modules /\ job.account \in Accounts /\ job.token \in Tokens
      /\ job.on \in BOOLEAN /\ key \in Keys
  BY <1>1, JobsAre, KeysAre
<1>3. P = <<a>> \o IF job.module = "jira" THEN <<b>> ELSE <<>>
  BY DEF Program, ReplaceTokenSteps
<1>. HIDE DEF job, key, P
<1>4. /\ a \in Steps /\ a.write = Put(key, job.token)
      /\ b \in Steps /\ b.write = Draft("jira", job.account, job.on)
  <2>1. Put(key, job.token) \in Writes /\ Draft("jira", job.account, job.on) \in Writes
    BY <1>2, WritesAre, AssumedConstants
  <2>. QED
    BY <2>1, StepIs, ShortLists
<1>. HIDE DEF a, b
<1>5. P \in Seq(Steps) /\ 1 \in DOMAIN P /\ P[1] = a /\ \A i \in DOMAIN P : P[i] = a \/ P[i] = b
  <2>1. CASE job.module = "jira"
    BY <1>3, <1>4, <2>1, Appended, ShortLists
  <2>2. CASE job.module # "jira"
    BY <1>3, <1>4, <2>2, Appended, ShortLists
  <2>. QED
    BY <2>1, <2>2
<1>6. WillBe(T, secret, key, {job.token})
  <2>1. /\ \A k : Puts(a.write, k) <=> k = key
        /\ a.write.token = job.token /\ \A k : ~Puts(b.write, k)
    BY <1>4 DEF Puts, Put, Draft
  <2>. QED
    BY <1>5, <2>1 DEF WillBe, P
<1>7. TokensFollow(T, secret)
  BY <1>6 DEF TokensFollow, key, job
<1>8. SettingsFollow(T, settings)
  BY DEF SettingsFollow, Intended
<1>. QED
  BY <1>1, <1>5, <1>7, <1>8 DEF ForwardInv, P, job

\* What is done with the token of MCP's Jira account, whose key is key.
LEMMA CredentialActionIs ==
    ASSUME StateTyped, NEW job \in Jobs, job.kind = "consent", NEW found \in Documents
    PROVE  LET configuration == Consented(job, found)
               key == McpKey("jira", configuration.account["jira"])
               action == CredentialAction(job, configuration)
           IN  /\ action \in Writes /\ ~ChangesDocument(action)
               /\ \A k : Puts(action, k) => k = key
               /\ \/ action = Check(FALSE)
                  \/ IF "jira" \in configuration.enabled
                     THEN IF Puts(action, key) THEN action.token \in Tokens ELSE secret[key] \in Tokens
                     ELSE Puts(action, key) /\ action.token = None
<1>. DEFINE configuration == Consented(job, found)
            account == configuration.account["jira"]
            key == McpKey("jira", account)
            desktop == secret[DesktopKey(account)]
            action == CredentialAction(job, configuration)
<1>1. account \in Accounts /\ "jira" \in Modules
  BY ConsentedIs, AssumedConstants
<1>2. key \in Keys /\ DesktopKey(account) \in Keys
  BY <1>1, KeysAre
<1>3. secret[key] \in Tokens \cup {None} /\ desktop \in Tokens \cup {None}
  BY <1>2 DEF StateTyped, Secrets
<1>4. action = IF "jira" \notin configuration.enabled THEN Put(key, None)
               ELSE IF secret[key] # None THEN Check(TRUE)
               ELSE IF account = job.account /\ desktop # None THEN Put(key, desktop)
               ELSE Check(FALSE)
  BY DEF CredentialAction
<1>. HIDE DEF configuration, account, key, desktop, action
<1>5. CASE action = Put(key, None) /\ "jira" \notin configuration.enabled
  <2>1. action \in Writes /\ action.do = "put" /\ action.key = key /\ action.token = None
    BY <1>2, <1>5, WritesAre
  <2>. QED
    BY <1>5, <2>1 DEF Puts, ChangesDocument, configuration, account, key, action
<1>6. CASE action = Check(TRUE) /\ secret[key] # None /\ "jira" \in configuration.enabled
  <2>1. action \in Writes /\ action.do = "check"
    BY <1>6, WritesAre
  <2>. QED
    BY <1>3, <1>6, <2>1 DEF Puts, ChangesDocument, configuration, account, key, action
<1>7. CASE action = Put(key, desktop) /\ desktop # None /\ "jira" \in configuration.enabled
  <2>1. action \in Writes /\ action.do = "put" /\ action.key = key /\ action.token = desktop
    BY <1>2, <1>3, <1>7, WritesAre
  <2>. QED
    BY <1>3, <1>7, <2>1 DEF Puts, ChangesDocument, configuration, account, key, action
<1>8. CASE action = Check(FALSE)
  <2>1. action \in Writes /\ action.do = "check"
    BY <1>8, WritesAre
  <2>. QED
    BY <1>8, <2>1 DEF Puts, ChangesDocument, configuration, account, key, action
<1>. QED
  BY <1>4, <1>5, <1>6, <1>7, <1>8

LEMMA ConsentPlanned ==
    ASSUME NEW T, Planned(T), T.job.kind = "consent", NEW read,
           T.todo = Program(T.job, read)
    PROVE  Program(T.job, read) \in Seq(Steps) /\ ForwardInv(T, settings, secret)
<1>. DEFINE job == T.job
            found == Configuration(settings)
            configuration == Consented(job, found)
            key == McpKey("jira", configuration.account["jira"])
            action == CredentialAction(job, configuration)
            P == T.todo
            a == Step(Write(configuration), <<>>)
            b == Step(action, <<Undoing(key), Write(found)>>)
            c == Step(Check(FALSE), <<>>)
<1>1. /\ job \in Jobs /\ found \in Documents /\ T.read = found /\ T.read = Configuration(T.start)
      /\ Settled(T, settings) /\ StateTyped
      /\ \A e : Near(T, e) /\ Close(T, e)
      /\ SettingsFollow(T, settings)
  BY PlannedIs DEF Planned, Near, Close, SettingsFollow, Intended
<1>2. configuration \in Documents /\ key \in Keys
  BY <1>1, ConsentedIs, KeysAre, AssumedConstants
<1>3. /\ action \in Writes /\ ~ChangesDocument(action)
      /\ \A k : Puts(action, k) => k = key
      /\ \/ action = Check(FALSE)
         \/ IF "jira" \in configuration.enabled
            THEN IF Puts(action, key) THEN action.token \in Tokens ELSE secret[key] \in Tokens
            ELSE Puts(action, key) /\ action.token = None
  BY <1>1, CredentialActionIs
<1>4. P = IF Consentable(job, found) THEN <<a, b>> ELSE <<c>>
  BY DEF Program, ConsentSteps
<1>5. /\ Undoing(key) = Put(key, T.before[key]) /\ IsUndo(T, Undoing(key)) /\ Undoing(key).do = "put"
      /\ Undoing(key) \in Writes /\ IsUndo(T, Write(found)) /\ Write(found) \in Writes
      /\ Write(found).do = "write"
  BY <1>1, <1>2, UndoingIsUndo, UndoingIs, WritesAre
<1>. HIDE DEF job, found, configuration, key, action, P
<1>6. a \in Steps /\ a.write = Write(configuration) /\ a.undo = <<>>
  <2>1. Write(configuration) \in Writes
    BY <1>2, WritesAre
  <2>. QED
    BY <2>1, StepIs, ShortLists
<1>7. b \in Steps /\ b.write = action /\ b.undo = <<Undoing(key), Write(found)>>
  <2>1. <<Undoing(key), Write(found)>> \in Seq(Writes)
    BY <1>5, ShortLists
  <2>. QED
    BY <1>3, <2>1, StepIs
<1>8. c \in Steps /\ c.write = Check(FALSE) /\ c.undo = <<>>
  <2>1. Check(FALSE) \in Writes
    BY WritesAre
  <2>. QED
    BY <2>1, StepIs, ShortLists
<1>. HIDE DEF a, b, c
<1>9. CASE ~Consentable(job, found)
  <2>1. P \in Seq(Steps) /\ DOMAIN P = {1} /\ P[1] = c
    BY <1>4, <1>8, <1>9, ShortLists
  <2>2. P[1].undo = <<>> /\ P[1].write.do = "check"
    BY <1>8, <2>1, WritesAre
  <2>3. DOMAIN P[1].undo = {} /\ \A w : ~Has(P[1].undo, w)
    BY <2>2, ListsOfNone
  <2>4. TokensUndoable(T, secret)
    <3>1. Covers(T, P[1].undo, secret)
      BY <2>3, CoversWhenPlanned
    <3>2. \A k \in Keys : ~PutBefore(T, 1, k)
      BY <2>1, <2>2 DEF PutBefore, Puts, P
    <3>. QED
      BY <2>1, <3>1, <3>2 DEF TokensUndoable, P
  <2>5. SettingsUndoable(T, settings)
    <3>1. Mends(T, P[1].undo, settings)
      BY <1>1, <2>3 DEF Mends
    <3>. QED
      BY <2>1, <3>1 DEF SettingsUndoable, P
  <2>6. TokensFollow(T, secret)
    <3>1. \E j \in DOMAIN P : P[j].write = Check(FALSE)
      BY <1>8, <2>1
    <3>. QED
      BY <3>1 DEF TokensFollow, P
  <2>. QED
    BY <1>1, <2>1, <2>4, <2>5, <2>6 DEF ForwardInv, P, job
<1>10. CASE Consentable(job, found)
  <2>1. P \in Seq(Steps) /\ DOMAIN P = {1, 2} /\ P[1] = a /\ P[2] = b
    BY <1>4, <1>6, <1>7, <1>10, ShortLists
  <2>2. /\ \A w : Has(P[2].undo, w) <=> w = Undoing(key) \/ w = Write(found)
        /\ \A x \in DOMAIN P[2].undo : P[2].undo[x] = Undoing(key) \/ P[2].undo[x] = Write(found)
    <3>1. P[2].undo = <<Undoing(key), Write(found)>>
      BY <1>7, <2>1
    <3>. QED
      BY <3>1, ListsOfTwo
  <2>3. P[1].undo = <<>> /\ DOMAIN P[1].undo = {} /\ \A w : ~Has(P[1].undo, w)
    <3>1. P[1].undo = <<>>
      BY <1>6, <2>1
    <3>. QED
      BY <3>1, ListsOfNone
  <2>4. /\ P[1].write.do = "write" /\ P[1].write.configuration = configuration
        /\ \A k : ~Puts(P[1].write, k)
        /\ P[2].write = action
    BY <1>6, <1>7, <2>1 DEF Write, Puts
  <2>5. TokensUndoable(T, secret)
    <3>1. Covers(T, P[1].undo, secret) /\ Covers(T, P[2].undo, secret)
      BY <1>5, <2>2, <2>3, CoversWhenPlanned
    <3>2. \A k \in Keys : ~PutBefore(T, 1, k)
      BY <2>1, <2>3, <2>4 DEF PutBefore, P
    <3>3. \A k \in Keys : PutBefore(T, 2, k) => k = key
      BY <1>3, <2>1, <2>4 DEF PutBefore, P
    <3>. QED
      BY <1>5, <2>1, <2>2, <3>1, <3>2, <3>3 DEF TokensUndoable, P
  <2>6. SettingsUndoable(T, settings)
    <3>1. Mends(T, P[1].undo, settings) /\ Mends(T, P[2].undo, settings)
      BY <1>1, <1>5, <2>2, <2>3 DEF Mends
    <3>2. Has(P[2].undo, Write(T.read)) /\ \A x \in DOMAIN P[2].undo : P[2].undo[x].do # "publish"
      BY <1>1, <1>5, <2>2
    <3>3. \A i, j \in DOMAIN P : j < i => j = 1 /\ i = 2
      BY <2>1
    <3>. QED
      BY <1>1, <2>1, <2>4, <3>1, <3>2, <3>3 DEF SettingsUndoable, P
  <2>7. TokensFollow(T, secret)
    <3>1. CASE action = Check(FALSE)
      <4>1. \E j \in DOMAIN P : P[j].write = Check(FALSE)
        BY <2>1, <2>4, <3>1
      <4>. QED
        BY <4>1 DEF TokensFollow, P
    <3>2. CASE action # Check(FALSE)
      <4>1. WillBe(T, secret, key, IF "jira" \in configuration.enabled THEN Tokens ELSE {None})
        BY <1>3, <2>1, <2>4, <3>2 DEF WillBe, P
      <4>. QED
        BY <1>1, <4>1 DEF TokensFollow, key, configuration, job
    <3>. QED
      BY <3>1, <3>2
  <2>. QED
    BY <1>1, <2>1, <2>5, <2>6, <2>7 DEF ForwardInv, P, job
<1>. QED
  BY <1>9, <1>10

\* The tokens of the accounts that are configured.
LEMMA BackedUpIs ==
    ASSUME NEW found \in Documents
    PROVE  /\ BackedUp(found) \in Seq(Keys)
           /\ \A x \in DOMAIN BackedUp(found) :
                \E m \in Modules : found.account[m] # None
                                   /\ BackedUp(found)[x] = McpKey(m, found.account[m])
           /\ \A m \in Modules : found.account[m] # None =>
                Has(BackedUp(found), McpKey(m, found.account[m]))
<1>. DEFINE own(m) == McpKey(m, found.account[m])
            known(m) == m \in Modules /\ found.account[m] # None
            keys == BackedUp(found)
<1>1. \A m : known(m) => own(m) \in Keys
  BY KeysAre DEF Documents
<1>2. \A m \in Modules : m = "jira" \/ m = "bitbucket"
  BY AssumedConstants
<1>3. keys = (IF known("jira") THEN <<own("jira")>> ELSE <<>>)
             \o (IF known("bitbucket") THEN <<own("bitbucket")>> ELSE <<>>)
  BY DEF BackedUp
<1>4. /\ known("jira") /\ known("bitbucket") => keys = <<own("jira"), own("bitbucket")>>
      /\ known("jira") /\ ~known("bitbucket") => keys = <<own("jira")>>
      /\ ~known("jira") /\ known("bitbucket") => keys = <<own("bitbucket")>>
      /\ ~known("jira") /\ ~known("bitbucket") => keys = <<>>
  <2>1. \A k : <<>> \o <<k>> = <<k>>
    <3>. SUFFICES ASSUME NEW k PROVE <<>> \o <<k>> = <<k>>
      OBVIOUS
    <3>1. <<k>> \in Seq({k})
      OBVIOUS
    <3>. QED
      BY <3>1, ConcatEmptySeq
  <2>2. <<>> \o <<>> = <<>>
    <3>1. <<>> \in Seq({})
      OBVIOUS
    <3>. QED
      BY <3>1, ConcatEmptySeq
  <2>. HIDE DEF own, known, keys
  <2>. QED
    BY <1>3, <2>1, <2>2, Appended
<1>5. SUFFICES /\ keys \in Seq(Keys)
               /\ \A x \in DOMAIN keys : \E m \in Modules : known(m) /\ keys[x] = own(m)
               /\ \A m \in Modules : known(m) => Has(keys, own(m))
  OBVIOUS
<1>6. \A m : known(m) => m \in Modules
  OBVIOUS
<1>. HIDE DEF own, known, keys
<1>7. CASE known("jira") /\ known("bitbucket")
  <2>1. /\ \A k : Has(keys, k) <=> k = own("jira") \/ k = own("bitbucket")
        /\ \A x \in DOMAIN keys : keys[x] = own("jira") \/ keys[x] = own("bitbucket")
    BY <1>4, <1>7, ListsOfTwo
  <2>2. keys \in Seq(Keys)
    <3>1. own("jira") \in Keys /\ own("bitbucket") \in Keys
      BY <1>1, <1>7
    <3>2. keys = <<own("jira"), own("bitbucket")>>
      BY <1>4, <1>7
    <3>. QED
      BY <3>1, <3>2
  <2>. QED
    BY <1>2, <1>6, <1>7, <2>1, <2>2
<1>8. CASE known("jira") /\ ~known("bitbucket")
  <2>1. /\ \A k : Has(keys, k) <=> k = own("jira")
        /\ \A x \in DOMAIN keys : keys[x] = own("jira")
    BY <1>4, <1>8, ListsOfOne
  <2>2. keys \in Seq(Keys)
    BY <1>1, <1>4, <1>8, ShortLists
  <2>. QED
    BY <1>2, <1>6, <1>8, <2>1, <2>2
<1>9. CASE ~known("jira") /\ known("bitbucket")
  <2>1. /\ \A k : Has(keys, k) <=> k = own("bitbucket")
        /\ \A x \in DOMAIN keys : keys[x] = own("bitbucket")
    BY <1>4, <1>9, ListsOfOne
  <2>2. keys \in Seq(Keys)
    BY <1>1, <1>4, <1>9, ShortLists
  <2>. QED
    BY <1>2, <1>6, <1>9, <2>1, <2>2
<1>10. CASE ~known("jira") /\ ~known("bitbucket")
  <2>1. DOMAIN keys = {}
    BY <1>4, <1>10, ListsOfNone
  <2>2. keys \in Seq(Keys)
    BY <1>4, <1>10, ShortLists
  <2>. QED
    BY <1>2, <1>10, <2>1, <2>2
<1>. QED
  BY <1>7, <1>8, <1>9, <1>10

\* The program P: the clients, the configuration, and each token, with the whole rollback.
Uninstalls(P, found, keys) ==
    /\ P \in Seq(Steps) /\ 1 \in DOMAIN P /\ 2 \in DOMAIN P
    /\ P[1].write = Check(TRUE) /\ P[1].undo = <<>>
    /\ P[2].write = Write(NoConfiguration) /\ P[2].undo = <<>>
    /\ \A x \in DOMAIN keys : \E i \in DOMAIN P : P[i].write = Put(keys[x], None)
    /\ \A i \in DOMAIN P : i \in Nat /\ (i = 1 \/ i = 2 \/
         /\ i > 2
         /\ \E x \in DOMAIN keys : P[i].write = Put(keys[x], None)
         /\ Has(P[i].undo, Write(found))
         /\ \A x \in DOMAIN keys : Has(P[i].undo, Undoing(keys[x]))
         /\ \A y \in DOMAIN P[i].undo :
              \/ P[i].undo[y] = Write(found)
              \/ \E x \in DOMAIN keys : P[i].undo[y] = Undoing(keys[x]))

LEMMA UninstallProgram ==
    ASSUME StateTyped, NEW job \in Jobs, job.kind = "uninstall", NEW read
    PROVE  Uninstalls(Program(job, read), Configuration(settings), BackedUp(Configuration(settings)))
<1>. DEFINE found == Configuration(settings)
            keys == BackedUp(found)
            n == Len(keys)
            undone == [x \in DOMAIN keys |-> Undoing(keys[x])]
            restore == undone \o <<Write(found)>>
            deletions == [x \in DOMAIN keys |-> Step(Put(keys[x], None), restore)]
            a == Step(Check(TRUE), <<>>)
            b == Step(Write(NoConfiguration), <<>>)
            P == Program(job, read)
<1>1. found \in Documents
  BY ConfigurationIs DEF StateTyped
<1>2. P = <<a, b>> \o deletions
  BY DEF Program, UninstallSteps
<1>3. keys \in Seq(Keys) /\ n \in Nat /\ DOMAIN keys = 1 .. n /\ \A x \in 1 .. n : keys[x] \in Keys
  <2>1. keys \in Seq(Keys)
    BY <1>1, BackedUpIs
  <2>. QED
    BY <2>1, LenProperties, ElementOfSeq
<1>. HIDE DEF keys, found, n
<1>4. \A x \in 1 .. n : Undoing(keys[x]) \in Writes /\ Put(keys[x], None) \in Writes
  BY <1>3, UndoingIs, WritesAre
<1>5. undone \in Seq(Writes) /\ Len(undone) = n /\ \A x \in 1 .. n : undone[x] = Undoing(keys[x])
  <2>1. undone \in [1 .. n -> Writes] /\ DOMAIN undone = 1 .. n
    BY <1>3, <1>4
  <2>2. undone \in Seq(Writes)
    BY <1>3, <2>1, IsASeq
  <2>3. Len(undone) = n
    BY <1>3, <2>1, <2>2, LenProperties
  <2>. QED
    BY <1>3, <2>2, <2>3
<1>. HIDE DEF undone
<1>6. /\ restore \in Seq(Writes) /\ Has(restore, Write(found))
      /\ \A x \in 1 .. n : Has(restore, Undoing(keys[x]))
      /\ \A y \in DOMAIN restore : restore[y] = Write(found) \/ \E x \in 1 .. n : restore[y] = Undoing(keys[x])
  <2>1. <<Write(found)>> \in Seq(Writes) /\ Len(<<Write(found)>>) = 1 /\ <<Write(found)>>[1] = Write(found)
    BY <1>1, WritesAre
  <2>2. /\ restore \in Seq(Writes) /\ Len(restore) = n + 1
        /\ \A y \in 1 .. n + 1 : restore[y] = IF y <= n THEN undone[y] ELSE <<Write(found)>>[y - n]
    BY <1>5, <2>1, ConcatProperties
  <2>. HIDE DEF restore
  <2>3. DOMAIN restore = 1 .. n + 1
    BY <2>2, LenProperties
  <2>4. restore[n + 1] = Write(found) /\ \A y \in 1 .. n : restore[y] = Undoing(keys[y])
    BY <1>3, <1>5, <2>1, <2>2
  <2>. QED
    BY <1>3, <2>2, <2>3, <2>4 DEF Has
<1>. HIDE DEF restore
<1>7. /\ deletions \in Seq(Steps) /\ Len(deletions) = n
      /\ \A x \in 1 .. n : /\ deletions[x].write = Put(keys[x], None) /\ deletions[x].undo = restore
  <2>1. \A x \in 1 .. n : /\ Step(Put(keys[x], None), restore) \in Steps
                          /\ Step(Put(keys[x], None), restore).write = Put(keys[x], None)
                          /\ Step(Put(keys[x], None), restore).undo = restore
    BY <1>4, <1>6, StepIs
  <2>2. deletions \in [1 .. n -> Steps] /\ DOMAIN deletions = 1 .. n
    BY <1>3, <2>1
  <2>3. deletions \in Seq(Steps)
    BY <1>3, <2>2, IsASeq
  <2>4. Len(deletions) = n
    BY <1>3, <2>2, <2>3, LenProperties
  <2>. QED
    BY <1>3, <2>1, <2>3, <2>4
<1>8. /\ a \in Steps /\ a.write = Check(TRUE) /\ a.undo = <<>>
      /\ b \in Steps /\ b.write = Write(NoConfiguration) /\ b.undo = <<>>
  <2>1. Check(TRUE) \in Writes /\ Write(NoConfiguration) \in Writes
    BY WritesAre, EmptyConfiguration
  <2>. QED
    BY <2>1, StepIs, ShortLists
<1>. HIDE DEF deletions, a, b
<1>9. /\ P \in Seq(Steps) /\ Len(P) = n + 2 /\ P[1] = a /\ P[2] = b
      /\ \A i \in 3 .. n + 2 : P[i] = deletions[i - 2]
  <2>1. <<a, b>> \in Seq(Steps) /\ Len(<<a, b>>) = 2 /\ <<a, b>>[1] = a /\ <<a, b>>[2] = b
    BY <1>8
  <2>2. /\ P \in Seq(Steps) /\ Len(P) = 2 + n
        /\ \A i \in 1 .. 2 + n : P[i] = IF i <= 2 THEN <<a, b>>[i] ELSE deletions[i - 2]
    BY <1>2, <1>7, <2>1, ConcatProperties
  <2>. HIDE DEF P
  <2>. QED
    BY <1>3, <2>1, <2>2
<1>. HIDE DEF P
<1>10. DOMAIN P = 1 .. n + 2
  BY <1>9, LenProperties
<1>11. \A i \in 3 .. n + 2 : i - 2 \in 1 .. n /\ P[i].write = Put(keys[i - 2], None) /\ P[i].undo = restore
  BY <1>3, <1>7, <1>9
<1>12. \A x \in 1 .. n : x + 2 \in DOMAIN P /\ P[x + 2].write = Put(keys[x], None)
  BY <1>3, <1>10, <1>11
<1>13. \A i \in DOMAIN P : i \in Nat /\ (i = 1 \/ i = 2 \/ i \in 3 .. n + 2)
  BY <1>3, <1>10
<1>14. 1 \in DOMAIN P /\ 2 \in DOMAIN P
  BY <1>3, <1>10
<1>15. \A i \in DOMAIN P : i \in Nat /\ (i = 1 \/ i = 2 \/
                    /\ i > 2
                    /\ \E x \in DOMAIN keys : P[i].write = Put(keys[x], None)
                    /\ Has(P[i].undo, Write(found))
                    /\ \A x \in DOMAIN keys : Has(P[i].undo, Undoing(keys[x]))
                    /\ \A y \in DOMAIN P[i].undo :
                         \/ P[i].undo[y] = Write(found)
                         \/ \E x \in DOMAIN keys : P[i].undo[y] = Undoing(keys[x]))
  <2>. SUFFICES ASSUME NEW i \in 3 .. n + 2
                PROVE  /\ i \in Nat /\ i > 2
                       /\ \E x \in DOMAIN keys : P[i].write = Put(keys[x], None)
                       /\ P[i].undo = restore
    BY <1>3, <1>6, <1>13
  <2>. QED
    BY <1>3, <1>11
<1>16. \A x \in DOMAIN keys : \E i \in DOMAIN P : P[i].write = Put(keys[x], None)
  BY <1>3, <1>12
<1>. QED
  BY <1>8, <1>9, <1>14, <1>15, <1>16 DEF found, keys, P, Uninstalls

LEMMA UninstallPlanned ==
    ASSUME NEW T, Planned(T), T.job.kind = "uninstall", NEW read,
           T.todo = Program(T.job, read)
    PROVE  Program(T.job, read) \in Seq(Steps) /\ ForwardInv(T, settings, secret)
<1>. DEFINE found == Configuration(settings)
            keys == BackedUp(found)
            P == T.todo
<1>1. /\ T.job \in Jobs /\ found \in Documents /\ T.read = found /\ T.start = settings
      /\ T.read = Configuration(T.start) /\ Settled(T, settings) /\ StateTyped
      /\ found = settings => Near(T, settings)
  BY PlannedIs DEF Planned
<1>u. Uninstalls(P, found, keys)
  BY <1>1, UninstallProgram
<1>2. /\ P \in Seq(Steps) /\ 1 \in DOMAIN P /\ 2 \in DOMAIN P
      /\ P[1].write = Check(TRUE) /\ P[1].undo = <<>>
      /\ P[2].write = Write(NoConfiguration) /\ P[2].undo = <<>>
      /\ \A x \in DOMAIN keys : \E i \in DOMAIN P : P[i].write = Put(keys[x], None)
      /\ \A i \in DOMAIN P : i \in Nat /\ (i = 1 \/ i = 2 \/
           /\ i > 2
           /\ \E x \in DOMAIN keys : P[i].write = Put(keys[x], None)
           /\ Has(P[i].undo, Write(found))
           /\ \A x \in DOMAIN keys : Has(P[i].undo, Undoing(keys[x]))
           /\ \A y \in DOMAIN P[i].undo :
                \/ P[i].undo[y] = Write(found)
                \/ \E x \in DOMAIN keys : P[i].undo[y] = Undoing(keys[x]))
  BY <1>u DEF Uninstalls
<1>. HIDE DEF found
<1>3. /\ keys \in Seq(Keys)
      /\ \A x \in DOMAIN keys :
           \E m \in Modules : found.account[m] # None /\ keys[x] = McpKey(m, found.account[m])
      /\ \A m \in Modules : found.account[m] # None => Has(keys, McpKey(m, found.account[m]))
  BY <1>1, BackedUpIs
<1>4. \A x \in DOMAIN keys : /\ keys[x] \in Keys /\ found = settings
                             /\ Undoing(keys[x]) = Put(keys[x], T.before[keys[x]])
                             /\ IsUndo(T, Undoing(keys[x])) /\ Undoing(keys[x]).do = "put"
  <2>. SUFFICES ASSUME NEW x \in DOMAIN keys
                PROVE  /\ keys[x] \in Keys /\ found = settings
                       /\ Undoing(keys[x]) = Put(keys[x], T.before[keys[x]])
                       /\ IsUndo(T, Undoing(keys[x])) /\ Undoing(keys[x]).do = "put"
    OBVIOUS
  <2>1. keys[x] \in Keys
    BY <1>3, ElementOfSeq, LenProperties
  <2>2. found = settings
    BY <1>1, <1>3, ConfigurationIs DEF StateTyped, found
  <2>. QED
    BY <1>1, <2>1, <2>2, UndoingIsUndo, UndoingIs
<1>5. IsUndo(T, Write(found)) /\ Write(found).do = "write"
  BY <1>1, UndoingIsUndo, WritesAre
<1>. HIDE DEF keys, P
<1>6. /\ \A k : ~Puts(P[1].write, k) /\ ~Puts(P[2].write, k)
      /\ ~ChangesDocument(P[1].write)
      /\ P[2].write.do = "write" /\ P[2].write.configuration = NoConfiguration
      /\ ChangesDocument(P[2].write)
  BY <1>2 DEF Puts, ChangesDocument, Check, Write
<1>7. \A i \in DOMAIN P : i > 2 =>
        \E x \in DOMAIN keys : /\ P[i].write = Put(keys[x], None) /\ P[i].write.token = None
                               /\ \A k : Puts(P[i].write, k) <=> k = keys[x]
                               /\ ~ChangesDocument(P[i].write)
  <2>. SUFFICES ASSUME NEW i \in DOMAIN P, i > 2
                PROVE  \E x \in DOMAIN keys :
                         /\ P[i].write = Put(keys[x], None) /\ P[i].write.token = None
                         /\ \A k : Puts(P[i].write, k) <=> k = keys[x]
                         /\ ~ChangesDocument(P[i].write)
    OBVIOUS
  <2>1. PICK x \in DOMAIN keys : P[i].write = Put(keys[x], None)
    BY <1>2
  <2>. QED
    BY <2>1 DEF Puts, ChangesDocument, Put
<1>8. DOMAIN P[1].undo = {} /\ DOMAIN P[2].undo = {} /\ \A w : ~Has(P[1].undo, w) /\ ~Has(P[2].undo, w)
  BY <1>2, ListsOfNone
<1>9. TokensUndoable(T, secret)
  <2>. SUFFICES ASSUME NEW i \in DOMAIN P
                PROVE  /\ Covers(T, P[i].undo, secret)
                       /\ \A k \in Keys : PutBefore(T, i, k) => Has(P[i].undo, Put(k, T.before[k]))
    BY DEF TokensUndoable, P
  <2>1. \A y \in DOMAIN P[i].undo : IsUndo(T, P[i].undo[y])
    BY <1>2, <1>4, <1>5, <1>8
  <2>2. ASSUME NEW k \in Keys, PutBefore(T, i, k)
        PROVE  Has(P[i].undo, Put(k, T.before[k]))
    <3>1. PICK j \in DOMAIN P : Puts(P[j].write, k) /\ (j < i \/ j = i)
      BY <2>2 DEF PutBefore, P
    <3>2. j > 2 /\ i > 2
      <4>1. j # 1 /\ j # 2 /\ i \in Nat /\ j \in Nat
        BY <1>2, <1>6, <3>1
      <4>2. j > 2
        BY <1>2, <4>1
      <4>. QED
        BY <3>1, <4>1, <4>2
    <3>3. \E x \in DOMAIN keys : k = keys[x]
      BY <1>7, <3>1, <3>2
    <3>. QED
      BY <1>2, <1>4, <3>2, <3>3
  <2>. QED
    BY <2>1, <2>2, CoversWhenPlanned
<1>10. SettingsUndoable(T, settings)
  <2>. SUFFICES ASSUME NEW i \in DOMAIN P
                PROVE  /\ Mends(T, P[i].undo, settings)
                       /\ \A j \in DOMAIN P : j < i /\ ChangesDocument(P[j].write) =>
                            /\ P[j].write.do = "write" /\ Close(T, P[j].write.configuration)
                            /\ Has(P[i].undo, Write(T.read))
                            /\ \A y \in DOMAIN P[i].undo : P[i].undo[y].do # "publish"
    BY DEF SettingsUndoable, P
  <2>1. \A y \in DOMAIN P[i].undo : P[i].undo[y].do # "publish"
    BY <1>2, <1>4, <1>5, <1>8
  <2>2. i > 2 => Near(T, settings)
    BY <1>1, <1>4, <1>7
  <2>3. Mends(T, P[i].undo, settings)
    BY <1>1, <1>2, <1>8, <2>1, <2>2 DEF Mends
  <2>4. \A j \in DOMAIN P : ChangesDocument(P[j].write) => j = 2
    BY <1>2, <1>6, <1>7
  <2>5. Close(T, NoConfiguration)
    BY EmptyConfiguration DEF Close
  <2>6. i > 2 => Has(P[i].undo, Write(T.read))
    BY <1>1, <1>2
  <2>. QED
    BY <1>2, <1>6, <2>1, <2>3, <2>4, <2>5, <2>6
<1>11. TokensFollow(T, secret)
  <2>1. ASSUME NEW m \in Modules, found.account[m] # None
        PROVE  WillBe(T, secret, McpKey(m, found.account[m]), {None})
    <3>. DEFINE key == McpKey(m, found.account[m])
    <3>1. PICK x \in DOMAIN keys : keys[x] = key
      BY <1>3, <2>1 DEF Has
    <3>2. PICK i \in DOMAIN P : P[i].write = Put(keys[x], None)
      BY <1>2
    <3>3. Puts(P[i].write, key)
      BY <3>1, <3>2 DEF Puts, Put
    <3>. HIDE DEF key
    <3>4. \A j \in DOMAIN P : Puts(P[j].write, key) => P[j].write.token \in {None}
      BY <1>2, <1>6, <1>7
    <3>. QED
      BY <3>3, <3>4 DEF WillBe, key, P
  <2>. QED
    BY <1>1, <2>1 DEF TokensFollow
<1>12. \A e \in Documents : After(e, P[2].write).enabled = {}
  <2>. SUFFICES ASSUME NEW e \in Documents
                PROVE  After(e, P[2].write).enabled = {}
    OBVIOUS
  <2>1. After(e, P[2].write) = Saved(e, NoConfiguration)
    BY <1>6 DEF After
  <2>. QED
    BY <2>1, SavedIs, EmptyConfiguration
<1>13. \A j \in DOMAIN P : ChangesDocument(P[j].write) => j = 2
  BY <1>2, <1>6, <1>7
<1>14. SettingsFollow(T, settings)
  BY <1>2, <1>6, <1>12, <1>13 DEF SettingsFollow, Intended, P
<1>15. Ordered(T, settings, secret)
  <2>1. \A k : Spare(After(settings, P[2].write), k)
    <3>1. After(settings, P[2].write) \in Documents
      <4>1. After(settings, P[2].write) = Saved(settings, NoConfiguration)
        BY <1>6 DEF After
      <4>. QED
        BY <1>1, <4>1, SavedIs, EmptyConfiguration DEF StateTyped
    <3>2. Configuration(After(settings, P[2].write)).enabled = {}
      BY <1>1, <1>12, <3>1, ConfigurationIs DEF StateTyped
    <3>. QED
      BY <3>2 DEF Spare
  <2>2. NoConfiguration.enabled = {}
    BY EmptyConfiguration
  <2>3. \A i \in DOMAIN P, k \in Keys : Deletes(P[i].write, k) => i > 2
    BY <1>2, <1>6 DEF Deletes
  <2>4. \A i \in DOMAIN P : i > 2 => 2 < i /\ ChangesDocument(P[2].write)
    BY <1>2, <1>6
  <2>5. \A i \in DOMAIN P : ChangesDocument(P[i].write) =>
          /\ P[i].write.do = "write" /\ P[i].write.configuration.enabled = {}
          /\ \A j \in DOMAIN P : i # j => ~ChangesDocument(P[j].write)
    BY <1>6, <1>13, <2>2
  <2>6. \A i \in DOMAIN P, k \in Keys : Deletes(P[i].write, k) =>
          /\ \E j \in DOMAIN P : j < i /\ ChangesDocument(P[j].write)
          /\ \A j \in DOMAIN P : ChangesDocument(P[j].write) => Spare(After(settings, P[j].write), k)
    BY <1>2, <1>13, <2>1, <2>3, <2>4
  <2>. QED
    BY <2>5, <2>6 DEF Ordered, P
<1>. QED
  BY <1>1, <1>2, <1>9, <1>10, <1>11, <1>14, <1>15 DEF ForwardInv, P

LEMMA ProgramIs ==
    ASSUME NEW T, Planned(T), NEW read \in Documents, T.todo = Program(T.job, read),
           T.job.kind = "setup" /\ T.fresh => read = Configuration(settings)
    PROVE  T.todo \in Seq(Steps) /\ ForwardInv(T, settings, secret)
<1>1. T.job \in Jobs /\ StateTyped
  BY DEF Planned
<1>2. CASE T.job.kind = "setup"
  <2>1. T.todo \in Seq(Steps)
    BY <1>1, <1>2, SetupProgram
  <2>. QED
    BY <1>2, <2>1, SetupPlanned
<1>. QED
  BY <1>1, <1>2, ConnectPlanned, DisconnectPlanned, ReplaceTokenPlanned, ConsentPlanned,
     UninstallPlanned, JobsAre

-----------------------------------------------------------------------------
(* The actions.                                                             *)

LEMMA TransactionsAre ==
    ASSUME NEW T \in Transactions
    PROVE  /\ T # Idle /\ T.job \in Jobs /\ T.read \in Documents /\ T.start \in Documents
           /\ T.todo \in Seq(Steps) /\ T.undo \in Seq(Writes) /\ T.before \in Secrets
           /\ T.fresh \in BOOLEAN /\ T.exact \in BOOLEAN
           /\ T.stage \in {"snapshot", "forward", "undo"}
BY DEF Transactions, Idle, Steps, Secrets

LEMMA HolderIs ==
    ASSUME TypeOK, NEW p \in Processes, tx[p] # Idle
    PROVE  /\ tx[p] \in Transactions /\ guard = p /\ StateTyped
           /\ \A q \in Processes : q # p => tx[q] = Idle
BY DEF TypeOK, StateTyped, Secrets

LEMMA InitInv == Init => CredentialInv
<1>. SUFFICES ASSUME Init PROVE CredentialInv
  OBVIOUS
<1>1. secret \in [Keys -> Tokens \cup {None}]
  BY DEF Init
<1>2. TypeOK
  BY <1>1, EmptyConfiguration, AssumedConstants DEF Init, TypeOK
<1>. QED
  BY <1>2 DEF Init, CredentialInv

\* What the holder of the guard does to its transaction.
LEMMA HolderChanges ==
    ASSUME TypeOK, NEW p \in Processes, tx[p] # Idle, NEW T \in Transactions,
           tx' = [tx EXCEPT ![p] = T], UNCHANGED <<guard, edits, windows>>,
           settings' \in Documents, secret' \in Secrets, TransactionInv(T, settings', secret')
    PROVE  CredentialInv'
<1>1. T # Idle /\ guard = p /\ \A q \in Processes : q # p => tx[q] = Idle
  BY TransactionsAre, HolderIs
<1>2. tx' \in [Processes -> Transactions \cup {Idle}] /\ tx'[p] = T
      /\ \A q \in Processes : q # p => tx'[q] = Idle
  BY <1>1 DEF TypeOK
<1>3. TypeOK'
  BY <1>1, <1>2 DEF TypeOK, Secrets
<1>. QED
  BY <1>1, <1>2, <1>3 DEF CredentialInv

LEMMA BeginInv ==
    ASSUME CredentialInv, NEW p \in Processes, NEW job \in Jobs, Begin(p, job)
    PROVE  CredentialInv'
<1>. DEFINE T == [stage |-> "snapshot", job |-> job,
                  read |-> IF job.kind = "setup" THEN Configuration(settings) ELSE NoConfiguration,
                  todo |-> <<>>, undo |-> <<>>, before |-> secret,
                  start |-> NoConfiguration, fresh |-> TRUE, exact |-> TRUE]
<1>1. TypeOK /\ StateTyped
  BY DEF CredentialInv, TypeOK, StateTyped, Secrets
<1>2. \A q \in Processes : tx[q] = Idle
  BY <1>1, AssumedConstants DEF Begin, GuardAvailable, TypeOK
<1>3. T \in Transactions
  <2>1. Configuration(settings) \in Documents
    BY <1>1, ConfigurationIs DEF StateTyped
  <2>. QED
    BY <1>1, <2>1, EmptyConfiguration, ShortLists DEF Transactions, StateTyped, Secrets
<1>4. TransactionInv(T, settings, secret)
  BY DEF TransactionInv
<1>5. tx' = [tx EXCEPT ![p] = T] /\ guard' = p /\ edits' = 0 /\ UNCHANGED <<settings, secret, windows>>
  BY DEF Begin
<1>. HIDE DEF T
<1>6. tx' \in [Processes -> Transactions \cup {Idle}] /\ tx'[p] = T /\ T # Idle
      /\ \A q \in Processes : q # p => tx'[q] = Idle
  BY <1>1, <1>2, <1>3, <1>5, TransactionsAre DEF TypeOK
<1>7. TypeOK'
  BY <1>1, <1>5, <1>6, AssumedConstants DEF TypeOK
<1>. QED
  BY <1>4, <1>5, <1>6, <1>7 DEF CredentialInv

LEMMA SnapshotInv ==
    ASSUME CredentialInv, NEW p \in Processes, Snapshot(p)
    PROVE  CredentialInv'
<1>1. tx[p] # Idle /\ tx[p].stage = "snapshot"
  BY DEF Snapshot, Idle
<1>2. /\ TypeOK /\ tx[p] \in Transactions /\ StateTyped
      /\ TransactionInv(tx[p], settings, secret)
  BY <1>1, HolderIs DEF CredentialInv
<1>3. /\ secret = tx[p].before
      /\ tx[p].job.kind = "setup" /\ tx[p].fresh => tx[p].read = Configuration(settings)
  BY <1>1, <1>2 DEF TransactionInv
<1>. DEFINE T == [tx[p] EXCEPT !.stage = "forward", !.todo = Program(tx[p].job, tx[p].read),
                               !.read = Configuration(settings), !.start = settings,
                               !.fresh = @ \/ tx[p].job.kind # "setup"]
<1>4. /\ T.job = tx[p].job /\ T.read = Configuration(settings) /\ T.start = settings
      /\ T.before = tx[p].before /\ T.fresh = (tx[p].fresh \/ tx[p].job.kind # "setup")
      /\ T.todo = Program(tx[p].job, tx[p].read) /\ T.stage = "forward"
  BY <1>2 DEF Transactions
<1>5. tx[p].job \in Jobs /\ tx[p].read \in Documents
  BY <1>2, TransactionsAre
<1>6. T.todo \in Seq(Steps) /\ ForwardInv(T, settings, secret)
  <2>. HIDE DEF T
  <2>1. Planned(T)
    BY <1>2, <1>3, <1>4, <1>5 DEF Planned
  <2>2. T.job.kind = "setup" /\ T.fresh => tx[p].read = Configuration(settings)
    BY <1>3, <1>4
  <2>. QED
    BY <1>4, <1>5, <2>1, <2>2, ProgramIs
<1>7. T \in Transactions
  <2>1. Program(tx[p].job, tx[p].read) \in Seq(Steps) /\ Configuration(settings) \in Documents
    BY <1>2, <1>4, <1>6, ConfigurationIs DEF StateTyped
  <2>. QED
    BY <1>2, <2>1 DEF Transactions, Steps, StateTyped
<1>8. tx' = [tx EXCEPT ![p] = T] /\ UNCHANGED <<guard, settings, secret, edits, windows>>
  BY DEF Snapshot
<1>. HIDE DEF T
<1>9. TransactionInv(T, settings', secret')
  BY <1>4, <1>6, <1>8 DEF TransactionInv
<1>. QED
  BY <1>1, <1>2, <1>7, <1>8, <1>9, HolderChanges DEF StateTyped

LEMMA WriteIs ==
    ASSUME NEW write
    PROVE  DocumentAfter(write) = After(settings, write) /\ SecretAfter(write) = Kept(secret, write)
BY DEF DocumentAfter, After, SecretAfter, Kept

LEMMA ForwardStep ==
    ASSUME CredentialInv, NEW p \in Processes, Forward(p)
    PROVE  LET A == [tx[p] EXCEPT !.todo = Tail(@)]
               w == Head(tx[p].todo).write
           IN  /\ tx[p] # Idle /\ TypeOK /\ StateTyped /\ tx[p].stage = "forward"
               /\ Advances(tx[p], A, w) /\ ForwardInv(tx[p], settings, secret)
               /\ tx' = [tx EXCEPT ![p] = A]
               /\ settings' = After(settings, w) /\ secret' = Kept(secret, w)
               /\ w.do = "check" => w.holds
<1>1. tx[p] # Idle /\ tx[p].stage = "forward" /\ tx[p].todo # <<>>
  BY DEF Forward, Idle
<1>2. /\ TypeOK /\ tx[p] \in Transactions /\ StateTyped
      /\ TransactionInv(tx[p], settings, secret)
  BY <1>1, HolderIs DEF CredentialInv
<1>3. Advances(tx[p], [tx[p] EXCEPT !.todo = Tail(@)], Head(tx[p].todo).write)
  BY <1>1, <1>2, AdvancedIs
<1>4. tx' = [tx EXCEPT ![p] = [tx[p] EXCEPT !.todo = Tail(@)]]
  BY DEF Forward
<1>5. LET w == Head(tx[p].todo).write
      IN  settings' = After(settings, w) /\ secret' = Kept(secret, w) /\ (w.do = "check" => w.holds)
  BY WriteIs DEF Forward, CanSucceed
<1>. QED
  BY <1>1, <1>2, <1>3, <1>4, <1>5 DEF TransactionInv

LEMMA ForwardKeepsInv ==
    ASSUME CredentialInv, NEW p \in Processes, Forward(p)
    PROVE  CredentialInv'
<1>. DEFINE A == [tx[p] EXCEPT !.todo = Tail(@)]
            w == Head(tx[p].todo).write
<1>1. /\ tx[p] # Idle /\ TypeOK /\ StateTyped /\ tx[p].stage = "forward"
      /\ Advances(tx[p], A, w) /\ ForwardInv(tx[p], settings, secret)
      /\ tx' = [tx EXCEPT ![p] = A]
      /\ settings' = After(settings, w) /\ secret' = Kept(secret, w)
      /\ w.do = "check" => w.holds
  BY ForwardStep
<1>. HIDE DEF A, w
<1>2. A \in Transactions /\ A.stage = "forward" /\ w \in Writes
  BY <1>1 DEF Advances
<1>3. settings' \in Documents /\ secret' \in Secrets
  BY <1>1, <1>2, AfterIs, KeptIs DEF StateTyped
<1>4. ForwardInv(A, settings', secret')
  BY <1>1, ForwardKeeps DEF StateTyped
<1>5. TransactionInv(A, settings', secret')
  BY <1>2, <1>4 DEF TransactionInv
<1>6. UNCHANGED <<guard, edits, windows>>
  BY DEF Forward
<1>. QED
  BY <1>1, <1>2, <1>3, <1>5, <1>6, HolderChanges

LEMMA FailKeepsInv ==
    ASSUME CredentialInv, NEW p \in Processes, Fail(p)
    PROVE  CredentialInv'
<1>. DEFINE T == tx[p]
            B == [tx[p] EXCEPT !.stage = "undo", !.todo = <<>>, !.undo = Head(tx[p].todo).undo,
                               !.exact = secret' = secret \/ Head(tx[p].todo).undo # <<>>]
            w == Head(tx[p].todo).write
<1>1. tx[p] # Idle /\ tx[p].stage = "forward" /\ tx[p].todo # <<>>
  BY DEF Fail, Idle
<1>2. /\ TypeOK /\ T \in Transactions /\ StateTyped /\ TransactionInv(T, settings, secret)
  BY <1>1, HolderIs DEF CredentialInv
<1>3. /\ T.todo \in Seq(Steps) /\ Head(T.todo) \in Steps
      /\ 1 \in DOMAIN T.todo /\ T.todo[1] = Head(T.todo)
  BY <1>1, <1>2, TransactionsAre, StepsLeft
<1>4. w \in Writes /\ Head(T.todo).undo \in Seq(Writes)
  BY <1>3 DEF Steps
<1>5. /\ B \in Transactions /\ B.stage = "undo" /\ B.undo = Head(T.todo).undo
      /\ B.job = T.job /\ B.read = T.read /\ B.before = T.before
      /\ B.start = T.start /\ B.fresh = T.fresh
      /\ B.exact = (secret' = secret \/ Head(T.todo).undo # <<>>)
  BY <1>2, <1>4, ShortLists DEF Transactions, Steps
<1>6. /\ secret' \in SecretsAfterFailure(w) /\ UNCHANGED <<guard, settings, edits, windows>>
      /\ tx' = [tx EXCEPT ![p] = B]
  BY DEF Fail
<1>7. ForwardInv(T, settings, secret)
  BY <1>1, <1>2 DEF TransactionInv
<1>. HIDE DEF T, B, w
<1>8. LostIs(secret, secret', w)
  BY <1>2, <1>4, <1>6, FailureIs DEF StateTyped
<1>9. FailsInto(T, B)
  BY <1>2, <1>3, <1>5 DEF FailsInto
<1>10. LostIs(secret, secret', T.todo[1].write)
  BY <1>3, <1>8 DEF w, T
<1>11. UndoInv(B, settings, secret')
  BY <1>2, <1>5, <1>7, <1>9, <1>10, FailureLeadsToUndo DEF StateTyped
<1>12. TransactionInv(B, settings', secret')
  BY <1>5, <1>6, <1>11 DEF TransactionInv
<1>13. settings' \in Documents /\ secret' \in Secrets
  BY <1>2, <1>6, <1>8 DEF StateTyped, LostIs
<1>. QED
  BY <1>1, <1>2, <1>5, <1>6, <1>12, <1>13, HolderChanges

LEMMA UndoKeepsInv ==
    ASSUME CredentialInv, NEW p \in Processes, Undo(p)
    PROVE  CredentialInv'
<1>. DEFINE T == tx[p]
            w == Head(tx[p].undo)
            C == [tx[p] EXCEPT !.undo = Tail(@)]
            D == [tx[p] EXCEPT !.undo = Tail(@), !.exact = FALSE]
<1>1. tx[p] # Idle /\ tx[p].stage = "undo" /\ tx[p].undo # <<>>
  BY DEF Undo, Idle
<1>2. /\ TypeOK /\ T \in Transactions /\ StateTyped /\ TransactionInv(T, settings, secret)
  BY <1>1, HolderIs DEF CredentialInv
<1>3. Undoes(T, C, w) /\ Undoes(T, D, w) /\ D.exact = FALSE /\ C.exact = T.exact
  BY <1>1, <1>2, UndoesIs DEF Transactions
<1>4. UndoInv(T, settings, secret)
  BY <1>1, <1>2 DEF TransactionInv
<1>5. \/ /\ settings' = After(settings, w) /\ secret' = Kept(secret, w)
         /\ tx' = [tx EXCEPT ![p] = C]
      \/ /\ secret' \in SecretsAfterFailure(w) /\ settings' = settings
         /\ tx' = [tx EXCEPT ![p] = D]
  BY WriteIs DEF Undo
<1>6. UNCHANGED <<guard, edits, windows>>
  BY DEF Undo
<1>. HIDE DEF T, w, C, D
<1>7. /\ C \in Transactions /\ D \in Transactions /\ w \in Writes
      /\ C.stage = "undo" /\ D.stage = "undo" /\ C.read = T.read /\ D.read = T.read
      /\ C.start = T.start /\ D.start = T.start /\ C.job = T.job /\ C.fresh = T.fresh
      /\ 1 \in DOMAIN T.undo /\ T.undo[1] = w
  BY <1>1, <1>3 DEF Undoes, T
<1>8. CASE /\ settings' = After(settings, w) /\ secret' = Kept(secret, w)
           /\ tx' = [tx EXCEPT ![p] = C]
  <2>1. settings' \in Documents /\ secret' \in Secrets
    BY <1>2, <1>7, <1>8, AfterIs, KeptIs DEF StateTyped
  <2>2. C.job.kind # "replaceToken" /\ C.exact => Covers(C, C.undo, secret')
    BY <1>2, <1>3, <1>4, <1>7, <1>8, UndoKeepsCovering DEF UndoInv, StateTyped
  <2>3. ASSUME C.job.kind # "replaceToken", C.exact, C.fresh
        PROVE  Mends(C, C.undo, settings')
    <3>1. IsUndo(T, w) /\ Mends(T, T.undo, settings) /\ T.read = Configuration(T.start)
      BY <1>3, <1>4, <1>7, <2>3 DEF UndoInv, Covers
    <3>. QED
      BY <1>2, <1>3, <1>8, <3>1, UndoKeepsMending DEF StateTyped
  <2>4. TransactionInv(C, settings', secret')
    BY <1>4, <1>7, <2>2, <2>3 DEF TransactionInv, UndoInv
  <2>. QED
    BY <1>1, <1>2, <1>6, <1>7, <1>8, <2>1, <2>4, HolderChanges
<1>9. CASE /\ secret' \in SecretsAfterFailure(w) /\ settings' = settings
           /\ tx' = [tx EXCEPT ![p] = D]
  <2>1. settings' \in Documents /\ secret' \in Secrets
    BY <1>2, <1>7, <1>9, FailureIs DEF StateTyped, LostIs
  <2>2. TransactionInv(D, settings', secret')
    BY <1>3, <1>4, <1>7 DEF TransactionInv, UndoInv
  <2>. QED
    BY <1>1, <1>2, <1>6, <1>7, <1>9, <2>1, <2>2, HolderChanges
<1>. QED
  BY <1>5, <1>8, <1>9

\* A transaction returns or ends.
LEMMA EndKeepsInv ==
    ASSUME CredentialInv, NEW p \in Processes, tx[p] # Idle, Release(p) \/ Crash(p)
    PROVE  CredentialInv'
<1>1. /\ guard' = Free /\ tx' = [tx EXCEPT ![p] = Idle] /\ edits' = 0
      /\ UNCHANGED <<settings, secret, windows>>
  BY DEF Release, Crash, GuardAfter
<1>2. TypeOK /\ \A q \in Processes : q # p => tx[q] = Idle
  BY HolderIs DEF CredentialInv
<1>3. \A q \in Processes : tx'[q] = Idle
  BY <1>1, <1>2 DEF TypeOK
<1>4. TypeOK'
  BY <1>1, <1>2, <1>3, AssumedConstants DEF TypeOK
<1>. QED
  BY <1>3, <1>4 DEF CredentialInv

\* What somebody else's save does to a transaction.
LEMMA OutdatedKeepsInv ==
    ASSUME NEW T \in Transactions, NEW d, NEW e, NEW s, TransactionInv(T, d, s)
    PROVE  LET O == [T EXCEPT !.fresh = FALSE]
           IN  O \in Transactions /\ O # Idle /\ TransactionInv(O, e, s)
<1>. DEFINE O == [T EXCEPT !.fresh = FALSE]
<1>1. /\ O \in Transactions /\ O # Idle /\ O.fresh = FALSE /\ O.job = T.job /\ O.read = T.read
      /\ O.start = T.start /\ O.before = T.before /\ O.todo = T.todo /\ O.undo = T.undo
      /\ O.exact = T.exact /\ O.stage = T.stage
  BY DEF Transactions, Idle
<1>. HIDE DEF O
<1>2. /\ \A list, t : Covers(T, list, t) => Covers(O, list, t)
      /\ \A i, key : PutBefore(O, i, key) <=> PutBefore(T, i, key)
      /\ \A t, key, tokens : WillBe(O, t, key, tokens) <=> WillBe(T, t, key, tokens)
  <2>1. \A list, t : Covers(T, list, t) => Covers(O, list, t)
    BY <1>1 DEF Covers, IsUndo
  <2>2. \A i, key : PutBefore(O, i, key) <=> PutBefore(T, i, key)
    BY <1>1 DEF PutBefore
  <2>3. \A t, key, tokens : WillBe(O, t, key, tokens) <=> WillBe(T, t, key, tokens)
    BY <1>1 DEF WillBe
  <2>. QED
    BY <2>1, <2>2, <2>3
<1>3. TokensUndoable(T, s) => TokensUndoable(O, s)
  BY <1>1, <1>2 DEF TokensUndoable
<1>4. TokensFollow(T, s) => TokensFollow(O, s)
  <2>. SUFFICES ASSUME TokensFollow(T, s) PROVE TokensFollow(O, s)
    OBVIOUS
  <2>1. CASE T.job.kind \in {"setup", "replaceToken"}
    BY <1>1, <1>2, <2>1 DEF TokensFollow
  <2>2. CASE T.job.kind = "uninstall"
    BY <1>1, <1>2, <2>2 DEF TokensFollow
  <2>3. CASE T.job.kind = "connect"
    BY <1>1, <1>2, <2>3 DEF TokensFollow
  <2>4. CASE T.job.kind = "disconnect"
    BY <1>1, <1>2, <2>4 DEF TokensFollow
  <2>5. CASE T.job.kind = "consent"
    BY <1>1, <1>2, <2>5 DEF TokensFollow
  <2>. QED
    BY <2>1, <2>2, <2>3, <2>4, <2>5, TransactionsAre, JobsAre
<1>5. ForwardInv(T, d, s) => ForwardInv(O, e, s)
  BY <1>1, <1>3, <1>4 DEF ForwardInv
<1>6. UndoInv(T, d, s) => UndoInv(O, e, s)
  BY <1>1, <1>2 DEF UndoInv
<1>7. T.stage \in {"snapshot", "forward", "undo"}
  BY TransactionsAre
<1>8. TransactionInv(O, e, s)
  BY <1>1, <1>5, <1>6, <1>7 DEF TransactionInv
<1>. QED
  BY <1>1, <1>8 DEF O

LEMMA SavedKeepsInv ==
    ASSUME CredentialInv, NEW document \in Documents, SavedUnguarded(document)
    PROVE  CredentialInv'
<1>1. /\ settings' = document /\ UNCHANGED <<guard, secret, windows>>
      /\ tx' = [p \in Processes |-> IF tx[p] = Idle THEN Idle ELSE [tx[p] EXCEPT !.fresh = FALSE]]
  BY DEF SavedUnguarded
<1>2. edits' \in 0 .. MaxEdits
  BY AssumedConstants DEF SavedUnguarded, CredentialInv, TypeOK
<1>3. ASSUME NEW p \in Processes, tx[p] # Idle
      PROVE  tx'[p] \in Transactions /\ tx'[p] # Idle /\ TransactionInv(tx'[p], settings', secret')
  <2>1. tx[p] \in Transactions /\ TransactionInv(tx[p], settings, secret)
    BY <1>3, HolderIs DEF CredentialInv
  <2>2. tx'[p] = [tx[p] EXCEPT !.fresh = FALSE] /\ secret' = secret
    BY <1>1, <1>3
  <2>. QED
    BY <2>1, <2>2, OutdatedKeepsInv
<1>4. \A p \in Processes : tx[p] = Idle => tx'[p] = Idle
  BY <1>1
<1>5. TypeOK'
  <2>1. tx' \in [Processes -> Transactions \cup {Idle}]
    BY <1>1, <1>3, <1>4
  <2>. QED
    BY <1>1, <1>2, <1>3, <1>4, <2>1 DEF CredentialInv, TypeOK
<1>. QED
  BY <1>3, <1>4, <1>5 DEF CredentialInv

LEMMA EditorsKeepInv ==
    ASSUME CredentialInv, NEW m \in Modules, NEW account \in Accounts \cup {None}, NEW on \in BOOLEAN,
           EditorSaves(m, account, on)
    PROVE  CredentialInv'
<1>. DEFINE draft == WithModule(settings, m, account, on)
            both == Saved(draft, WithModule(Configuration(draft), m, account, on))
<1>1. draft \in Documents
  BY WithModuleIs DEF CredentialInv, TypeOK
<1>2. both \in Documents
  BY <1>1, WithModuleIs, ConfigurationIs, SavedIs
<1>3. SavedUnguarded(draft) \/ SavedUnguarded(both)
  BY DEF EditorSaves
<1>. HIDE DEF draft, both
<1>. QED
  BY <1>1, <1>2, <1>3, SavedKeepsInv

LEMMA ConsentWithoutGuardKeepsInv ==
    ASSUME CredentialInv, NEW job \in Jobs, ConsentWithoutGuard(job)
    PROVE  CredentialInv'
<1>1. Saved(settings, Consented(job, Configuration(settings))) \in Documents
  BY ConfigurationIs, ConsentedIs, SavedIs DEF ConsentWithoutGuard, CredentialInv, TypeOK
<1>. QED
  BY <1>1, SavedKeepsInv DEF ConsentWithoutGuard

LEMMA NextKeepsInv == CredentialInv /\ [Next]_vars => CredentialInv'
<1>. SUFFICES ASSUME CredentialInv, [Next]_vars PROVE CredentialInv'
  OBVIOUS
<1>1. ASSUME NEW p \in Processes, NEW job \in Jobs, Begin(p, job)
      PROVE  CredentialInv'
  BY <1>1, BeginInv
<1>2. ASSUME NEW p \in Processes, Works(p)
      PROVE  CredentialInv'
  <2>1. CASE Release(p)
    <3>1. tx[p] # Idle
      BY <2>1 DEF Release, Succeeded, Failed, Idle
    <3>. QED
      BY <2>1, <3>1, EndKeepsInv
  <2>. QED
    BY <1>2, <2>1, SnapshotInv, ForwardKeepsInv, FailKeepsInv, UndoKeepsInv DEF Works
<1>3. ASSUME NEW p \in Processes, Crash(p)
      PROVE  CredentialInv'
  BY <1>3, EndKeepsInv DEF Crash
<1>4. ASSUME NEW m \in Modules, NEW account \in Accounts \cup {None}, NEW on \in BOOLEAN,
             EditorSaves(m, account, on)
      PROVE  CredentialInv'
  BY <1>4, EditorsKeepInv
<1>5. ASSUME NEW job \in Jobs, ConsentWithoutGuard(job)
      PROVE  CredentialInv'
  BY <1>5, ConsentWithoutGuardKeepsInv
<1>6. CASE UNCHANGED vars
  BY <1>6 DEF vars, CredentialInv, TypeOK
<1>. QED
  BY <1>1, <1>2, <1>3, <1>4, <1>5, <1>6 DEF Next

LEMMA SpecInv == Spec => []CredentialInv
BY InitInv, NextKeepsInv, PTL DEF Spec

\* Every variable keeps its type, and exactly the holder of the guard has a transaction
\* (CredentialTransactionGuard), for any processes, accounts and tokens.
THEOREM TypeCorrect == Spec => []TypeOK
<1>1. CredentialInv => TypeOK
  BY DEF CredentialInv
<1>. QED
  BY <1>1, SpecInv, PTL

LEMMA FailedIsRestored ==
    ASSUME CredentialInv, NEW p \in Processes, Failed(p), tx[p].exact,
           tx[p].job.kind # "replaceToken"
    PROVE  /\ secret = tx[p].before
           /\ tx[p].fresh => Settled(tx[p], settings)
<1>1. tx[p] # Idle /\ tx[p].stage = "undo" /\ tx[p].undo = <<>>
  BY DEF Failed, Idle
<1>2. tx[p] \in Transactions /\ StateTyped /\ UndoInv(tx[p], settings, secret)
  BY <1>1, HolderIs DEF CredentialInv, TransactionInv
<1>3. \A w : ~Has(tx[p].undo, w)
  BY <1>1, ListsOfNone
<1>4. \A key \in Keys : secret[key] = tx[p].before[key]
  BY <1>2, <1>3 DEF UndoInv, Covers
<1>5. secret = tx[p].before
  BY <1>2, <1>4, TransactionsAre DEF StateTyped, Secrets
<1>. QED
  BY <1>2, <1>3, <1>5 DEF UndoInv, Mends

\* The rollbacks of setup, uninstall, connecting, disconnecting and consent are complete,
\* whichever step fails and whoever saves settings meanwhile.
THEOREM RollbacksRestore == Spec => []RollbackRestores
<1>1. CredentialInv => RollbackRestores
  <2>. SUFFICES ASSUME CredentialInv PROVE RollbackRestores
    OBVIOUS
  <2>1. TokensRestored
    BY FailedIsRestored DEF TokensRestored
  <2>2. SettingsRestored
    BY FailedIsRestored DEF SettingsRestored, Settled
  <2>. QED
    BY <2>1, <2>2 DEF RollbackRestores
<1>. QED
  BY <1>1, SpecInv, PTL

\* What an operation reports as done is done, the token and the account together.
THEOREM SuccessesAreComplete == Spec => []SuccessIsComplete
<1>1. CredentialInv => SuccessIsComplete
  <2>. SUFFICES ASSUME CredentialInv, NEW p \in Processes, Succeeded(p)
                PROVE  LET job == tx[p].job
                           read == tx[p].read
                           undisturbed == tx[p].fresh
                       IN  CASE job.kind = "setup" ->
                                  /\ secret[McpKey(job.module, job.account)] = job.token
                                  /\ read.account[job.module] \notin {None, job.account}
                                     => secret[McpKey(job.module, read.account[job.module])] = None
                                  /\ undisturbed => /\ settings.account[job.module] = job.account
                                                    /\ (job.module \in settings.enabled) = job.on
                             [] job.kind = "uninstall" ->
                                  /\ \A m \in Modules : read.account[m] # None
                                                        => secret[McpKey(m, read.account[m])] = None
                                  /\ undisturbed => settings.enabled = {}
                             [] job.kind = "connect" ->
                                  /\ secret[DesktopKey(job.account)] = job.token
                                  /\ undisturbed => settings.account["jira"] = job.account
                             [] job.kind = "disconnect" ->
                                  tx[p].start.account["jira"] # None
                                  => secret[DesktopKey(tx[p].start.account["jira"])] = None
                             [] job.kind = "consent" ->
                                  LET account == Consented(job, read).account["jira"]
                                  IN  ("jira" \in Consented(job, read).enabled)
                                      = (secret[McpKey("jira", account)] # None)
                             [] job.kind = "replaceToken" ->
                                  secret[McpKey(job.module, job.account)] = job.token
    BY DEF SuccessIsComplete
  <2>. DEFINE T == tx[p]
  <2>1. T # Idle /\ T.stage = "forward" /\ T.todo = <<>>
    BY DEF Succeeded, Idle
  <2>2. T \in Transactions /\ ForwardInv(T, settings, secret)
    BY <2>1, HolderIs DEF CredentialInv, TransactionInv
  <2>3. DOMAIN T.todo = {}
    BY <2>1, ListsOfNone
  <2>. HIDE DEF T
  <2>4. \A key, tokens : WillBe(T, secret, key, tokens) => secret[key] \in tokens
    BY <2>3 DEF WillBe
  <2>5. TokensFollow(T, secret) /\ (T.fresh => Intended(T, settings))
    BY <2>2, <2>3 DEF ForwardInv, SettingsFollow
  <2>6. CASE T.job.kind = "setup"
    BY <2>4, <2>5, <2>6 DEF TokensFollow, Intended, Replaces, T
  <2>7. CASE T.job.kind = "uninstall"
    BY <2>4, <2>5, <2>7 DEF TokensFollow, Intended, T
  <2>8. CASE T.job.kind = "connect"
    BY <2>4, <2>5, <2>8 DEF TokensFollow, Intended, T
  <2>9. CASE T.job.kind = "disconnect"
    BY <2>4, <2>5, <2>9 DEF TokensFollow, T
  <2>10. CASE T.job.kind = "replaceToken"
    BY <2>4, <2>5, <2>10 DEF TokensFollow, T
  <2>11. CASE T.job.kind = "consent"
    <3>. DEFINE own == McpKey("jira", Consented(T.job, T.read).account["jira"])
    <3>1. secret[own] \in (IF "jira" \in Consented(T.job, T.read).enabled THEN Tokens ELSE {None})
      BY <2>3, <2>4, <2>5, <2>11 DEF TokensFollow
    <3>2. ("jira" \in Consented(T.job, T.read).enabled) = (secret[own] # None)
      BY <3>1, AssumedConstants
    <3>. QED
      BY <2>11, <3>2 DEF T
  <2>12. T.job \in Jobs
    BY <2>2, TransactionsAre
  <2>. QED
    BY <2>6, <2>7, <2>8, <2>9, <2>10, <2>11, <2>12, JobsAre DEF T
<1>. QED
  BY <1>1, SpecInv, PTL

\* A step of the list taken by anybody is the next step of the holder of the guard.
LEMMA OnlyForwardAdvances ==
    ASSUME CredentialInv, [Next]_vars, NEW p \in Processes, tx[p] # Idle, tx[p].stage = "forward",
           tx'[p] # Idle, tx'[p].stage = "forward", tx'[p].todo # tx[p].todo
    PROVE  Forward(p)
<1>1. /\ guard = p /\ TypeOK /\ tx[p] \in Transactions /\ \A q \in Processes : q # p => tx[q] = Idle
  BY HolderIs DEF CredentialInv
<1>2. \A q \in Processes, job \in Jobs : ~Begin(q, job)
  BY <1>1, AssumedConstants DEF Begin, GuardAvailable
<1>3. \A q \in Processes : Works(q) \/ Crash(q) => q = p
  BY <1>1 DEF Works, Snapshot, Forward, Fail, Undo, Release, Succeeded, Failed, Crash, Idle
<1>4. ~Snapshot(p) /\ ~Undo(p)
  BY DEF Snapshot, Undo
<1>5. ~Fail(p)
  BY <1>1 DEF Fail, TypeOK, Transactions
<1>6. ~Release(p) /\ ~Crash(p)
  BY <1>1 DEF Release, Crash, TypeOK
<1>7. \A document : ~SavedUnguarded(document)
  BY <1>1 DEF SavedUnguarded, Transactions
<1>8. \A m \in Modules, account \in Accounts \cup {None}, on \in BOOLEAN : ~EditorSaves(m, account, on)
  BY <1>7 DEF EditorSaves
<1>9. \A job \in Jobs : ~ConsentWithoutGuard(job)
  BY <1>7 DEF ConsentWithoutGuard
<1>10. ~UNCHANGED vars
  BY DEF vars
<1>. QED
  BY <1>2, <1>3, <1>4, <1>5, <1>6, <1>8, <1>9, <1>10 DEF Next, Works

\* No step of setup or uninstall leaves an enabled module without its token, so that
\* the process may end between any two of them.
THEOREM InterruptionIsSafe == Spec => SafeToInterrupt
<1>1. ASSUME CredentialInv, [Next]_vars, NEW p \in Processes,
             tx[p] # Idle, tx[p].stage = "forward", tx[p].job.kind \in {"setup", "uninstall"},
             tx[p].fresh, tx'[p] # Idle, tx'[p].stage = "forward", tx'[p].todo # tx[p].todo, Backed
      PROVE  Backed'
  <2>. DEFINE A == [tx[p] EXCEPT !.todo = Tail(@)]
              w == Head(tx[p].todo).write
  <2>1. Forward(p)
    BY <1>1, OnlyForwardAdvances
  <2>2. /\ StateTyped /\ Advances(tx[p], A, w) /\ ForwardInv(tx[p], settings, secret)
        /\ settings' = After(settings, w) /\ secret' = Kept(secret, w)
    BY <1>1, <2>1, ForwardStep
  <2>. HIDE DEF A, w
  <2>3. Ordered(tx[p], settings, secret) /\ IsBacked(settings, secret)
    BY <1>1, <2>2 DEF ForwardInv, Backed, IsBacked
  <2>4. IsBacked(settings', secret')
    BY <1>1, <2>2, <2>3, OrderedStepIsSafe DEF StateTyped
  <2>. QED
    BY <2>4 DEF Backed, IsBacked
<1>2. CredentialInv /\ [Next]_vars =>
        [\A p \in Processes :
           /\ tx[p] # Idle /\ tx[p].stage = "forward"
           /\ tx[p].job.kind \in {"setup", "uninstall"}
           /\ tx[p].fresh
           /\ tx[p].todo # <<>> /\ tx'[p] # Idle /\ tx'[p].stage = "forward"
           /\ tx'[p].todo # tx[p].todo
           /\ Backed
           => Backed']_vars
  BY <1>1
<1>. QED
  BY <1>2, SpecInv, PTL DEF SafeToInterrupt, Spec
=============================================================================

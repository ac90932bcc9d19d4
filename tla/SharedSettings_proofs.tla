------------------------ MODULE SharedSettings_proofs ------------------------
(***************************************************************************)
(* What SharedSettings guarantees for any number of frontends, values and  *)
(* revisions.  The inductive invariant adds to the types what the revision *)
(* stands for: the document a save is based on is no newer than the file,  *)
(* is the file if their revisions are equal, and is the file in every save *)
(* that passed the comparison, because it holds the lock.                  *)
(***************************************************************************)
EXTENDS SharedSettings, TLAPS

SavePlaces == {"lock", "check", "commit"}

\* A base of the current revision is the current document.
BaseFollowsFile ==
    \A f \in Frontends : pc[f] \in SavePlaces =>
        /\ base[f].revision <= file.revision
        /\ base[f].revision = file.revision => base[f] = file

\* The comparison still holds when the file is replaced.
CommitIsCurrent ==
    \A f \in Frontends : pc[f] = "commit" =>
        base[f].revision = file.revision /\ file.revision + 1 <= MaxRevision

\* A save of the preferences never comes near the grants.
PreferencesApart ==
    \A f \in Frontends : Kind[f] = "preferences" =>
        /\ pc[f] \notin {"current", "rebase"}
        /\ writing[f] \cap Grants = {}

SettingsInv == TypeOK /\ BaseFollowsFile /\ CommitIsCurrent /\ PreferencesApart

-----------------------------------------------------------------------------
(* Constants *)

\* What a frontend edits and what MCP writes are sections.
LEMMA OwnedAreSections ==
    /\ \A kind \in Kinds : Owned(kind) \in SUBSET Sections
    /\ McpSections \in SUBSET Sections
    /\ Owned("preferences") \cap Grants = {}
BY DEF Owned, Kinds, Sections, McpSections, Grants

\* Nothing is a document.
LEMMA NothingIsADocument == Nothing \in Documents
<1>1. (CHOOSE value \in Values : TRUE) \in Values
  BY SettingsAssumption
<1>2. 0 \in 0 .. MaxRevision
  BY SettingsAssumption
<1> QED
  BY <1>1, <1>2 DEF Nothing, Documents

\* A document whose revision is replaced or whose values are is a document.
LEMMA DocumentsBuilt ==
    ASSUME NEW n \in 0 .. MaxRevision, NEW v \in [Sections -> Values]
    PROVE  [revision |-> n, values |-> v] \in Documents
BY DEF Documents

LEMMA DocumentParts ==
    ASSUME NEW d \in Documents
    PROVE  d.revision \in 0 .. MaxRevision /\ d.values \in [Sections -> Values]
BY DEF Documents

-----------------------------------------------------------------------------
(* The invariant *)

LEMMA InitEstablishes == Init => SettingsInv
<1> SUFFICES ASSUME Init PROVE SettingsInv
  OBVIOUS
<1> USE SettingsAssumption, NothingIsADocument DEF Init
<1>1. file \in Documents
  <2>1. PICK value \in Values : file = [revision |-> 0, values |-> [s \in Sections |-> value]]
    OBVIOUS
  <2> QED
    BY <2>1, DocumentsBuilt
<1>2. Nothing.values \in [Sections -> Values]
  BY DocumentParts
<1>3. TypeOK
  BY <1>1, <1>2 DEF TypeOK, Places
<1>4. \A f \in Frontends : pc[f] = "closed" /\ writing[f] = {}
  OBVIOUS
<1> QED
  BY <1>3, <1>4 DEF SettingsInv, BaseFollowsFile, CommitIsCurrent, PreferencesApart, SavePlaces

\* A step that leaves file and lock alone, and moves one frontend outside
\* the critical section to a place outside it.
LEMMA OutsideStep ==
    ASSUME SettingsInv, NEW f \in Frontends,
           NEW place \in Places \ {"check", "commit"},
           pc[f] \notin {"check", "commit"},
           Goes(f, place),
           UNCHANGED <<file, lock>>,
           draft' \in [Frontends -> [Sections -> Values]],
           stale' \in [Frontends -> SUBSET Sections],
           NEW d \in Documents, NEW W \in SUBSET Sections,
           base' = [base EXCEPT ![f] = d],
           writing' = [writing EXCEPT ![f] = W],
           place = "lock" => d = file,
           Kind[f] = "preferences" => place \notin {"current", "rebase"} /\ W \cap Grants = {}
    PROVE  SettingsInv'
<1> USE DEF SettingsInv
<1>1. pc' = [pc EXCEPT ![f] = place] /\ pc \in [Frontends -> Places]
  BY DEF Goes, TypeOK
<1>2. TypeOK'
  BY <1>1 DEF TypeOK
<1>3. BaseFollowsFile'
  <2> SUFFICES ASSUME NEW g \in Frontends, pc'[g] \in SavePlaces
               PROVE  base'[g].revision <= file'.revision
                      /\ (base'[g].revision = file'.revision => base'[g] = file')
    BY DEF BaseFollowsFile
  <2>1. CASE g = f
    <3>1. base'[g] = file /\ file' = file
      BY <2>1, <1>1 DEF SavePlaces, TypeOK
    <3> QED
      BY <3>1, DocumentParts, SettingsAssumption DEF TypeOK
  <2>2. CASE g # f
    <3>1. base'[g] = base[g] /\ file' = file /\ pc'[g] = pc[g]
      BY <2>2, <1>1 DEF TypeOK
    <3> QED
      BY <3>1 DEF BaseFollowsFile
  <2> QED
    BY <2>1, <2>2
<1>4. CommitIsCurrent'
  <2> SUFFICES ASSUME NEW g \in Frontends, pc'[g] = "commit"
               PROVE  base'[g].revision = file'.revision /\ file'.revision + 1 <= MaxRevision
    BY DEF CommitIsCurrent
  <2>1. g # f /\ pc[g] = "commit" /\ base'[g] = base[g] /\ file' = file
    BY <1>1 DEF TypeOK
  <2> QED
    BY <2>1 DEF CommitIsCurrent
<1>5. PreferencesApart'
  BY <1>1 DEF PreferencesApart, TypeOK
<1> QED
  BY <1>2, <1>3, <1>4, <1>5

\* A step that leaves the file alone, takes the lock or releases it, and keeps
\* the locals of all other frontends.
LEMMA LockStep ==
    ASSUME SettingsInv, NEW f \in Frontends,
           NEW place \in Places, Goes(f, place),
           file' = file, stale' = stale,
           pc[f] \in {"check", "commit"} => lock' \in {f, Free},
           pc[f] \notin {"check", "commit"} => lock = Free \/ lock' = lock,
           lock' = f <=> place \in {"check", "commit"},
           lock' \in {f, lock, Free},
           place \in {"check", "commit"} =>
              /\ pc[f] \in SavePlaces
              /\ UNCHANGED local
              /\ place = "commit" => RevisionMatches(f) /\ NextRevision <= MaxRevision,
           place \notin {"check", "commit"} => Ends(f, place) /\ place \in {"editing", "closed"}
    PROVE  SettingsInv'
<1> USE DEF SettingsInv
<1>1. pc' = [pc EXCEPT ![f] = place] /\ pc \in [Frontends -> Places]
  BY DEF Goes, TypeOK
<1>2. /\ draft' \in [Frontends -> [Sections -> Values]]
      /\ base' \in [Frontends -> Documents]
      /\ writing' \in [Frontends -> SUBSET Sections]
      /\ \A g \in Frontends \ {f} : base'[g] = base[g] /\ writing'[g] = writing[g]
      /\ place \in {"check", "commit"} => base' = base /\ writing' = writing
      /\ place \notin {"check", "commit"} => writing'[f] = {}
  <2>1. CASE place \in {"check", "commit"}
    BY <2>1 DEF local, TypeOK
  <2>2. CASE place \notin {"check", "commit"}
    <3>1. Nothing \in Documents /\ Nothing.values \in [Sections -> Values]
      BY NothingIsADocument, DocumentParts
    <3>2. draft' \in [Frontends -> [Sections -> Values]]
      <4>1. CASE place = "closed"
        BY <2>2, <3>1, <4>1 DEF Ends, TypeOK
      <4>2. CASE place # "closed"
        BY <2>2, <4>2 DEF Ends, TypeOK
      <4> QED
        BY <4>1, <4>2
    <3>3. /\ base' = [base EXCEPT ![f] = Nothing] /\ writing' = [writing EXCEPT ![f] = {}]
          /\ base \in [Frontends -> Documents] /\ writing \in [Frontends -> SUBSET Sections]
      BY <2>2 DEF Ends, TypeOK
    <3> QED
      BY <2>2, <3>1, <3>2, <3>3
  <2> QED
    BY <2>1, <2>2
<1>3. \A g \in Frontends : (lock' = g) = (pc'[g] \in {"check", "commit"})
  <2> SUFFICES ASSUME NEW g \in Frontends, g # f
               PROVE  lock' = g <=> pc[g] \in {"check", "commit"}
    BY <1>1
  <2>1. lock = g <=> pc[g] \in {"check", "commit"}
    BY DEF TypeOK
  <2>2. lock = f <=> pc[f] \in {"check", "commit"}
    BY DEF TypeOK
  <2> QED
    BY <2>1, <2>2, SettingsAssumption
<1>4. TypeOK'
  BY <1>1, <1>2, <1>3 DEF TypeOK
<1>5. BaseFollowsFile'
  <2> SUFFICES ASSUME NEW g \in Frontends, pc'[g] \in SavePlaces
               PROVE  pc[g] \in SavePlaces /\ base'[g] = base[g]
    BY DEF BaseFollowsFile
  <2>1. g = f => place \in {"check", "commit"}
    BY <1>1 DEF SavePlaces
  <2> QED
    BY <1>1, <1>2, <2>1
<1>6. CommitIsCurrent'
  <2> SUFFICES ASSUME NEW g \in Frontends, pc'[g] = "commit"
               PROVE  base'[g].revision = file'.revision /\ file'.revision + 1 <= MaxRevision
    BY DEF CommitIsCurrent
  <2>1. base'[g] = base[g]
    BY <1>1, <1>2
  <2>2. CASE g = f
    <3>1. place = "commit"
      BY <1>1, <2>2
    <3> QED
      BY <2>1, <2>2, <3>1 DEF RevisionMatches, NextRevision
  <2>3. CASE g # f
    BY <1>1, <2>1, <2>3 DEF CommitIsCurrent
  <2> QED
    BY <2>2, <2>3
<1>7. PreferencesApart'
  BY <1>1, <1>2 DEF PreferencesApart
<1> QED
  BY <1>4, <1>5, <1>6, <1>7

\* The file is replaced.
LEMMA CommitStep ==
    ASSUME SettingsInv, NEW f \in Frontends, Commit(f)
    PROVE  SettingsInv'
<1> USE DEF SettingsInv
<1>1. PICK place \in {Back(f)} \cup
            (IF writing[f] = Owned(Kind[f]) /\ Kind[f] \in Editors THEN {"current"} ELSE {}) :
         Ends(f, place)
  BY DEF Commit
<1>2. /\ place \in {"editing", "closed", "current"}
      /\ place = "current" => Kind[f] # "preferences"
  BY <1>1 DEF Back, Editors
<1>3. pc' = [pc EXCEPT ![f] = place] /\ pc \in [Frontends -> Places] /\ pc[f] = "commit"
  BY <1>1 DEF Ends, Goes, TypeOK, Commit
<1>4. \A g \in Frontends \ {f} : pc'[g] = pc[g] /\ pc[g] \notin {"check", "commit"}
  <2>1. lock = f
    BY <1>3 DEF TypeOK
  <2> QED
    BY <1>3, <2>1 DEF TypeOK
<1>5. file'.revision = file.revision + 1 /\ file' \in Documents
  <2>1. file.revision + 1 \in 0 .. MaxRevision
    BY <1>3, DocumentParts, SettingsAssumption DEF TypeOK, CommitIsCurrent
  <2>2. DocumentToSave(f) \in [Sections -> Values]
    <3>1. base[f].values \in [Sections -> Values] /\ draft[f] \in [Sections -> Values]
      BY DocumentParts DEF TypeOK
    <3> QED
      BY <3>1 DEF DocumentToSave
  <2>3. file' = [revision |-> file.revision + 1, values |-> DocumentToSave(f)]
    BY DEF Commit, NextRevision
  <2> QED
    BY <2>1, <2>2, <2>3, DocumentsBuilt
<1>6. /\ draft' \in [Frontends -> [Sections -> Values]]
      /\ base' = [base EXCEPT ![f] = Nothing] /\ base' \in [Frontends -> Documents]
      /\ writing' = [writing EXCEPT ![f] = {}] /\ writing' \in [Frontends -> SUBSET Sections]
  <2>1. Nothing \in Documents /\ Nothing.values \in [Sections -> Values]
    BY NothingIsADocument, DocumentParts
  <2> QED
    BY <1>1, <2>1 DEF Ends, TypeOK
<1>7. stale' \in [Frontends -> SUBSET Sections]
  <2>1. \A g \in Frontends : Owned(Kind[g]) \in SUBSET Sections
    BY OwnedAreSections, SettingsAssumption
  <2> QED
    BY <2>1 DEF Commit, TypeOK
<1>8. lock' = Free
  BY DEF Commit, LockAfter
<1>9. TypeOK'
  <2>1. \A g \in Frontends : (lock' = g) = (pc'[g] \in {"check", "commit"})
    BY <1>2, <1>3, <1>4, <1>8, SettingsAssumption
  <2>2. pc' \in [Frontends -> Places]
    BY <1>2, <1>3 DEF Places
  <2> QED
    BY <1>5, <1>6, <1>7, <1>8, <2>1, <2>2 DEF TypeOK
<1>10. BaseFollowsFile'
  <2> SUFFICES ASSUME NEW g \in Frontends, pc'[g] \in SavePlaces
               PROVE  /\ base'[g].revision <= file'.revision
                      /\ base'[g].revision # file'.revision
    BY DEF BaseFollowsFile
  <2>1. g # f
    BY <1>2, <1>3 DEF SavePlaces
  <2>2. base'[g] = base[g] /\ pc[g] \in SavePlaces
    BY <1>4, <1>6, <2>1
  <2>3. base[g].revision <= file.revision /\ base[g].revision \in Nat /\ file.revision \in Nat
    BY <2>2, DocumentParts DEF BaseFollowsFile, TypeOK
  <2> QED
    BY <1>5, <2>2, <2>3
<1>11. CommitIsCurrent'
  BY <1>2, <1>3, <1>4 DEF CommitIsCurrent
<1>12. PreferencesApart'
  BY <1>2, <1>3, <1>6 DEF PreferencesApart, TypeOK
<1> QED
  BY <1>9, <1>10, <1>11, <1>12

-----------------------------------------------------------------------------
LEMMA InvariantKept == SettingsInv /\ [Next]_vars => SettingsInv'
<1> SUFFICES ASSUME SettingsInv, [Next]_vars
             PROVE  SettingsInv'
  OBVIOUS
<1> USE DEF SettingsInv
<1>0. CASE UNCHANGED vars
  BY <1>0 DEF vars, local, TypeOK, BaseFollowsFile, CommitIsCurrent, PreferencesApart,
              SavePlaces
<1>1. CASE Next
  <2>1. PICK f \in Frontends :
           \/ Open(f)
           \/ \E section \in Sections, value \in Values : SaveBegins(f, section, value)
           \/ \E grant \in Grants, value \in Values : ConsentBegins(f, grant, value)
           \/ \E value \in Values : SetAtOnce(f, value)
           \/ ReadCurrent(f) \/ Rebase(f) \/ Close(f) \/ Saving(f)
    BY <1>1 DEF Next
  <2>2. /\ file \in Documents /\ file.values \in [Sections -> Values]
        /\ base[f] \in Documents /\ writing[f] \in SUBSET Sections
        /\ base = [base EXCEPT ![f] = base[f]] /\ writing = [writing EXCEPT ![f] = writing[f]]
        /\ Kind[f] \in Kinds /\ Owned(Kind[f]) \in SUBSET Sections
        /\ draft[f] \in [Sections -> Values]
    BY DocumentParts, OwnedAreSections, SettingsAssumption DEF TypeOK
  <2>3. CASE Open(f)
    <3>1. "editing" \in Places \ {"check", "commit"} /\ pc[f] \notin {"check", "commit"}
      BY <2>3 DEF Open, Places
    <3>2. draft' \in [Frontends -> [Sections -> Values]] /\ stale' \in [Frontends -> SUBSET Sections]
      BY <2>2, <2>3 DEF Open, TypeOK
    <3>3. Kind[f] = "preferences" => writing[f] \cap Grants = {}
      BY DEF PreferencesApart
    <3>4. /\ Goes(f, "editing") /\ UNCHANGED <<file, lock>>
          /\ base' = [base EXCEPT ![f] = base[f]]
          /\ writing' = [writing EXCEPT ![f] = writing[f]]
      BY <2>2, <2>3 DEF Open
    <3> QED
      BY <2>2, <3>1, <3>2, <3>3, <3>4, OutsideStep
  <2>4. ASSUME NEW section \in Sections, NEW value \in Values, SaveBegins(f, section, value)
        PROVE  SettingsInv'
    <3>1. "lock" \in Places \ {"check", "commit"} /\ pc[f] \notin {"check", "commit"}
      BY <2>4 DEF SaveBegins, Places
    <3>2. draft' \in [Frontends -> [Sections -> Values]] /\ stale' \in [Frontends -> SUBSET Sections]
      BY <2>2, <2>4 DEF SaveBegins, TypeOK
    <3>3. Kind[f] = "preferences" => Owned(Kind[f]) \cap Grants = {}
      BY OwnedAreSections
    <3>4. /\ Goes(f, "lock") /\ UNCHANGED <<file, lock>>
          /\ base' = [base EXCEPT ![f] = file]
          /\ writing' = [writing EXCEPT ![f] = Owned(Kind[f])]
      BY <2>4 DEF SaveBegins
    <3> QED
      BY <2>2, <3>1, <3>2, <3>3, <3>4, OutsideStep
  <2>5. ASSUME NEW grant \in Grants, NEW value \in Values, ConsentBegins(f, grant, value)
        PROVE  SettingsInv'
    <3>1. "rebase" \in Places \ {"check", "commit"} /\ pc[f] \notin {"check", "commit"}
      BY <2>5 DEF ConsentBegins, Places
    <3>2. draft' \in [Frontends -> [Sections -> Values]] /\ stale' \in [Frontends -> SUBSET Sections]
      BY <2>2, <2>5 DEF ConsentBegins, TypeOK, Sections
    <3>3. Kind[f] # "preferences"
      BY <2>5 DEF ConsentBegins
    <3>4. /\ Goes(f, "rebase") /\ UNCHANGED <<file, lock>>
          /\ base' = [base EXCEPT ![f] = base[f]]
          /\ writing' = [writing EXCEPT ![f] = writing[f]]
      BY <2>2, <2>5 DEF ConsentBegins
    <3> QED
      BY <2>2, <3>1, <3>2, <3>3, <3>4, OutsideStep
  <2>6. ASSUME NEW value \in Values, SetAtOnce(f, value)
        PROVE  SettingsInv'
    <3>1. "lock" \in Places \ {"check", "commit"} /\ pc[f] \notin {"check", "commit"}
      BY <2>6 DEF SetAtOnce, Places
    <3>2. draft' \in [Frontends -> [Sections -> Values]] /\ stale' \in [Frontends -> SUBSET Sections]
      BY <2>2, <2>6 DEF SetAtOnce, TypeOK
    <3>3. Kind[f] # "preferences"
      BY <2>6 DEF SetAtOnce
    <3>4. /\ Goes(f, "lock") /\ UNCHANGED <<file, lock>>
          /\ base' = [base EXCEPT ![f] = file]
          /\ writing' = [writing EXCEPT ![f] = Owned(Kind[f])]
      BY <2>6 DEF SetAtOnce
    <3> QED
      BY <2>2, <3>1, <3>2, <3>3, <3>4, OutsideStep
  <2>7. CASE ReadCurrent(f)
    <3>1. "rebase" \in Places \ {"check", "commit"} /\ pc[f] \notin {"check", "commit"}
      BY <2>7 DEF ReadCurrent, Places
    <3>2. draft' \in [Frontends -> [Sections -> Values]] /\ stale' \in [Frontends -> SUBSET Sections]
      BY <2>2, <2>7 DEF ReadCurrent, TypeOK
    <3>3. Kind[f] # "preferences"
      BY <2>7 DEF ReadCurrent, PreferencesApart
    <3>4. /\ Goes(f, "rebase") /\ UNCHANGED <<file, lock>>
          /\ base' = [base EXCEPT ![f] = base[f]]
          /\ writing' = [writing EXCEPT ![f] = writing[f]]
      BY <2>2, <2>7 DEF ReadCurrent
    <3> QED
      BY <2>2, <3>1, <3>2, <3>3, <3>4, OutsideStep
  <2>8. CASE Rebase(f)
    <3>1. "lock" \in Places \ {"check", "commit"} /\ pc[f] \notin {"check", "commit"}
      BY <2>8 DEF Rebase, Places
    <3>2. draft' \in [Frontends -> [Sections -> Values]] /\ stale' \in [Frontends -> SUBSET Sections]
      BY <2>8 DEF Rebase, TypeOK
    <3>3. Kind[f] # "preferences"
      BY <2>8 DEF Rebase, PreferencesApart
    <3>4. /\ Goes(f, "lock") /\ UNCHANGED <<file, lock>>
          /\ base' = [base EXCEPT ![f] = file]
          /\ writing' = [writing EXCEPT ![f] = McpSections]
      BY <2>8 DEF Rebase
    <3> QED
      BY <2>2, <3>1, <3>2, <3>3, <3>4, OutsideStep, OwnedAreSections
  <2>9. CASE Close(f)
    <3>1. Goes(f, "closed") /\ Ends(f, "closed") /\ file' = file /\ stale' = stale
      BY <2>9 DEF Close, Ends
    <3>2. lock = f <=> pc[f] \in {"check", "commit"}
      BY DEF TypeOK
    <3>3. /\ pc[f] \in {"check", "commit"} => lock' = Free
          /\ pc[f] \notin {"check", "commit"} => lock' = lock /\ lock' # f
      BY <2>9, <3>2 DEF Close
    <3>4. lock' # f /\ "closed" \in Places
      BY <3>3, SettingsAssumption DEF Places
    <3> QED
      BY <3>1, <3>3, <3>4, LockStep
  <2>10. CASE Saving(f)
    <3>0. lock = f <=> pc[f] \in {"check", "commit"}
      BY DEF TypeOK
    <3>b. Back(f) \in {"editing", "closed"} /\ Back(f) \in Places
      BY DEF Back, Places
    <3>1. CASE Lock(f)
      <4>1. /\ Goes(f, "check") /\ file' = file /\ stale' = stale /\ UNCHANGED local
            /\ lock = Free /\ lock' = f /\ pc[f] = "lock"
        BY <3>1 DEF Lock, LockAvailable
      <4> QED
        BY <4>1, LockStep DEF SavePlaces, Places
    <3>2. CASE LockTaken(f)
      <4>1. /\ Goes(f, Back(f)) /\ Ends(f, Back(f)) /\ file' = file /\ stale' = stale
            /\ lock' = lock /\ pc[f] = "lock"
        BY <3>2 DEF LockTaken, Ends
      <4> QED
        BY <3>0, <3>b, <4>1, LockStep
    <3>3. CASE Check(f)
      <4>1. /\ Goes(f, "commit") /\ file' = file /\ stale' = stale /\ UNCHANGED local
            /\ lock' = lock /\ pc[f] = "check" /\ RevisionMatches(f) /\ NextRevision <= MaxRevision
        BY <3>3 DEF Check
      <4> QED
        BY <3>0, <4>1, LockStep DEF SavePlaces, Places
    <3>4. CASE CheckFails(f) \/ WriteFails(f)
      <4>1. /\ Goes(f, Back(f)) /\ Ends(f, Back(f)) /\ file' = file /\ stale' = stale
            /\ lock' = Free /\ pc[f] \in {"check", "commit"}
        BY <3>4 DEF CheckFails, WriteFails, Ends, LockAfter
      <4> QED
        BY <3>0, <3>b, <4>1, LockStep, SettingsAssumption
    <3>5. CASE Commit(f)
      BY <3>5, CommitStep
    <3> QED
      BY <2>10, <3>1, <3>2, <3>3, <3>4, <3>5 DEF Saving
  <2> QED
    BY <2>1, <2>3, <2>4, <2>5, <2>6, <2>7, <2>8, <2>9, <2>10
<1> QED
  BY <1>0, <1>1

LEMMA InvariantHolds == Spec => []SettingsInv
<1> QED
  BY InitEstablishes, InvariantKept, PTL DEF Spec

-----------------------------------------------------------------------------
(* Theorems *)

\* Types, and the lock belongs to exactly the save between acquiring it and
\* replacing the file: two saves are never there together.
THEOREM SettingsTypeCorrect == Spec => []TypeOK
<1>1. SettingsInv => TypeOK
  BY DEF SettingsInv
<1> QED
  BY <1>1, InvariantHolds, PTL

\* In a step in which a frontend that was about to replace the file does so,
\* what is not among the sections it writes stays: the base it writes on is
\* the file.
LEMMA CommitKeepsOthers ==
    ASSUME SettingsInv, [Next]_vars, NEW f \in Frontends, Commits(f),
           NEW s \in Sections \ writing[f]
    PROVE  file'.values[s] = file.values[s]
<1> USE DEF SettingsInv
<1>1. pc[f] = "commit" /\ file' # file
  BY DEF Commits
<1>2. PICK g \in Frontends : Commit(g)
  <2>1. Next
    BY <1>1 DEF vars
  <2> QED
    BY <1>1, <2>1 DEF Next, Open, SaveBegins, ConsentBegins, SetAtOnce, ReadCurrent, Rebase, Close,
                      Saving, Lock, LockTaken, Check, CheckFails, WriteFails
<1>3. g = f
  <2>1. lock = f /\ lock = g
    BY <1>1, <1>2 DEF TypeOK, Commit
  <2> QED
    BY <2>1
<1>4. base[f] = file
  BY <1>1 DEF CommitIsCurrent, BaseFollowsFile, SavePlaces
<1>5. file'.values = DocumentToSave(f)
  BY <1>2, <1>3 DEF Commit
<1> QED
  BY <1>4, <1>5 DEF DocumentToSave

\* A save never undoes what another frontend saved in a section it does not
\* write (SettingsStore::save compares revisions under the lock).
THEOREM ForeignSections == Spec => ForeignSectionsKept
<1>1. SettingsInv /\ [Next]_vars =>
        [\A f \in Frontends : Commits(f) =>
            \A s \in Sections \ writing[f] : file'.values[s] = file.values[s]]_vars
  BY CommitKeepsOthers
<1> QED
  BY <1>1, InvariantHolds, PTL DEF Spec, ForeignSectionsKept

\* Saving preferences leaves every grant as it is ("Shared Desktop preferences
\* never enable these grants").
THEOREM PreferencesLeaveGrants == Spec => PreferencesNeverGrant
<1>1. SettingsInv /\ [Next]_vars =>
        [\A f \in Frontends : Commits(f) /\ Kind[f] = "preferences" =>
            \A g \in Grants : file'.values[g] = file.values[g]]_vars
  <2> SUFFICES ASSUME SettingsInv, [Next]_vars, NEW f \in Frontends, Commits(f),
                      Kind[f] = "preferences", NEW g \in Grants
               PROVE  file'.values[g] = file.values[g]
    OBVIOUS
  <2>1. g \in Sections \ writing[f]
    BY DEF SettingsInv, PreferencesApart, Sections
  <2> QED
    BY <2>1, CommitKeepsOthers
<1> QED
  BY <1>1, InvariantHolds, PTL DEF Spec, PreferencesNeverGrant

\* A save takes the next revision, and a revision that was read names one
\* document: checked_add never comes back to an earlier one.
THEOREM Revisions == Spec => RevisionsNameDocuments
<1>1. SettingsInv /\ [Next]_vars =>
        [/\ file' # file => file'.revision = file.revision + 1
         /\ \A f \in Frontends :
              pc[f] \in {"lock", "check", "commit"} /\ base[f].revision = file.revision
              => base[f] = file]_vars
  <2> SUFFICES ASSUME SettingsInv, [Next]_vars
               PROVE  /\ file' # file => file'.revision = file.revision + 1
                      /\ \A f \in Frontends :
                           pc[f] \in {"lock", "check", "commit"} /\ base[f].revision = file.revision
                           => base[f] = file
    OBVIOUS
  <2>1. ASSUME file' # file PROVE file'.revision = file.revision + 1
    <3>1. Next
      BY <2>1 DEF vars
    <3>2. PICK g \in Frontends : Commit(g)
      BY <2>1, <3>1 DEF Next, Open, SaveBegins, ConsentBegins, SetAtOnce, ReadCurrent, Rebase, Close,
                        Saving, Lock, LockTaken, Check, CheckFails, WriteFails
    <3> QED
      BY <3>2 DEF Commit, NextRevision
  <2>2. \A f \in Frontends :
           pc[f] \in {"lock", "check", "commit"} /\ base[f].revision = file.revision
           => base[f] = file
    BY DEF SettingsInv, BaseFollowsFile, SavePlaces
  <2> QED
    BY <2>1, <2>2
<1> QED
  BY <1>1, InvariantHolds, PTL DEF Spec, RevisionsNameDocuments
=============================================================================

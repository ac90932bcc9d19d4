---------------------- MODULE LocalInstallation_proofs ----------------------
(* Whatever terminals, desktops, assistants and the person do at the same   *)
(* time, the installation ends as it is reported and destroys nothing of    *)
(* others.                                                                  *)
EXTENDS LocalInstallation, SequenceTheorems, TLAPS

Items == [client : Clients, do : {"register", "unregister"},
          step : {"look", "read", "recheck", "commit"}]

Stages == {"inspect", "server", "clients", "validate", "snapshot", "install", "restore", "succeeded"}

Operations ==
    [stage : Stages, kind : Kinds, named : SUBSET Clients, skills : BOOLEAN, plan : Seq(Stages),
     seen : [Clients -> States], todo : SUBSET Items, now : Items \cup {NoItem},
     original : Configurations, snapshot : [Targets -> Directories], at : Nat, exact : BOOLEAN,
     stale : SUBSET Clients, late : SUBSET Clients, touched : SUBSET Targets]

(* What holds of an operation T when the executable is there (v) or not, the *)
(* configurations are cl and the skill directories sk.                       *)

\* The rest of the plan in each stage.
PlanOf(kind, skills, stage) ==
    CASE stage = "succeeded" -> <<>>
      [] stage \in {"validate", "snapshot", "install", "restore"} -> <<"validate">>
      [] stage = "clients" -> IF kind = "headless" /\ skills THEN <<"clients", "validate">>
                              ELSE <<"clients">>
      [] stage = "server"  -> IF kind \in {"manage", "configure"} THEN <<"server", "inspect", "clients">>
                              ELSE IF kind = "headless" /\ skills THEN <<"server", "clients", "validate">>
                              ELSE <<"server", "clients">>
      [] stage = "inspect" -> IF kind = "headless" /\ skills
                              THEN <<"inspect", "server", "clients", "validate">>
                              ELSE IF kind \in {"headless", "desktop"}
                              THEN <<"inspect", "server", "clients">>
                              ELSE IF kind = "skills" THEN <<"inspect", "validate">>
                              ELSE <<"inspect", "clients">>

\* The stages of each command, and where there is work on clients.
Shape(T) ==
    /\ T.plan = PlanOf(T.kind, T.skills, T.stage)
    /\ T.kind # "headless" => T.skills = (T.kind = "skills")
    /\ T.stage = "server" => T.kind \notin {"skills", "uninstall"}
    /\ T.stage = "clients" => T.kind # "skills"
    /\ T.stage \in {"validate", "snapshot", "install", "restore"} => T.skills
    /\ T.stage \notin {"server", "clients"} => T.todo = {}
    /\ T.stage = "server" /\ T.kind \in {"manage", "configure"} => T.todo = {}
    /\ T.stage # "clients" => T.now = NoItem
    /\ \A item \in T.todo : item.step = "look" /\ item.do \in Doable(T.kind, T.seen[item.client])
    /\ T.now # NoItem => T.now.do \in Doable(T.kind, T.seen[T.now.client])

Ours == {"current", "outdated"}

Looked(T) == T.stage = "clients" \/ (T.stage = "server" /\ T.kind \in {"headless", "desktop"})

\* This is still to be done with client c.
Awaits(T, c, do) ==
    \/ \E item \in T.todo : item.client = c /\ item.do = do
    \/ T.now.client = c /\ T.now.do = do

\* The registration under way: what it read is what is there, and Worklogger's if it
\* goes, unless somebody wrote in the last moment.
ItemInv(T, cl) ==
    /\ T.now.step \in {"recheck", "commit"} /\ T.now.do = "unregister" => T.original.entry \in Ours
    /\ T.now.step = "commit" /\ T.now.client \notin T.late => cl[T.now.client] = T.original
    /\ T.now.step = "read" /\ T.now.do = "unregister" /\ T.now.client \notin T.late =>
         cl[T.now.client].entry \in Ours

RegistrationsInv(T, v, cl) ==
    /\ ItemInv(T, cl)
    /\ Looked(T) => \A c \in Clients \ T.stale :
                      cl[c].entry = "other" => T.seen[c] \in {"conflict", "invalid"}
    /\ T.kind = "headless" /\ T.stage # "inspect" =>
         \A c \in T.named \ T.stale : cl[c].entry = "current" \/ Awaits(T, c, "register")
    /\ T.kind = "headless" /\ T.stage \notin {"inspect", "server"} => v \/ T.stale = Clients
    /\ T.kind = "uninstall" /\ T.stage # "inspect" =>
         \A c \in Clients \ T.stale : cl[c].entry \notin Ours \/ Awaits(T, c, "unregister")

SkillsInv(T, sk) ==
    /\ T.stage = "snapshot" => \A t \in Targets \ T.touched : sk[t] = Absent \/ sk[t].marker
    /\ T.stage \in {"install", "restore"} => \A t \in Targets \ T.touched :
         T.snapshot[t] # Absent => T.snapshot[t].marker /\ sk[t].marker
    /\ T.stage = "restore" => /\ T.at <= Skills
                              /\ T.exact => \A t \in Targets \ T.touched :
                                              t > T.at => sk[t] = T.snapshot[t]
    /\ T.stage = "install" => \A t \in Targets \ T.touched :
         /\ T.at >= 3 * t - 1 => sk[t].file = "bundled"
         /\ T.at >= 3 * t => sk[t].marker
    /\ T.stage = "succeeded" /\ T.skills => \A t \in Targets \ T.touched :
         sk[t].file = "bundled" /\ sk[t].marker

OperationInv(T, v, cl, sk) ==
    T \in Operations /\ Shape(T) /\ RegistrationsInv(T, v, cl) /\ SkillsInv(T, sk)

StateTyped ==
    /\ server \in BOOLEAN
    /\ client \in [Clients -> Configurations]
    /\ skill \in [Targets -> Directories]
    /\ edits \in 0 .. MaxEdits
    /\ work \in [Processes -> Operations \cup {Idle}]

InstallationInv ==
    /\ StateTyped
    /\ \A p \in Processes : work[p] # Idle => OperationInv(work[p], server, client, skill)

-----------------------------------------------------------------------------
LEMMA AssumedConstants ==
    /\ "none" \notin Clients /\ Skills \in Nat /\ MaxEdits \in Nat
    /\ \A c \in Files : c \notin Commands
BY InstallationAssumption DEF InstallationAssumption, Clients

LEMMA Tails ==
    /\ \A a : Tail(<<a>>) = <<>>
    /\ \A a, b : Tail(<<a, b>>) = <<b>> /\ <<b>> # <<>> /\ Head(<<b>>) = b
    /\ \A a, b, c : Tail(<<a, b, c>>) = <<b, c>> /\ <<b, c>> # <<>> /\ Head(<<b, c>>) = b
    /\ \A a, b, c, d : /\ Tail(<<a, b, c, d>>) = <<b, c, d>> /\ <<b, c, d>> # <<>>
                       /\ Head(<<b, c, d>>) = b
<1>1. ASSUME NEW a PROVE Tail(<<a>>) = <<>>
  OBVIOUS
<1>2. ASSUME NEW a, NEW b PROVE Tail(<<a, b>>) = <<b>> /\ <<b>> # <<>> /\ Head(<<b>>) = b
  <2>1. Tail(<<a, b>>) = <<b>>
    OBVIOUS
  <2>. QED
    BY <2>1
<1>3. ASSUME NEW a, NEW b, NEW c
      PROVE  Tail(<<a, b, c>>) = <<b, c>> /\ <<b, c>> # <<>> /\ Head(<<b, c>>) = b
  <2>1. Tail(<<a, b, c>>) = <<b, c>>
    OBVIOUS
  <2>. QED
    BY <2>1
<1>4. ASSUME NEW a, NEW b, NEW c, NEW d
      PROVE  Tail(<<a, b, c, d>>) = <<b, c, d>> /\ <<b, c, d>> # <<>> /\ Head(<<b, c, d>>) = b
  <2>1. Tail(<<a, b, c, d>>) = <<b, c, d>>
    OBVIOUS
  <2>. QED
    BY <2>1
<1>. QED
  BY <1>1, <1>2, <1>3, <1>4

LEMMA OperationsAre ==
    ASSUME NEW T \in Operations
    PROVE  /\ T # Idle
           /\ T.stage \in Stages /\ T.kind \in Kinds /\ T.named \subseteq Clients
           /\ T.skills \in BOOLEAN /\ T.plan \in Seq(Stages) /\ T.seen \in [Clients -> States]
           /\ T.todo \subseteq Items /\ T.now \in Items \cup {NoItem}
           /\ T.original \in Configurations /\ T.snapshot \in [Targets -> Directories]
           /\ T.at \in Nat /\ T.exact \in BOOLEAN /\ T.stale \subseteq Clients
           /\ T.late \subseteq Clients /\ T.touched \subseteq Targets
BY DEF Operations, Idle, Stages

LEMMA NothingSeen ==
    /\ NotSeen \in [Clients -> States] /\ NoSnapshot \in [Targets -> Directories]
    /\ NoOriginal \in Configurations
BY DEF NotSeen, NoSnapshot, NoOriginal, States, Directories, Configurations, Entries

NextStage(kind, skills, stage) ==
    CASE stage = "inspect" -> IF kind \in {"headless", "desktop"} THEN "server"
                              ELSE IF kind = "skills" THEN "validate" ELSE "clients"
      [] stage = "server"  -> IF kind \in {"manage", "configure"} THEN "inspect" ELSE "clients"
      [] stage = "clients" -> IF kind = "headless" /\ skills THEN "validate" ELSE "succeeded"
      [] OTHER             -> "succeeded"

\* The plan goes on with the rest, which begins with the stage next.
Continues(plan, rest, next) ==
    /\ rest = Tail(plan)
    /\ next = IF rest = <<>> THEN "succeeded" ELSE Head(rest)
    /\ next \in Stages

LEMMA PlanContinues ==
    ASSUME NEW kind \in Kinds, NEW skills \in BOOLEAN,
           NEW stage \in {"inspect", "server", "clients", "install"},
           stage = "server" => kind \notin {"skills", "uninstall"},
           stage = "clients" => kind # "skills"
    PROVE  Continues(PlanOf(kind, skills, stage), PlanOf(kind, skills, NextStage(kind, skills, stage)),
                     NextStage(kind, skills, stage))
<1>. DEFINE next == NextStage(kind, skills, stage)
            plan == PlanOf(kind, skills, stage)
            rest == PlanOf(kind, skills, next)
<1>1. CASE stage = "inspect"
  <2>1. CASE kind = "headless" /\ skills
    <3>1. next = "server" /\ plan = <<"inspect", "server", "clients", "validate">>
          /\ rest = <<"server", "clients", "validate">>
      BY <1>1, <2>1 DEF PlanOf, NextStage
    <3>. QED
      BY <3>1, Tails DEF Continues, Stages
  <2>2. CASE (kind = "headless" /\ ~skills) \/ kind = "desktop"
    <3>1. next = "server" /\ plan = <<"inspect", "server", "clients">> /\ rest = <<"server", "clients">>
      BY <1>1, <2>2 DEF PlanOf, NextStage
    <3>. QED
      BY <3>1, Tails DEF Continues, Stages
  <2>3. CASE kind = "skills"
    <3>1. next = "validate" /\ plan = <<"inspect", "validate">> /\ rest = <<"validate">>
      BY <1>1, <2>3 DEF PlanOf, NextStage
    <3>. QED
      BY <3>1, Tails DEF Continues, Stages
  <2>4. CASE kind \notin {"headless", "desktop", "skills"}
    <3>1. next = "clients" /\ plan = <<"inspect", "clients">> /\ rest = <<"clients">>
      BY <1>1, <2>4 DEF PlanOf, NextStage
    <3>. QED
      BY <3>1, Tails DEF Continues, Stages
  <2>. QED
    BY <2>1, <2>2, <2>3, <2>4
<1>2. CASE stage = "server"
  <2>1. CASE kind \in {"manage", "configure"}
    <3>1. next = "inspect" /\ plan = <<"server", "inspect", "clients">> /\ rest = <<"inspect", "clients">>
      BY <1>2, <2>1 DEF PlanOf, NextStage
    <3>. QED
      BY <3>1, Tails DEF Continues, Stages
  <2>2. CASE kind = "headless" /\ skills
    <3>1. next = "clients" /\ plan = <<"server", "clients", "validate">> /\ rest = <<"clients", "validate">>
      BY <1>2, <2>2 DEF PlanOf, NextStage
    <3>. QED
      BY <3>1, Tails DEF Continues, Stages
  <2>3. CASE kind \notin {"manage", "configure"} /\ ~(kind = "headless" /\ skills)
    <3>1. next = "clients" /\ plan = <<"server", "clients">> /\ rest = <<"clients">>
      BY <1>2, <2>3 DEF PlanOf, NextStage
    <3>. QED
      BY <3>1, Tails DEF Continues, Stages
  <2>. QED
    BY <2>1, <2>2, <2>3
<1>3. CASE stage = "clients"
  <2>1. CASE kind = "headless" /\ skills
    <3>1. next = "validate" /\ plan = <<"clients", "validate">> /\ rest = <<"validate">>
      BY <1>3, <2>1 DEF PlanOf, NextStage
    <3>. QED
      BY <3>1, Tails DEF Continues, Stages
  <2>2. CASE ~(kind = "headless" /\ skills)
    <3>1. next = "succeeded" /\ plan = <<"clients">> /\ rest = <<>>
      BY <1>3, <2>2 DEF PlanOf, NextStage
    <3>. QED
      BY <3>1, Tails DEF Continues, Stages
  <2>. QED
    BY <2>1, <2>2
<1>4. CASE stage = "install"
  <2>1. next = "succeeded" /\ plan = <<"validate">> /\ rest = <<>>
    BY <1>4 DEF PlanOf, NextStage
  <2>. QED
    BY <2>1, Tails DEF Continues, Stages
<1>. QED
  BY <1>1, <1>2, <1>3, <1>4

LEMMA PlansAre ==
    ASSUME NEW kind \in Kinds, NEW skills \in BOOLEAN, NEW stage \in Stages
    PROVE  PlanOf(kind, skills, stage) \in Seq(Stages)
<1>1. CASE stage = "succeeded"
  BY <1>1 DEF PlanOf
<1>2. CASE stage \in {"validate", "snapshot", "install", "restore"}
  BY <1>2 DEF PlanOf, Stages
<1>3. CASE stage = "clients"
  <2>1. PlanOf(kind, skills, stage) \in {<<"clients", "validate">>, <<"clients">>}
    BY <1>3 DEF PlanOf
  <2>2. <<"clients", "validate">> \in Seq(Stages) /\ <<"clients">> \in Seq(Stages)
    BY DEF Stages
  <2>. QED
    BY <2>1, <2>2
<1>4. CASE stage = "server"
  <2>1. PlanOf(kind, skills, stage) \in {<<"server", "inspect", "clients">>,
                                         <<"server", "clients", "validate">>, <<"server", "clients">>}
    BY <1>4 DEF PlanOf
  <2>2. /\ <<"server", "inspect", "clients">> \in Seq(Stages)
        /\ <<"server", "clients", "validate">> \in Seq(Stages) /\ <<"server", "clients">> \in Seq(Stages)
    BY DEF Stages
  <2>. QED
    BY <2>1, <2>2
<1>5. CASE stage = "inspect"
  <2>1. PlanOf(kind, skills, stage) \in {<<"inspect", "server", "clients", "validate">>,
          <<"inspect", "server", "clients">>, <<"inspect", "validate">>, <<"inspect", "clients">>}
    BY <1>5 DEF PlanOf
  <2>2. /\ <<"inspect", "server", "clients", "validate">> \in Seq(Stages)
        /\ <<"inspect", "server", "clients">> \in Seq(Stages)
        /\ <<"inspect", "validate">> \in Seq(Stages) /\ <<"inspect", "clients">> \in Seq(Stages)
    BY DEF Stages
  <2>. QED
    BY <2>1, <2>2
<1>. QED
  BY <1>1, <1>2, <1>3, <1>4, <1>5 DEF Stages

\* U is T in the next stage of its plan.
GoesOn(T, U) ==
    /\ U \in Operations
    /\ U.stage = NextStage(T.kind, T.skills, T.stage) /\ U.plan = PlanOf(T.kind, T.skills, U.stage)
    /\ U.kind = T.kind /\ U.named = T.named /\ U.skills = T.skills /\ U.todo = T.todo
    /\ U.now = T.now /\ U.original = T.original /\ U.at = T.at /\ U.exact = T.exact
    /\ U.stale = T.stale /\ U.late = T.late /\ U.touched = T.touched

LEMMA OnwardIs ==
    ASSUME NEW T \in Operations, Shape(T),
           T.stage \in {"inspect", "server", "clients", "install"}
    PROVE  GoesOn(T, Onward(T)) /\ Onward(T).seen = NotSeen
<1>. DEFINE rest == Tail(T.plan)
            stage == NextStage(T.kind, T.skills, T.stage)
<1>1. T.kind \in Kinds /\ T.skills \in BOOLEAN
  BY OperationsAre
<1>2. /\ rest = PlanOf(T.kind, T.skills, stage)
      /\ stage = IF rest = <<>> THEN "succeeded" ELSE Head(rest)
      /\ stage \in Stages
  <2>1. Continues(PlanOf(T.kind, T.skills, T.stage), PlanOf(T.kind, T.skills, stage), stage)
    BY <1>1, PlanContinues DEF Shape
  <2>2. T.plan = PlanOf(T.kind, T.skills, T.stage)
    BY DEF Shape
  <2>. HIDE DEF stage
  <2>. QED
    BY <2>1, <2>2 DEF Continues
<1>3. rest \in Seq(Stages)
  BY <1>1, <1>2, PlansAre
<1>4. Onward(T) = [T EXCEPT !.plan = rest, !.stage = stage, !.seen = NotSeen, !.snapshot = NoSnapshot]
  BY <1>2 DEF Onward
<1>. HIDE DEF rest, stage
<1>5. /\ Onward(T) \in Operations /\ Onward(T).stage = stage /\ Onward(T).plan = rest
  BY <1>2, <1>3, <1>4, NothingSeen DEF Operations
<1>. QED
  BY <1>2, <1>4, <1>5 DEF Operations, stage, GoesOn

-----------------------------------------------------------------------------
(* What others do to an operation.                                          *)

\* Somebody else writes the configuration of client c.
Disturbed(T, c) == [T EXCEPT !.stale = @ \cup {c}, !.late = @ \cup {c}]

LEMMA OthersWriteClients ==
    ASSUME NEW T, NEW v, NEW cl, NEW cm, NEW sk, NEW c \in Clients, OperationInv(T, v, cl, sk),
           \A b \in Clients : b # c => cm[b] = cl[b]
    PROVE  OperationInv(Disturbed(T, c), v, cm, sk)
<1>. DEFINE U == Disturbed(T, c)
<1>1. /\ U \in Operations /\ U.stale = T.stale \cup {c} /\ U.late = T.late \cup {c}
      /\ U.stage = T.stage /\ U.kind = T.kind /\ U.named = T.named /\ U.skills = T.skills
      /\ U.plan = T.plan /\ U.seen = T.seen /\ U.todo = T.todo /\ U.now = T.now
      /\ U.original = T.original /\ U.snapshot = T.snapshot /\ U.at = T.at /\ U.exact = T.exact
      /\ U.touched = T.touched
  BY DEF OperationInv, Operations, Disturbed
<1>2. T.now \in Items \cup {NoItem} /\ T.named \subseteq Clients /\ T.stale \subseteq Clients
  BY OperationsAre DEF OperationInv
<1>. HIDE DEF U
<1>3. Shape(U)
  BY <1>1 DEF OperationInv, Shape
<1>4. ItemInv(U, cm)
  <2>1. T.now.step \in {"read", "commit"} => T.now.client \in Clients
    BY <1>2 DEF Items, NoItem
  <2>. QED
    BY <1>1, <2>1 DEF OperationInv, RegistrationsInv, ItemInv
<1>5. \A b, do : Awaits(U, b, do) <=> Awaits(T, b, do)
  BY <1>1 DEF Awaits
<1>6. RegistrationsInv(U, v, cm)
  BY <1>1, <1>2, <1>4, <1>5 DEF OperationInv, RegistrationsInv, Looked
<1>7. SkillsInv(U, sk)
  BY <1>1 DEF OperationInv, SkillsInv
<1>. QED
  BY <1>1, <1>3, <1>6, <1>7 DEF OperationInv, U

LEMMA OthersWriteSkills ==
    ASSUME NEW T, NEW v, NEW cl, NEW sk, NEW sm, NEW t \in Targets, OperationInv(T, v, cl, sk),
           \A b \in Targets : b # t => sm[b] = sk[b]
    PROVE  OperationInv([T EXCEPT !.touched = @ \cup {t}], v, cl, sm)
<1>. DEFINE U == [T EXCEPT !.touched = @ \cup {t}]
<1>1. /\ U \in Operations /\ U.touched = T.touched \cup {t}
      /\ U.stage = T.stage /\ U.kind = T.kind /\ U.named = T.named /\ U.skills = T.skills
      /\ U.plan = T.plan /\ U.seen = T.seen /\ U.todo = T.todo /\ U.now = T.now
      /\ U.original = T.original /\ U.snapshot = T.snapshot /\ U.at = T.at /\ U.exact = T.exact
      /\ U.stale = T.stale /\ U.late = T.late
  BY DEF OperationInv, Operations
<1>. HIDE DEF U
<1>2. Shape(U)
  BY <1>1 DEF OperationInv, Shape
<1>3. \A b, do : Awaits(U, b, do) <=> Awaits(T, b, do)
  BY <1>1 DEF Awaits
<1>4. RegistrationsInv(U, v, cl)
  BY <1>1, <1>3 DEF OperationInv, RegistrationsInv, ItemInv, Looked
<1>5. SkillsInv(U, sm)
  BY <1>1 DEF OperationInv, SkillsInv
<1>. QED
  BY <1>1, <1>2, <1>4, <1>5 DEF OperationInv, U

LEMMA OthersRemoveServer ==
    ASSUME NEW T, NEW v, NEW cl, NEW sk, OperationInv(T, v, cl, sk)
    PROVE  OperationInv([T EXCEPT !.stale = Clients], FALSE, cl, sk)
<1>. DEFINE U == [T EXCEPT !.stale = Clients]
<1>1. /\ U \in Operations /\ U.stale = Clients
      /\ U.stage = T.stage /\ U.kind = T.kind /\ U.named = T.named /\ U.skills = T.skills
      /\ U.plan = T.plan /\ U.seen = T.seen /\ U.todo = T.todo /\ U.now = T.now
      /\ U.original = T.original /\ U.snapshot = T.snapshot /\ U.at = T.at /\ U.exact = T.exact
      /\ U.touched = T.touched /\ U.late = T.late
  BY DEF OperationInv, Operations
<1>. HIDE DEF U
<1>2. Shape(U)
  BY <1>1 DEF OperationInv, Shape
<1>3. T.named \subseteq Clients
  BY OperationsAre DEF OperationInv
<1>4. RegistrationsInv(U, FALSE, cl)
  BY <1>1, <1>3 DEF OperationInv, RegistrationsInv, ItemInv, Looked
<1>5. SkillsInv(U, sk)
  BY <1>1 DEF OperationInv, SkillsInv
<1>. QED
  BY <1>1, <1>2, <1>4, <1>5 DEF OperationInv, U

LEMMA ServerInstalled ==
    ASSUME NEW T, NEW v, NEW cl, NEW sk, OperationInv(T, v, cl, sk)
    PROVE  OperationInv(T, TRUE, cl, sk)
BY DEF OperationInv, RegistrationsInv

-----------------------------------------------------------------------------
(* The steps of an operation, one lemma each.                               *)

LEMMA Appended ==
    ASSUME NEW a, NEW b, NEW c, NEW d
    PROVE  <<a, b, c>> \o <<>> = <<a, b, c>> /\ <<a, b, c>> \o <<d>> = <<a, b, c, d>>
<1>. DEFINE S == {a, b, c, d}
<1>1. <<a, b, c>> \in Seq(S) /\ <<d>> \in Seq(S) /\ <<a, b, c, d>> \in Seq(S)
  OBVIOUS
<1>2. <<a, b, c>> \o <<>> = <<a, b, c>>
  BY <1>1, ConcatEmptySeq
<1>3. /\ <<a, b, c>> \o <<d>> \in Seq(S) /\ Len(<<a, b, c>> \o <<d>>) = 4
      /\ \A i \in 1 .. 4 : (<<a, b, c>> \o <<d>>)[i] = IF i <= 3 THEN <<a, b, c>>[i] ELSE <<d>>[i - 3]
  BY <1>1, ConcatProperties
<1>4. \A i \in 1 .. 4 : (<<a, b, c>> \o <<d>>)[i] = <<a, b, c, d>>[i]
  BY <1>3
<1>. HIDE DEF S
<1>. QED
  BY <1>1, <1>2, <1>3, <1>4, SeqEqual

\* What Begin starts.
Begun(kind, named, skills) ==
    [stage |-> Head(Plan(kind, skills)), kind |-> kind, named |-> named,
     skills |-> skills, plan |-> Plan(kind, skills),
     seen |-> NotSeen, todo |-> {}, now |-> NoItem, original |-> NoOriginal,
     snapshot |-> NoSnapshot, at |-> 0, exact |-> TRUE,
     stale |-> {}, late |-> {}, touched |-> {}]

LEMMA Begins ==
    ASSUME NEW kind \in Kinds, NEW named \in SUBSET Clients, NEW skills \in BOOLEAN,
           kind # "headless" => skills = (kind = "skills"), NEW v, NEW cl, NEW sk
    PROVE  OperationInv(Begun(kind, named, skills), v, cl, sk)
<1>. DEFINE first == IF kind \in {"manage", "configure"} THEN "server" ELSE "inspect"
            T == Begun(kind, named, skills)
<1>1. Plan(kind, skills) = PlanOf(kind, skills, first) /\ Head(Plan(kind, skills)) = first
  <2>1. CASE kind = "headless"
    <3>1. CASE skills
      <4>1. Plan(kind, skills) = <<"inspect", "server", "clients", "validate">>
        BY <2>1, <3>1, Appended DEF Plan
      <4>2. PlanOf(kind, skills, first) = <<"inspect", "server", "clients", "validate">>
        BY <2>1, <3>1 DEF PlanOf
      <4>. QED
        BY <2>1, <4>1, <4>2
    <3>2. CASE ~skills
      <4>1. Plan(kind, skills) = <<"inspect", "server", "clients">>
        BY <2>1, <3>2, Appended DEF Plan
      <4>. QED
        BY <2>1, <3>2, <4>1 DEF PlanOf
    <3>. QED
      BY <3>1, <3>2
  <2>2. CASE kind # "headless"
    BY <2>2 DEF Plan, PlanOf, Kinds
  <2>. QED
    BY <2>1, <2>2
<1>2. first \in Stages /\ PlanOf(kind, skills, first) \in Seq(Stages)
  BY PlansAre DEF Stages
<1>3. /\ T \in Operations /\ T.stage = first /\ T.plan = PlanOf(kind, skills, first)
      /\ T.kind = kind /\ T.skills = skills /\ T.todo = {} /\ T.now = NoItem
  BY <1>1, <1>2, NothingSeen DEF Begun, Operations
<1>. HIDE DEF T
<1>4. Shape(T)
  BY <1>3 DEF Shape
<1>5. RegistrationsInv(T, v, cl)
  BY <1>3 DEF RegistrationsInv, ItemInv, NoItem, Looked
<1>6. SkillsInv(T, sk)
  BY <1>3 DEF SkillsInv
<1>. QED
  BY <1>3, <1>4, <1>5, <1>6 DEF OperationInv, T

LEMMA InstallsServer ==
    ASSUME NEW T, NEW v, NEW cl, NEW sk, OperationInv(T, v, cl, sk), T.stage = "server"
    PROVE  OperationInv([Onward(T) EXCEPT !.seen = T.seen], TRUE, cl, sk)
<1>. DEFINE V == Onward(T)
            U == [V EXCEPT !.seen = T.seen]
<1>1. GoesOn(T, V) /\ T.seen \in [Clients -> States] /\ T.kind \in Kinds
  BY OnwardIs, OperationsAre DEF OperationInv
<1>. HIDE DEF V
<1>2. GoesOn(T, U) /\ U.seen = T.seen
  BY <1>1 DEF GoesOn, Operations
<1>. HIDE DEF U
<1>3. U.stage = IF T.kind \in {"manage", "configure"} THEN "inspect" ELSE "clients"
  BY <1>2 DEF GoesOn, NextStage
<1>4. Shape(U)
  BY <1>2, <1>3 DEF OperationInv, Shape, GoesOn
<1>5. \A b, do : Awaits(U, b, do) <=> Awaits(T, b, do)
  BY <1>2 DEF Awaits, GoesOn
<1>6. RegistrationsInv(U, TRUE, cl)
  <2>1. U.now = NoItem /\ U.seen = T.seen /\ U.stale = T.stale /\ U.named = T.named /\ U.kind = T.kind
    BY <1>2 DEF OperationInv, Shape, GoesOn
  <2>2. ItemInv(U, cl)
    BY <2>1 DEF ItemInv, NoItem
  <2>3. Looked(U) => Looked(T)
    BY <1>3, <1>1, <2>1 DEF Looked, Kinds, OperationInv, Shape
  <2>. QED
    BY <1>5, <2>1, <2>2, <2>3, <1>3 DEF OperationInv, RegistrationsInv, Shape
<1>7. SkillsInv(U, sk)
  BY <1>3 DEF SkillsInv
<1>. QED
  BY <1>2, <1>4, <1>6, <1>7 DEF OperationInv, GoesOn, U, V

LEMMA EndsClients ==
    ASSUME NEW T, NEW v, NEW cl, NEW sk, OperationInv(T, v, cl, sk),
           T.stage = "clients", T.now = NoItem, T.todo = {}
    PROVE  OperationInv(Onward(T), v, cl, sk)
<1>. DEFINE U == Onward(T)
<1>1. GoesOn(T, U)
  BY OnwardIs DEF OperationInv
<1>. HIDE DEF U
<1>2. U.stage = IF T.kind = "headless" /\ T.skills THEN "validate" ELSE "succeeded"
  BY <1>1 DEF GoesOn, NextStage
<1>3. Shape(U)
  BY <1>1, <1>2 DEF OperationInv, Shape, GoesOn
<1>4. \A b, do : Awaits(U, b, do) <=> Awaits(T, b, do)
  BY <1>1 DEF Awaits, GoesOn
<1>5. RegistrationsInv(U, v, cl)
  BY <1>1, <1>2, <1>4 DEF OperationInv, RegistrationsInv, ItemInv, Looked, GoesOn, NoItem
<1>6. SkillsInv(U, sk)
  BY <1>1, <1>2 DEF SkillsInv, OperationInv, Shape, GoesOn
<1>. QED
  BY <1>1, <1>3, <1>5, <1>6 DEF OperationInv, GoesOn, U

LEMMA Takes ==
    ASSUME NEW T, NEW v, NEW cl, NEW sk, OperationInv(T, v, cl, sk),
           T.stage = "clients", T.now = NoItem, NEW item \in T.todo
    PROVE  OperationInv([T EXCEPT !.todo = @ \ {item}, !.now = item], v, cl, sk)
<1>. DEFINE U == [T EXCEPT !.todo = @ \ {item}, !.now = item]
<1>1. T.todo \subseteq Items /\ item \in Items
  BY OperationsAre DEF OperationInv
<1>2. /\ U \in Operations /\ U.todo = T.todo \ {item} /\ U.now = item
      /\ U.stage = T.stage /\ U.kind = T.kind /\ U.named = T.named /\ U.skills = T.skills
      /\ U.plan = T.plan /\ U.seen = T.seen /\ U.original = T.original
      /\ U.snapshot = T.snapshot /\ U.at = T.at /\ U.exact = T.exact
      /\ U.stale = T.stale /\ U.late = T.late /\ U.touched = T.touched
  BY <1>1 DEF OperationInv, Operations
<1>. HIDE DEF U
<1>3. Shape(U)
  BY <1>2 DEF OperationInv, Shape
<1>4. \A b, do : do # "none" /\ Awaits(T, b, do) => Awaits(U, b, do)
  BY <1>2 DEF Awaits, NoItem
<1>5. item.step = "look"
  BY DEF OperationInv, Shape
<1>6. RegistrationsInv(U, v, cl)
  <2>1. ItemInv(U, cl)
    BY <1>2, <1>5 DEF ItemInv
  <2>. QED
    BY <1>2, <1>4, <2>1 DEF OperationInv, RegistrationsInv, Looked
<1>7. SkillsInv(U, sk)
  BY <1>2 DEF OperationInv, SkillsInv
<1>. QED
  BY <1>2, <1>3, <1>6, <1>7 DEF OperationInv, U

\* The registration under way goes on: U has another step of it, and perhaps another original.
Proceeds(T, U) ==
    /\ U \in Operations
    /\ T.now # NoItem /\ U.now # NoItem /\ U.now.client = T.now.client /\ U.now.do = T.now.do
    /\ U.stage = T.stage /\ U.kind = T.kind /\ U.named = T.named /\ U.skills = T.skills
    /\ U.plan = T.plan /\ U.seen = T.seen /\ U.todo = T.todo
    /\ U.snapshot = T.snapshot /\ U.at = T.at /\ U.exact = T.exact
    /\ U.stale = T.stale /\ U.touched = T.touched

LEMMA ItemProceeds ==
    ASSUME NEW T, NEW U, NEW v, NEW cl, NEW sk, OperationInv(T, v, cl, sk),
           Proceeds(T, U), ItemInv(U, cl)
    PROVE  OperationInv(U, v, cl, sk)
<1>1. Shape(U)
  BY DEF OperationInv, Shape, Proceeds
<1>2. \A b, do : Awaits(U, b, do) <=> Awaits(T, b, do)
  BY DEF Awaits, Proceeds
<1>3. RegistrationsInv(U, v, cl)
  BY <1>2 DEF OperationInv, RegistrationsInv, Looked, Proceeds
<1>4. SkillsInv(U, sk)
  BY DEF OperationInv, SkillsInv, Proceeds
<1>. QED
  BY <1>1, <1>3, <1>4 DEF OperationInv, Proceeds

\* The steps of a registration that is under way.
StepTo(T, step) == [T EXCEPT !.now.step = step, !.late = {}]
ReadInto(T, original) == [T EXCEPT !.now.step = "recheck", !.original = original]

LEMMA StepsProceed ==
    ASSUME NEW T \in Operations, T.now # NoItem, NEW step \in {"read", "commit"},
           NEW original \in Configurations
    PROVE  /\ Proceeds(T, StepTo(T, step)) /\ Proceeds(T, ReadInto(T, original))
           /\ StepTo(T, step).now.step = step /\ StepTo(T, step).original = T.original
           /\ ReadInto(T, original).now.step = "recheck" /\ ReadInto(T, original).original = original
<1>1. T.now \in Items /\ T.now.client \in Clients
  BY OperationsAre DEF Items
<1>2. ASSUME NEW s \in {"read", "commit", "recheck"}
      PROVE  LET n == [T.now EXCEPT !.step = s]
             IN  n \in Items /\ n.client = T.now.client /\ n.do = T.now.do /\ n.step = s /\ n # NoItem
  BY <1>1, <1>2, AssumedConstants DEF Items, NoItem
<1>3. Proceeds(T, StepTo(T, step)) /\ StepTo(T, step).now.step = step
      /\ StepTo(T, step).original = T.original
  <2>. DEFINE n == [T.now EXCEPT !.step = step]
              U == StepTo(T, step)
  <2>1. U = [T EXCEPT !.now = n, !.late = {}]
    BY DEF StepTo, Operations
  <2>2. n \in Items /\ n.client = T.now.client /\ n.do = T.now.do /\ n.step = step /\ n # NoItem
    BY <1>2
  <2>. HIDE DEF n, U
  <2>3. /\ U \in Operations /\ U.now = n /\ U.original = T.original
        /\ U.stage = T.stage /\ U.kind = T.kind /\ U.named = T.named /\ U.skills = T.skills
        /\ U.plan = T.plan /\ U.seen = T.seen /\ U.todo = T.todo
        /\ U.snapshot = T.snapshot /\ U.at = T.at /\ U.exact = T.exact
        /\ U.stale = T.stale /\ U.touched = T.touched
    BY <2>1, <2>2 DEF Operations
  <2>. QED
    BY <2>2, <2>3 DEF Proceeds, U
<1>4. /\ Proceeds(T, ReadInto(T, original)) /\ ReadInto(T, original).now.step = "recheck"
      /\ ReadInto(T, original).original = original
  <2>. DEFINE n == [T.now EXCEPT !.step = "recheck"]
              U == ReadInto(T, original)
  <2>1. U = [T EXCEPT !.now = n, !.original = original]
    BY DEF ReadInto, Operations
  <2>2. n \in Items /\ n.client = T.now.client /\ n.do = T.now.do /\ n.step = "recheck" /\ n # NoItem
    BY <1>2
  <2>. HIDE DEF n, U
  <2>3. /\ U \in Operations /\ U.now = n /\ U.original = original
        /\ U.stage = T.stage /\ U.kind = T.kind /\ U.named = T.named /\ U.skills = T.skills
        /\ U.plan = T.plan /\ U.seen = T.seen /\ U.todo = T.todo
        /\ U.snapshot = T.snapshot /\ U.at = T.at /\ U.exact = T.exact
        /\ U.stale = T.stale /\ U.touched = T.touched
    BY <2>1, <2>2 DEF Operations
  <2>. QED
    BY <2>2, <2>3 DEF Proceeds, U
<1>. QED
  BY <1>3, <1>4

\* The registration under way is over.
Finishes(T, U) ==
    /\ U \in Operations /\ U.now = NoItem
    /\ U.stage = T.stage /\ U.kind = T.kind /\ U.named = T.named /\ U.skills = T.skills
    /\ U.plan = T.plan /\ U.seen = T.seen /\ U.todo = T.todo
    /\ U.snapshot = T.snapshot /\ U.at = T.at /\ U.exact = T.exact
    /\ U.stale = T.stale /\ U.late = T.late /\ U.touched = T.touched

\* What the end of a registration leaves of its client.
Done(T, before, after) ==
    /\ T.now.do = "register" => after = "current"
    /\ T.now.do = "unregister" => after \notin Ours
    /\ after = "other" => before = "other"

LEMMA DoableIs ==
    ASSUME NEW T, Shape(T), T.now # NoItem, T.now \in Items
    PROVE  /\ T.kind = "headless" => T.now.do = "register"
           /\ T.kind = "uninstall" => T.now.do = "unregister"
           /\ T.now.do = "register" => T.seen[T.now.client] \notin {"unavailable", "invalid"}
BY DEF Shape, Doable, Items

LEMMA ItemEnds ==
    ASSUME NEW T, NEW U, NEW v, NEW cl, NEW cm, NEW sk, OperationInv(T, v, cl, sk),
           Finishes(T, U), T.now # NoItem, \A b \in Clients : b # T.now.client => cm[b] = cl[b],
           Done(T, cl[T.now.client].entry, cm[T.now.client].entry)
    PROVE  OperationInv(U, v, cm, sk)
<1>1. T.now \in Items /\ T.named \subseteq Clients /\ T.stale \subseteq Clients /\ T.kind \in Kinds
  BY OperationsAre DEF OperationInv
<1>2. T.stage = "clients"
  BY DEF OperationInv, Shape
<1>3. Shape(U)
  BY <1>2 DEF OperationInv, Shape, Finishes
<1>4. ItemInv(U, cm)
  BY DEF ItemInv, Finishes, NoItem
<1>5. \A b \in Clients : \A do : Awaits(T, b, do) => Awaits(U, b, do) \/ (b = T.now.client /\ do = T.now.do)
  BY DEF Awaits, Finishes
<1>6. Looked(U) => \A c \in Clients \ U.stale : cm[c].entry = "other" => U.seen[c] \in {"conflict", "invalid"}
  BY DEF OperationInv, RegistrationsInv, Looked, Finishes, Done
<1>7. U.kind = "headless" => \A c \in U.named \ U.stale : cm[c].entry = "current" \/ Awaits(U, c, "register")
  <2>. SUFFICES ASSUME T.kind = "headless", NEW c \in T.named \ T.stale
                PROVE  cm[c].entry = "current" \/ Awaits(U, c, "register")
    BY DEF Finishes
  <2>1. T.now.do = "register" /\ c \in Clients
    BY <1>1, DoableIs DEF OperationInv
  <2>2. CASE c = T.now.client
    BY <2>1, <2>2 DEF Done
  <2>3. CASE c # T.now.client
    <3>1. cm[c] = cl[c]
      BY <2>1, <2>3
    <3>2. cl[c].entry = "current" \/ Awaits(T, c, "register")
      BY <1>2 DEF OperationInv, RegistrationsInv
    <3>. QED
      BY <1>5, <2>1, <2>3, <3>1, <3>2
  <2>. QED
    BY <2>2, <2>3
<1>8. U.kind = "headless" => v \/ U.stale = Clients
  BY <1>2 DEF OperationInv, RegistrationsInv, Finishes
<1>9. U.kind = "uninstall" => \A c \in Clients \ U.stale : cm[c].entry \notin Ours \/ Awaits(U, c, "unregister")
  BY <1>1, <1>2, <1>5, DoableIs DEF OperationInv, RegistrationsInv, Finishes, Done
<1>10. RegistrationsInv(U, v, cm)
  BY <1>4, <1>6, <1>7, <1>8, <1>9 DEF RegistrationsInv
<1>11. SkillsInv(U, sk)
  BY <1>2 DEF SkillsInv, Finishes
<1>. QED
  BY <1>3, <1>10, <1>11 DEF OperationInv, Finishes

\* U is T in another stage of the installation of skills.
Turns(T, U) ==
    /\ U \in Operations /\ U.now = T.now /\ U.original = T.original
    /\ U.kind = T.kind /\ U.named = T.named /\ U.skills = T.skills
    /\ U.plan = T.plan /\ U.seen = T.seen /\ U.todo = T.todo
    /\ U.stale = T.stale /\ U.late = T.late

SkillStages == {"validate", "snapshot", "install", "restore"}

LEMMA StageTurns ==
    ASSUME NEW T, NEW U, NEW v, NEW cl, NEW sk, NEW sm, OperationInv(T, v, cl, sk), Turns(T, U),
           T.stage \in SkillStages, U.stage \in SkillStages, SkillsInv(U, sm)
    PROVE  OperationInv(U, v, cl, sm)
<1>1. Shape(U)
  BY DEF OperationInv, Shape, Turns, SkillStages, PlanOf
<1>2. \A b, do : Awaits(U, b, do) <=> Awaits(T, b, do)
  BY DEF Awaits, Turns
<1>3. RegistrationsInv(U, v, cl)
  BY <1>2 DEF OperationInv, RegistrationsInv, ItemInv, Looked, Turns, SkillStages
<1>. QED
  BY <1>1, <1>3 DEF OperationInv, Turns

LEMMA SkillStatesAre ==
    ASSUME NEW t, skill[t] \in Directories
    PROVE  /\ skill[t].marker \in BOOLEAN
           /\ SkillState(t) = "conflict" <=> skill[t] # Absent /\ ~skill[t].marker
           /\ skill[t].marker /\ skill[t].file = "bundled" => SkillState(t) = "current"
<1>1. CASE skill[t] = Absent
  <2>1. ~skill[t].marker /\ skill[t].marker \in BOOLEAN
    BY <1>1 DEF Absent
  <2>2. SkillState(t) = "missing"
    BY <1>1 DEF SkillState
  <2>. QED
    BY <1>1, <2>1, <2>2
<1>2. CASE skill[t] # Absent
  <2>1. skill[t].marker \in BOOLEAN
    BY <1>2 DEF Directories
  <2>2. CASE skill[t].marker
    BY <1>2, <2>1, <2>2 DEF SkillState
  <2>3. CASE ~skill[t].marker
    <3>1. SkillState(t) = "conflict"
      BY <1>2, <2>3 DEF SkillState
    <3>. QED
      BY <1>2, <2>1, <2>3, <3>1
  <2>. QED
    BY <1>2, <2>1, <2>2, <2>3
<1>. QED
  BY <1>1, <1>2

LEMMA Validates ==
    ASSUME NEW T, NEW v, NEW cl, OperationInv(T, v, cl, skill), T.stage = "validate",
           skill \in [Targets -> Directories], \A t \in Targets : SkillState(t) # "conflict"
    PROVE  OperationInv([T EXCEPT !.stage = "snapshot", !.touched = {}], v, cl, skill)
<1>. DEFINE U == [T EXCEPT !.stage = "snapshot", !.touched = {}]
<1>1. Turns(T, U) /\ U.stage = "snapshot"
  BY DEF OperationInv, Operations, Turns, Stages
<1>2. \A t \in Targets : skill[t] = Absent \/ skill[t].marker
  BY SkillStatesAre
<1>. HIDE DEF U
<1>3. SkillsInv(U, skill)
  BY <1>1, <1>2 DEF SkillsInv
<1>. QED
  BY <1>1, <1>3, StageTurns DEF SkillStages, U

LEMMA Snapshots ==
    ASSUME NEW T, NEW v, NEW cl, NEW sk \in [Targets -> Directories], OperationInv(T, v, cl, sk),
           T.stage = "snapshot"
    PROVE  OperationInv([T EXCEPT !.stage = "install", !.snapshot = sk, !.at = 0], v, cl, sk)
<1>. DEFINE U == [T EXCEPT !.stage = "install", !.snapshot = sk, !.at = 0]
<1>1. /\ Turns(T, U) /\ U.stage = "install" /\ U.snapshot = sk /\ U.at = 0
      /\ U.touched = T.touched
  BY DEF OperationInv, Operations, Turns, Stages
<1>. HIDE DEF U
<1>2. \A t \in Targets \ T.touched : sk[t] = Absent \/ sk[t].marker
  BY DEF OperationInv, SkillsInv
<1>3. \A t \in Targets : ~(0 >= 3 * t - 1) /\ ~(0 >= 3 * t)
  BY AssumedConstants DEF Targets
<1>4. SkillsInv(U, sk)
  BY <1>1, <1>2, <1>3 DEF SkillsInv
<1>. QED
  BY <1>1, <1>4, StageTurns DEF SkillStages, U

LEMMA Fails ==
    ASSUME NEW T, NEW v, NEW cl, NEW sk, OperationInv(T, v, cl, sk), T.stage = "install"
    PROVE  OperationInv([T EXCEPT !.stage = "restore", !.at = Skills], v, cl, sk)
<1>. DEFINE U == [T EXCEPT !.stage = "restore", !.at = Skills]
<1>1. /\ Turns(T, U) /\ U.stage = "restore" /\ U.snapshot = T.snapshot /\ U.at = Skills
      /\ U.touched = T.touched
  BY AssumedConstants DEF OperationInv, Operations, Turns, Stages
<1>. HIDE DEF U
<1>2. \A t \in Targets : ~(t > Skills)
  BY AssumedConstants DEF Targets
<1>3. SkillsInv(U, sk)
  BY <1>1, <1>2, AssumedConstants DEF OperationInv, SkillsInv
<1>. QED
  BY <1>1, <1>3, StageTurns DEF SkillStages, U

\* The parts of a target: the directory, SKILL.md and the marker.
LEMMA Parts ==
    ASSUME NEW at \in Nat
    PROVE  /\ Target(at) \in Nat \ {0} /\ at % 3 \in 0 .. 2
           /\ at = (3 * (Target(at) - 1)) + (at % 3)
<1>1. at \div 3 \in Nat /\ at % 3 \in 0 .. 2 /\ at = (3 * (at \div 3)) + (at % 3)
  OBVIOUS
<1>. HIDE DEF Target
<1>2. Target(at) = (at \div 3) + 1
  BY DEF Target
<1>. QED
  BY <1>1, <1>2

LEMMA WrittenIs ==
    ASSUME NEW d \in Directories, NEW part \in 0 .. 2, part = 0 \/ d # Absent
    PROVE  /\ Written(d, part) \in Directories
           /\ d.marker => Written(d, part).marker
           /\ part = 1 \/ (part = 2 /\ d.file = "bundled") => Written(d, part).file = "bundled"
           /\ part = 2 => Written(d, part).marker
<1>1. d # Absent => d \in [file : {"none", "old", "bundled"}, marker : BOOLEAN]
  BY DEF Directories
<1>2. CASE part = 0
  <2>1. Written(d, part) = IF d = Absent THEN [file |-> "none", marker |-> FALSE] ELSE d
    BY <1>2 DEF Written
  <2>2. Written(d, part) \in Directories
    BY <2>1 DEF Directories
  <2>3. d.marker => Written(d, part).marker
    BY <2>1 DEF Absent
  <2>. QED
    BY <1>2, <2>2, <2>3
<1>3. CASE part = 1
  <2>1. Written(d, part) = [d EXCEPT !.file = "bundled"]
    BY <1>3 DEF Written
  <2>. QED
    BY <1>1, <1>3, <2>1 DEF Directories
<1>4. CASE part = 2
  <2>1. Written(d, part) = [d EXCEPT !.marker = TRUE]
    BY <1>4 DEF Written
  <2>2. d \in [file : {"none", "old", "bundled"}, marker : BOOLEAN]
    BY <1>1, <1>4
  <2>3. /\ Written(d, part) \in Directories /\ Written(d, part).marker
        /\ Written(d, part).file = d.file
    BY <2>1, <2>2 DEF Directories
  <2>. QED
    BY <1>4, <2>3
<1>. QED
  BY <1>2, <1>3, <1>4

LEMMA Installs ==
    ASSUME NEW T, NEW v, NEW cl, NEW sk \in [Targets -> Directories], OperationInv(T, v, cl, sk),
           T.stage = "install", T.at < 3 * Skills,
           T.at % 3 = 0 \/ sk[Target(T.at)] # Absent
    PROVE  LET sm == [sk EXCEPT ![Target(T.at)] = Written(@, T.at % 3)]
           IN  /\ Target(T.at) \in Targets
               /\ sm \in [Targets -> Directories]
               /\ OperationInv([T EXCEPT !.at = T.at + 1], v, cl, sm)
<1>. DEFINE at == T.at
            t == Target(at)
            part == at % 3
            sm == [sk EXCEPT ![t] = Written(@, part)]
            U == [T EXCEPT !.at = T.at + 1]
<1>1. at \in Nat /\ at < 3 * Skills /\ Skills \in Nat
  BY OperationsAre, AssumedConstants DEF OperationInv
<1>2. t \in Nat \ {0} /\ part \in 0 .. 2 /\ at = 3 * (t - 1) + part
  BY <1>1, Parts
<1>. HIDE DEF t, part
<1>3. t \in Targets
  BY <1>1, <1>2 DEF Targets
<1>4. part = 0 \/ sk[t] # Absent
  BY DEF t, part
<1>5. /\ Written(sk[t], part) \in Directories
      /\ sk[t].marker => Written(sk[t], part).marker
      /\ part = 1 \/ (part = 2 /\ sk[t].file = "bundled") => Written(sk[t], part).file = "bundled"
      /\ part = 2 => Written(sk[t], part).marker
  BY <1>2, <1>3, <1>4, WrittenIs
<1>6. /\ sm \in [Targets -> Directories] /\ sm[t] = Written(sk[t], part)
      /\ \A s \in Targets : s # t => sm[s] = sk[s]
  BY <1>3, <1>5
<1>7. /\ Turns(T, U) /\ U.stage = "install" /\ U.snapshot = T.snapshot /\ U.at = at + 1
      /\ U.touched = T.touched
  <2>1. at + 1 \in Nat /\ U = [T EXCEPT !.at = at + 1]
    BY <1>1
  <2>. QED
    BY <2>1 DEF OperationInv, Operations, Turns
<1>. HIDE DEF sm, U
<1>8. \A s \in Targets \ T.touched : T.snapshot[s] # Absent => T.snapshot[s].marker /\ sm[s].marker
  BY <1>5, <1>6 DEF OperationInv, SkillsInv
<1>9. ASSUME NEW s \in Targets \ T.touched
      PROVE  /\ at + 1 >= 3 * s - 1 => sm[s].file = "bundled"
             /\ at + 1 >= 3 * s => sm[s].marker
  <2>1. /\ at >= 3 * s - 1 => sk[s].file = "bundled"
        /\ at >= 3 * s => sk[s].marker
    BY DEF OperationInv, SkillsInv
  <2>2. s \in Nat
    BY <1>1 DEF Targets
  <2>3. CASE s = t
    <3>1. at + 1 >= 3 * s - 1 => part \in {1, 2}
      BY <1>2, <2>3
    <3>2. part = 2 => at >= 3 * s - 1
      BY <1>2, <2>3
    <3>3. at + 1 >= 3 * s => part = 2
      BY <1>2, <2>3
    <3>. QED
      BY <1>5, <1>6, <2>1, <2>3, <3>1, <3>2, <3>3
  <2>4. CASE s # t
    <3>1. (at + 1 >= 3 * s - 1 => at >= 3 * s - 1) /\ (at + 1 >= 3 * s => at >= 3 * s)
      BY <1>1, <1>2, <2>2, <2>4
    <3>. QED
      BY <1>6, <2>1, <2>4, <3>1
  <2>. QED
    BY <2>3, <2>4
<1>10. SkillsInv(U, sm)
  BY <1>7, <1>8, <1>9 DEF SkillsInv
<1>11. OperationInv(U, v, cl, sm)
  BY <1>7, <1>10, StageTurns DEF SkillStages
<1>. QED
  BY <1>3, <1>6, <1>11 DEF U, sm, t, part

LEMMA EndsInstallation ==
    ASSUME NEW T, NEW v, NEW cl, NEW sk, OperationInv(T, v, cl, sk), T.stage = "install",
           T.at = 3 * Skills
    PROVE  OperationInv(Onward(T), v, cl, sk)
<1>. DEFINE U == Onward(T)
<1>1. GoesOn(T, U)
  BY OnwardIs DEF OperationInv
<1>. HIDE DEF U
<1>2. U.stage = "succeeded"
  BY <1>1 DEF GoesOn, NextStage
<1>3. Shape(U)
  BY <1>1, <1>2 DEF OperationInv, Shape, GoesOn
<1>4. \A b, do : Awaits(U, b, do) <=> Awaits(T, b, do)
  BY <1>1 DEF Awaits, GoesOn
<1>5. RegistrationsInv(U, v, cl)
  BY <1>1, <1>2, <1>4 DEF OperationInv, RegistrationsInv, ItemInv, Looked, GoesOn
<1>6. \A t \in Targets : T.at >= 3 * t - 1 /\ T.at >= 3 * t
  BY AssumedConstants DEF Targets
<1>7. SkillsInv(U, sk)
  BY <1>1, <1>2, <1>6 DEF SkillsInv, OperationInv, GoesOn
<1>. QED
  BY <1>1, <1>3, <1>5, <1>7 DEF OperationInv, GoesOn, U

LEMMA Restores ==
    ASSUME NEW T, NEW v, NEW cl, NEW sk \in [Targets -> Directories], OperationInv(T, v, cl, sk),
           T.stage = "restore", T.at > 0
    PROVE  /\ T.at \in Targets
           /\ LET sm == [sk EXCEPT ![T.at] = T.snapshot[T.at]]
              IN  /\ sm \in [Targets -> Directories]
                  /\ OperationInv([T EXCEPT !.at = T.at - 1], v, cl, sm)
<1>. DEFINE t == T.at
            sm == [sk EXCEPT ![t] = T.snapshot[t]]
            U == [T EXCEPT !.at = T.at - 1]
<1>1. /\ t \in Nat /\ t > 0 /\ Skills \in Nat /\ t <= Skills
      /\ T.snapshot \in [Targets -> Directories]
  BY OperationsAre, AssumedConstants DEF OperationInv, SkillsInv
<1>2. t \in Targets
  BY <1>1 DEF Targets
<1>3. /\ sm \in [Targets -> Directories] /\ sm[t] = T.snapshot[t]
      /\ \A s \in Targets : s # t => sm[s] = sk[s]
  BY <1>1, <1>2
<1>4. /\ Turns(T, U) /\ U.stage = "restore" /\ U.snapshot = T.snapshot /\ U.at = t - 1
      /\ U.touched = T.touched /\ U.exact = T.exact
  BY <1>1 DEF OperationInv, Operations, Turns, Stages
<1>. HIDE DEF sm, U
<1>5. \A s \in Targets \ T.touched : T.snapshot[s] # Absent => T.snapshot[s].marker /\ sm[s].marker
  BY <1>3 DEF OperationInv, SkillsInv
<1>6. T.exact => \A s \in Targets \ T.touched : s > t - 1 => sm[s] = T.snapshot[s]
  <2>1. \A s \in Targets : s > t - 1 => s = t \/ s > t
    BY <1>1 DEF Targets
  <2>. QED
    BY <1>3, <2>1 DEF OperationInv, SkillsInv
<1>7. t - 1 <= Skills
  BY <1>1
<1>8. SkillsInv(U, sm)
  BY <1>4, <1>5, <1>6, <1>7 DEF SkillsInv
<1>9. OperationInv(U, v, cl, sm)
  BY <1>4, <1>8, StageTurns DEF SkillStages
<1>. QED
  BY <1>2, <1>3, <1>9 DEF U, sm

\* The restoration stops at an error; what it did halfway keeps the markers.
LEMMA StopsRestoring ==
    ASSUME NEW T, NEW v, NEW cl, NEW sk, NEW sm, OperationInv(T, v, cl, sk),
           T.stage = "restore", \A t \in Targets : sk[t].marker => sm[t].marker
    PROVE  OperationInv([T EXCEPT !.at = 0, !.exact = FALSE], v, cl, sm)
<1>. DEFINE U == [T EXCEPT !.at = 0, !.exact = FALSE]
<1>1. /\ Turns(T, U) /\ U.stage = "restore" /\ U.snapshot = T.snapshot /\ U.at = 0
      /\ U.touched = T.touched /\ U.exact = FALSE
  BY DEF OperationInv, Operations, Turns, Stages
<1>. HIDE DEF U
<1>2. SkillsInv(U, sm)
  BY <1>1, AssumedConstants DEF OperationInv, SkillsInv
<1>3. OperationInv(U, v, cl, sm)
  BY <1>1, <1>2, StageTurns DEF SkillStages
<1>. QED
  BY <1>3 DEF U

-----------------------------------------------------------------------------
(* What a process intends after it has looked.                              *)

LEMMA StatesAre ==
    ASSUME NEW c, client[c].entry \in Entries
    PROVE  /\ State(c) \in States
           /\ client[c].entry = "other" => State(c) = "conflict"
           /\ client[c].entry \in Ours <=> State(c) \in Owned
           /\ State(c) = "registered" <=> client[c].entry = "current" /\ server
           /\ State(c) \in {"unavailable", "invalid"} <=> client[c].entry \in {"unavailable", "invalid"}
BY DEF State, Entries, States, Ours, Owned

\* The whole of what may be done with the clients cs is in todo.
Complete(kind, cs, seen, todo) ==
    \A c \in cs : \A do \in {"register", "unregister"} :
        do \in Doable(kind, seen[c]) => \E item \in todo : item.client = c /\ item.do = do

\* What is intended is allowed, and the commands that choose for themselves leave nothing out.
Intends(kind, named, seen, todo) ==
    /\ todo \subseteq Items
    /\ \A item \in todo : item.step = "look" /\ item.do \in Doable(kind, seen[item.client])
    /\ kind = "skills" => todo = {}
    /\ kind = "headless" => /\ Complete(kind, named, seen, todo)
                            /\ \A c \in named : seen[c] \notin {"unavailable", "conflict", "invalid"}
    /\ kind = "uninstall" => /\ Complete(kind, Clients, seen, todo)
                             /\ \A c \in Clients : seen[c] # "invalid"

LEMMA IntendedIs ==
    ASSUME NEW kind \in Kinds, NEW named \in SUBSET Clients, NEW seen \in [Clients -> States],
           NEW todo \in Intended(kind, named, seen)
    PROVE  Intends(kind, named, seen, todo)
<1>. DEFINE Available == {c \in Clients : seen[c] # "unavailable"}
            Its(cs) == {item \in [client : cs, do : {"register", "unregister"}, step : {"look"}] :
                          item.do \in Doable(kind, seen[item.client])}
            selected == IF named = {} THEN Available ELSE named
<1>1. ASSUME NEW cs \in SUBSET Clients
      PROVE  /\ Its(cs) \subseteq Items
             /\ \A item \in Its(cs) : item.step = "look" /\ item.do \in Doable(kind, seen[item.client])
             /\ Complete(kind, cs, seen, Its(cs))
  <2>1. Its(cs) \subseteq Items
    BY DEF Items
  <2>2. ASSUME NEW c \in cs, NEW do \in {"register", "unregister"}, do \in Doable(kind, seen[c])
        PROVE  \E item \in Its(cs) : item.client = c /\ item.do = do
    <3>. DEFINE item == [client |-> c, do |-> do, step |-> "look"]
    <3>1. item \in Its(cs) /\ item.client = c /\ item.do = do
      BY <2>2
    <3>. QED
      BY <3>1
  <2>. QED
    BY <2>1, <2>2 DEF Complete
<1>2. selected \in SUBSET Clients /\ named \subseteq selected /\ Clients \in SUBSET Clients
  OBVIOUS
<1>3. CASE kind = "headless"
  <2>1. /\ todo = Its(selected)
        /\ \A c \in selected : seen[c] \notin {"unavailable", "conflict", "invalid"}
    BY <1>3 DEF Intended
  <2>. HIDE DEF selected, Its
  <2>2. Complete(kind, selected, seen, todo)
    BY <1>1, <1>2, <2>1
  <2>. QED
    BY <1>1, <1>2, <1>3, <2>1, <2>2 DEF Complete, Intends
<1>4. CASE kind = "uninstall"
  <2>1. todo = Its(Clients) /\ \A c \in Clients : seen[c] # "invalid"
    BY <1>4 DEF Intended
  <2>. HIDE DEF selected, Its
  <2>. QED
    BY <1>1, <1>2, <1>4, <2>1 DEF Intends
<1>5. CASE kind = "skills"
  <2>1. todo = {}
    BY <1>5 DEF Intended
  <2>. QED
    BY <1>5, <2>1 DEF Intends
<1>6. CASE kind \in {"configure", "manage", "desktop"}
  <2>1. todo \subseteq Its(Clients)
    BY <1>6 DEF Intended
  <2>. HIDE DEF selected, Its
  <2>. QED
    BY <1>1, <1>2, <1>6, <2>1 DEF Intends
<1>. QED
  BY <1>3, <1>4, <1>5, <1>6 DEF Kinds

\* What an operation becomes when it has looked.
Inspected(T, seen, todo) ==
    LET removes == T.kind = "desktop" /\ \E item \in todo : item.do = "unregister"
        w == IF removes THEN Onward(T) ELSE T
    IN  [Onward(w) EXCEPT !.seen = seen, !.todo = todo, !.stale = {}, !.late = {}, !.touched = {}]

LEMMA Inspects ==
    ASSUME NEW T, NEW seen \in [Clients -> States], StateTyped,
           OperationInv(T, server, client, skill), T.stage = "inspect",
           \A c \in Clients : seen[c] = State(c) \/ seen[c] = "invalid",
           NEW todo \in Intended(T.kind, T.named, seen)
    PROVE  OperationInv(Inspected(T, seen, todo), server, client, skill)
<1>. DEFINE removes == T.kind = "desktop" /\ \E item \in todo : item.do = "unregister"
            W == Onward(T)
            V == IF removes THEN Onward(W) ELSE W
            U == [V EXCEPT !.seen = seen, !.todo = todo, !.stale = {}, !.late = {}, !.touched = {}]
<1>1. /\ T \in Operations /\ T.kind \in Kinds /\ T.named \in SUBSET Clients
      /\ T.now = NoItem /\ T.todo = {} /\ T.skills \in BOOLEAN
  BY OperationsAre DEF OperationInv, Shape
<1>2. GoesOn(T, W)
  BY OnwardIs DEF OperationInv
<1>. HIDE DEF W
<1>3. removes => W.stage = "server" /\ Shape(W)
  BY <1>1, <1>2 DEF GoesOn, NextStage, Shape, OperationInv
<1>4. removes => GoesOn(W, Onward(W)) /\ Onward(W).stage = "clients"
  BY <1>2, <1>3, OnwardIs DEF GoesOn, NextStage
<1>. HIDE DEF removes
<1>5. /\ V \in Operations /\ V.plan = PlanOf(T.kind, T.skills, V.stage) /\ V.kind = T.kind
      /\ V.named = T.named /\ V.skills = T.skills /\ V.now = NoItem
      /\ V.stage = IF removes THEN "clients" ELSE NextStage(T.kind, T.skills, "inspect")
  BY <1>1, <1>2, <1>4 DEF GoesOn
<1>. HIDE DEF V
<1>6. /\ todo \subseteq Items
      /\ \A item \in todo : item.step = "look" /\ item.do \in Doable(T.kind, seen[item.client])
      /\ T.kind = "skills" => todo = {}
      /\ T.kind = "headless" => /\ Complete(T.kind, T.named, seen, todo)
                                /\ \A c \in T.named : seen[c] \notin {"unavailable", "conflict", "invalid"}
      /\ T.kind = "uninstall" => /\ Complete(T.kind, Clients, seen, todo)
                                 /\ \A c \in Clients : seen[c] # "invalid"
  <2>1. Intends(T.kind, T.named, seen, todo)
    BY <1>1, IntendedIs
  <2>. QED
    BY <2>1 DEF Intends
<1>7. /\ U \in Operations /\ U.seen = seen /\ U.todo = todo /\ U.stale = {} /\ U.late = {}
      /\ U.touched = {} /\ U.plan = PlanOf(T.kind, T.skills, U.stage) /\ U.kind = T.kind
      /\ U.named = T.named /\ U.skills = T.skills /\ U.now = NoItem
      /\ U.stage = IF removes THEN "clients" ELSE NextStage(T.kind, T.skills, "inspect")
  BY <1>5, <1>6 DEF Operations
<1>. HIDE DEF U
<1>8. /\ removes => T.kind = "desktop"
      /\ U.stage \in {"server", "clients", "validate"}
      /\ U.stage = "server" => T.kind \in {"headless", "desktop"}
      /\ U.stage = "validate" <=> T.kind = "skills"
  BY <1>1, <1>7 DEF NextStage, removes, Kinds
<1>9. Shape(U)
  <2>1. T.kind # "headless" => T.skills = (T.kind = "skills")
    BY DEF OperationInv, Shape
  <2>. QED
    BY <1>6, <1>7, <1>8, <2>1 DEF Shape
<1>10. \A c \in Clients : client[c].entry \in Entries
  BY DEF StateTyped, Configurations
<1>11. \A c \in Clients : client[c].entry = "other" => seen[c] \in {"conflict", "invalid"}
  BY <1>10, StatesAre
<1>12. ASSUME T.kind = "headless", NEW c \in T.named
       PROVE  client[c].entry = "current" \/ Awaits(U, c, "register")
  <2>1. c \in Clients /\ seen[c] = State(c) /\ seen[c] \notin {"unavailable", "conflict", "invalid"}
    BY <1>1, <1>6, <1>12
  <2>2. CASE seen[c] = "registered"
    BY <1>10, <2>1, <2>2, StatesAre
  <2>3. CASE seen[c] # "registered"
    <3>1. "register" \in Doable(T.kind, seen[c])
      BY <1>12, <2>1, <2>3 DEF Doable, States
    <3>. QED
      BY <1>6, <1>7, <1>12, <3>1 DEF Complete, Awaits
  <2>. QED
    BY <2>2, <2>3
<1>13. ASSUME T.kind = "uninstall", NEW c \in Clients
       PROVE  client[c].entry \notin Ours \/ Awaits(U, c, "unregister")
  <2>1. seen[c] = State(c)
    BY <1>6, <1>13
  <2>2. CASE client[c].entry \in Ours
    <3>1. "unregister" \in Doable(T.kind, seen[c])
      BY <1>10, <1>13, <2>1, <2>2, StatesAre DEF Doable
    <3>. QED
      BY <1>6, <1>7, <1>13, <3>1 DEF Complete, Awaits
  <2>. QED
    BY <2>2
<1>14. RegistrationsInv(U, server, client)
  <2>1. ItemInv(U, client)
    BY <1>7 DEF ItemInv, NoItem
  <2>2. T.kind = "headless" => U.stage = "server"
    BY <1>7, <1>8 DEF NextStage
  <2>. QED
    BY <1>7, <1>11, <1>12, <1>13, <2>1, <2>2 DEF RegistrationsInv
<1>15. SkillsInv(U, skill)
  BY <1>8 DEF SkillsInv
<1>16. OperationInv(U, server, client, skill)
  BY <1>7, <1>9, <1>14, <1>15 DEF OperationInv
<1>. QED
  BY <1>16 DEF Inspected, U, V, W, removes

-----------------------------------------------------------------------------
(* The invariant.                                                           *)

\* The work of a process is idle or the operation T satisfies the invariant.
Fits(T, v, cl, sk) == T = Idle \/ OperationInv(T, v, cl, sk)

LEMMA StagesOf ==
    ASSUME InstallationInv, NEW p \in Processes, NEW stage \in Stages, Stage(p) = stage
    PROVE  /\ work[p] # Idle /\ work[p].stage = stage /\ work[p] \in Operations
           /\ OperationInv(work[p], server, client, skill)
BY DEF InstallationInv, OperationInv, Stage, Stages

\* p goes on alone: it changes neither a configuration nor a skill.
LEMMA GoesAlone ==
    ASSUME InstallationInv, NEW p \in Processes, NEW T, Becomes(p, T),
           server' \in {server, TRUE}, Fits(T, server', client, skill),
           UNCHANGED <<client, skill, edits>>
    PROVE  InstallationInv'
<1>1. T \in Operations \cup {Idle}
  BY DEF Fits, OperationInv
<1>2. /\ work' \in [Processes -> Operations \cup {Idle}] /\ work'[p] = T
      /\ \A q \in Processes : q # p => work'[q] = work[q]
  BY <1>1 DEF Becomes, InstallationInv, StateTyped
<1>3. StateTyped'
  BY <1>2 DEF InstallationInv, StateTyped
<1>4. ASSUME NEW q \in Processes, work'[q] # Idle
      PROVE  OperationInv(work'[q], server', client, skill)
  <2>1. CASE q = p
    BY <1>2, <1>4, <2>1 DEF Fits
  <2>2. CASE q # p
    <3>1. OperationInv(work[q], server, client, skill)
      BY <1>2, <1>4, <2>2 DEF InstallationInv
    <3>2. OperationInv(work[q], server', client, skill)
      BY <3>1, ServerInstalled
    <3>. QED
      BY <1>2, <2>2, <3>2
  <2>. QED
    BY <2>1, <2>2
<1>. QED
  BY <1>3, <1>4 DEF InstallationInv

\* p has written the configuration of client c and goes on as T.
LEMMA WritesClient ==
    ASSUME InstallationInv, NEW p \in Processes, NEW T, NEW c \in Clients,
           NEW configuration \in Configurations,
           client' = [client EXCEPT ![c] = configuration],
           work' = ClientChanged(p, c, [work EXCEPT ![p] = T]),
           Fits(T, server, client', skill), UNCHANGED <<server, skill, edits>>
    PROVE  InstallationInv'
<1>. DEFINE w == [work EXCEPT ![p] = T]
<1>1. work \in [Processes -> Operations \cup {Idle}] /\ client \in [Clients -> Configurations]
  BY DEF InstallationInv, StateTyped
<1>2. w[p] = T /\ \A q \in Processes : q # p => w[q] = work[q]
  BY <1>1
<1>. HIDE DEF w
<1>3. /\ work' = [q \in Processes |-> work'[q]] /\ work'[p] = T
      /\ \A q \in Processes : q # p =>
           work'[q] = IF work[q] = Idle THEN Idle ELSE Disturbed(work[q], c)
  <2>1. work' = [q \in Processes |-> IF q = p \/ w[q] = Idle THEN w[q] ELSE Disturbed(w[q], c)]
    BY DEF ClientChanged, Disturbed, w
  <2>. QED
    BY <1>2, <2>1
<1>4. \A b \in Clients : b # c => client'[b] = client[b]
  BY <1>1
<1>5. ASSUME NEW q \in Processes PROVE Fits(work'[q], server, client', skill)
  <2>1. CASE q = p
    BY <1>3, <2>1
  <2>2. CASE q # p /\ work[q] = Idle
    BY <1>3, <2>2 DEF Fits
  <2>3. CASE q # p /\ work[q] # Idle
    <3>1. OperationInv(work[q], server, client, skill)
      BY <2>3 DEF InstallationInv
    <3>2. OperationInv(Disturbed(work[q], c), server, client', skill)
      BY <1>4, <3>1, OthersWriteClients
    <3>. QED
      BY <1>3, <2>3, <3>2 DEF Fits
  <2>. QED
    BY <2>1, <2>2, <2>3
<1>6. work' \in [Processes -> Operations \cup {Idle}]
  <2>1. \A q \in Processes : work'[q] \in Operations \cup {Idle}
    BY <1>5 DEF Fits, OperationInv
  <2>. QED
    BY <1>3, <2>1
<1>7. client' \in [Clients -> Configurations]
  BY <1>1
<1>. QED
  BY <1>5, <1>6, <1>7 DEF InstallationInv, StateTyped, Fits

\* p has written a skill directory and goes on as T.
LEMMA WritesSkill ==
    ASSUME InstallationInv, NEW p \in Processes, NEW T, NEW t \in Targets,
           skill' \in [Targets -> Directories], \A s \in Targets : s # t => skill'[s] = skill[s],
           \/ work' = SkillChanged(p, t, [work EXCEPT ![p] = T])
           \/ skill' = skill /\ work' = [work EXCEPT ![p] = T],
           Fits(T, server, client, skill'), UNCHANGED <<server, client, edits>>
    PROVE  InstallationInv'
<1>. DEFINE w == [work EXCEPT ![p] = T]
<1>1. work \in [Processes -> Operations \cup {Idle}]
  BY DEF InstallationInv, StateTyped
<1>2. w = [q \in Processes |-> w[q]] /\ w[p] = T /\ \A q \in Processes : q # p => w[q] = work[q]
  BY <1>1
<1>. HIDE DEF w
<1>3. /\ work' = [q \in Processes |-> work'[q]] /\ work'[p] = T
      /\ \/ \A q \in Processes : q # p =>
              work'[q] = IF work[q] = Idle THEN Idle ELSE [work[q] EXCEPT !.touched = @ \cup {t}]
         \/ skill' = skill /\ \A q \in Processes : q # p => work'[q] = work[q]
  BY <1>2 DEF SkillChanged, w
<1>5. ASSUME NEW q \in Processes PROVE Fits(work'[q], server, client, skill')
  <2>1. CASE q = p
    BY <1>3, <2>1
  <2>2. CASE q # p /\ work[q] = Idle
    BY <1>3, <2>2 DEF Fits
  <2>3. CASE q # p /\ work[q] # Idle
    <3>1. OperationInv(work[q], server, client, skill)
      BY <2>3 DEF InstallationInv
    <3>2. OperationInv([work[q] EXCEPT !.touched = @ \cup {t}], server, client, skill')
      BY <3>1, OthersWriteSkills
    <3>. QED
      BY <1>3, <2>3, <3>1, <3>2 DEF Fits
  <2>. QED
    BY <2>1, <2>2, <2>3
<1>6. work' \in [Processes -> Operations \cup {Idle}]
  <2>1. \A q \in Processes : work'[q] \in Operations \cup {Idle}
    BY <1>5 DEF Fits, OperationInv
  <2>. QED
    BY <1>3, <2>1
<1>. QED
  BY <1>5, <1>6 DEF InstallationInv, StateTyped, Fits

LEMMA Initially == Init => InstallationInv
<1>. SUFFICES ASSUME Init PROVE InstallationInv
  OBVIOUS
<1>1. client \in [Clients -> Configurations]
  BY DEF Init
<1>2. skill \in [Targets -> Directories]
  <2>1. {Absent, [file |-> "old", marker |-> TRUE], [file |-> "old", marker |-> FALSE]} \subseteq Directories
    BY DEF Directories
  <2>. QED
    BY <2>1 DEF Init
<1>3. work \in [Processes -> Operations \cup {Idle}] /\ \A p \in Processes : work[p] = Idle
  BY DEF Init
<1>4. server \in BOOLEAN /\ edits \in 0 .. MaxEdits
  BY AssumedConstants DEF Init
<1>. QED
  BY <1>1, <1>2, <1>3, <1>4 DEF InstallationInv, StateTyped

\* The steps of a process that change no configuration and no skill, and their work after it.
LEMMA PlainSteps ==
    ASSUME InstallationInv, NEW p \in Processes,
           \/ Inspect(p) \/ InstallServer(p) \/ Fail(p) \/ Return(p) \/ Take(p) \/ ClientsDone(p)
           \/ Validate(p) \/ Snapshot(p) \/ Installed(p) \/ Restored(p)
    PROVE  InstallationInv'
<1>1. StateTyped /\ Fits(Idle, server, client, skill)
  BY DEF InstallationInv, Fits
<1>2. CASE Inspect(p)
  <2>1. /\ work[p].stage = "inspect" /\ OperationInv(work[p], server, client, skill)
    BY <1>2, StagesOf DEF Inspect, Stages
  <2>2. PICK seen \in [Clients -> States] :
          /\ \A c \in Clients : seen[c] = State(c) \/ seen[c] = "invalid"
          /\ \E todo \in Intended(work[p].kind, work[p].named, seen) :
               Becomes(p, Inspected(work[p], seen, todo))
    BY <1>2 DEF Inspect, Inspected
  <2>3. PICK todo \in Intended(work[p].kind, work[p].named, seen) :
          Becomes(p, Inspected(work[p], seen, todo))
    BY <2>2
  <2>4. OperationInv(Inspected(work[p], seen, todo), server, client, skill)
    BY <1>1, <2>1, <2>2, <2>3, Inspects
  <2>. QED
    BY <1>2, <2>3, <2>4, GoesAlone DEF Inspect, Fits
<1>3. CASE InstallServer(p)
  <2>1. /\ work[p].stage = "server" /\ OperationInv(work[p], server, client, skill)
    BY <1>3, StagesOf DEF InstallServer, Stages
  <2>2. OperationInv([Onward(work[p]) EXCEPT !.seen = work[p].seen], TRUE, client, skill)
    BY <2>1, InstallsServer
  <2>. QED
    BY <1>3, <2>2, GoesAlone DEF InstallServer, Fits
<1>4. CASE Fail(p)
  <2>1. /\ work[p].stage = "install" /\ OperationInv(work[p], server, client, skill)
    BY <1>4, StagesOf DEF Fail, Stages
  <2>2. OperationInv([work[p] EXCEPT !.stage = "restore", !.at = Skills], server, client, skill)
    BY <2>1, Fails
  <2>. QED
    BY <1>4, <2>2, GoesAlone DEF Fail, Fits
<1>5. CASE Return(p)
  BY <1>1, <1>5, GoesAlone DEF Return
<1>6. CASE Take(p)
  <2>1. /\ work[p].stage = "clients" /\ OperationInv(work[p], server, client, skill)
    BY <1>6, StagesOf DEF Take, Stages
  <2>2. PICK item \in work[p].todo : Becomes(p, [work[p] EXCEPT !.todo = @ \ {item}, !.now = item])
    BY <1>6 DEF Take
  <2>3. OperationInv([work[p] EXCEPT !.todo = @ \ {item}, !.now = item], server, client, skill)
    BY <1>6, <2>1, Takes DEF Take
  <2>. QED
    BY <1>6, <2>2, <2>3, GoesAlone DEF Take, Fits
<1>7. CASE ClientsDone(p)
  <2>1. /\ work[p].stage = "clients" /\ OperationInv(work[p], server, client, skill)
    BY <1>7, StagesOf DEF ClientsDone, Stages
  <2>2. OperationInv(Onward(work[p]), server, client, skill)
    BY <1>7, <2>1, EndsClients DEF ClientsDone
  <2>. QED
    BY <1>7, <2>2, GoesAlone DEF ClientsDone, Fits
<1>8. CASE Validate(p)
  <2>1. /\ work[p].stage = "validate" /\ OperationInv(work[p], server, client, skill)
    BY <1>8, StagesOf DEF Validate, Stages
  <2>2. CASE \A t \in Targets : SkillState(t) # "conflict"
    <3>1. OperationInv([work[p] EXCEPT !.stage = "snapshot", !.touched = {}], server, client, skill)
      BY <1>1, <2>1, <2>2, Validates DEF StateTyped
    <3>. QED
      BY <1>8, <2>2, <3>1, GoesAlone DEF Validate, Fits
  <2>3. CASE ~\A t \in Targets : SkillState(t) # "conflict"
    BY <1>1, <1>8, <2>3, GoesAlone DEF Validate
  <2>. QED
    BY <2>2, <2>3
<1>9. CASE Snapshot(p)
  <2>1. /\ work[p].stage = "snapshot" /\ OperationInv(work[p], server, client, skill)
    BY <1>9, StagesOf DEF Snapshot, Stages
  <2>2. OperationInv([work[p] EXCEPT !.stage = "install", !.snapshot = skill, !.at = 0],
                     server, client, skill)
    BY <1>1, <2>1, Snapshots DEF StateTyped
  <2>. QED
    BY <1>9, <2>2, GoesAlone DEF Snapshot, Fits
<1>10. CASE Installed(p)
  <2>1. /\ work[p].stage = "install" /\ OperationInv(work[p], server, client, skill)
    BY <1>10, StagesOf DEF Installed, Stages
  <2>2. OperationInv(Onward(work[p]), server, client, skill)
    BY <1>10, <2>1, EndsInstallation DEF Installed
  <2>. QED
    BY <1>10, <2>2, GoesAlone DEF Installed, Fits
<1>11. CASE Restored(p)
  BY <1>1, <1>11, GoesAlone DEF Restored
<1>. QED
  BY <1>2, <1>3, <1>4, <1>5, <1>6, <1>7, <1>8, <1>9, <1>10, <1>11

\* What a process that works on a client has in hand.
LEMMA WorkingOn ==
    ASSUME InstallationInv, NEW p \in Processes, NEW cs \in SUBSET Clients, NEW step,
           Working(p, cs, step)
    PROVE  /\ work[p] \in Operations /\ OperationInv(work[p], server, client, skill)
           /\ work[p].stage = "clients" /\ work[p].now \in Items /\ work[p].now # NoItem
           /\ work[p].now.client \in cs /\ work[p].now.step = step
           /\ client[work[p].now.client] \in Configurations
           /\ client[work[p].now.client].entry \in Entries
           /\ Registering(p) <=> work[p].now.do # "unregister"
<1>1. /\ work[p].stage = "clients" /\ OperationInv(work[p], server, client, skill)
      /\ work[p] \in Operations
  BY StagesOf DEF Working, Stages
<1>2. work[p].now.client \in cs /\ work[p].now.step = step
  BY DEF Working
<1>3. work[p].now # NoItem
  BY <1>2, AssumedConstants DEF NoItem
<1>4. work[p].now \in Items
  BY <1>1, <1>3, OperationsAre
<1>5. client[work[p].now.client] \in Configurations
  BY <1>2 DEF InstallationInv, StateTyped
<1>6. client[work[p].now.client].entry \in Entries
  BY <1>5 DEF Configurations
<1>7. Registering(p) <=> work[p].now.do # "unregister"
  BY <1>4 DEF Registering, Items
<1>. QED
  BY <1>1, <1>2, <1>3, <1>4, <1>5, <1>6, <1>7

\* The registration that is left out or written is over.
LEMMA Over ==
    ASSUME NEW T \in Operations
    PROVE  /\ Finishes(T, [T EXCEPT !.now = NoItem, !.original = NoOriginal])
           /\ Finishes(T, [T EXCEPT !.now = NoItem])
BY NothingSeen DEF Operations, Finishes

\* unregister finds nothing of Worklogger's.
LEMMA NothingToRemove ==
    ASSUME InstallationInv, NEW p \in Processes, NEW cs \in SUBSET Clients, NEW step,
           Working(p, cs, step), ~Registering(p), State(work[p].now.client) \notin Owned, EndItem(p),
           UNCHANGED <<server, client, skill, edits>>
    PROVE  InstallationInv'
<1>. DEFINE T == work[p]
            U == [T EXCEPT !.now = NoItem, !.original = NoOriginal]
<1>1. /\ T \in Operations /\ OperationInv(T, server, client, skill) /\ T.now # NoItem
      /\ client[T.now.client].entry \in Entries /\ T.now.do = "unregister"
  BY WorkingOn
<1>2. client[T.now.client].entry \notin Ours
  BY <1>1, StatesAre
<1>3. Finishes(T, U)
  BY <1>1, Over
<1>4. Done(T, client[T.now.client].entry, client[T.now.client].entry)
  BY <1>1, <1>2 DEF Done
<1>5. OperationInv(U, server, client, skill)
  BY <1>1, <1>3, <1>4, ItemEnds
<1>. QED
  BY <1>5, GoesAlone DEF EndItem, Fits

\* The steps of a registration.
LEMMA RegistrationSteps ==
    ASSUME InstallationInv, NEW p \in Processes,
           Look(p) \/ Read(p) \/ Recheck(p) \/ Commit(p) \/ Run(p)
    PROVE  InstallationInv'
<1>. DEFINE T == work[p]
            c == T.now.client
<1>1. Fits(Idle, server, client, skill) /\ Files \in SUBSET Clients /\ Commands \in SUBSET Clients
      /\ Clients \in SUBSET Clients
  BY DEF Fits, Clients
<1>2. ASSUME UNCHANGED <<server, client, skill, edits>>, FailItem(p)
      PROVE  InstallationInv'
  BY <1>1, <1>2, GoesAlone DEF FailItem
<1>3. CASE Look(p)
  <2>1. /\ T \in Operations /\ OperationInv(T, server, client, skill) /\ T.now # NoItem
        /\ client[c].entry \in Entries /\ (Registering(p) <=> T.now.do # "unregister")
        /\ Working(p, Clients, "look")
    BY <1>1, <1>3, WorkingOn DEF Look
  <2>2. CASE Registering(p) \/ State(c) \in Owned
    <3>1. CASE FailItem(p)
      BY <1>2, <1>3, <3>1 DEF Look
    <3>2. CASE Becomes(p, StepTo(T, "read"))
      <4>1. NoOriginal \in Configurations
        BY NothingSeen
      <4>2. Proceeds(T, StepTo(T, "read")) /\ StepTo(T, "read").now.step = "read"
        BY <2>1, <4>1, StepsProceed
      <4>3. ItemInv(StepTo(T, "read"), client)
        <5>1. T.now.do = "unregister" => client[c].entry \in Ours
          BY <2>1, <2>2, StatesAre
        <5>. QED
          BY <4>2, <5>1 DEF ItemInv, Proceeds
      <4>4. OperationInv(StepTo(T, "read"), server, client, skill)
        BY <2>1, <4>2, <4>3, ItemProceeds
      <4>. QED
        BY <1>3, <3>2, <4>4, GoesAlone DEF Look, Fits
    <3>. QED
      BY <1>3, <2>2, <3>1, <3>2 DEF Look, StepTo
  <2>3. CASE ~Registering(p) /\ State(c) \notin Owned
    <3>1. CASE FailItem(p)
      BY <1>2, <1>3, <3>1 DEF Look
    <3>2. CASE EndItem(p)
      BY <1>1, <1>3, <2>1, <2>3, <3>2, NothingToRemove DEF Look
    <3>. QED
      BY <1>3, <2>3, <3>1, <3>2 DEF Look
  <2>. QED
    BY <2>2, <2>3
<1>4. CASE Read(p)
  <2>1. /\ T \in Operations /\ OperationInv(T, server, client, skill) /\ T.now # NoItem
        /\ client[c].entry \in Entries /\ (Registering(p) <=> T.now.do # "unregister")
        /\ client[c] \in Configurations /\ Working(p, Files, "read")
    BY <1>1, <1>4, WorkingOn DEF Read
  <2>2. CASE FailItem(p)
    BY <1>2, <1>4, <2>2 DEF Read
  <2>3. CASE ~Registering(p) /\ State(c) \notin Owned /\ EndItem(p)
    BY <1>1, <1>4, <2>1, <2>3, NothingToRemove DEF Read
  <2>4. CASE (Registering(p) \/ State(c) \in Owned) /\ Becomes(p, ReadInto(T, client[c]))
    <3>1. /\ Proceeds(T, ReadInto(T, client[c])) /\ ReadInto(T, client[c]).now.step = "recheck"
          /\ ReadInto(T, client[c]).original = client[c]
      BY <2>1, StepsProceed
    <3>2. ItemInv(ReadInto(T, client[c]), client)
      <4>1. T.now.do = "unregister" => client[c].entry \in Ours
        BY <2>1, <2>4, StatesAre
      <4>. QED
        BY <3>1, <4>1 DEF ItemInv, Proceeds
    <3>3. OperationInv(ReadInto(T, client[c]), server, client, skill)
      BY <2>1, <3>1, <3>2, ItemProceeds
    <3>. QED
      BY <1>4, <2>4, <3>3, GoesAlone DEF Read, Fits
  <2>. QED
    BY <1>4, <2>2, <2>3, <2>4 DEF Read, ReadInto
<1>5. CASE Recheck(p)
  <2>1. /\ T \in Operations /\ OperationInv(T, server, client, skill) /\ T.now # NoItem
        /\ T.now.step = "recheck"
    BY <1>1, <1>5, WorkingOn DEF Recheck
  <2>2. CASE FailItem(p)
    BY <1>2, <1>5, <2>2 DEF Recheck
  <2>3. CASE client[c] = T.original /\ Becomes(p, StepTo(T, "commit"))
    <3>. DEFINE U == StepTo(T, "commit")
    <3>1. NoOriginal \in Configurations
      BY NothingSeen
    <3>2. Proceeds(T, U) /\ U.now.step = "commit" /\ U.original = T.original
      BY <2>1, <3>1, StepsProceed
    <3>. HIDE DEF U
    <3>3. T.now.do = "unregister" => T.original.entry \in Ours
      BY <2>1 DEF OperationInv, RegistrationsInv, ItemInv
    <3>4. ItemInv(U, client)
      BY <2>3, <3>2, <3>3 DEF ItemInv, Proceeds
    <3>5. OperationInv(U, server, client, skill)
      BY <2>1, <3>2, <3>4, ItemProceeds
    <3>. QED
      BY <1>5, <2>3, <3>5, GoesAlone DEF Recheck, Fits, U
  <2>. QED
    BY <1>5, <2>2, <2>3 DEF Recheck, StepTo
<1>6. ASSUME NEW rest \in {0, 1}, NEW cs \in SUBSET Clients, NEW step, Working(p, cs, step),
             client' = [client EXCEPT ![c] = Registration(p, rest)]
      PROVE  /\ c \in Clients /\ Registration(p, rest) \in Configurations
             /\ \A U : Finishes(T, U) => OperationInv(U, server, client', skill)
  <2>1. /\ OperationInv(T, server, client, skill) /\ T.now # NoItem /\ c \in Clients
        /\ Registering(p) <=> T.now.do # "unregister"
    BY <1>6, WorkingOn
  <2>2. Registration(p, rest).entry = (IF Registering(p) THEN "current" ELSE "none")
        /\ Registration(p, rest) \in Configurations
    BY <1>6 DEF Registration, Configurations, Entries
  <2>3. client'[c].entry = IF Registering(p) THEN "current" ELSE "none"
    BY <1>6, <2>1, <2>2 DEF InstallationInv, StateTyped
  <2>4. \A b \in Clients : b # c => client'[b] = client[b]
    BY <1>6 DEF InstallationInv, StateTyped
  <2>5. Done(T, client[c].entry, client'[c].entry)
    BY <2>1, <2>3 DEF Done, Ours, Registering
  <2>. QED
    BY <2>1, <2>2, <2>4, <2>5, ItemEnds
<1>7. CASE Commit(p)
  <2>1. Working(p, Files, "commit") /\ client' = [client EXCEPT ![c] = Registration(p, T.original.rest)]
    BY <1>7 DEF Commit
  <2>2. T \in Operations /\ T.original.rest \in {0, 1}
    BY <1>1, <2>1, WorkingOn, OperationsAre DEF Configurations
  <2>. DEFINE U == [T EXCEPT !.now = NoItem, !.original = NoOriginal]
  <2>3. /\ c \in Clients /\ Registration(p, T.original.rest) \in Configurations
        /\ OperationInv(U, server, client', skill)
    BY <1>1, <1>6, <2>1, <2>2, Over
  <2>4. [work EXCEPT ![p].now = NoItem, ![p].original = NoOriginal] = [work EXCEPT ![p] = U]
    BY DEF InstallationInv, StateTyped
  <2>. HIDE DEF U
  <2>5. work' = ClientChanged(p, c, [work EXCEPT ![p] = U])
    BY <1>7, <2>4 DEF Commit
  <2>. QED
    BY <1>7, <2>1, <2>3, <2>5, WritesClient DEF Commit, Fits
<1>8. CASE Run(p)
  <2>1. Working(p, Commands, "read") /\ client' = [client EXCEPT ![c] = Registration(p, client[c].rest)]
    BY <1>8 DEF Run
  <2>2. T \in Operations /\ client[c].rest \in {0, 1}
    BY <1>1, <2>1, WorkingOn DEF Configurations
  <2>. DEFINE U == [T EXCEPT !.now = NoItem]
  <2>3. /\ c \in Clients /\ Registration(p, client[c].rest) \in Configurations
        /\ OperationInv(U, server, client', skill)
    BY <1>1, <1>6, <2>1, <2>2, Over
  <2>4. [work EXCEPT ![p].now = NoItem] = [work EXCEPT ![p] = U]
    BY DEF InstallationInv, StateTyped
  <2>. HIDE DEF U
  <2>5. \/ work' = ClientChanged(p, c, [work EXCEPT ![p] = U])
        \/ work' = ClientChanged(p, c, [work EXCEPT ![p] = Idle])
    BY <1>8, <2>4 DEF Run
  <2>6. Fits(U, server, client', skill) /\ Fits(Idle, server, client', skill)
    BY <2>3 DEF Fits
  <2>. QED
    BY <1>8, <2>1, <2>3, <2>5, <2>6, WritesClient DEF Run
<1>. QED
  BY <1>3, <1>4, <1>5, <1>7, <1>8

\* The writing steps of an installation of skills.
LEMMA SkillSteps ==
    ASSUME InstallationInv, NEW p \in Processes, Install(p) \/ Restore(p)
    PROVE  InstallationInv'
<1>. DEFINE T == work[p]
<1>1. skill \in [Targets -> Directories] /\ work \in [Processes -> Operations \cup {Idle}]
  BY DEF InstallationInv, StateTyped
<1>2. CASE Install(p)
  <2>. DEFINE t == Target(T.at)
              U == [T EXCEPT !.at = T.at + 1]
  <2>1. T.stage = "install" /\ OperationInv(T, server, client, skill)
    BY <1>2, StagesOf DEF Install, Stages
  <2>2. T.at < 3 * Skills /\ (T.at % 3 = 0 \/ skill[t] # Absent)
        /\ skill' = [skill EXCEPT ![t] = Written(@, T.at % 3)]
    BY <1>2 DEF Install
  <2>3. t \in Targets /\ skill' \in [Targets -> Directories] /\ OperationInv(U, server, client, skill')
    BY <1>1, <2>1, <2>2, Installs
  <2>4. \A s \in Targets : s # t => skill'[s] = skill[s]
    BY <1>1, <2>2
  <2>5. [work EXCEPT ![p].at = T.at + 1] = [work EXCEPT ![p] = U]
    BY <1>1
  <2>. HIDE DEF U
  <2>6. \/ work' = SkillChanged(p, t, [work EXCEPT ![p] = U])
        \/ skill' = skill /\ work' = [work EXCEPT ![p] = U]
    BY <1>2, <2>5 DEF Install
  <2>. HIDE DEF t
  <2>. QED
    BY <1>2, <2>3, <2>4, <2>6, WritesSkill DEF Install, Fits
<1>3. CASE Restore(p)
  <2>. DEFINE t == T.at
              before == T.snapshot[t]
              half == [file |-> before.file, marker |-> skill[t].marker]
  <2>1. /\ T.stage = "restore" /\ OperationInv(T, server, client, skill) /\ T.at > 0
        /\ T.snapshot \in [Targets -> Directories]
    BY <1>3, StagesOf, OperationsAre DEF Restore, Stages
  <2>2. t \in Targets
    BY <1>1, <2>1, Restores
  <2>3. CASE /\ skill' = [skill EXCEPT ![t] = before]
             /\ work' = SkillChanged(p, t, [work EXCEPT ![p].at = t - 1])
    <3>. DEFINE U == [T EXCEPT !.at = T.at - 1]
    <3>1. skill' \in [Targets -> Directories] /\ OperationInv(U, server, client, skill')
      BY <1>1, <2>1, <2>3, Restores
    <3>2. [work EXCEPT ![p].at = t - 1] = [work EXCEPT ![p] = U]
      BY <1>1
    <3>3. \A s \in Targets : s # t => skill'[s] = skill[s]
      BY <1>1, <2>3
    <3>. HIDE DEF U
    <3>4. work' = SkillChanged(p, t, [work EXCEPT ![p] = U])
      BY <2>3, <3>2
    <3>. QED
      BY <1>3, <2>2, <3>1, <3>3, <3>4, WritesSkill DEF Restore, Fits
  <2>4. CASE /\ skill' \in {skill} \cup (IF before # Absent /\ skill[t] # Absent
                                         THEN {[skill EXCEPT ![t] = half]} ELSE {})
             /\ work' = SkillChanged(p, t, [work EXCEPT ![p].at = 0, ![p].exact = FALSE])
    <3>. DEFINE U == [T EXCEPT !.at = 0, !.exact = FALSE]
    <3>1. [work EXCEPT ![p].at = 0, ![p].exact = FALSE] = [work EXCEPT ![p] = U]
      BY <1>1
    <3>2. /\ skill' \in [Targets -> Directories]
          /\ \A s \in Targets : skill'[s].marker = skill[s].marker
          /\ \A s \in Targets : s # t => skill'[s] = skill[s]
      <4>1. CASE skill' = skill
        BY <1>1, <4>1
      <4>2. CASE before # Absent /\ skill[t] # Absent /\ skill' = [skill EXCEPT ![t] = half]
        <5>1. before \in Directories /\ skill[t] \in Directories
          BY <1>1, <2>1, <2>2
        <5>2. half \in Directories /\ half.marker = skill[t].marker
          BY <4>2, <5>1 DEF Directories
        <5>. HIDE DEF half
        <5>. QED
          BY <1>1, <2>2, <4>2, <5>2
      <4>. QED
        BY <2>4, <4>1, <4>2
    <3>3. OperationInv(U, server, client, skill')
      BY <2>1, <3>2, StopsRestoring
    <3>. HIDE DEF U
    <3>4. work' = SkillChanged(p, t, [work EXCEPT ![p] = U])
      BY <2>4, <3>1
    <3>. QED
      BY <1>3, <2>2, <3>2, <3>3, <3>4, WritesSkill DEF Restore, Fits
  <2>. QED
    BY <1>3, <2>3, <2>4 DEF Restore, RestoredTo
<1>. QED
  BY <1>2, <1>3

\* The steps of the assistants and the person.
LEMMA OthersSteps ==
    ASSUME InstallationInv,
           (\E c \in Clients : ClientEdited(c)) \/ (\E t \in Targets : SkillEdited(t)) \/ ServerRemoved
    PROVE  InstallationInv'
<1>1. /\ StateTyped /\ work \in [Processes -> Operations \cup {Idle}]
      /\ client \in [Clients -> Configurations] /\ skill \in [Targets -> Directories]
  BY DEF InstallationInv, StateTyped
<1>2. edits < MaxEdits /\ edits' = edits + 1 => edits' \in 0 .. MaxEdits
  BY <1>1, AssumedConstants DEF StateTyped
<1>3. ASSUME \A p \in Processes : Fits(work'[p], server', client', skill')
      PROVE  \A p \in Processes : work'[p] \in Operations \cup {Idle}
  BY <1>3 DEF Fits, OperationInv
<1>4. CASE \E c \in Clients : ClientEdited(c)
  <2>1. PICK c \in Clients : ClientEdited(c)
    BY <1>4
  <2>2. client' \in [Clients -> Configurations] /\ \A b \in Clients : b # c => client'[b] = client[b]
    BY <1>1, <2>1 DEF ClientEdited
  <2>3. work' = [p \in Processes |-> IF work[p] = Idle THEN Idle ELSE Disturbed(work[p], c)]
    BY <2>1 DEF ClientEdited, Disturbed
  <2>4. ASSUME NEW p \in Processes PROVE Fits(work'[p], server, client', skill)
    <3>1. CASE work[p] = Idle
      BY <2>3, <3>1 DEF Fits
    <3>2. CASE work[p] # Idle
      <4>1. OperationInv(work[p], server, client, skill)
        BY <3>2 DEF InstallationInv
      <4>2. OperationInv(Disturbed(work[p], c), server, client', skill)
        BY <2>2, <4>1, OthersWriteClients
      <4>. QED
        BY <2>3, <3>2, <4>2 DEF Fits
    <3>. QED
      BY <3>1, <3>2
  <2>5. UNCHANGED <<server, skill>> /\ edits' \in 0 .. MaxEdits
    BY <1>2, <2>1 DEF ClientEdited
  <2>6. work' \in [Processes -> Operations \cup {Idle}]
    BY <1>3, <2>3, <2>4, <2>5
  <2>. QED
    BY <1>1, <2>2, <2>4, <2>5, <2>6 DEF InstallationInv, StateTyped, Fits
<1>5. CASE \E t \in Targets : SkillEdited(t)
  <2>1. PICK t \in Targets : SkillEdited(t)
    BY <1>5
  <2>2. skill' \in [Targets -> Directories] /\ \A b \in Targets : b # t => skill'[b] = skill[b]
    <3>1. Absent \in Directories /\ [file |-> "old", marker |-> FALSE] \in Directories
      BY DEF Directories
    <3>. QED
      BY <1>1, <2>1, <3>1 DEF SkillEdited
  <2>3. work' = [p \in Processes |-> IF work[p] = Idle THEN Idle
                                     ELSE [work[p] EXCEPT !.touched = @ \cup {t}]]
    BY <2>1 DEF SkillEdited
  <2>4. ASSUME NEW p \in Processes PROVE Fits(work'[p], server, client, skill')
    <3>1. CASE work[p] = Idle
      BY <2>3, <3>1 DEF Fits
    <3>2. CASE work[p] # Idle
      <4>1. OperationInv(work[p], server, client, skill)
        BY <3>2 DEF InstallationInv
      <4>2. OperationInv([work[p] EXCEPT !.touched = @ \cup {t}], server, client, skill')
        BY <2>2, <4>1, OthersWriteSkills
      <4>. QED
        BY <2>3, <3>2, <4>2 DEF Fits
    <3>. QED
      BY <3>1, <3>2
  <2>5. UNCHANGED <<server, client>> /\ edits' \in 0 .. MaxEdits
    BY <1>2, <2>1 DEF SkillEdited
  <2>6. work' \in [Processes -> Operations \cup {Idle}]
    BY <1>3, <2>3, <2>4, <2>5
  <2>. QED
    BY <1>1, <2>2, <2>4, <2>5, <2>6 DEF InstallationInv, StateTyped, Fits
<1>6. CASE ServerRemoved
  <2>1. server' = FALSE /\ UNCHANGED <<client, skill>> /\ edits' \in 0 .. MaxEdits
    BY <1>2, <1>6 DEF ServerRemoved
  <2>2. work' = [p \in Processes |-> IF work[p] = Idle THEN Idle ELSE [work[p] EXCEPT !.stale = Clients]]
    BY <1>6 DEF ServerRemoved, ServerChanged
  <2>3. ASSUME NEW p \in Processes PROVE Fits(work'[p], FALSE, client, skill)
    <3>1. CASE work[p] = Idle
      BY <2>2, <3>1 DEF Fits
    <3>2. CASE work[p] # Idle
      <4>1. OperationInv(work[p], server, client, skill)
        BY <3>2 DEF InstallationInv
      <4>2. OperationInv([work[p] EXCEPT !.stale = Clients], FALSE, client, skill)
        BY <4>1, OthersRemoveServer
      <4>. QED
        BY <2>2, <3>2, <4>2 DEF Fits
    <3>. QED
      BY <3>1, <3>2
  <2>4. work' \in [Processes -> Operations \cup {Idle}]
    BY <1>3, <2>1, <2>2, <2>3
  <2>. QED
    BY <1>1, <2>1, <2>3, <2>4 DEF InstallationInv, StateTyped, Fits
<1>. QED
  BY <1>4, <1>5, <1>6

LEMMA Preserved == InstallationInv /\ [Next]_vars => InstallationInv'
<1>. SUFFICES ASSUME InstallationInv, [Next]_vars PROVE InstallationInv'
  OBVIOUS
<1>1. ASSUME NEW p \in Processes, NEW kind \in Kinds, NEW named \in SUBSET Clients,
             NEW skills \in BOOLEAN, kind # "headless" => named = {} /\ skills = (kind = "skills"),
             Begin(p, kind, named, skills)
      PROVE  InstallationInv'
  <2>1. OperationInv(Begun(kind, named, skills), server, client, skill)
    BY <1>1, Begins
  <2>2. Becomes(p, Begun(kind, named, skills)) /\ UNCHANGED <<server, client, skill, edits>>
    BY <1>1 DEF Begin, Begun
  <2>. QED
    BY <2>1, <2>2, GoesAlone DEF Fits
<1>2. ASSUME NEW p \in Processes, Works(p) PROVE InstallationInv'
  BY <1>2, PlainSteps, RegistrationSteps, SkillSteps DEF Works
<1>3. CASE UNCHANGED vars
  BY <1>3 DEF vars, InstallationInv, StateTyped
<1>. QED
  BY <1>1, <1>2, <1>3, OthersSteps DEF Next

\* Whatever happens, the state is well formed and every operation satisfies the
\* invariant above: what it has read is still so, unless others changed it.
THEOREM Invariant == Spec => []InstallationInv
<1>. QED
  BY Initially, Preserved, PTL DEF Spec

-----------------------------------------------------------------------------
(* What follows from it.                                                    *)

\* The state of the installation is well formed at all times, and only a process that
\* works on clients has something to do with them.
THEOREM TypeCorrect == Spec => []TypeOK
<1>1. InstallationInv => TypeOK
  <2>. SUFFICES ASSUME InstallationInv PROVE TypeOK
    OBVIOUS
  <2>1. ASSUME NEW p \in Processes, work[p] # Idle
        PROVE  /\ work[p].seen \in [Clients -> States]
               /\ work[p].snapshot \in [Targets -> Directories]
               /\ work[p].stage = "clients" \/ work[p].todo = {} \/ work[p].stage = "server"
               /\ work[p].now # NoItem => work[p].stage = "clients"
    <3>1. OperationInv(work[p], server, client, skill)
      BY <2>1 DEF InstallationInv
    <3>2. work[p].seen \in [Clients -> States] /\ work[p].snapshot \in [Targets -> Directories]
      BY <3>1, OperationsAre DEF OperationInv
    <3>. QED
      BY <3>1, <3>2 DEF OperationInv, Shape
  <2>. QED
    BY <2>1 DEF TypeOK, InstallationInv, StateTyped
<1>. QED
  BY <1>1, Invariant, PTL

\* A command ends as it is told: an installation of skills that fails has changed no
\* skill, and one that succeeds has registered, removed and installed what it was asked
\* for, except what others changed since it looked.
THEOREM CommandsEndAsReported == Spec => []EndsAsReported
<1>1. ASSUME InstallationInv PROVE SkillsRestored
  <2>. SUFFICES ASSUME NEW p \in Processes, Stage(p) = "restore", work[p].at = 0, work[p].exact,
                       NEW t \in Targets \ work[p].touched
                PROVE  skill[t] = work[p].snapshot[t]
    BY DEF SkillsRestored
  <2>1. work[p].stage = "restore" /\ SkillsInv(work[p], skill)
    BY <1>1, StagesOf DEF Stages, OperationInv
  <2>2. t > 0
    BY AssumedConstants DEF Targets
  <2>. QED
    BY <2>1, <2>2 DEF SkillsInv
<1>2. ASSUME InstallationInv PROVE SuccessIsInstalled
  <2>. SUFFICES ASSUME NEW p \in Processes, Stage(p) = "succeeded"
                PROVE  /\ work[p].kind = "headless" =>
                            \A c \in work[p].named \ work[p].stale : State(c) = "registered"
                       /\ work[p].kind = "uninstall" =>
                            \A c \in Clients \ work[p].stale : State(c) \notin Owned
                       /\ work[p].skills =>
                            \A t \in Targets \ work[p].touched : SkillState(t) = "current"
    BY DEF SuccessIsInstalled
  <2>. DEFINE T == work[p]
  <2>1. /\ T.stage = "succeeded" /\ T.named \subseteq Clients /\ Shape(T)
        /\ RegistrationsInv(T, server, client) /\ SkillsInv(T, skill)
    BY <1>2, StagesOf, OperationsAre DEF Stages, OperationInv
  <2>. HIDE DEF T
  <2>2. \A c : ~Awaits(T, c, "register") /\ ~Awaits(T, c, "unregister")
    BY <2>1 DEF Shape, Awaits, NoItem
  <2>3. /\ \A c \in Clients : client[c].entry \in Entries
        /\ \A t \in Targets : skill[t] \in Directories
    BY <1>2 DEF InstallationInv, StateTyped, Configurations
  <2>4. ASSUME T.kind = "headless", NEW c \in T.named \ T.stale PROVE State(c) = "registered"
    <3>1. c \in Clients /\ client[c].entry = "current" /\ server
      BY <2>1, <2>2, <2>4 DEF RegistrationsInv
    <3>. QED
      BY <2>3, <3>1, StatesAre
  <2>5. ASSUME T.kind = "uninstall", NEW c \in Clients \ T.stale PROVE State(c) \notin Owned
    <3>1. client[c].entry \notin Ours
      BY <2>1, <2>2, <2>5 DEF RegistrationsInv
    <3>. QED
      BY <2>3, <3>1, StatesAre
  <2>6. ASSUME T.skills, NEW t \in Targets \ T.touched PROVE SkillState(t) = "current"
    BY <2>1, <2>3, <2>6, SkillStatesAre DEF SkillsInv
  <2>. QED
    BY <2>4, <2>5, <2>6 DEF T
<1>3. InstallationInv => EndsAsReported
  BY <1>1, <1>2 DEF EndsAsReported
<1>. QED
  BY <1>3, Invariant, PTL

\* A configuration that p is said to change is changed by its own Commit or Run.
LEMMA ChangesOwn ==
    ASSUME InstallationInv, Next, NEW p \in Processes, NEW c \in Clients, Changes(p, c)
    PROVE  (Commit(p) \/ Run(p)) /\ work[p].now.client = c
<1>1. /\ work[p] \in Operations /\ work[p].now.client = c /\ client'[c] # client[c]
      /\ work'[p] = Idle \/ work'[p].now = NoItem
  BY DEF Changes, InstallationInv, StateTyped
<1>2. \A b : Disturbed(work[p], b) # Idle /\ Disturbed(work[p], b).now # NoItem
  <2>1. work[p].now # NoItem
    BY <1>1, AssumedConstants DEF NoItem
  <2>2. ASSUME NEW b
        PROVE  Disturbed(work[p], b).stage = work[p].stage /\ Disturbed(work[p], b).now = work[p].now
    BY <1>1 DEF Operations, Disturbed
  <2>3. work[p].stage # "idle"
    BY <1>1, OperationsAre DEF Stages
  <2>. QED
    BY <2>1, <2>2, <2>3 DEF Idle
<1>3. work[p] # Idle
  BY <1>1, OperationsAre
<1>4. ASSUME NEW b \in Clients, ClientEdited(b) PROVE FALSE
  <2>1. work'[p] = Disturbed(work[p], b)
    BY <1>3, <1>4 DEF ClientEdited, Disturbed
  <2>. QED
    BY <1>1, <1>2, <2>1
<1>5. ASSUME NEW q \in Processes, q # p, Commit(q) \/ Run(q) PROVE FALSE
  <2>1. PICK b, w : w[p] = work[p] /\ work' = ClientChanged(q, b, w)
    BY <1>5 DEF Commit, Run, InstallationInv, StateTyped
  <2>2. work'[p] = Disturbed(work[p], b)
    BY <1>3, <1>5, <2>1 DEF ClientChanged, Disturbed
  <2>. QED
    BY <1>1, <1>2, <2>2
<1>6. (\E q \in Processes : Commit(q) \/ Run(q)) \/ (\E b \in Clients : ClientEdited(b))
  BY <1>1 DEF Next, Works, Begin, Inspect, InstallServer, Fail, Return, Take, ClientsDone, Look, Read,
              Recheck, Validate, Snapshot, Install, Installed, Restore, Restored, SkillEdited,
              ServerRemoved
<1>. QED
  BY <1>1, <1>4, <1>5, <1>6

\* What p knows of the configuration that it changes.
LEMMA ChangesKnowing ==
    ASSUME InstallationInv, Next, NEW p \in Processes, NEW c \in Clients, Changes(p, c)
    PROVE  /\ client[c].entry = "other" =>
                IF Registering(p) THEN work[p].seen[c] = "conflict" \/ c \in work[p].stale
                                  ELSE c \in work[p].late
           /\ client'[c].rest # client[c].rest => c \in work[p].late
<1>. DEFINE T == work[p]
<1>1. (Commit(p) \/ Run(p)) /\ T.now.client = c
  BY ChangesOwn
<1>2. Files \in SUBSET Clients /\ Commands \in SUBSET Clients
  BY DEF Clients
<1>3. /\ T \in Operations /\ OperationInv(T, server, client, skill) /\ T.stage = "clients"
      /\ T.now \in Items /\ T.now # NoItem /\ client[c].entry \in Entries
      /\ (Commit(p) => T.now.step = "commit") /\ (Run(p) => T.now.step = "read")
      /\ (Registering(p) <=> T.now.do # "unregister")
  BY <1>1, <1>2, WorkingOn DEF Commit, Run
<1>4. c \notin T.late => IF Commit(p) THEN client[c] = T.original ELSE TRUE
  BY <1>1, <1>3 DEF OperationInv, RegistrationsInv, ItemInv
<1>5. ASSUME client[c].entry = "other", Registering(p), c \notin T.stale
      PROVE  T.seen[c] = "conflict"
  <2>1. T.seen[c] \in {"conflict", "invalid"}
    BY <1>3, <1>5 DEF OperationInv, RegistrationsInv, Looked
  <2>2. T.seen[c] # "invalid"
    BY <1>1, <1>3, <1>5, DoableIs DEF OperationInv, Registering
  <2>. QED
    BY <2>1, <2>2
<1>6. ASSUME ~Registering(p), c \notin T.late PROVE client[c].entry \in Ours
  <2>1. T.now.do = "unregister"
    BY <1>3, <1>6
  <2>. QED
    BY <1>1, <1>3, <1>6, <2>1 DEF OperationInv, RegistrationsInv, ItemInv
<1>7. ASSUME c \notin T.late PROVE client'[c].rest = client[c].rest
  <2>1. client'[c] = Registration(p, client[c].rest)
    <3>1. client \in [Clients -> Configurations]
      BY DEF InstallationInv, StateTyped
    <3>2. CASE Commit(p)
      BY <1>1, <1>4, <1>7, <3>1, <3>2 DEF Commit
    <3>3. CASE Run(p)
      BY <1>1, <3>1, <3>3 DEF Run
    <3>. QED
      BY <1>1, <3>2, <3>3
  <2>. QED
    BY <2>1 DEF Registration
<1>. QED
  BY <1>5, <1>6, <1>7 DEF Ours

\* A directory that is written without a marker was touched, or made by the installer.
LEMMA SkillsKnowing ==
    ASSUME InstallationInv, Next, NEW t \in Targets, skill'[t] # skill[t], skill[t] # Absent,
           ~skill[t].marker, edits' = edits
    PROVE  \E p \in Processes : /\ Stage(p) \in {"install", "restore"}
                                /\ work'[p] # Idle /\ work'[p].at # work[p].at
                                /\ t \in work[p].touched \/ work[p].snapshot[t] = Absent
<1>1. /\ work \in [Processes -> Operations \cup {Idle}] /\ skill \in [Targets -> Directories]
      /\ edits \in Nat
  BY AssumedConstants DEF InstallationInv, StateTyped
<1>2. PICK p \in Processes : Install(p) \/ Restore(p)
  <2>1. edits' # edits + 1
    BY <1>1
  <2>2. ~(\E c \in Clients : ClientEdited(c)) /\ ~(\E s \in Targets : SkillEdited(s)) /\ ~ServerRemoved
    BY <2>1 DEF ClientEdited, SkillEdited, ServerRemoved
  <2>3. ASSUME NEW p \in Processes, Works(p) PROVE Install(p) \/ Restore(p)
    BY <2>3 DEF Works, Inspect, InstallServer, Fail, Return, Take, ClientsDone, Look, Read, Recheck,
                Commit, Run, Validate, Snapshot, Installed, Restored
  <2>. QED
    BY <2>2, <2>3 DEF Next, Begin
<1>. DEFINE T == work[p]
<1>3. /\ Stage(p) \in {"install", "restore"} /\ T.stage \in {"install", "restore"}
      /\ T \in Operations /\ OperationInv(T, server, client, skill) /\ T.at \in Nat
  BY <1>2, StagesOf, OperationsAre DEF Install, Restore, Stages
<1>4. t \in T.touched \/ T.snapshot[t] = Absent
  BY <1>3 DEF OperationInv, SkillsInv
<1>5. work'[p].at # T.at /\ work'[p] \in Operations
  <2>1. CASE Install(p)
    <3>1. work'[p] = [T EXCEPT !.at = T.at + 1]
      BY <1>1, <2>1 DEF Install, SkillChanged
    <3>2. T.at + 1 \in Nat /\ T.at + 1 # T.at
      BY <1>3
    <3>. QED
      BY <1>3, <3>1, <3>2 DEF Operations
  <2>2. CASE Restore(p)
    <3>1. T.at > 0 /\ \/ work'[p] = [T EXCEPT !.at = T.at - 1]
                      \/ work'[p] = [T EXCEPT !.at = 0, !.exact = FALSE]
      BY <1>1, <2>2 DEF Restore, SkillChanged
    <3>2. T.at - 1 \in Nat /\ T.at - 1 # T.at /\ 0 # T.at
      BY <1>3, <3>1
    <3>3. ASSUME NEW n \in Nat
          PROVE  /\ [T EXCEPT !.at = n] \in Operations /\ [T EXCEPT !.at = n].at = n
                 /\ [T EXCEPT !.at = n, !.exact = FALSE] \in Operations
                 /\ [T EXCEPT !.at = n, !.exact = FALSE].at = n
      BY <1>3 DEF Operations
    <3>4. CASE work'[p] = [T EXCEPT !.at = T.at - 1]
      BY <3>2, <3>3, <3>4
    <3>5. CASE work'[p] = [T EXCEPT !.at = 0, !.exact = FALSE]
      BY <3>2, <3>3, <3>5
    <3>. QED
      BY <3>1, <3>4, <3>5
  <2>. QED
    BY <1>2, <2>1, <2>2
<1>. QED
  BY <1>3, <1>4, <1>5, OperationsAre

\* No step destroys what is not Worklogger's: a registration of somebody else, the rest
\* of an assistant's file and a skill directory without the marker change only where a
\* person was asked or others wrote after the last look.
THEOREM OthersAreKept == Spec => OthersKept
<1>1. InstallationInv /\ [Next]_vars
      => [RegistrationsKept /\ SettingsKept /\ UnownedSkillsKept]_vars
  <2>. SUFFICES ASSUME InstallationInv, Next
                PROVE  RegistrationsKept /\ SettingsKept /\ UnownedSkillsKept
    OBVIOUS
  <2>1. RegistrationsKept /\ SettingsKept
    BY ChangesKnowing DEF RegistrationsKept, SettingsKept
  <2>2. UnownedSkillsKept
    BY SkillsKnowing DEF UnownedSkillsKept
  <2>. QED
    BY <2>1, <2>2
<1>. QED
  BY <1>1, Invariant, PTL DEF Spec, OthersKept
=============================================================================

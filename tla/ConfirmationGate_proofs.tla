---------------------- MODULE ConfirmationGate_proofs ----------------------
(***************************************************************************)
(* Theorems about the confirmation gate for every set of payloads, every   *)
(* lifetime and table size, and every behaviour of the wall clock.         *)
(***************************************************************************)
EXTENDS ConfirmationGate, FiniteSetTheorems, TLAPS

\* What the table says about the history: an entry that is still pending was
\* neither used nor refused, and holds what was shown and when it was shown.
TableFollowsLedger ==
    \A t \in DOMAIN pending :
        /\ ledger[t].uses = 0
        /\ ~ledger[t].refused
        /\ pending[t].payload = ledger[t].payload
        /\ pending[t].expires_at = ledger[t].issuedAt + TTL

\* The inductive invariant.  SingleOutcome is not inductive alone: a step
\* grants a token because the table has it, so the table must be known to
\* hold only tokens without an outcome.
GateInv == TypeOK /\ TableFollowsLedger /\ SingleOutcome /\ CapacityRespected

-----------------------------------------------------------------------------
(* The helpers of the code *)

\* Trimming the table never adds a key, and room for one more is left.
LEMMA RoomMadeLemma ==
    ASSUME NEW keys, IsFiniteSet(keys), NEW kept \in RoomMade(keys)
    PROVE  /\ kept \subseteq keys
           /\ IsFiniteSet(kept)
           /\ Cardinality(kept) + 1 <= MaximumPending
<1>1. kept \subseteq keys /\ IsFiniteSet(kept)
  BY FS_Subset DEF RoomMade
<1>2. Cardinality(keys) \in Nat /\ Cardinality(kept) \in Nat
  BY <1>1, FS_CardinalityType
<1>3. Cardinality(kept) = IF Cardinality(keys) < MaximumPending
                          THEN Cardinality(keys) ELSE MaximumPending - 1
  BY DEF RoomMade
<1> QED
  BY <1>1, <1>2, <1>3, GateAssumption

\* The table is finite and remove_expired keeps some of it.
LEMMA TableFinite ==
    ASSUME TypeOK
    PROVE  /\ IsFiniteSet(DOMAIN pending)
           /\ Unexpired \subseteq DOMAIN pending
           /\ IsFiniteSet(Unexpired)
           /\ Cardinality(Unexpired) <= Cardinality(DOMAIN pending)
<1>1. sequence - 1 \in Int /\ DOMAIN pending \subseteq 0 .. (sequence - 1)
  BY GateAssumption DEF TypeOK
<1>2. IsFiniteSet(0 .. (sequence - 1))
  BY <1>1, FS_Interval
<1>3. IsFiniteSet(DOMAIN pending)
  BY <1>1, <1>2, FS_Subset
<1>4. Unexpired \in SUBSET DOMAIN pending
  BY DEF Unexpired
<1> QED
  BY <1>3, <1>4, FS_Subset

-----------------------------------------------------------------------------
(* Type correctness *)

LEMMA TypeInit == Init => TypeOK
<1> SUFFICES ASSUME Init PROVE TypeOK
  OBVIOUS
<1> USE GateAssumption DEF Init
<1>1. DOMAIN ledger = {} /\ DOMAIN pending = {}
  OBVIOUS
<1>2. ledger \in [DOMAIN ledger -> Previews]
  BY <1>1
<1>3. pending \in [DOMAIN pending -> PendingConfirmation]
  BY <1>1
<1>4. reply \in Replies
  BY DEF Replies
<1>5. poisoned \in BOOLEAN
  OBVIOUS
<1>6. sequence \in 0 .. MaxSequence /\ now \in Nat
  OBVIOUS
<1> QED
  BY <1>1, <1>2, <1>3, <1>4, <1>5, <1>6 DEF TypeOK

\* Nothing changes the kind of clock.
LEMMA ClockNext == [Next]_vars => steady' = steady
BY DEF Next, Prepare, PrepareWithoutClock, PreparePanics, ConsumeKnown, ConsumeMissing,
       CallPoisoned, Restart, Tick, vars

LEMMA TypeNext == TypeOK /\ [Next]_vars => TypeOK'
<1> SUFFICES ASSUME TypeOK, [Next]_vars PROVE TypeOK'
  OBVIOUS
<1> USE GateAssumption
<1>0. Unexpired \subseteq DOMAIN pending
  BY DEF Unexpired
<1>s. steady' \in BOOLEAN
  <2>1. steady \in BOOLEAN /\ steady' = steady
    BY ClockNext DEF TypeOK
  <2> QED
    BY <2>1
<1>1. ASSUME NEW payload \in Payloads, Prepare(payload) PROVE TypeOK'
  <2>1. PICK kept \in RoomMade(Unexpired), stamp \in Readings :
           pending' = [t \in kept \cup {sequence} |->
                        IF t = sequence
                        THEN [payload |-> payload, expires_at |-> now + TTL, stamp |-> stamp]
                        ELSE pending[t]]
    BY <1>1 DEF Prepare
  <2>2. kept \subseteq DOMAIN pending /\ stamp \in Nat
    BY <1>0 DEF RoomMade, Readings, TypeOK
  <2>3. sequence' \in 0 .. MaxSequence /\ sequence' = sequence + 1
    BY <1>1 DEF Prepare, NumberDrawn, TypeOK
  <2>4. DOMAIN ledger' = DOMAIN ledger \cup {sequence}
    BY <1>1 DEF Prepare
  <2>5. DOMAIN ledger' \subseteq 0 .. (sequence' - 1)
    BY <2>3, <2>4 DEF TypeOK
  <2>6. DOMAIN pending' = kept \cup {sequence}
    BY <2>1
  <2>7. ledger' \in [DOMAIN ledger' -> Previews]
    BY <1>1 DEF Prepare, Previews, TypeOK
  <2>8. pending' \in [DOMAIN pending' -> PendingConfirmation]
    BY <2>1, <2>2 DEF PendingConfirmation, TypeOK
  <2>9. reply' \in Replies
    BY <1>1 DEF Prepare, Replies, Tokens, TypeOK
  <2>10. now' \in Nat /\ poisoned' \in BOOLEAN
    BY <1>1 DEF Prepare, TypeOK
  <2> QED
    BY <2>2, <2>3, <2>4, <2>5, <2>6, <2>7, <2>8, <2>9, <2>10, <1>s DEF TypeOK
<1>2. ASSUME PrepareWithoutClock PROVE TypeOK'
  <2>1. PICK kept \in RoomMade(Unexpired) : pending' = Keep(kept)
    BY <1>2 DEF PrepareWithoutClock
  <2>2. kept \subseteq DOMAIN pending
    BY <1>0 DEF RoomMade
  <2> QED
    BY <1>2, <2>1, <2>2, <1>s DEF PrepareWithoutClock, Keep, TypeOK, Replies, Errors
<1>3. ASSUME PreparePanics PROVE TypeOK'
  <2>1. PICK kept \in RoomMade(Unexpired) : pending' = Keep(kept)
    BY <1>3 DEF PreparePanics
  <2>2. kept \subseteq DOMAIN pending
    BY <1>0 DEF RoomMade
  <2>3. DOMAIN ledger \subseteq 0 .. (sequence' - 1) /\ sequence' \in 0 .. MaxSequence
    BY <1>3 DEF PreparePanics, NumberDrawn, TypeOK
  <2>4. /\ DOMAIN pending' \subseteq DOMAIN ledger
        /\ pending' \in [DOMAIN pending' -> PendingConfirmation]
    BY <2>1, <2>2 DEF Keep, TypeOK
  <2>5. ledger' = ledger /\ now' = now /\ reply' \in Replies
    BY <1>3 DEF PreparePanics, Replies, Errors
  <2>6. poisoned' \in BOOLEAN
    BY <1>3 DEF PreparePanics
  <2> QED
    BY <2>3, <2>4, <2>5, <2>6, <1>s DEF TypeOK
<1>4. ASSUME NEW token \in Tokens, NEW payload \in Payloads, ConsumeKnown(token, payload)
      PROVE  TypeOK'
  <2>1. token \in DOMAIN ledger
    BY <1>0, <1>4 DEF ConsumeKnown, TypeOK
  <2>2. ledger' \in [DOMAIN ledger -> Previews]
    <3>1. ledger[token] \in Previews
      BY <2>1 DEF TypeOK
    <3>2. [ledger[token] EXCEPT !.uses = @ + 1] \in Previews
      BY <3>1 DEF Previews
    <3>3. [ledger[token] EXCEPT !.refused = TRUE] \in Previews
      BY <3>1 DEF Previews
    <3>4. \/ ledger' = [ledger EXCEPT ![token] = [ledger[token] EXCEPT !.uses = @ + 1]]
          \/ ledger' = [ledger EXCEPT ![token] = [ledger[token] EXCEPT !.refused = TRUE]]
      BY <1>4, <2>1 DEF ConsumeKnown, TypeOK
    <3> QED
      BY <2>1, <3>2, <3>3, <3>4 DEF TypeOK
  <2>3. pending' \in [DOMAIN pending' -> PendingConfirmation]
        /\ DOMAIN pending' \subseteq DOMAIN pending
    BY <1>0, <1>4 DEF ConsumeKnown, TableAfterConsume, Keep, TypeOK
  <2>4. reply' \in Replies
    <3>1. reply' = Consumed(token, payload) \/ reply' = Failed("PayloadChanged")
      BY <1>4 DEF ConsumeKnown
    <3> QED
      BY <3>1 DEF Replies, Errors
  <2>5. DOMAIN ledger' = DOMAIN ledger
    BY <1>4 DEF ConsumeKnown, TypeOK
  <2>6. sequence' = sequence /\ now' = now /\ poisoned' = poisoned
    BY <1>4 DEF ConsumeKnown
  <2> QED
    BY <2>2, <2>3, <2>4, <2>5, <2>6, <1>s DEF TypeOK
<1>5. ASSUME NEW token \in Tokens, ConsumeMissing(token) PROVE TypeOK'
  BY <1>0, <1>5 DEF ConsumeMissing, Keep, TypeOK, Replies, Errors
<1>6. ASSUME CallPoisoned PROVE TypeOK'
  BY <1>6 DEF CallPoisoned, TypeOK, Replies, Errors
<1>7. ASSUME Restart PROVE TypeOK'
  <2>1. DOMAIN ledger' = DOMAIN ledger /\ ledger' \in [DOMAIN ledger' -> Previews]
    BY <1>7 DEF Restart, Previews, TypeOK
  <2>2. DOMAIN pending' = {} /\ pending' \in [DOMAIN pending' -> PendingConfirmation]
    BY <1>7 DEF Restart
  <2>3. poisoned' \in BOOLEAN
    BY <1>7 DEF Restart
  <2>4. sequence' = sequence /\ now' = now /\ reply' \in Replies
    BY <1>7 DEF Restart, Replies
  <2> QED
    BY <2>1, <2>2, <2>3, <2>4, <1>s DEF TypeOK
<1>8. ASSUME Tick PROVE TypeOK'
  BY <1>8 DEF Tick, TypeOK
<1>9. ASSUME UNCHANGED vars PROVE TypeOK'
  BY <1>9 DEF vars, TypeOK
<1> QED
  BY <1>1, <1>2, <1>3, <1>4, <1>5, <1>6, <1>7, <1>8, <1>9 DEF Next

\* The variables keep their types (TypeOK) whatever the calls, the clocks and
\* the restarts do.
THEOREM TypeCorrect == Spec => []TypeOK
  BY TypeInit, TypeNext, PTL DEF Spec

-----------------------------------------------------------------------------
(* The inductive invariant *)

\* A step that only drops entries of the table and leaves the history alone
\* keeps the invariant.
LEMMA TrimKeepsInv ==
    ASSUME GateInv, TypeOK', NEW keys \in SUBSET DOMAIN pending,
           pending' = Keep(keys), ledger' = ledger
    PROVE  GateInv'
<1>1. DOMAIN pending' = keys /\ \A t \in keys : pending'[t] = pending[t]
  BY DEF Keep
<1>2. TableFollowsLedger'
  BY <1>1 DEF GateInv, TableFollowsLedger
<1>3. SingleOutcome'
  BY DEF GateInv, SingleOutcome
<1>4. IsFiniteSet(DOMAIN pending)
  BY TableFinite DEF GateInv
<1>5. /\ Cardinality(keys) \in Nat /\ Cardinality(DOMAIN pending) \in Nat
      /\ Cardinality(keys) <= Cardinality(DOMAIN pending)
  BY <1>4, FS_Subset, FS_CardinalityType
<1>6. CapacityRespected'
  BY <1>1, <1>5, GateAssumption DEF GateInv, CapacityRespected
<1> QED
  BY <1>2, <1>3, <1>6 DEF GateInv

LEMMA GateInvInit == Init => GateInv
<1> SUFFICES ASSUME Init PROVE GateInv
  OBVIOUS
<1>1. DOMAIN pending = {} /\ DOMAIN ledger = {}
  BY DEF Init
<1>2. CapacityRespected
  BY <1>1, FS_EmptySet, GateAssumption DEF CapacityRespected
<1> QED
  BY <1>1, <1>2, TypeInit DEF GateInv, TableFollowsLedger, SingleOutcome

LEMMA GateInvNext == GateInv /\ [Next]_vars => GateInv'
<1> SUFFICES ASSUME GateInv, [Next]_vars PROVE GateInv'
  OBVIOUS
<1>1. TypeOK /\ TypeOK'
  BY TypeNext DEF GateInv
<1>2. Unexpired \subseteq DOMAIN pending /\ IsFiniteSet(Unexpired)
  BY <1>1, TableFinite
<1>3. ASSUME NEW payload \in Payloads, Prepare(payload) PROVE GateInv'
  <2>1. PICK kept \in RoomMade(Unexpired), stamp \in Readings :
           pending' = [t \in kept \cup {sequence} |->
                        IF t = sequence
                        THEN [payload |-> payload, expires_at |-> now + TTL, stamp |-> stamp]
                        ELSE pending[t]]
    BY <1>3 DEF Prepare
  <2>2. kept \subseteq DOMAIN pending /\ IsFiniteSet(kept) /\ Cardinality(kept) + 1 <= MaximumPending
    BY <1>2, RoomMadeLemma
  <2>3. /\ DOMAIN ledger' = DOMAIN ledger \cup {sequence}
        /\ ledger'[sequence] = [payload |-> payload, issuedAt |-> now, uses |-> 0,
                                refused |-> FALSE, lost |-> FALSE]
        /\ \A t \in DOMAIN ledger : t # sequence => ledger'[t] = ledger[t]
    BY <1>3 DEF Prepare
  <2>4. sequence \notin DOMAIN ledger
    BY <1>1, GateAssumption DEF TypeOK
  <2>5. /\ DOMAIN pending' = kept \cup {sequence}
        /\ pending'[sequence] = [payload |-> payload, expires_at |-> now + TTL, stamp |-> stamp]
        /\ \A t \in kept : t # sequence => pending'[t] = pending[t]
    BY <2>1
  <2>6. kept \subseteq DOMAIN ledger /\ sequence \notin kept
    BY <2>2, <2>4, <1>1 DEF TypeOK
  <2>7. TableFollowsLedger'
    BY <2>2, <2>3, <2>5, <2>6 DEF GateInv, TableFollowsLedger
  <2>8. SingleOutcome'
    BY <2>3, <2>4 DEF GateInv, SingleOutcome
  <2>9. CapacityRespected'
    <3>1. Cardinality(kept \cup {sequence}) = Cardinality(kept) + 1
      BY <2>2, <2>6, FS_AddElement
    <3> QED
      BY <2>2, <2>5, <3>1 DEF CapacityRespected
  <2> QED
    BY <1>1, <2>7, <2>8, <2>9 DEF GateInv
<1>4. ASSUME PrepareWithoutClock PROVE GateInv'
  <2>1. PICK kept \in RoomMade(Unexpired) : pending' = Keep(kept)
    BY <1>4 DEF PrepareWithoutClock
  <2>2. kept \in SUBSET DOMAIN pending
    BY <1>2, RoomMadeLemma
  <2> QED
    BY <1>1, <1>4, <2>1, <2>2, TrimKeepsInv DEF PrepareWithoutClock
<1>5. ASSUME PreparePanics PROVE GateInv'
  <2>1. PICK kept \in RoomMade(Unexpired) : pending' = Keep(kept)
    BY <1>5 DEF PreparePanics
  <2>2. kept \in SUBSET DOMAIN pending
    BY <1>2, RoomMadeLemma
  <2> QED
    BY <1>1, <1>5, <2>1, <2>2, TrimKeepsInv DEF PreparePanics
<1>6. ASSUME NEW token \in Tokens, NEW payload \in Payloads, ConsumeKnown(token, payload)
      PROVE  GateInv'
  <2>1. token \in DOMAIN pending /\ token \in DOMAIN ledger
    BY <1>1, <1>2, <1>6 DEF ConsumeKnown, TypeOK
  <2>2. ledger[token].uses = 0 /\ ~ledger[token].refused /\ ledger[token] \in Previews
    BY <1>1, <2>1 DEF GateInv, TableFollowsLedger, TypeOK
  <2>3. /\ DOMAIN ledger' = DOMAIN ledger
        /\ \A t \in DOMAIN ledger : t # token => ledger'[t] = ledger[t]
        /\ \/ ledger'[token] = [ledger[token] EXCEPT !.uses = @ + 1]
           \/ ledger'[token] = [ledger[token] EXCEPT !.refused = TRUE]
    BY <1>1, <1>6, <2>1 DEF ConsumeKnown, TypeOK
  <2>4. DOMAIN pending' = Unexpired \ {token} /\ \A t \in DOMAIN pending' : pending'[t] = pending[t]
    BY <1>6 DEF ConsumeKnown, TableAfterConsume, Keep
  <2>5. TableFollowsLedger'
    BY <1>1, <1>2, <2>3, <2>4 DEF GateInv, TableFollowsLedger, TypeOK
  <2>6. ledger'[token].uses <= 1 /\ (ledger'[token].refused => ledger'[token].uses = 0)
    BY <2>2, <2>3 DEF Previews
  <2>7. SingleOutcome'
    BY <2>3, <2>6 DEF GateInv, SingleOutcome
  <2>8. CapacityRespected'
    <3>1. Unexpired \ {token} \in SUBSET DOMAIN pending /\ IsFiniteSet(DOMAIN pending)
      BY <1>1, <1>2, TableFinite
    <3>2. /\ Cardinality(Unexpired \ {token}) \in Nat /\ Cardinality(DOMAIN pending) \in Nat
          /\ Cardinality(Unexpired \ {token}) <= Cardinality(DOMAIN pending)
      BY <3>1, FS_Subset, FS_CardinalityType
    <3> QED
      BY <2>4, <3>2, GateAssumption DEF GateInv, CapacityRespected
  <2> QED
    BY <1>1, <2>5, <2>7, <2>8 DEF GateInv
<1>7. ASSUME NEW token \in Tokens, ConsumeMissing(token) PROVE GateInv'
  BY <1>1, <1>2, <1>7, TrimKeepsInv DEF ConsumeMissing
<1>8. ASSUME CallPoisoned PROVE GateInv'
  BY <1>1, <1>8 DEF CallPoisoned, GateInv, TableFollowsLedger, SingleOutcome, CapacityRespected
<1>9. ASSUME Restart PROVE GateInv'
  <2>1. DOMAIN pending' = {}
    BY <1>9 DEF Restart
  <2>2. /\ DOMAIN ledger' = DOMAIN ledger
        /\ \A t \in DOMAIN ledger : ledger'[t].uses = ledger[t].uses
                                    /\ ledger'[t].refused = ledger[t].refused
    BY <1>1, <1>9 DEF Restart, TypeOK, Previews
  <2>3. CapacityRespected'
    BY <2>1, FS_EmptySet, GateAssumption DEF CapacityRespected
  <2> QED
    BY <1>1, <2>1, <2>2, <2>3 DEF GateInv, TableFollowsLedger, SingleOutcome
<1>10. ASSUME Tick PROVE GateInv'
  BY <1>1, <1>10 DEF Tick, GateInv, TableFollowsLedger, SingleOutcome, CapacityRespected
<1>11. ASSUME UNCHANGED vars PROVE GateInv'
  BY <1>1, <1>11 DEF vars, GateInv, TableFollowsLedger, SingleOutcome, CapacityRespected
<1> QED
  BY <1>3, <1>4, <1>5, <1>6, <1>7, <1>8, <1>9, <1>10, <1>11 DEF Next

LEMMA GateInvariant == Spec => []GateInv
  BY GateInvInit, GateInvNext, PTL DEF Spec

\* A token has one outcome (SingleOutcome): it authorizes at most one write,
\* and none after it was offered with a changed payload.
THEOREM SingleUse == Spec => []SingleOutcome
  BY GateInvariant, PTL DEF GateInv

\* prepare keeps the table within maximum_pending (CapacityRespected).
THEOREM Capacity == Spec => []CapacityRespected
  BY GateInvariant, PTL DEF GateInv

-----------------------------------------------------------------------------
(* Steps that authorize a write *)

\* Only consume grants, only the token it was called with, and only when the
\* lock can be taken.
LEMMA OnlyConsumeGrants ==
    ASSUME GateInv, [Next]_vars, NEW t \in DOMAIN ledger,
           ledger'[t].uses > ledger[t].uses
    PROVE  /\ ~poisoned
           /\ reply' = Consumed(t, ledger[t].payload)
           /\ now < ledger[t].issuedAt + TTL
<1>1. TypeOK /\ TypeOK' /\ ledger[t] \in Previews
  BY TypeNext DEF GateInv, TypeOK
<1>3. ASSUME ledger'[t].uses = ledger[t].uses PROVE FALSE
  BY <1>1, <1>3 DEF Previews
<1>4. ASSUME NEW payload \in Payloads, Prepare(payload) PROVE FALSE
  <2>1. t # sequence
    BY <1>1, GateAssumption DEF TypeOK
  <2> QED
    BY <1>3, <1>4, <2>1 DEF Prepare
<1>5. ASSUME Restart PROVE FALSE
  BY <1>1, <1>3, <1>5 DEF Restart, Previews
<1>6. ASSUME NEW token \in Tokens, NEW payload \in Payloads, ConsumeKnown(token, payload)
      PROVE  /\ ~poisoned
             /\ reply' = Consumed(t, ledger[t].payload)
             /\ now < ledger[t].issuedAt + TTL
  <2>1. token \in DOMAIN pending /\ token \in DOMAIN ledger /\ ~poisoned
    BY <1>1, <1>6 DEF ConsumeKnown, Unexpired, Lockable, TypeOK
  <2>2. t = token
    BY <1>1, <1>3, <1>6, <2>1 DEF ConsumeKnown, TypeOK
  <2>3. pending[token].payload = payload
    BY <1>1, <1>3, <1>6, <2>1, <2>2 DEF ConsumeKnown, TypeOK, Previews
  <2>4. reply' = Consumed(token, payload) /\ pending[token].expires_at > now
    BY <1>6, <2>3 DEF ConsumeKnown, Unexpired
  <2>5. /\ pending[token].payload = ledger[token].payload
        /\ pending[token].expires_at = ledger[token].issuedAt + TTL
    BY <2>1 DEF GateInv, TableFollowsLedger
  <2>6. now \in Nat /\ ledger[token].issuedAt \in Nat
    BY <1>1, <2>2 DEF TypeOK, Previews
  <2> QED
    BY <2>1, <2>2, <2>3, <2>4, <2>5, <2>6, GateAssumption
<1>7. CASE \/ PrepareWithoutClock \/ PreparePanics \/ CallPoisoned \/ Tick \/ UNCHANGED vars
           \/ \E token \in Tokens : ConsumeMissing(token)
  BY <1>3, <1>7 DEF PrepareWithoutClock, PreparePanics, CallPoisoned, Tick, vars, ConsumeMissing
<1> QED
  BY <1>4, <1>5, <1>6, <1>7 DEF Next

\* Whatever is authorized is what was shown, and in time (ConfirmedAsPreviewed).
THEOREM PreviewBound == Spec => ConfirmedAsPreviewed
<1>1. ASSUME GateInv, [Next]_vars
      PROVE  \A t \in DOMAIN ledger :
               ledger'[t].uses > ledger[t].uses =>
                  /\ reply' = Consumed(t, ledger[t].payload)
                  /\ now < ledger[t].issuedAt + TTL
  BY <1>1, OnlyConsumeGrants
<1> QED
  BY <1>1, GateInvariant, PTL DEF Spec, ConfirmedAsPreviewed

\* A poisoned lock authorizes nothing (FailsClosed).
THEOREM PoisonFailsClosed == Spec => FailsClosed
<1>1. ASSUME GateInv, [Next]_vars
      PROVE  poisoned => \A t \in DOMAIN ledger : ledger'[t].uses = ledger[t].uses
  <2> SUFFICES ASSUME poisoned, NEW t \in DOMAIN ledger
               PROVE  ledger'[t].uses = ledger[t].uses
    OBVIOUS
  <2>1. TypeOK /\ ledger[t] \in Previews
    BY <1>1 DEF GateInv, TypeOK
  <2>2. CASE Restart
    BY <2>1, <2>2 DEF Restart, Previews
  <2>3. CASE CallPoisoned \/ Tick \/ UNCHANGED vars
    BY <2>3 DEF CallPoisoned, Tick, vars
  <2> QED
    BY <1>1, <2>2, <2>3 DEF Next, Prepare, PrepareWithoutClock, PreparePanics,
                            ConsumeKnown, ConsumeMissing, Lockable
<1> QED
  BY <1>1, GateInvariant, PTL DEF Spec, FailsClosed

-----------------------------------------------------------------------------
(* The gate implements the one-time permit *)

\* A pending entry is an open permit, and the other way round.
LEMMA OpenIsPending == GateInv => Permit!Open = DOMAIN pending
<1> SUFFICES ASSUME GateInv PROVE Permit!Open = DOMAIN pending
  OBVIOUS
<1>1. DOMAIN permitsOfGate = DOMAIN ledger /\ DOMAIN pending \subseteq DOMAIN ledger
  BY DEF permitsOfGate, GateInv, TypeOK
<1>2. \A t \in DOMAIN ledger : permitsOfGate[t].status = permitStatus(t)
  BY DEF permitsOfGate
<1>3. \A t \in DOMAIN pending : permitStatus(t) = "open"
  BY DEF GateInv, TableFollowsLedger, permitStatus
<1>4. \A t \in DOMAIN ledger \ DOMAIN pending : permitStatus(t) # "open"
  BY DEF permitStatus
<1> QED
  BY <1>1, <1>2, <1>3, <1>4 DEF Permit!Open

\* Dropping entries from the table lapses their permits and touches no other.
LEMMA TrimLapses ==
    ASSUME GateInv, TypeOK', NEW keys \in SUBSET DOMAIN pending, DOMAIN pending' = keys,
           DOMAIN ledger' = DOMAIN ledger,
           \A t \in DOMAIN ledger : /\ ledger'[t].payload = ledger[t].payload
                                   /\ ledger'[t].issuedAt = ledger[t].issuedAt
                                   /\ ledger'[t].uses = ledger[t].uses
    PROVE  /\ permitsOfGate' = Permit!Lapsed(DOMAIN pending \ keys)
           /\ DOMAIN pending \ keys \in SUBSET DOMAIN permitsOfGate
           /\ DOMAIN pending \ keys \subseteq Permit!Open
<1>1. DOMAIN permitsOfGate = DOMAIN ledger /\ DOMAIN pending \subseteq DOMAIN ledger
  BY DEF permitsOfGate, GateInv, TypeOK
<1>2. \A t \in DOMAIN pending : ledger[t].uses = 0
  BY DEF GateInv, TableFollowsLedger
<1>3. \A t \in DOMAIN ledger : ledger[t].uses \in Nat
  BY DEF GateInv, TypeOK, Previews
<1>4. ASSUME NEW t \in DOMAIN ledger
      PROVE  permitsOfGate'[t] = Permit!Lapsed(DOMAIN pending \ keys)[t]
  <2>1. permitsOfGate[t] = [payload |-> ledger[t].payload, issuedAt |-> ledger[t].issuedAt,
                            status |-> permitStatus(t)]
    BY DEF permitsOfGate
  <2>2. permitsOfGate'[t] = [payload |-> ledger[t].payload, issuedAt |-> ledger[t].issuedAt,
                             status |-> permitStatus(t)']
    BY DEF permitsOfGate
  <2>3. permitStatus(t)' = IF t \in DOMAIN pending \ keys THEN "void" ELSE permitStatus(t)
    BY <1>2, <1>3 DEF permitStatus
  <2>4. Permit!Lapsed(DOMAIN pending \ keys)[t]
          = IF t \in DOMAIN pending \ keys
            THEN [permitsOfGate[t] EXCEPT !.status = "void"] ELSE permitsOfGate[t]
    BY <1>1 DEF Permit!Lapsed
  <2> QED
    BY <2>1, <2>2, <2>3, <2>4
<1>5. /\ permitsOfGate' = [t \in DOMAIN ledger |-> permitsOfGate'[t]]
      /\ Permit!Lapsed(DOMAIN pending \ keys)
            = [t \in DOMAIN ledger |-> Permit!Lapsed(DOMAIN pending \ keys)[t]]
  BY <1>1 DEF permitsOfGate, Permit!Lapsed
<1> QED
  BY <1>1, <1>4, <1>5, OpenIsPending

\* A trimming step that answers with an error is a denial.
LEMMA TrimDenies ==
    ASSUME GateInv, TypeOK', NEW keys \in SUBSET DOMAIN pending, DOMAIN pending' = keys,
           ledger' = ledger, now' = now, NEW e \in Errors, reply' = Failed(e)
    PROVE  Permit!PNext
<1>1. /\ permitsOfGate' = Permit!Lapsed(DOMAIN pending \ keys)
      /\ DOMAIN pending \ keys \in SUBSET DOMAIN permitsOfGate
      /\ DOMAIN pending \ keys \subseteq Permit!Open
  BY TrimLapses
<1>2. answerOfGate' = Permit!Denied
  BY DEF answerOfGate, Failed, Errors, Permit!Denied
<1>3. Permit!Deny(DOMAIN pending \ keys)
  BY <1>1, <1>2 DEF Permit!Deny
<1> QED
  BY <1>1, <1>3 DEF Permit!PNext

LEMMA InitImplements == Init => Permit!PInit
<1> SUFFICES ASSUME Init PROVE Permit!PInit
  OBVIOUS
<1>1. permitsOfGate = [t \in {} |-> 0]
  BY DEF Init, permitsOfGate
<1>2. answerOfGate = Permit!NoAnswer
  BY DEF Init, answerOfGate, NoReply, Permit!NoAnswer
<1> QED
  BY <1>1, <1>2 DEF Init, Permit!PInit

\* prepare issues a permit, and what it dropped from the table lapses.
LEMMA PrepareIssues ==
    ASSUME GateInv, GateInv', NEW payload \in Payloads, Prepare(payload)
    PROVE  Permit!PNext
<1>1. TypeOK /\ TypeOK' /\ Unexpired \subseteq DOMAIN pending /\ IsFiniteSet(Unexpired)
  BY TableFinite DEF GateInv
<1>2. PICK kept \in RoomMade(Unexpired), stamp \in Readings :
         DOMAIN pending' = kept \cup {sequence}
  BY DEF Prepare
<1>3. kept \subseteq DOMAIN pending
  BY <1>1, <1>2, RoomMadeLemma
<1>4. sequence \notin DOMAIN ledger /\ sequence \in Tokens
  BY <1>1, GateAssumption DEF TypeOK, Tokens
<1> DEFINE L == DOMAIN pending \ kept
<1>5. DOMAIN permitsOfGate = DOMAIN ledger /\ L \in SUBSET DOMAIN permitsOfGate
  BY <1>1 DEF permitsOfGate, TypeOK
<1>6. L \subseteq Permit!Open
  BY OpenIsPending
<1>7. /\ DOMAIN ledger' = DOMAIN ledger \cup {sequence}
      /\ ledger'[sequence] = [payload |-> payload, issuedAt |-> now, uses |-> 0,
                              refused |-> FALSE, lost |-> FALSE]
      /\ \A t \in DOMAIN ledger : ledger'[t] = ledger[t]
  BY <1>4 DEF Prepare
<1>8. permitsOfGate'[sequence] = [payload |-> payload, issuedAt |-> now, status |-> "open"]
  <2>1. ASSUME NEW t, t = sequence PROVE permitStatus(t)' = "open"
    BY <1>2, <1>7, <2>1 DEF permitStatus
  <2>2. \A t : t = sequence => permitsOfGate'[t].status = "open"
    BY <1>7, <2>1 DEF permitsOfGate
  <2>3. \A t \in DOMAIN ledger' : permitsOfGate'[t] =
           [payload |-> ledger'[t].payload, issuedAt |-> ledger'[t].issuedAt,
            status |-> permitsOfGate'[t].status]
    BY DEF permitsOfGate
  <2> QED
    BY <1>7, <2>2, <2>3
<1>9. ASSUME NEW t \in DOMAIN ledger PROVE permitsOfGate'[t] = Permit!Lapsed(L)[t]
  <2>1. permitsOfGate[t] = [payload |-> ledger[t].payload, issuedAt |-> ledger[t].issuedAt,
                            status |-> permitStatus(t)]
    BY DEF permitsOfGate
  <2>2. permitsOfGate'[t] = [payload |-> ledger[t].payload, issuedAt |-> ledger[t].issuedAt,
                             status |-> permitStatus(t)']
    BY <1>7 DEF permitsOfGate
  <2>3. permitStatus(t)' = IF t \in L THEN "void" ELSE permitStatus(t)
    <3>1. t # sequence /\ ledger[t].uses \in Nat
      BY <1>1, <1>4 DEF TypeOK, Previews
    <3>2. t \in DOMAIN pending => ledger[t].uses = 0
      BY DEF GateInv, TableFollowsLedger
    <3> QED
      BY <1>2, <1>3, <1>7, <3>1, <3>2 DEF permitStatus
  <2>4. Permit!Lapsed(L)[t] = IF t \in L THEN [permitsOfGate[t] EXCEPT !.status = "void"]
                                        ELSE permitsOfGate[t]
    BY <1>5 DEF Permit!Lapsed
  <2> QED
    BY <2>1, <2>2, <2>3, <2>4
<1>10. permitsOfGate' = [t \in DOMAIN ledger \cup {sequence} |-> permitsOfGate'[t]]
  BY <1>7 DEF permitsOfGate
<1>11. permitsOfGate' = [t \in DOMAIN permitsOfGate \cup {sequence} |->
                          IF t = sequence
                          THEN [payload |-> payload, issuedAt |-> now, status |-> "open"]
                          ELSE Permit!Lapsed(L)[t]]
  BY <1>4, <1>5, <1>8, <1>9, <1>10
<1>12. answerOfGate' = Permit!Issued(sequence, payload) /\ now' = now
  BY DEF Prepare, Prepared, answerOfGate, Permit!Issued
<1>13. Permit!Issue(sequence, payload, L)
  BY <1>4, <1>5, <1>6, <1>11, <1>12 DEF Permit!Issue
<1> QED
  BY <1>4, <1>5, <1>13 DEF Permit!PNext

\* consume with the payload that was shown redeems the permit.
LEMMA ConsumeRedeems ==
    ASSUME GateInv, GateInv', NEW token \in Tokens, NEW payload \in Payloads,
           ConsumeKnown(token, payload), pending[token].payload = payload
    PROVE  Permit!PNext
<1>1. TypeOK /\ TypeOK' /\ Unexpired \subseteq DOMAIN pending
  BY TableFinite DEF GateInv
<1>2. token \in DOMAIN pending /\ token \in DOMAIN ledger /\ pending[token].expires_at > now
  BY <1>1 DEF ConsumeKnown, Unexpired, TypeOK
<1>3. ledger[token].uses = 0 /\ ledger[token].payload = payload
      /\ pending[token].expires_at = ledger[token].issuedAt + TTL
  BY <1>2 DEF GateInv, TableFollowsLedger
<1>4. ledger[token] \in Previews
  BY <1>1, <1>2 DEF TypeOK
<1> DEFINE L == DOMAIN pending \ Unexpired
<1>5. DOMAIN pending' = Unexpired \ {token} /\ token \notin L
  BY <1>1 DEF ConsumeKnown, TableAfterConsume, Keep
<1>6. DOMAIN permitsOfGate = DOMAIN ledger /\ L \in SUBSET DOMAIN permitsOfGate
  BY <1>1 DEF permitsOfGate, TypeOK
<1>7. L \subseteq Permit!Open \ {token} /\ token \in Permit!Open
  BY <1>2, <1>5, OpenIsPending
<1>8. /\ DOMAIN ledger' = DOMAIN ledger
      /\ \A t \in DOMAIN ledger : t # token => ledger'[t] = ledger[t]
      /\ ledger'[token] = [ledger[token] EXCEPT !.uses = @ + 1]
  BY <1>1, <1>2 DEF ConsumeKnown, TypeOK
<1>9. permitsOfGate[token].payload = payload /\ permitsOfGate[token].issuedAt = ledger[token].issuedAt
  BY <1>2, <1>3 DEF permitsOfGate
<1>10. now < permitsOfGate[token].issuedAt + TTL
  BY <1>1, <1>2, <1>3, <1>4, <1>9, GateAssumption DEF TypeOK, Previews
<1>11. permitsOfGate'[token] = [payload |-> payload, issuedAt |-> ledger[token].issuedAt,
                                status |-> "used"]
  <2>1. [ledger[token] EXCEPT !.uses = @ + 1]
          = [payload |-> ledger[token].payload, issuedAt |-> ledger[token].issuedAt,
             uses |-> ledger[token].uses + 1, refused |-> ledger[token].refused,
             lost |-> ledger[token].lost]
    BY <1>4 DEF Previews
  <2>2. /\ ledger'[token].uses > 0
        /\ ledger'[token].payload = payload
        /\ ledger'[token].issuedAt = ledger[token].issuedAt
    BY <1>3, <1>8, <2>1
  <2>3. permitStatus(token)' = "used"
    BY <2>2 DEF permitStatus
  <2> QED
    BY <1>2, <1>8, <2>2, <2>3 DEF permitsOfGate
<1>12. ASSUME NEW t \in DOMAIN ledger, t # token
       PROVE  permitsOfGate'[t] = Permit!Lapsed(L)[t]
  <2>1. permitsOfGate[t] = [payload |-> ledger[t].payload, issuedAt |-> ledger[t].issuedAt,
                            status |-> permitStatus(t)]
    BY DEF permitsOfGate
  <2>2. permitsOfGate'[t] = [payload |-> ledger[t].payload, issuedAt |-> ledger[t].issuedAt,
                             status |-> permitStatus(t)']
    BY <1>8, <1>12 DEF permitsOfGate
  <2>3. permitStatus(t)' = IF t \in L THEN "void" ELSE permitStatus(t)
    <3>1. ledger[t].uses \in Nat
      BY <1>1 DEF TypeOK, Previews
    <3>2. t \in DOMAIN pending => ledger[t].uses = 0
      BY DEF GateInv, TableFollowsLedger
    <3> QED
      BY <1>1, <1>5, <1>8, <1>12, <3>1, <3>2 DEF permitStatus
  <2>4. Permit!Lapsed(L)[t] = IF t \in L THEN [permitsOfGate[t] EXCEPT !.status = "void"]
                                        ELSE permitsOfGate[t]
    BY <1>6 DEF Permit!Lapsed
  <2> QED
    BY <2>1, <2>2, <2>3, <2>4
<1>13. permitsOfGate' = [Permit!Lapsed(L) EXCEPT ![token].status = "used"]
  <2>1. Permit!Lapsed(L)[token] = permitsOfGate[token] /\ DOMAIN Permit!Lapsed(L) = DOMAIN ledger
    BY <1>2, <1>5, <1>6 DEF Permit!Lapsed
  <2>2. permitsOfGate[token] = [payload |-> payload, issuedAt |-> ledger[token].issuedAt,
                                status |-> permitStatus(token)]
    BY <1>2, <1>3 DEF permitsOfGate
  <2>3. permitsOfGate'[token] = [Permit!Lapsed(L)[token] EXCEPT !.status = "used"]
    BY <1>11, <2>1, <2>2
  <2>4. permitsOfGate' = [t \in DOMAIN ledger |-> permitsOfGate'[t]]
    BY <1>8 DEF permitsOfGate
  <2>5. Permit!Lapsed(L) = [t \in DOMAIN ledger |-> Permit!Lapsed(L)[t]]
    BY <1>6 DEF Permit!Lapsed
  <2> QED
    BY <1>2, <1>12, <2>1, <2>3, <2>4, <2>5
<1>14. answerOfGate' = Permit!Granted(token, payload) /\ now' = now
  BY DEF ConsumeKnown, Consumed, answerOfGate, Permit!Granted
<1>15. Permit!Redeem(token, payload, L)
  BY <1>7, <1>9, <1>10, <1>13, <1>14 DEF Permit!Redeem
<1> QED
  BY <1>6, <1>15 DEF Permit!PNext

\* A step of the gate is a step of the permit, or leaves it as it is.
LEMMA StepImplements ==
    GateInv /\ GateInv' /\ [Next]_vars => [Permit!PNext]_(Permit!permitVars)
<1> SUFFICES ASSUME GateInv, GateInv', [Next]_vars
             PROVE  Permit!PNext \/ UNCHANGED Permit!permitVars
  OBVIOUS
<1>1. TypeOK /\ TypeOK' /\ Unexpired \in SUBSET DOMAIN pending /\ IsFiniteSet(Unexpired)
  BY TableFinite DEF GateInv
<1>2. ASSUME NEW payload \in Payloads, Prepare(payload) PROVE Permit!PNext
  BY <1>2, PrepareIssues
<1>3. ASSUME PrepareWithoutClock PROVE Permit!PNext
  <2>1. PICK kept \in RoomMade(Unexpired) : pending' = Keep(kept)
    BY <1>3 DEF PrepareWithoutClock
  <2>2. kept \in SUBSET DOMAIN pending /\ DOMAIN pending' = kept
    BY <1>1, <2>1, RoomMadeLemma DEF Keep
  <2>3. "Unavailable" \in Errors
    BY DEF Errors
  <2> QED
    BY <1>1, <1>3, <2>2, <2>3, TrimDenies DEF PrepareWithoutClock
<1>4. ASSUME PreparePanics PROVE Permit!PNext
  <2>1. PICK kept \in RoomMade(Unexpired) : pending' = Keep(kept)
    BY <1>4 DEF PreparePanics
  <2>2. kept \in SUBSET DOMAIN pending /\ DOMAIN pending' = kept
    BY <1>1, <2>1, RoomMadeLemma DEF Keep
  <2>3. "panic" \in Errors
    BY DEF Errors
  <2> QED
    BY <1>1, <1>4, <2>2, <2>3, TrimDenies DEF PreparePanics
<1>5. ASSUME NEW token \in Tokens, NEW payload \in Payloads, ConsumeKnown(token, payload)
      PROVE  Permit!PNext
  <2>1. CASE pending[token].payload = payload
    BY <1>5, <2>1, ConsumeRedeems
  <2>2. CASE pending[token].payload # payload
    <3>1. Unexpired \ {token} \in SUBSET DOMAIN pending /\ DOMAIN pending' = Unexpired \ {token}
      BY <1>1, <1>5 DEF ConsumeKnown, TableAfterConsume, Keep
    <3>2. token \in DOMAIN ledger
      BY <1>1, <1>5 DEF ConsumeKnown, TypeOK
    <3>3. ledger' = [ledger EXCEPT ![token] = [ledger[token] EXCEPT !.refused = TRUE]]
      BY <1>1, <1>5, <2>2, <3>2 DEF ConsumeKnown, TypeOK
    <3>4. DOMAIN ledger' = DOMAIN ledger
          /\ \A t \in DOMAIN ledger : /\ ledger'[t].payload = ledger[t].payload
                                      /\ ledger'[t].issuedAt = ledger[t].issuedAt
                                      /\ ledger'[t].uses = ledger[t].uses
      BY <1>1, <3>2, <3>3 DEF TypeOK, Previews
    <3> DEFINE L == DOMAIN pending \ (Unexpired \ {token})
    <3>5. permitsOfGate' = Permit!Lapsed(L) /\ L \in SUBSET DOMAIN permitsOfGate
          /\ L \subseteq Permit!Open
      BY <1>1, <3>1, <3>4, TrimLapses
    <3>6. answerOfGate' = Permit!Denied /\ now' = now
      BY <1>5, <2>2 DEF ConsumeKnown, Failed, answerOfGate, Permit!Denied
    <3>7. Permit!Deny(L)
      BY <3>5, <3>6 DEF Permit!Deny
    <3> QED
      BY <3>5, <3>7 DEF Permit!PNext
  <2> QED
    BY <2>1, <2>2
<1>6. ASSUME NEW token \in Tokens, ConsumeMissing(token) PROVE Permit!PNext
  <2>1. DOMAIN pending' = Unexpired /\ "MissingOrExpired" \in Errors
    BY <1>6 DEF ConsumeMissing, Keep, Errors
  <2> QED
    BY <1>1, <1>6, <2>1, TrimDenies DEF ConsumeMissing
<1>7. ASSUME CallPoisoned PROVE Permit!PNext
  <2>1. DOMAIN pending \in SUBSET DOMAIN pending /\ "Unavailable" \in Errors
    BY DEF Errors
  <2> QED
    BY <1>1, <1>7, <2>1, TrimDenies DEF CallPoisoned
<1>8. ASSUME Restart PROVE Permit!PNext
  <2>1. {} \in SUBSET DOMAIN pending /\ DOMAIN pending' = {}
    BY <1>8 DEF Restart
  <2>2. DOMAIN ledger' = DOMAIN ledger
        /\ \A t \in DOMAIN ledger : /\ ledger'[t].payload = ledger[t].payload
                                    /\ ledger'[t].issuedAt = ledger[t].issuedAt
                                    /\ ledger'[t].uses = ledger[t].uses
    BY <1>1, <1>8 DEF Restart, TypeOK, Previews
  <2> DEFINE L == DOMAIN pending \ {}
  <2>3. permitsOfGate' = Permit!Lapsed(L) /\ L \in SUBSET DOMAIN permitsOfGate
        /\ L \subseteq Permit!Open
    BY <1>1, <2>1, <2>2, TrimLapses
  <2>4. answerOfGate' = Permit!NoAnswer /\ now' = now
    BY <1>8 DEF Restart, NoReply, answerOfGate, Permit!NoAnswer
  <2>5. Permit!Forget(L)
    BY <2>3, <2>4 DEF Permit!Forget
  <2> QED
    BY <2>3, <2>5 DEF Permit!PNext
<1>9. ASSUME Tick PROVE Permit!PNext
  <2>1. permitsOfGate' = permitsOfGate /\ answerOfGate' = answerOfGate
    BY <1>9 DEF Tick, permitsOfGate, permitStatus, answerOfGate
  <2>2. now' \in Nat /\ now' > now
    BY <1>1, <1>9 DEF Tick, TypeOK
  <2> QED
    BY <2>1, <2>2 DEF Permit!TimePasses, Permit!PNext
<1>10. ASSUME UNCHANGED vars PROVE UNCHANGED Permit!permitVars
  BY <1>10 DEF vars, Permit!permitVars, permitsOfGate, permitStatus, answerOfGate
<1> QED
  BY <1>2, <1>3, <1>4, <1>5, <1>6, <1>7, <1>8, <1>9, <1>10 DEF Next

\* The table under the mutex, with its evictions, expiry, panics and restarts,
\* behaves as the one-time permit (ImplementsPermit): the tools of the server
\* may be reasoned about with OneTimePermit alone.
THEOREM GateImplementsPermit == Spec => ImplementsPermit
  BY InitImplements, StepImplements, GateInvariant, PTL
     DEF Spec, ImplementsPermit, Permit!PSpec

-----------------------------------------------------------------------------
(* Recent previews are kept when the wall clock is steady *)

\* The order of the table is the order of issue.
StampsFollowIssue == \A t \in DOMAIN pending : pending[t].stamp = t

LEMMA StampsNext ==
    ASSUME steady, GateInv, StampsFollowIssue, [Next]_vars
    PROVE  StampsFollowIssue'
<1>1. Unexpired \subseteq DOMAIN pending /\ IsFiniteSet(Unexpired)
  BY TableFinite DEF GateInv
<1>2. ASSUME NEW payload \in Payloads, Prepare(payload) PROVE StampsFollowIssue'
  <2>1. PICK kept \in RoomMade(Unexpired), stamp \in Readings :
           pending' = [t \in kept \cup {sequence} |->
                        IF t = sequence
                        THEN [payload |-> payload, expires_at |-> now + TTL, stamp |-> stamp]
                        ELSE pending[t]]
    BY <1>2 DEF Prepare
  <2>2. kept \subseteq DOMAIN pending /\ stamp = sequence
    BY <1>1, <2>1, RoomMadeLemma DEF Readings
  <2> QED
    BY <2>1, <2>2 DEF StampsFollowIssue
<1>3. ASSUME NEW keys \in SUBSET DOMAIN pending, pending' = Keep(keys)
      PROVE  StampsFollowIssue'
  BY <1>3 DEF Keep, StampsFollowIssue
<1>4. ASSUME PreparePanics PROVE StampsFollowIssue'
  <2>1. PICK kept \in RoomMade(Unexpired) : pending' = Keep(kept)
    BY <1>4 DEF PreparePanics
  <2> QED
    BY <1>1, <1>3, <2>1, RoomMadeLemma
<1>5. ASSUME NEW token, NEW payload, ConsumeKnown(token, payload) PROVE StampsFollowIssue'
  BY <1>1, <1>3, <1>5 DEF ConsumeKnown, TableAfterConsume
<1>6. ASSUME NEW token, ConsumeMissing(token) PROVE StampsFollowIssue'
  BY <1>1, <1>3, <1>6 DEF ConsumeMissing
<1>7. ASSUME Restart PROVE StampsFollowIssue'
  BY <1>7 DEF Restart, StampsFollowIssue
<1>8. ASSUME pending' = pending PROVE StampsFollowIssue'
  BY <1>8 DEF StampsFollowIssue
<1>9. ~PrepareWithoutClock
  BY DEF PrepareWithoutClock
<1> QED
  BY <1>2, <1>4, <1>5, <1>6, <1>7, <1>8, <1>9 DEF Next, CallPoisoned, Tick, vars

LEMMA FiniteBelow ==
    ASSUME NEW n \in Nat, NEW S \in SUBSET (0 .. (n - 1))
    PROVE  IsFiniteSet(S)
<1>1. IsFiniteSet(0 .. (n - 1))
  BY FS_Interval
<1> QED
  BY <1>1, FS_Subset

LEMMA RetentionNext ==
    ASSUME steady, GateInv, GateInv', StampsFollowIssue, RecentPreviewsKept, [Next]_vars
    PROVE  RecentPreviewsKept'
<1>1. TypeOK /\ TypeOK' /\ Unexpired \subseteq DOMAIN pending /\ IsFiniteSet(Unexpired)
  BY TableFinite DEF GateInv
<1> SUFFICES ASSUME NEW t \in DOMAIN ledger',
                    ledger'[t].uses = 0, ~ledger'[t].refused, ~ledger'[t].lost, ~poisoned',
                    now' < ledger'[t].issuedAt + TTL,
                    Cardinality(NewerThan(t)') < MaximumPending
             PROVE  t \in DOMAIN pending'
  BY DEF RecentPreviewsKept
<1>0. IsFiniteSet(NewerThan(t)')
  <2>1. sequence' \in Nat /\ NewerThan(t)' \in SUBSET (0 .. (sequence' - 1))
    BY <1>1, GateAssumption DEF TypeOK, NewerThan
  <2> QED
    BY <2>1, FiniteBelow
\* What was true of t before the step.
<1>2. ASSUME t \in DOMAIN ledger, ledger[t].uses = 0, ~ledger[t].refused, ~ledger[t].lost,
             ~poisoned, now < ledger[t].issuedAt + TTL, DOMAIN ledger \subseteq DOMAIN ledger'
      PROVE  t \in Unexpired /\ t \in DOMAIN pending
  <2>1. NewerThan(t) \in SUBSET (NewerThan(t)') /\ IsFiniteSet(NewerThan(t)')
    BY <1>0, <1>2 DEF NewerThan
  <2>2. Cardinality(NewerThan(t)) <= Cardinality(NewerThan(t)')
        /\ Cardinality(NewerThan(t)) \in Nat /\ Cardinality(NewerThan(t)') \in Nat
    BY <2>1, FS_Subset, FS_CardinalityType
  <2>3. Cardinality(NewerThan(t)) < MaximumPending
    BY <2>2, GateAssumption
  <2>4. t \in DOMAIN pending
    BY <1>2, <2>3 DEF RecentPreviewsKept
  <2>5. pending[t].expires_at > now
    BY <1>1, <1>2, <2>4, GateAssumption DEF GateInv, TableFollowsLedger, TypeOK, Previews
  <2> QED
    BY <2>4, <2>5 DEF Unexpired
<1>3. ASSUME NEW payload \in Payloads, Prepare(payload) PROVE t \in DOMAIN pending'
  <2>1. PICK kept \in RoomMade(Unexpired), stamp \in Readings :
           DOMAIN pending' = kept \cup {sequence}
    BY <1>3 DEF Prepare
  <2>2. kept \subseteq Unexpired /\ IsFiniteSet(kept)
    BY <1>1, <2>1, RoomMadeLemma
  <2>3. CASE t = sequence
    BY <2>1, <2>3
  <2>4. CASE t # sequence
    <3>1. /\ DOMAIN ledger' = DOMAIN ledger \cup {sequence} /\ t \in DOMAIN ledger
          /\ ledger'[t] = ledger[t] /\ now' = now /\ ~poisoned
      BY <1>3, <2>4 DEF Prepare, Lockable
    <3>2. t \in Unexpired
      BY <1>2, <3>1
    <3>3. ASSUME t \notin kept PROVE FALSE
      <4>1. /\ Cardinality(Unexpired) \in Nat /\ Cardinality(kept) \in Nat
            /\ (Cardinality(kept) = Cardinality(Unexpired) => Unexpired = kept)
        BY <1>1, <2>2, FS_Subset, FS_CardinalityType
      <4>2. Cardinality(kept) = MaximumPending - 1
        BY <2>1, <3>2, <3>3, <4>1 DEF RoomMade
      <4>3. \A u \in kept : u > t
        <5>1. \A u \in kept : pending[t].stamp <= pending[u].stamp
          BY <2>1, <3>2, <3>3 DEF RoomMade
        <5>2. \A u \in DOMAIN pending : pending[u].stamp = u /\ u \in Nat
          BY <1>1, GateAssumption DEF StampsFollowIssue, TypeOK
        <5> QED
          BY <1>1, <2>2, <3>2, <3>3, <5>1, <5>2
      <4>4. t < sequence /\ sequence \notin kept
        BY <1>1, <2>2, <3>1, GateAssumption DEF TypeOK
      <4>5. kept \cup {sequence} \in SUBSET (NewerThan(t)')
        BY <1>1, <2>2, <3>1, <4>3, <4>4 DEF NewerThan, TypeOK
      <4>6. Cardinality(kept \cup {sequence}) = MaximumPending
        <5>1. Cardinality(kept \cup {sequence}) = Cardinality(kept) + 1
          BY <2>2, <4>4, FS_AddElement
        <5> QED
          BY <4>2, <5>1, GateAssumption
      <4>7. Cardinality(NewerThan(t)') \in Nat /\ MaximumPending <= Cardinality(NewerThan(t)')
        BY <1>0, <4>5, <4>6, FS_Subset, FS_CardinalityType
      <4> QED
        BY <4>7, GateAssumption
    <3> QED
      BY <2>1, <3>3
  <2> QED
    BY <2>3, <2>4
<1>4. ASSUME NEW token \in Tokens, NEW payload \in Payloads, ConsumeKnown(token, payload)
      PROVE  t \in DOMAIN pending'
  <2>1. /\ token \in DOMAIN ledger /\ DOMAIN ledger' = DOMAIN ledger /\ ~poisoned /\ now' = now
        /\ \A u \in DOMAIN ledger : u # token => ledger'[u] = ledger[u]
    BY <1>1, <1>4 DEF ConsumeKnown, Lockable, TypeOK
  <2>2. t # token
    <3>1. ledger[token] \in Previews
      BY <1>1, <2>1 DEF TypeOK
    <3>2. ledger'[token].uses # 0 \/ ledger'[token].refused
      BY <1>4, <2>1, <3>1 DEF ConsumeKnown, Previews
    <3> QED
      BY <3>2
  <2>3. t \in Unexpired
    BY <1>2, <2>1, <2>2
  <2> QED
    BY <1>4, <2>2, <2>3 DEF ConsumeKnown, TableAfterConsume, Keep
<1>5. ASSUME NEW token \in Tokens, ConsumeMissing(token) PROVE t \in DOMAIN pending'
  BY <1>2, <1>5 DEF ConsumeMissing, Lockable, Keep
<1>6. ASSUME Restart PROVE t \in DOMAIN pending'
  BY <1>1, <1>6 DEF Restart, TypeOK, Previews
<1>7. ASSUME Tick PROVE t \in DOMAIN pending'
  <2>1. now < ledger[t].issuedAt + TTL
    BY <1>1, <1>7, GateAssumption DEF Tick, TypeOK, Previews
  <2> QED
    BY <1>2, <1>7, <2>1 DEF Tick
<1>8. ASSUME UNCHANGED vars PROVE t \in DOMAIN pending'
  BY <1>2, <1>8 DEF vars
<1>9. ~PrepareWithoutClock /\ ~PreparePanics /\ ~CallPoisoned
  <2>1. ~PrepareWithoutClock
    BY DEF PrepareWithoutClock
  <2>2. ~PreparePanics
    BY DEF PreparePanics
  <2>3. CallPoisoned => poisoned /\ poisoned' = poisoned
    BY DEF CallPoisoned
  <2> QED
    BY <2>1, <2>2, <2>3
<1> QED
  BY <1>3, <1>4, <1>5, <1>6, <1>7, <1>8, <1>9 DEF Next

\* With a steady wall clock a preview stays confirmable until it is used,
\* refused or expired, or MaximumPending newer ones were issued
\* (RecentPreviewsKept).
THEOREM Retention == Spec => []RecentPreviewsKept
<1> DEFINE Ordered == steady => StampsFollowIssue
<1>1. Init => Ordered /\ RecentPreviewsKept
  BY DEF Init, StampsFollowIssue, RecentPreviewsKept
<1>2. GateInv /\ GateInv' /\ Ordered /\ RecentPreviewsKept /\ [Next]_vars
      => Ordered' /\ RecentPreviewsKept'
  <2> SUFFICES ASSUME GateInv, GateInv', Ordered, RecentPreviewsKept, [Next]_vars
               PROVE  Ordered' /\ RecentPreviewsKept'
    OBVIOUS
  <2>1. CASE steady
    BY <2>1, ClockNext, StampsNext, RetentionNext
  <2>2. CASE ~steady
    BY <2>2, ClockNext DEF RecentPreviewsKept
  <2> QED
    BY <2>1, <2>2
<1> QED
  BY <1>1, <1>2, GateInvariant, PTL DEF Spec
=============================================================================

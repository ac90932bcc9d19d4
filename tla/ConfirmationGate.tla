-------------------------- MODULE ConfirmationGate --------------------------
(***************************************************************************)
(* The gate in front of every provider write of the MCP server:            *)
(* crates/worklogger-mcp/src/confirmation.rs.  prepare() stores the        *)
(* serialized request and preview under a fresh token; consume() takes the *)
(* token out of the table and compares the payload.  Both hold the mutex   *)
(* for their whole body, so each is one step here.                         *)
(*                                                                         *)
(* Two clocks: Instant (monotonic, `now`) decides expiry, SystemTime (the  *)
(* stamp inside the token text) decides which token make_room() drops,     *)
(* because the table is ordered by token text and the first key is taken   *)
(* for the oldest.  A token is its sequence number here; its place in the  *)
(* table is its stamp, and two tokens with one stamp are in either order   *)
(* (their sequence numbers are compared as hexadecimal text).              *)
(***************************************************************************)
EXTENDS Naturals, FiniteSets

CONSTANTS Payloads,        \* serialized request with its preview
          TTL,             \* ttl
          MaximumPending,  \* maximum_pending
          InstantMax,      \* the last Instant the platform can represent
          MaxSequence,     \* bound: tokens drawn in a behaviour
          Horizon          \* bound: time

\* The environment variables are used only when they parse and are above
\* zero (confirmation.rs:167-181).
ASSUME GateAssumption ==
    /\ TTL \in Nat \ {0}
    /\ MaximumPending \in Nat \ {0}
    /\ InstantMax \in Nat
    /\ MaxSequence \in Nat
    /\ Horizon \in Nat

VARIABLES pending,    \* token -> [payload, expires_at, stamp]
          sequence,   \* next token number
          poisoned,   \* the mutex was poisoned by a panic
          now,        \* Instant::now()
          steady,     \* the wall clock moves forward between tokens, all along
          reply,      \* what the last call returned
          ledger      \* history: token -> [payload, issuedAt, uses, refused, lost]

vars == <<pending, sequence, poisoned, now, steady, reply, ledger>>

Tokens == 0 .. MaxSequence

NoReply == [result |-> "none"]
Prepared(token, payload)   == [result |-> "Prepared", token |-> token, payload |-> payload]
Consumed(token, payload)   == [result |-> "Ok", token |-> token, payload |-> payload]
Failed(error)              == [result |-> error]
Errors == {"MissingOrExpired", "PayloadChanged", "Unavailable", "panic"}
Replies == {NoReply} \cup {Failed(e) : e \in Errors}
           \cup {Prepared(t, p) : t \in Tokens, p \in Payloads}
           \cup {Consumed(t, p) : t \in Tokens, p \in Payloads}

PendingConfirmation == [payload : Payloads, expires_at : Nat, stamp : Nat]
Previews == [payload : Payloads, issuedAt : Nat, uses : Nat,
             refused : BOOLEAN, lost : BOOLEAN]

-----------------------------------------------------------------------------
(* Helpers of the code *)

\* Mutant: the deadline is not looked at.
UnexpiredIgnoringTime == DOMAIN pending

\* remove_expired: the tokens whose expires_at is still ahead.
Unexpired == {t \in DOMAIN pending : pending[t].expires_at > now}

\* Mutant: room is made only once the table is over its limit.
RoomMadeLate(keys) ==
    IF Cardinality(keys) <= MaximumPending THEN {keys}
    ELSE {kept \in SUBSET keys : Cardinality(kept) = MaximumPending}

\* Mutant: the last key is dropped instead of the first.
RoomMadeAtTheEnd(keys) ==
    {kept \in SUBSET keys :
        /\ Cardinality(kept) = IF Cardinality(keys) < MaximumPending
                               THEN Cardinality(keys) ELSE MaximumPending - 1
        /\ \A dropped \in keys \ kept, t \in kept :
              pending[dropped].stamp >= pending[t].stamp}

\* make_room: the first keys go until fewer than MaximumPending are left.
RoomMade(keys) ==
    {kept \in SUBSET keys :
        /\ Cardinality(kept) = IF Cardinality(keys) < MaximumPending
                               THEN Cardinality(keys) ELSE MaximumPending - 1
        /\ \A dropped \in keys \ kept, t \in kept :
              pending[dropped].stamp <= pending[t].stamp}

\* next_token: what SystemTime may say, later than every earlier reading when
\* the clock is steady, anything when it is set back or stands still.
Readings == IF steady THEN {sequence} ELSE 0 .. MaxSequence

\* Mutant: the sequence number is read and not advanced.
NumberNotDrawn == sequence

\* next_token: fetch_add on the sequence.
NumberDrawn == sequence + 1

\* Mutant: a poisoned mutex is recovered.
LockRecovered == TRUE

\* pending(): the lock can be taken.
Lockable == ~poisoned

Keep(keys) == [t \in keys |-> pending[t]]

\* Mutant: the payload is compared before the entry is removed.
TableUnlessChanged(token, payload) ==
    Keep(IF pending[token].payload = payload THEN Unexpired \ {token} ELSE Unexpired)

\* Mutant: the entry is read with get.
TableRead(token, payload) == Keep(Unexpired)

\* consume takes the entry out before it compares the payload.
TableAfterConsume(token, payload) == Keep(Unexpired \ {token})

-----------------------------------------------------------------------------
Init == /\ pending = [t \in {} |-> 0]
        /\ sequence = 0
        /\ poisoned = FALSE
        /\ now = 0
        /\ steady \in BOOLEAN
        /\ reply = NoReply
        /\ ledger = [t \in {} |-> 0]

\* prepare: expired entries go, room is made, the new entry is stored.
Prepare(payload) ==
    /\ Lockable
    /\ sequence < MaxSequence
    /\ now + TTL <= InstantMax
    /\ \E kept \in RoomMade(Unexpired), stamp \in Readings :
         pending' = [t \in kept \cup {sequence} |->
                       IF t = sequence
                       THEN [payload |-> payload, expires_at |-> now + TTL, stamp |-> stamp]
                       ELSE pending[t]]
    /\ ledger' = [t \in DOMAIN ledger \cup {sequence} |->
                    IF t = sequence
                    THEN [payload |-> payload, issuedAt |-> now, uses |-> 0,
                          refused |-> FALSE, lost |-> FALSE]
                    ELSE ledger[t]]
    /\ reply' = Prepared(sequence, payload)
    /\ sequence' = NumberDrawn
    /\ UNCHANGED <<poisoned, now, steady>>

\* prepare when SystemTime is before the epoch: next_token fails after the
\* table was already trimmed.
PrepareWithoutClock ==
    /\ Lockable
    /\ ~steady
    /\ \E kept \in RoomMade(Unexpired) : pending' = Keep(kept)
    /\ reply' = Failed("Unavailable")
    /\ UNCHANGED <<sequence, poisoned, now, steady, ledger>>

\* prepare when Instant::now() + ttl cannot be represented: the addition
\* panics while the mutex is held.
PreparePanics ==
    /\ Lockable
    /\ sequence < MaxSequence
    /\ now + TTL > InstantMax
    /\ \E kept \in RoomMade(Unexpired) : pending' = Keep(kept)
    /\ sequence' = NumberDrawn
    /\ poisoned' = TRUE
    /\ reply' = Failed("panic")
    /\ UNCHANGED <<now, steady, ledger>>

\* consume: the token is known and unexpired; it leaves the table whatever
\* the payload.
ConsumeKnown(token, payload) ==
    /\ Lockable
    /\ token \in Unexpired
    /\ pending' = TableAfterConsume(token, payload)
    /\ IF pending[token].payload = payload
       THEN /\ reply' = Consumed(token, payload)
            /\ ledger' = [ledger EXCEPT ![token].uses = @ + 1]
       ELSE /\ reply' = Failed("PayloadChanged")
            /\ ledger' = [ledger EXCEPT ![token].refused = TRUE]
    /\ UNCHANGED <<sequence, poisoned, now, steady>>

\* consume: no such token, or it has expired.
ConsumeMissing(token) ==
    /\ Lockable
    /\ token \notin Unexpired
    /\ pending' = Keep(Unexpired)
    /\ reply' = Failed("MissingOrExpired")
    /\ UNCHANGED <<sequence, poisoned, now, steady, ledger>>

\* Either call once the mutex is poisoned.
CallPoisoned ==
    /\ poisoned
    /\ reply' = Failed("Unavailable")
    /\ UNCHANGED <<pending, sequence, poisoned, now, steady, ledger>>

\* The server process ends and a client starts it again.  The token text
\* carries the process and the wall clock, so numbers are not drawn twice.
Restart ==
    /\ pending' = [t \in {} |-> 0]
    /\ poisoned' = FALSE
    /\ ledger' = [t \in DOMAIN ledger |-> [ledger[t] EXCEPT !.lost = TRUE]]
    /\ reply' = NoReply
    /\ UNCHANGED <<sequence, now, steady>>

Tick == /\ now < Horizon
        /\ now' = now + 1
        /\ UNCHANGED <<pending, sequence, poisoned, steady, reply, ledger>>

Next == \/ \E payload \in Payloads : Prepare(payload)
        \/ PrepareWithoutClock
        \/ PreparePanics
        \/ \E token \in Tokens, payload \in Payloads : ConsumeKnown(token, payload)
        \/ \E token \in Tokens : ConsumeMissing(token)
        \/ CallPoisoned
        \/ Restart
        \/ Tick

Spec == Init /\ [][Next]_vars

-----------------------------------------------------------------------------
(* Properties *)

\* Every variable has its type: the table and the history only hold tokens
\* that were drawn, and the table never holds one the history does not know.
TypeOK ==
    /\ sequence \in 0 .. MaxSequence
    /\ now \in Nat
    /\ poisoned \in BOOLEAN
    /\ steady \in BOOLEAN
    /\ reply \in Replies
    /\ DOMAIN ledger \subseteq 0 .. (sequence - 1)
    /\ DOMAIN pending \subseteq DOMAIN ledger
    /\ ledger \in [DOMAIN ledger -> Previews]
    /\ pending \in [DOMAIN pending -> PendingConfirmation]

\* A token has one outcome: it authorizes at most one write, and never one
\* after it was offered with a changed payload (consume removes it first).
SingleOutcome ==
    \A t \in DOMAIN ledger : /\ ledger[t].uses <= 1
                             /\ ledger[t].refused => ledger[t].uses = 0

\* prepare never lets the table grow past maximum_pending, whatever it did
\* to make room.
CapacityRespected == Cardinality(DOMAIN pending) <= MaximumPending

\* The previews issued after t.
NewerThan(t) == {u \in DOMAIN ledger : u > t}

\* With a steady wall clock a preview that was not used, refused or expired, of
\* the running process, stays confirmable until MaximumPending newer ones were
\* issued: eviction takes the oldest and expiry takes nothing early.
RecentPreviewsKept ==
    steady => \A t \in DOMAIN ledger :
        (/\ ledger[t].uses = 0 /\ ~ledger[t].refused /\ ~ledger[t].lost
         /\ ~poisoned
         /\ now < ledger[t].issuedAt + TTL
         /\ Cardinality(NewerThan(t)) < MaximumPending)
        => t \in DOMAIN pending

\* A step that authorizes a write does it for the payload that was shown and
\* before the preview expired.
ConfirmedAsPreviewed ==
    [][\A t \in DOMAIN ledger :
         ledger'[t].uses > ledger[t].uses =>
            /\ reply' = Consumed(t, ledger[t].payload)
            /\ now < ledger[t].issuedAt + TTL]_vars

\* After a panic under the lock nothing is authorized until a restart, even
\* for the previews that were pending when it happened.
FailsClosed ==
    [][poisoned => \A t \in DOMAIN ledger : ledger'[t].uses = ledger[t].uses]_vars

\* The gate implements the one-time permit.
permitStatus(t) == IF ledger[t].uses > 0 THEN "used"
                   ELSE IF t \in DOMAIN pending THEN "open" ELSE "void"

permitsOfGate == [t \in DOMAIN ledger |->
                    [payload  |-> ledger[t].payload,
                     issuedAt |-> ledger[t].issuedAt,
                     status   |-> permitStatus(t)]]

answerOfGate == CASE reply.result = "none"     -> [kind |-> "none"]
                  [] reply.result = "Prepared" ->
                       [kind |-> "issued", token |-> reply.token, payload |-> reply.payload]
                  [] reply.result = "Ok" ->
                       [kind |-> "granted", token |-> reply.token, payload |-> reply.payload]
                  [] OTHER -> [kind |-> "denied"]

Permit == INSTANCE OneTimePermit
          WITH permits <- permitsOfGate, clock <- now, answer <- answerOfGate,
               Numbers <- Tokens

\* Every behaviour of the gate is one of the abstract permit.
ImplementsPermit == Permit!PSpec
=============================================================================

--------------------------- MODULE OneTimePermit ---------------------------
(***************************************************************************)
(* What the confirmation gate of the MCP server promises to the tools that *)
(* use it, apart from how it keeps its table: a permit is issued for one   *)
(* payload, is good for TTL units of time, is redeemed at most once and    *)
(* only for that payload, and may lapse at any moment (it was offered with *)
(* another payload, it expired, it made room for a newer one, the process  *)
(* restarted).  ConfirmationGate implements this module.                   *)
(***************************************************************************)
EXTENDS Naturals

CONSTANTS Payloads,   \* serialized requests with the preview they came with
          TTL,        \* how long a permit can be redeemed
          Numbers     \* permit numbers

VARIABLES permits,    \* permit number -> [payload, issuedAt, status]
          clock,      \* time as the gate reads it
          answer      \* what the last call returned

permitVars == <<permits, clock, answer>>

NoAnswer == [kind |-> "none"]
Denied   == [kind |-> "denied"]
Issued(number, payload)  == [kind |-> "issued",  token |-> number, payload |-> payload]
Granted(number, payload) == [kind |-> "granted", token |-> number, payload |-> payload]

\* The permits that can still be redeemed.
Open == {t \in DOMAIN permits : permits[t].status = "open"}

\* The permits once those in L have lapsed.
Lapsed(L) == [t \in DOMAIN permits |->
                IF t \in L THEN [permits[t] EXCEPT !.status = "void"] ELSE permits[t]]

-----------------------------------------------------------------------------
PInit == /\ permits = [t \in {} |-> 0]
         /\ clock = 0
         /\ answer = NoAnswer

\* A new permit; the permits L lapse.
Issue(number, payload, L) ==
    /\ number \in Numbers \ DOMAIN permits
    /\ L \subseteq Open
    /\ permits' = [t \in DOMAIN permits \cup {number} |->
                     IF t = number
                     THEN [payload |-> payload, issuedAt |-> clock, status |-> "open"]
                     ELSE Lapsed(L)[t]]
    /\ answer' = Issued(number, payload)
    /\ UNCHANGED clock

\* A permit is redeemed: open, in time, and for the payload it was issued for.
Redeem(number, payload, L) ==
    /\ L \subseteq Open \ {number}
    /\ number \in Open
    /\ permits[number].payload = payload
    /\ clock < permits[number].issuedAt + TTL
    /\ permits' = [Lapsed(L) EXCEPT ![number].status = "used"]
    /\ answer' = Granted(number, payload)
    /\ UNCHANGED clock

\* A call is refused.  It never makes a permit redeemable again.
Deny(L) ==
    /\ L \subseteq Open
    /\ permits' = Lapsed(L)
    /\ answer' = Denied
    /\ UNCHANGED clock

\* The issuer starts afresh; the permits L lapse.
Forget(L) ==
    /\ L \subseteq Open
    /\ permits' = Lapsed(L)
    /\ answer' = NoAnswer
    /\ UNCHANGED clock

TimePasses == /\ clock' \in Nat /\ clock' > clock
              /\ UNCHANGED <<permits, answer>>

PNext ==
    \/ \E number \in Numbers, payload \in Payloads, L \in SUBSET DOMAIN permits :
          Issue(number, payload, L) \/ Redeem(number, payload, L)
    \/ \E L \in SUBSET DOMAIN permits : Deny(L) \/ Forget(L)
    \/ TimePasses

PSpec == PInit /\ [][PNext]_permitVars
=============================================================================

----------------------- MODULE MutationProtocol_proofs -----------------------
(***************************************************************************)
(* What MutationProtocol guarantees for any number of calls, tools, changes*)
(* and permits.  The inductive invariant says of every call: what it wrote *)
(* or may still write was redeemed with a permit of its own payload, no    *)
(* other call redeemed that permit, and the facts that the properties ask  *)
(* for were seen to be true at the provider by the time they are needed.   *)
(***************************************************************************)
EXTENDS MutationProtocol, TLAPS

PayloadsShown == [tool : Tools, change : Changes, shown : SUBSET (Marks \cup Changes)]
Permits == [payload : PayloadsShown, issuedAt : Nat, status : {"open", "used", "void"}]
Facts == {"board", "shown"}

GateTyped == clock \in Nat /\ permits \in [DOMAIN permits -> Permits]

HeldTyped == held \in [Calls -> [made : SUBSET Facts, accepted : SUBSET Facts]]

\* A call that was made names a permit that exists, or none.
TokenKnown(c) ==
    pc[c] # "unmade" =>
        /\ request[c] \in Requests
        /\ request[c].token = NoToken \/ request[c].token \in DOMAIN permits

\* A call has written or may still write.
Spent(c) == pc[c] \in Accepted \/ writes[c] > 0

\* The call holds a permit for its payload.
Matches(c) == /\ request[c].token \in DOMAIN permits
              /\ permits[request[c].token].payload = Payload(c)

WritesOnce(c) == /\ pc[c] \in Busy \cup {"unmade"} => writes[c] = 0
                 /\ writes[c] \in {0, 1}

Paid(c) == Spent(c) => Matches(c) /\ permits[request[c].token].status = "used"

ShownHeld(c) ==
    pc[c] \in {"decide"} \cup Accepted /\ Matches(c) => "shown" \in held[c].made

BoardHeld(c) ==
    pc[c] \in {"verify", "write"} /\ request[c].tool \in JiraTools
    => "board" \in held[c].accepted

RevisionHeld(c) ==
    pc[c] = "write" /\ request[c].tool \in {"update", "pull"}
    => "shown" \in held[c].accepted

CallInv(c) == /\ TokenKnown(c) /\ WritesOnce(c) /\ Paid(c)
              /\ ShownHeld(c) /\ BoardHeld(c) /\ RevisionHeld(c)

\* No permit pays for two calls.
TokensApart ==
    \A c, d \in Calls : Spent(c) /\ Spent(d) /\ request[c].token = request[d].token => c = d

ProtocolInv == /\ TypeOK /\ GateTyped /\ HeldTyped
               /\ \A c \in Calls : CallInv(c)
               /\ TokensApart

\* What no step does to a permit: forget it, change what it is for, or make it
\* redeemable again.
PermitsKept ==
    /\ DOMAIN permits \subseteq DOMAIN permits'
    /\ \A n \in DOMAIN permits :
          /\ permits'[n].payload = permits[n].payload
          /\ permits[n].status = "used" => permits'[n].status = "used"

\* A step of another party.
Untouched(c) == /\ pc'[c] = pc[c] /\ request'[c] = request[c]
                /\ seen'[c] = seen[c] /\ writes'[c] = writes[c]

-----------------------------------------------------------------------------
(* Operators *)

LEMMA PlacesApart ==
    /\ Accepted \subseteq Busy
    /\ Busy \cap Final = {} /\ "unmade" \notin Busy \cup Final
    /\ "decide" \in Busy /\ "decide" \notin Accepted
BY DEF Accepted, Busy, Final

\* A tool only looks at aspects of this instance.
LEMMA AspectsRead ==
    ASSUME NEW tool \in Tools
    PROVE  /\ tool \in JiraTools \cup BitbucketTools
           /\ ReadBy(tool) \subseteq Aspects /\ ChangedBy(tool) \subseteq Aspects
           /\ tool \in JiraTools => "board" \in Aspects
<1>1. tool \in JiraTools \cup BitbucketTools
  BY ProtocolAssumption
<1>2. ReadBy(tool) \cup ChangedBy(tool) \in {ReadBy(t) \cup ChangedBy(t) : t \in Tools}
  OBVIOUS
<1>3. ReadBy(tool) \cup ChangedBy(tool) \subseteq UNION {ReadBy(t) \cup ChangedBy(t) : t \in Tools}
  BY <1>2
<1>4. ASSUME tool \in JiraTools PROVE "board" \in Aspects
  <2>1. Tools \cap JiraTools # {}
    BY <1>4
  <2>2. "board" \in (IF Tools \cap JiraTools # {} THEN {"board"} ELSE {})
    BY <2>1
  <2> QED
    BY <2>2 DEF Aspects
<1> QED
  BY <1>1, <1>3, <1>4 DEF Aspects

\* What a preview shows is made of marks and changes.
LEMMA ShownTyped ==
    ASSUME NEW tool \in Tools, NEW change \in Changes, NEW state \in [Aspects -> SUBSET Marks]
    PROVE  Shown(tool, change, state) \in SUBSET (Marks \cup Changes)
<1>1. /\ tool = "update"     => "fields" \in Aspects
      /\ tool = "worklog"    => "worklogs" \in Aspects
      /\ tool = "pull"       => "pullRequest" \in Aspects
      /\ tool = "create"     => "reviewers" \in Aspects
      /\ tool = "transition" => "transitions" \in Aspects
  BY AspectsRead DEF ReadBy
<1>2. \A m \in Marks : m.change \in Changes
  BY DEF Marks
<1>3. CASE tool = "update"
  BY <1>1, <1>2, <1>3 DEF Shown, FieldsShown
<1>4. CASE tool = "worklog"
  BY <1>1, <1>4 DEF Shown, DuplicatesShown
<1>5. CASE tool = "pull"
  BY <1>1, <1>5 DEF Shown, RevisionShown
<1>6. CASE tool = "create"
  BY <1>1, <1>6 DEF Shown, ReviewersShown
<1>7. CASE tool = "transition"
  BY <1>1, <1>7 DEF Shown, TargetShown
<1>8. CASE tool \notin {"update", "worklog", "pull", "create", "transition"}
  BY <1>8 DEF Shown
<1> QED
  BY <1>3, <1>4, <1>5, <1>6, <1>7, <1>8

\* A write leaves a target.
LEMMA WrittenTyped ==
    ASSUME NEW tool \in Tools, NEW change \in Changes, NEW state \in [Aspects -> SUBSET Marks],
           NEW c \in Calls
    PROVE  Written(state, c, tool, change) \in [Aspects -> SUBSET Marks]
<1>1. [by |-> c, change |-> change] \in Marks
  BY DEF Marks
<1> QED
  BY <1>1 DEF Written

LEMMA PayloadTyped ==
    ASSUME TypeOK, NEW c \in Calls, request[c] \in Requests
    PROVE  Payload(c) \in PayloadsShown
<1>1. request[c].tool \in Tools /\ request[c].change \in Changes
  BY DEF Requests
<1>2. seen[c] \in [Aspects -> SUBSET Marks]
  BY DEF TypeOK
<1>3. Shown(request[c].tool, request[c].change, seen[c]) \in SUBSET (Marks \cup Changes)
  BY <1>1, <1>2, ShownTyped
<1> QED
  BY <1>1, <1>3 DEF Payload, PayloadsShown

-----------------------------------------------------------------------------
(* The gate, and what a call has seen *)

LEMMA Lapsing ==
    ASSUME GateTyped, NEW L
    PROVE  /\ Permit!Lapsed(L) \in [DOMAIN permits -> Permits]
           /\ \A n \in DOMAIN permits :
                /\ Permit!Lapsed(L)[n].payload = permits[n].payload
                /\ n \notin L => Permit!Lapsed(L)[n] = permits[n]
<1>1. \A n \in DOMAIN permits : [permits[n] EXCEPT !.status = "void"] \in Permits
  BY DEF GateTyped, Permits
<1>2. \A n \in DOMAIN permits : [permits[n] EXCEPT !.status = "void"].payload = permits[n].payload
  BY DEF GateTyped, Permits
<1> QED
  BY <1>1, <1>2 DEF Permit!Lapsed, GateTyped

\* Permits that are not open do not lapse.
LEMMA LapsingKeeps ==
    ASSUME GateTyped, NEW L \in SUBSET Permit!Open, permits' = Permit!Lapsed(L), clock' = clock
    PROVE  GateTyped' /\ PermitsKept /\ DOMAIN permits' = DOMAIN permits
<1>1. /\ permits' \in [DOMAIN permits -> Permits]
      /\ \A n \in DOMAIN permits :
                /\ permits'[n].payload = permits[n].payload
                /\ n \notin L => permits'[n] = permits[n]
  BY Lapsing
<1>2. \A n \in L : permits[n].status = "open"
  BY DEF Permit!Open
<1> QED
  BY <1>1, <1>2 DEF GateTyped, PermitsKept

LEMMA IssuingKeeps ==
    ASSUME GateTyped, NEW number \in Numbers, NEW payload \in PayloadsShown,
           NEW L \in SUBSET Permit!Open, Permit!Issue(number, payload, L)
    PROVE  /\ GateTyped' /\ PermitsKept
           /\ DOMAIN permits' = DOMAIN permits \cup {number}
<1> DEFINE new == [payload |-> payload, issuedAt |-> clock, status |-> "open"]
<1>1. new \in Permits
  BY DEF Permits, GateTyped
<1>2. /\ number \notin DOMAIN permits /\ clock' = clock
      /\ permits' = [t \in DOMAIN permits \cup {number} |->
                        IF t = number THEN new ELSE Permit!Lapsed(L)[t]]
  BY DEF Permit!Issue
<1> HIDE DEF new
<1>3. /\ Permit!Lapsed(L) \in [DOMAIN permits -> Permits]
      /\ \A n \in DOMAIN permits :
                /\ Permit!Lapsed(L)[n].payload = permits[n].payload
                /\ n \notin L => Permit!Lapsed(L)[n] = permits[n]
  BY Lapsing
<1>4. \A n \in L : permits[n].status = "open"
  BY DEF Permit!Open
<1>5. permits' \in [DOMAIN permits' -> Permits]
  BY <1>1, <1>2, <1>3
<1> QED
  BY <1>2, <1>3, <1>4, <1>5 DEF GateTyped, PermitsKept

LEMMA RedeemingKeeps ==
    ASSUME GateTyped, NEW number, NEW payload, NEW L, Permit!Redeem(number, payload, L)
    PROVE  /\ GateTyped' /\ PermitsKept /\ DOMAIN permits' = DOMAIN permits
           /\ number \in DOMAIN permits /\ permits[number].status = "open"
           /\ permits[number].payload = payload /\ permits'[number].status = "used"
<1>1. /\ L \in SUBSET Permit!Open /\ number \notin L /\ number \in Permit!Open
      /\ permits[number].payload = payload /\ clock' = clock
      /\ permits' = [Permit!Lapsed(L) EXCEPT ![number].status = "used"]
  BY DEF Permit!Redeem
<1>2. /\ number \in DOMAIN permits /\ permits[number].status = "open"
      /\ \A n \in L : permits[n].status = "open"
  BY <1>1 DEF Permit!Open
<1>3. /\ Permit!Lapsed(L) \in [DOMAIN permits -> Permits]
      /\ \A n \in DOMAIN permits :
                /\ Permit!Lapsed(L)[n].payload = permits[n].payload
                /\ n \notin L => Permit!Lapsed(L)[n] = permits[n]
  BY Lapsing
<1>4. /\ permits'[number] = [permits[number] EXCEPT !.status = "used"]
      /\ \A n \in DOMAIN permits \ {number} : permits'[n] = Permit!Lapsed(L)[n]
      /\ DOMAIN permits' = DOMAIN permits
  BY <1>1, <1>2, <1>3
<1>5. permits[number] \in Permits
  BY <1>2 DEF GateTyped
<1>6. /\ permits'[number].status = "used" /\ permits'[number].payload = permits[number].payload
      /\ permits'[number] \in Permits
  BY <1>4, <1>5 DEF Permits
<1>7. \A n \in DOMAIN permits : permits'[n] \in Permits
  BY <1>3, <1>4, <1>6
<1>8. permits' \in [DOMAIN permits' -> Permits]
  BY <1>1, <1>3, <1>4, <1>7
<1> QED
  BY <1>1, <1>2, <1>3, <1>4, <1>6, <1>8 DEF GateTyped, PermitsKept

LEMMA GateUnchanged ==
    ASSUME GateTyped, UNCHANGED gateVars
    PROVE  GateTyped' /\ PermitsKept /\ DOMAIN permits' = DOMAIN permits
BY DEF gateVars, GateTyped, PermitsKept

\* What is seen to be true is remembered as long as the call is under way.
LEMMA Observing ==
    ASSUME HeldTyped, Observe
    PROVE  /\ HeldTyped'
           /\ \A c \in Calls :
                /\ held[c].made \subseteq held'[c].made
                /\ pc'[c] \in Busy /\ request'[c].token # NoToken =>
                     Agreeing(resource', permits', request'[c].token) \subseteq held'[c].made
                /\ pc'[c] \in Accepted /\ request'[c].token # NoToken =>
                     /\ held[c].accepted \subseteq held'[c].accepted
                     /\ Agreeing(resource', permits', request'[c].token)
                          \subseteq held'[c].accepted
<1> DEFINE facts(c) == Agreeing(resource', permits', request'[c].token)
           idle(c) == pc'[c] \notin Busy \/ request'[c].token = NoToken
<1>1. \A c \in Calls : facts(c) \in SUBSET Facts
  BY DEF Agreeing, Facts
<1>2. \A c \in Calls :
        held'[c] = IF idle(c) THEN held[c]
                   ELSE [made |-> held[c].made \cup facts(c),
                         accepted |-> IF pc'[c] \in Accepted THEN held[c].accepted \cup facts(c)
                                      ELSE {}]
  BY DEF Observe
<1>3. held' \in [Calls -> [made : SUBSET Facts, accepted : SUBSET Facts]]
  <2>1. held' = [c \in Calls |-> held'[c]]
    BY DEF Observe
  <2>2. ASSUME NEW c \in Calls
        PROVE  held'[c] \in [made : SUBSET Facts, accepted : SUBSET Facts]
    <3> HIDE DEF facts, idle
    <3>1. held[c] \in [made : SUBSET Facts, accepted : SUBSET Facts]
      BY DEF HeldTyped
    <3>2. facts(c) \in SUBSET Facts
      BY <1>1
    <3>3. CASE idle(c)
      BY <1>2, <3>1, <3>3
    <3>4. CASE ~idle(c)
      <4>1. held'[c] = [made |-> held[c].made \cup facts(c),
                        accepted |-> IF pc'[c] \in Accepted THEN held[c].accepted \cup facts(c)
                                     ELSE {}]
        BY <1>2, <3>4
      <4> QED
        BY <4>1, <3>1, <3>2
    <3> QED
      BY <3>3, <3>4
  <2> QED
    BY <2>1, <2>2
<1>4. \A c \in Calls : pc'[c] \in Accepted => pc'[c] \in Busy
  BY PlacesApart
<1> HIDE DEF facts
<1>5. ASSUME NEW c \in Calls
      PROVE  /\ held[c].made \subseteq held'[c].made
             /\ pc'[c] \in Busy /\ request'[c].token # NoToken => facts(c) \subseteq held'[c].made
             /\ pc'[c] \in Accepted /\ request'[c].token # NoToken =>
                  held[c].accepted \subseteq held'[c].accepted /\ facts(c) \subseteq held'[c].accepted
  <2>1. CASE idle(c)
    BY <1>2, <1>4, <2>1
  <2>2. CASE ~idle(c)
    <3>1. /\ held'[c].made = held[c].made \cup facts(c)
          /\ held'[c].accepted = IF pc'[c] \in Accepted THEN held[c].accepted \cup facts(c) ELSE {}
      <4> HIDE DEF idle
      <4>1. held'[c] = [made |-> held[c].made \cup facts(c),
                        accepted |-> IF pc'[c] \in Accepted THEN held[c].accepted \cup facts(c)
                                     ELSE {}]
        BY <1>2, <2>2
      <4> QED
        BY <4>1
    <3> QED
      BY <3>1
  <2> QED
    BY <2>1, <2>2
<1> QED
  BY <1>3, <1>5 DEF facts, HeldTyped

-----------------------------------------------------------------------------
(* Types *)

Places == {"unmade"} \cup Busy \cup Final

\* A call that was made has a tool and a change of this instance.
LEMMA RequestOf ==
    ASSUME ProtocolInv, NEW c \in Calls, pc[c] # "unmade"
    PROVE  /\ request[c] \in Requests
           /\ request[c].tool \in Tools /\ request[c].change \in Changes
           /\ request[c].token = NoToken \/ request[c].token \in DOMAIN permits
<1>1. /\ request[c] \in Requests
      /\ request[c].token = NoToken \/ request[c].token \in DOMAIN permits
  BY DEF ProtocolInv, CallInv, TokenKnown
<1> QED
  BY <1>1 DEF Requests

LEMMA GoingTyped ==
    ASSUME TypeOK, NEW c \in Calls, NEW place \in Places, Goes(c, place)
    PROVE  pc' \in [Calls -> Places] /\ pc'[c] = place
                /\ \A d \in Calls \ {c} : pc'[d] = pc[d]
BY DEF TypeOK, Goes, Places

\* What a step of a call that leaves the gate alone keeps.
LEMMA GateApart ==
    ASSUME ProtocolInv, UNCHANGED gateVars, UNCHANGED origin
    PROVE  /\ GateTyped' /\ PermitsKept
           /\ DOMAIN permits' \subseteq Numbers /\ DOMAIN origin' = DOMAIN permits'
<1>1. GateTyped' /\ PermitsKept /\ DOMAIN permits' = DOMAIN permits
  BY GateUnchanged DEF ProtocolInv
<1> QED
  BY <1>1 DEF ProtocolInv, TypeOK

\* What a step of a call that lets permits lapse keeps.
LEMMA GateLapsing ==
    ASSUME ProtocolInv, UNCHANGED origin,
           NEW L \in SUBSET Permit!Open, permits' = Permit!Lapsed(L), clock' = clock
    PROVE  /\ GateTyped' /\ PermitsKept
           /\ DOMAIN permits' \subseteq Numbers /\ DOMAIN origin' = DOMAIN permits'
<1>1. GateTyped' /\ PermitsKept /\ DOMAIN permits' = DOMAIN permits
  BY LapsingKeeps DEF ProtocolInv
<1> QED
  BY <1>1 DEF ProtocolInv, TypeOK

\* Where each step of a call leads, and what it leaves alone.
LEMMA CallFrame ==
    ASSUME ProtocolInv, NEW c \in Calls, CallStep(c)
    PROVE  /\ pc' \in [Calls -> Places]
           /\ \A d \in Calls \ {c} : Untouched(d)
           /\ edits' = edits
<1>1. \E place \in Places : Goes(c, place)
  BY DEF CallStep, Make, PreviewScope, PreviewState, DecidePreview, DecideUnavailable,
         DecideUnconfirmed, DecideAccepted, DecideRefused, ApplyScope, Verify, Write,
         ProviderFails, Places, Busy, Final, AfterAcceptance, Outcomes
<1>2. PICK place \in Places : Goes(c, place)
  BY <1>1
<1>3. pc' \in [Calls -> Places] /\ \A d \in Calls \ {c} : pc'[d] = pc[d]
  BY <1>2, GoingTyped DEF ProtocolInv
<1>4. \/ request' = request
      \/ \E asked \in Requests : request' = [request EXCEPT ![c] = asked]
  BY DEF CallStep, Make, PreviewScope, PreviewState, DecidePreview, DecideUnavailable,
         DecideUnconfirmed, DecideAccepted, DecideRefused, ApplyScope, Verify, Write,
         ProviderFails
<1>5. seen' = seen \/ seen' = [seen EXCEPT ![c] = resource]
  BY DEF CallStep, Make, PreviewScope, PreviewState, DecidePreview, DecideUnavailable,
         DecideUnconfirmed, DecideAccepted, DecideRefused, ApplyScope, Verify, Write,
         ProviderFails
<1>6. writes' = writes \/ writes' = [writes EXCEPT ![c] = @ + 1]
  BY DEF CallStep, Make, PreviewScope, PreviewState, DecidePreview, DecideUnavailable,
         DecideUnconfirmed, DecideAccepted, DecideRefused, ApplyScope, Verify, Write,
         ProviderFails
<1>7. edits' = edits
  BY DEF CallStep, Make, PreviewScope, PreviewState, DecidePreview, DecideUnavailable,
         DecideUnconfirmed, DecideAccepted, DecideRefused, ApplyScope, Verify, Write,
         ProviderFails
<1>8. ASSUME NEW d \in Calls \ {c}
      PROVE  request'[d] = request[d] /\ seen'[d] = seen[d] /\ writes'[d] = writes[d]
  BY <1>4, <1>5, <1>6 DEF ProtocolInv, TypeOK
<1> QED
  BY <1>3, <1>7, <1>8 DEF Untouched

\* The gate after a step of a call.
LEMMA CallGate ==
    ASSUME ProtocolInv, NEW c \in Calls, CallStep(c)
    PROVE  /\ GateTyped' /\ PermitsKept
           /\ DOMAIN permits' \subseteq Numbers /\ DOMAIN origin' = DOMAIN permits'
<1>1. CASE UNCHANGED gateVars /\ UNCHANGED origin
  BY <1>1, GateApart
<1>2. CASE DecidePreview(c)
  <2>1. PICK number \in Numbers, L \in SUBSET Permit!Open :
           /\ Permit!Issue(number, Payload(c), L)
           /\ origin' = [n \in DOMAIN origin \cup {number} |->
                           IF n = number THEN c ELSE origin[n]]
    BY <1>2 DEF DecidePreview
  <2>2. request[c] \in Requests
    BY <1>2, RequestOf DEF DecidePreview
  <2>3. Payload(c) \in PayloadsShown
    BY <2>2, PayloadTyped DEF ProtocolInv
  <2>4. GateTyped' /\ PermitsKept /\ DOMAIN permits' = DOMAIN permits \cup {number}
    BY <2>1, <2>3, IssuingKeeps DEF ProtocolInv
  <2> QED
    BY <2>1, <2>4 DEF ProtocolInv, TypeOK
<1>3. CASE DecideUnavailable(c) \/ DecideRefused(c)
  <2>1. PICK L \in SUBSET Permit!Open : Permit!Deny(L)
    BY <1>3 DEF DecideUnavailable, DecideRefused
  <2>2. permits' = Permit!Lapsed(L) /\ clock' = clock /\ UNCHANGED origin
    BY <1>3, <2>1 DEF Permit!Deny, DecideUnavailable, DecideRefused
  <2> QED
    BY <2>2, GateLapsing
<1>4. CASE DecideAccepted(c)
  <2>1. PICK L \in SUBSET Permit!Open : Permit!Redeem(request[c].token, Payload(c), L)
    BY <1>4 DEF DecideAccepted
  <2>2. GateTyped' /\ PermitsKept /\ DOMAIN permits' = DOMAIN permits
    BY <2>1, RedeemingKeeps DEF ProtocolInv
  <2>3. UNCHANGED origin
    BY <1>4 DEF DecideAccepted
  <2> QED
    BY <2>2, <2>3 DEF ProtocolInv, TypeOK
<1> QED
  BY <1>1, <1>2, <1>3, <1>4
     DEF CallStep, Make, PreviewScope, PreviewState, DecideUnconfirmed, ApplyScope, Verify,
         Write, ProviderFails

\* A step of a call leaves everything typed.
LEMMA CallTyped ==
    ASSUME ProtocolInv, NEW c \in Calls, CallStep(c)
    PROVE  TypeOK'
<1>1. resource' \in [Aspects -> SUBSET Marks]
  <2>1. CASE Write(c)
    <3>1. request[c].tool \in Tools /\ request[c].change \in Changes
      BY <2>1, RequestOf DEF Write
    <3>2. resource' = Written(resource, c, request[c].tool, request[c].change)
      BY <2>1 DEF Write
    <3>3. resource \in [Aspects -> SUBSET Marks]
      BY DEF ProtocolInv, TypeOK
    <3> QED
      BY <3>1, <3>2, <3>3, WrittenTyped
  <2>2. CASE resource' = resource
    BY <2>2 DEF ProtocolInv, TypeOK
  <2> QED
    BY <2>1, <2>2 DEF CallStep, Make, PreviewScope, PreviewState, DecidePreview,
         DecideUnavailable, DecideUnconfirmed, DecideAccepted, DecideRefused, ApplyScope,
         Verify, ProviderFails
<1>2. request' \in [Calls -> Requests \cup {NoRequest}]
  <2>1. \/ request' = request
        \/ \E asked \in Requests : request' = [request EXCEPT ![c] = asked]
    BY DEF CallStep, Make, PreviewScope, PreviewState, DecidePreview, DecideUnavailable,
           DecideUnconfirmed, DecideAccepted, DecideRefused, ApplyScope, Verify, Write,
           ProviderFails
  <2> QED
    BY <2>1 DEF ProtocolInv, TypeOK
<1>3. seen' \in [Calls -> [Aspects -> SUBSET Marks]]
  <2>1. seen' = seen \/ seen' = [seen EXCEPT ![c] = resource]
    BY DEF CallStep, Make, PreviewScope, PreviewState, DecidePreview, DecideUnavailable,
           DecideUnconfirmed, DecideAccepted, DecideRefused, ApplyScope, Verify, Write,
           ProviderFails
  <2> QED
    BY <2>1 DEF ProtocolInv, TypeOK
<1>4. writes' \in [Calls -> Nat]
  <2>1. writes' = writes \/ writes' = [writes EXCEPT ![c] = writes[c] + 1]
    BY DEF CallStep, Make, PreviewScope, PreviewState, DecidePreview, DecideUnavailable,
           DecideUnconfirmed, DecideAccepted, DecideRefused, ApplyScope, Verify, Write,
           ProviderFails
  <2> QED
    BY <2>1 DEF ProtocolInv, TypeOK
<1>5. pc' \in [Calls -> {"unmade"} \cup Busy \cup Final] /\ edits' = edits
  BY CallFrame DEF Places
<1>6. DOMAIN permits' \subseteq Numbers /\ DOMAIN origin' = DOMAIN permits'
  BY CallGate
<1> QED
  BY <1>1, <1>2, <1>3, <1>4, <1>5, <1>6 DEF ProtocolInv, TypeOK

-----------------------------------------------------------------------------
(* What a step means for the call that takes it, and for the other calls *)

\* A call that was read by another party's step keeps what it knows.
LEMMA OthersKept ==
    ASSUME ProtocolInv, TypeOK', PermitsKept, Observe, NEW c \in Calls, Untouched(c)
    PROVE  /\ CallInv(c)'
           /\ Spent(c)' => Spent(c)
<1>1. CallInv(c)
  BY DEF ProtocolInv
<1>2. Payload(c)' = Payload(c)
  BY DEF Untouched, Payload
<1>3. TokenKnown(c)' /\ WritesOnce(c)'
  BY <1>1 DEF CallInv, TokenKnown, WritesOnce, Untouched, PermitsKept
<1>4. Paid(c)' /\ (Spent(c)' => Spent(c))
  BY <1>1, <1>2 DEF CallInv, Paid, Spent, Matches, Untouched, PermitsKept
<1>5. /\ held[c].made \subseteq held'[c].made
      /\ pc'[c] \in Accepted /\ request'[c].token # NoToken =>
            held[c].accepted \subseteq held'[c].accepted
  BY Observing DEF ProtocolInv
<1>6. ShownHeld(c)'
  <2>1. SUFFICES ASSUME pc'[c] \in {"decide"} \cup Accepted, Matches(c)'
                 PROVE  "shown" \in held'[c].made
    BY DEF ShownHeld
  <2>2. pc[c] \in {"decide"} \cup Accepted /\ pc[c] # "unmade"
    BY <2>1, PlacesApart DEF Untouched
  <2>3. request[c].token # NoToken
    BY <2>1, ProtocolAssumption DEF Matches, Untouched, TypeOK
  <2>4. request[c].token \in DOMAIN permits
    BY <2>2, <2>3, RequestOf
  <2>5. Matches(c)
    BY <1>2, <2>1, <2>4 DEF Matches, Untouched, PermitsKept
  <2> QED
    BY <1>1, <1>5, <2>2, <2>5 DEF CallInv, ShownHeld
<1>7. BoardHeld(c)' /\ RevisionHeld(c)'
  <2>1. SUFFICES ASSUME pc'[c] \in {"verify", "write"}
                 PROVE  BoardHeld(c)' /\ RevisionHeld(c)'
    BY DEF BoardHeld, RevisionHeld
  <2>2. Spent(c)' /\ Spent(c) /\ pc'[c] \in Accepted
    BY <1>4, <2>1 DEF Spent, Accepted
  <2>3. request'[c].token # NoToken
    BY <1>4, <2>2, ProtocolAssumption DEF Paid, Matches, TypeOK
  <2>4. held[c].accepted \subseteq held'[c].accepted
    BY <1>5, <2>2, <2>3
  <2> QED
    BY <1>1, <2>4 DEF CallInv, BoardHeld, RevisionHeld, Untouched
<1> QED
  BY <1>3, <1>4, <1>6, <1>7 DEF CallInv

\* A call that ends without a write leaves nothing to pay for.
LEMMA Ending ==
    ASSUME NEW c \in Calls, CallInv(c), PermitsKept, pc[c] \in Busy, pc'[c] \in Final,
           request'[c] = request[c], writes'[c] = writes[c]
    PROVE  CallInv(c)' /\ ~Spent(c)'
<1>1. writes'[c] = 0
  BY DEF CallInv, WritesOnce
<1>2. pc'[c] \notin Busy \cup {"unmade"} /\ pc'[c] \notin Accepted /\ pc'[c] # "decide"
  BY PlacesApart
<1>3. pc'[c] \notin {"verify", "write"}
  BY <1>2 DEF Accepted
<1>4. pc[c] # "unmade"
  BY PlacesApart
<1>5. TokenKnown(c)'
  BY <1>4 DEF CallInv, TokenKnown, PermitsKept
<1> QED
  BY <1>1, <1>2, <1>3, <1>5
     DEF CallInv, WritesOnce, Paid, Spent, ShownHeld, BoardHeld, RevisionHeld

\* A call on its way to the decision has written nothing and shown nothing.
LEMMA Starting ==
    ASSUME NEW c \in Calls, TokenKnown(c)', writes'[c] = 0,
           pc'[c] \in {"previewScope", "previewState"}
    PROVE  CallInv(c)' /\ ~Spent(c)'
BY DEF CallInv, WritesOnce, Paid, Spent, ShownHeld, BoardHeld, RevisionHeld, Accepted

\* What a call sees in the step that reads the target for its preview.
LEMMA ReadingShows ==
    ASSUME ProtocolInv, TypeOK', Observe, NEW c \in Calls, PreviewState(c)
    PROVE  CallInv(c)' /\ ~Spent(c)'
<1>1. /\ pc[c] = "previewState" /\ pc'[c] = "decide" /\ request' = request
      /\ seen'[c] = resource /\ resource' = resource /\ writes' = writes
      /\ permits' = permits
  BY DEF PreviewState, Goes, ProtocolInv, TypeOK, gateVars
<1>2. CallInv(c)
  BY DEF ProtocolInv
<1>3. writes'[c] = 0
  BY <1>1, <1>2 DEF CallInv, WritesOnce, Busy
<1>4. TokenKnown(c)'
  BY <1>1, <1>2 DEF CallInv, TokenKnown
<1>5. ASSUME Matches(c)' PROVE "shown" \in held'[c].made
  <2>1. request'[c].token \in DOMAIN permits' /\ request'[c].token # NoToken
    BY <1>5, ProtocolAssumption DEF Matches, TypeOK
  <2>2. permits'[request'[c].token].payload
          = [tool |-> request'[c].tool, change |-> request'[c].change,
             shown |-> Shown(request'[c].tool, request'[c].change, resource')]
    BY <1>1, <1>5 DEF Matches, Payload
  <2>3. "shown" \in Agreeing(resource', permits', request'[c].token)
    BY <2>1, <2>2 DEF Agreeing
  <2>4. Agreeing(resource', permits', request'[c].token) \subseteq held'[c].made
    BY <1>1, <2>1, PlacesApart, Observing DEF ProtocolInv
  <2> QED
    BY <2>3, <2>4
<1> QED
  BY <1>1, <1>3, <1>4, <1>5
     DEF CallInv, WritesOnce, Paid, Spent, ShownHeld, BoardHeld, RevisionHeld, Accepted

\* The step in which a permit is redeemed: it was open, so no other call
\* paid with it.
LEMMA Redeeming ==
    ASSUME ProtocolInv, TypeOK', Observe, NEW c \in Calls, DecideAccepted(c)
    PROVE  /\ CallInv(c)'
           /\ \A d \in Calls : Spent(d) => request[d].token # request[c].token
<1>1. PICK L \in SUBSET Permit!Open : Permit!Redeem(request[c].token, Payload(c), L)
  BY DEF DecideAccepted
<1>2. /\ PermitsKept /\ DOMAIN permits' = DOMAIN permits
      /\ request[c].token \in DOMAIN permits /\ permits[request[c].token].status = "open"
      /\ permits[request[c].token].payload = Payload(c)
      /\ permits'[request[c].token].status = "used"
  BY <1>1, RedeemingKeeps DEF ProtocolInv
<1>3. /\ pc[c] = "decide" /\ pc'[c] = AfterAcceptance(request[c].tool)
      /\ request' = request /\ seen' = seen /\ writes' = writes
  BY DEF DecideAccepted, Goes, ProtocolInv, TypeOK
<1>4. CallInv(c)
  BY DEF ProtocolInv
<1>5. writes'[c] = 0
  BY <1>3, <1>4 DEF CallInv, WritesOnce, Busy
<1>6. TokenKnown(c)'
  BY <1>2, <1>3, <1>4 DEF CallInv, TokenKnown
<1>7. Paid(c)'
  BY <1>2, <1>3 DEF Paid, Matches, Payload, PermitsKept
<1>8. "shown" \in held'[c].made
  <2>1. "shown" \in held[c].made
    BY <1>2, <1>3, <1>4 DEF CallInv, ShownHeld, Matches
  <2> QED
    BY <2>1, Observing DEF ProtocolInv
<1>9. /\ pc'[c] \in {"verify", "write"} => request'[c].tool \notin JiraTools
      /\ pc'[c] = "write" => request'[c].tool \notin {"update", "pull"}
  BY <1>3 DEF AfterAcceptance, Rechecked, JiraTools
<1>10. \A d \in Calls : Spent(d) => request[d].token # request[c].token
  BY <1>2 DEF ProtocolInv, CallInv, Paid
<1> QED
  BY <1>5, <1>6, <1>7, <1>8, <1>9, <1>10
     DEF CallInv, WritesOnce, ShownHeld, BoardHeld, RevisionHeld

\* The second look at the board: a Jira tool that goes on has seen it.
LEMMA LookingAgain ==
    ASSUME ProtocolInv, TypeOK', PermitsKept, Observe, NEW c \in Calls, ApplyScope(c),
           pc'[c] # "failed"
    PROVE  CallInv(c)'
<1>1. /\ pc[c] = "applyScope" /\ InScope(resource)
      /\ pc'[c] = IF Rechecked(request[c].tool) THEN "verify" ELSE "write"
      /\ request' = request /\ seen' = seen /\ writes' = writes /\ resource' = resource
  BY DEF ApplyScope, Goes, ProtocolInv, TypeOK
<1>2. CallInv(c) /\ Spent(c)
  BY <1>1 DEF ProtocolInv, Spent, Accepted
<1>3. writes'[c] = 0
  BY <1>1, <1>2 DEF CallInv, WritesOnce, Busy
<1>4. TokenKnown(c)'
  BY <1>1, <1>2 DEF CallInv, TokenKnown, PermitsKept
<1>5. Paid(c)'
  BY <1>1, <1>2 DEF CallInv, Paid, Matches, Payload, PermitsKept
<1>6. "shown" \in held'[c].made
  <2>1. "shown" \in held[c].made
    BY <1>1, <1>2 DEF CallInv, ShownHeld, Paid, Accepted
  <2> QED
    BY <2>1, Observing DEF ProtocolInv
<1>7. request'[c].tool \in JiraTools => "board" \in held'[c].accepted
  <2>1. SUFFICES ASSUME request[c].tool \in JiraTools PROVE "board" \in held'[c].accepted
    BY <1>1
  <2>2. request[c].tool \in Tools /\ request[c].token # NoToken
    BY <1>1, <1>2, RequestOf, ProtocolAssumption DEF CallInv, Paid, Matches, ProtocolInv, TypeOK
  <2>3. "board" \in DOMAIN resource'
    BY <1>1, <2>1, <2>2, AspectsRead DEF ProtocolInv, TypeOK
  <2>4. "board" \in Agreeing(resource', permits', request'[c].token)
    BY <1>1, <2>3 DEF Agreeing
  <2>5. pc'[c] \in Accepted
    BY <1>1 DEF Accepted
  <2>6. Agreeing(resource', permits', request'[c].token) \subseteq held'[c].accepted
    BY <1>1, <2>2, <2>5, Observing DEF ProtocolInv
  <2> QED
    BY <2>4, <2>6
<1>8. pc'[c] = "write" => request'[c].tool \notin {"update", "pull"}
  BY <1>1 DEF Rechecked
<1> QED
  BY <1>3, <1>4, <1>5, <1>6, <1>7, <1>8
     DEF CallInv, WritesOnce, ShownHeld, BoardHeld, RevisionHeld

\* The second look at what was shown: a call that goes on has seen it.
LEMMA Verifying ==
    ASSUME ProtocolInv, TypeOK', PermitsKept, Observe, NEW c \in Calls, Verify(c),
           pc'[c] # "failed"
    PROVE  CallInv(c)'
<1>1. /\ pc[c] = "verify" /\ pc'[c] = "write"
      /\ Shown(request[c].tool, request[c].change, resource) = Payload(c).shown
      /\ request' = request /\ seen' = seen /\ writes' = writes /\ resource' = resource
  BY DEF Verify, Goes, ProtocolInv, TypeOK
<1>2. CallInv(c) /\ Spent(c)
  BY <1>1 DEF ProtocolInv, Spent, Accepted
<1>3. writes'[c] = 0
  BY <1>1, <1>2 DEF CallInv, WritesOnce, Busy
<1>4. TokenKnown(c)'
  BY <1>1, <1>2 DEF CallInv, TokenKnown, PermitsKept
<1>5. Paid(c)'
  BY <1>1, <1>2 DEF CallInv, Paid, Matches, Payload, PermitsKept
<1>6. "shown" \in held'[c].made
  <2>1. "shown" \in held[c].made
    BY <1>1, <1>2 DEF CallInv, ShownHeld, Paid, Accepted
  <2> QED
    BY <2>1, Observing DEF ProtocolInv
<1>7. /\ request'[c].token # NoToken /\ request'[c].token \in DOMAIN permits'
      /\ permits'[request'[c].token].payload = Payload(c)
  <2>1. Matches(c)' /\ Payload(c)' = Payload(c)
    BY <1>1, <1>2, <1>5 DEF Paid, Spent, Accepted, Payload
  <2> QED
    BY <2>1, ProtocolAssumption DEF Matches, TypeOK
<1>8. pc'[c] \in Accepted
  BY <1>1 DEF Accepted
<1>9. "shown" \in held'[c].accepted
  <2>1. "shown" \in Agreeing(resource', permits', request'[c].token)
    <3>1. /\ Payload(c).tool = request[c].tool /\ Payload(c).change = request[c].change
      BY DEF Payload
    <3> QED
      BY <1>1, <1>7, <3>1 DEF Agreeing
  <2> QED
    BY <1>7, <1>8, <2>1, Observing DEF ProtocolInv
<1>10. request'[c].tool \in JiraTools => "board" \in held'[c].accepted
  <2>1. held[c].accepted \subseteq held'[c].accepted
    BY <1>7, <1>8, Observing DEF ProtocolInv
  <2> QED
    BY <1>1, <1>2, <2>1 DEF CallInv, BoardHeld
<1> QED
  BY <1>3, <1>4, <1>5, <1>6, <1>9, <1>10
     DEF CallInv, WritesOnce, ShownHeld, BoardHeld, RevisionHeld, Busy

\* The write: the call's first, and its last step.
LEMMA Writing ==
    ASSUME ProtocolInv, PermitsKept, NEW c \in Calls, Write(c)
    PROVE  CallInv(c)' /\ Spent(c)
<1>1. /\ pc[c] = "write" /\ pc'[c] \in {"applied", "failed"}
      /\ request' = request /\ seen' = seen /\ writes'[c] = writes[c] + 1
  BY DEF Write, Goes, Outcomes, ProtocolInv, TypeOK
<1>2. CallInv(c) /\ Spent(c)
  BY <1>1 DEF ProtocolInv, Spent, Accepted
<1>3. writes'[c] = 1
  BY <1>1, <1>2 DEF CallInv, WritesOnce, Busy
<1>4. pc'[c] \notin Busy \cup {"unmade", "decide", "verify", "write"} /\ pc'[c] \notin Accepted
  BY <1>1 DEF Busy, Accepted
<1>5. TokenKnown(c)'
  BY <1>1, <1>2 DEF CallInv, TokenKnown, PermitsKept
<1>6. Paid(c)'
  BY <1>1, <1>2 DEF CallInv, Paid, Matches, Payload, PermitsKept
<1> QED
  BY <1>2, <1>3, <1>4, <1>5, <1>6
     DEF CallInv, WritesOnce, ShownHeld, BoardHeld, RevisionHeld

-----------------------------------------------------------------------------
(* The invariant is kept *)

\* A call keeps its invariant in its own step.
LEMMA OwnStep ==
    ASSUME ProtocolInv, TypeOK', PermitsKept, Observe, NEW c \in Calls, CallStep(c)
    PROVE  /\ CallInv(c)'
           /\ Spent(c)' /\ ~Spent(c) =>
                \A d \in Calls : Spent(d) => request[d].token # request'[c].token
           /\ Spent(c) => request'[c] = request[c]
<1>1. CallInv(c)
  BY DEF ProtocolInv
<1>2. ASSUME NEW asked \in Requests, Make(c, asked)
      PROVE  CallInv(c)' /\ ~Spent(c)' /\ ~Spent(c)
  <2>1. /\ pc[c] = "unmade" /\ pc'[c] \in {"previewScope", "previewState"}
        /\ request'[c] = asked /\ writes' = writes /\ permits' = permits
    BY <1>2 DEF Make, Goes, ProtocolInv, TypeOK, gateVars
  <2>2. writes[c] = 0 /\ ~Spent(c)
    BY <1>1, <2>1, PlacesApart DEF CallInv, WritesOnce, Spent
  <2>3. TokenKnown(c)'
    BY <1>2, <2>1 DEF TokenKnown, Make
  <2> QED
    BY <2>1, <2>2, <2>3, Starting
<1>3. ASSUME PreviewScope(c), pc'[c] # "failed" PROVE CallInv(c)' /\ ~Spent(c)'
  <2>1. /\ pc[c] = "previewScope" /\ pc'[c] = "previewState"
        /\ request' = request /\ writes' = writes /\ permits' = permits
    BY <1>3 DEF PreviewScope, Goes, ProtocolInv, TypeOK, gateVars
  <2>2. writes'[c] = 0 /\ TokenKnown(c)'
    BY <1>1, <2>1 DEF CallInv, WritesOnce, TokenKnown, Busy
  <2> QED
    BY <2>1, <2>2, Starting
<1>4. ASSUME \/ PreviewScope(c) /\ pc'[c] = "failed"
             \/ DecidePreview(c) \/ DecideUnavailable(c) \/ DecideUnconfirmed(c)
             \/ DecideRefused(c) \/ ProviderFails(c)
             \/ ApplyScope(c) /\ pc'[c] = "failed"
             \/ Verify(c) /\ pc'[c] = "failed"
      PROVE  CallInv(c)' /\ ~Spent(c)' /\ request' = request
  <2>1. pc[c] \in Busy
    BY <1>4 DEF PreviewScope, DecidePreview, DecideUnavailable, DecideUnconfirmed,
         DecideRefused, ProviderFails, ApplyScope, Verify, Busy
  <2>2. request' = request /\ writes' = writes
    BY <1>4 DEF PreviewScope, DecidePreview, DecideUnavailable, DecideUnconfirmed,
         DecideRefused, ProviderFails, ApplyScope, Verify
  <2>3. pc'[c] \in {"failed", "preview", "refused"}
    BY <1>4 DEF DecidePreview, DecideUnavailable, DecideUnconfirmed,
         DecideRefused, ProviderFails, Goes, ProtocolInv, TypeOK
  <2> QED
    BY <1>1, <2>1, <2>2, <2>3, Ending DEF Final
<1>5. ASSUME PreviewState(c) PROVE CallInv(c)' /\ ~Spent(c)'
  BY <1>5, ReadingShows
<1>6. ASSUME DecideAccepted(c)
      PROVE  /\ CallInv(c)' /\ request' = request
             /\ \A d \in Calls : Spent(d) => request[d].token # request'[c].token
  <2>1. request' = request
    BY <1>6 DEF DecideAccepted
  <2> QED
    BY <1>6, <2>1, Redeeming
<1>7. ASSUME ApplyScope(c), pc'[c] # "failed" PROVE CallInv(c)' /\ Spent(c)
  <2>1. Spent(c)
    BY <1>7 DEF ApplyScope, Spent, Accepted
  <2> QED
    BY <1>7, <2>1, LookingAgain
<1>8. ASSUME Verify(c), pc'[c] # "failed" PROVE CallInv(c)' /\ Spent(c)
  <2>1. Spent(c)
    BY <1>8 DEF Verify, Spent, Accepted
  <2> QED
    BY <1>8, <2>1, Verifying
<1>9. ASSUME Write(c) PROVE CallInv(c)' /\ Spent(c)
  BY <1>9, Writing
<1>10. ASSUME ~\E asked \in Requests : Make(c, asked) PROVE request' = request
  BY <1>10 DEF CallStep, PreviewScope, PreviewState, DecidePreview, DecideUnavailable,
         DecideUnconfirmed, DecideAccepted, DecideRefused, ApplyScope, Verify, Write,
         ProviderFails
<1> QED
  BY <1>2, <1>3, <1>4, <1>5, <1>6, <1>7, <1>8, <1>9, <1>10 DEF CallStep

\* A step of one call keeps the invariant of all of them.
LEMMA CallKept ==
    ASSUME ProtocolInv, Observe, NEW c \in Calls, CallStep(c)
    PROVE  ProtocolInv'
<1>1. TypeOK'
  BY CallTyped
<1>2. GateTyped' /\ PermitsKept
  BY CallGate
<1>3. HeldTyped'
  BY Observing DEF ProtocolInv
<1>4. \A d \in Calls \ {c} : Untouched(d)
  BY CallFrame
<1>5. \A d \in Calls \ {c} : CallInv(d)' /\ (Spent(d)' => Spent(d))
  BY <1>1, <1>2, <1>4, OthersKept
<1>6. /\ CallInv(c)'
      /\ Spent(c)' /\ ~Spent(c) =>
           \A d \in Calls : Spent(d) => request[d].token # request'[c].token
      /\ Spent(c) => request'[c] = request[c]
  BY <1>1, <1>2, OwnStep
<1>7. TokensApart'
  <2>1. SUFFICES ASSUME NEW d \in Calls, NEW e \in Calls, Spent(d)', Spent(e)',
                        request'[d].token = request'[e].token
                 PROVE  d = e
    BY DEF TokensApart
  <2>2. TokensApart
    BY DEF ProtocolInv
  <2>3. \A f \in Calls \ {c} : request'[f] = request[f]
    BY <1>4 DEF Untouched
  <2>4. CASE d # c /\ e # c
    BY <1>5, <2>1, <2>2, <2>3, <2>4 DEF TokensApart
  <2>5. CASE d = c /\ e # c
    BY <1>5, <1>6, <2>1, <2>2, <2>3, <2>5 DEF TokensApart
  <2>6. CASE d # c /\ e = c
    BY <1>5, <1>6, <2>1, <2>2, <2>3, <2>6 DEF TokensApart
  <2> QED
    BY <2>4, <2>5, <2>6
<1> QED
  BY <1>1, <1>2, <1>3, <1>5, <1>6, <1>7 DEF ProtocolInv

\* Other people's changes concern no call.
LEMMA EditKept ==
    ASSUME ProtocolInv, Observe, NEW aspect \in Aspects, NEW change \in Changes,
           Edit(aspect, [by |-> Others, change |-> change])
    PROVE  ProtocolInv'
<1> DEFINE mark == [by |-> Others, change |-> change]
<1>1. mark \in Marks
  BY DEF Marks
<1>2. /\ edits' = edits + 1 /\ edits < MaxEdits
      /\ resource' = [resource EXCEPT ![aspect] =
                        IF mark \in resource[aspect] THEN resource[aspect] \ {mark}
                        ELSE resource[aspect] \cup {mark}]
      /\ UNCHANGED <<pc, request, seen, origin, writes, gateVars>>
  BY DEF Edit
<1>3. resource' \in [Aspects -> SUBSET Marks]
  <2> HIDE DEF mark
  <2>1. (IF mark \in resource[aspect] THEN resource[aspect] \ {mark}
         ELSE resource[aspect] \cup {mark}) \in SUBSET Marks
    BY <1>1 DEF ProtocolInv, TypeOK
  <2> QED
    BY <1>2, <2>1 DEF ProtocolInv, TypeOK
<1>4. edits' \in 0 .. MaxEdits
  BY <1>2, ProtocolAssumption DEF ProtocolInv, TypeOK
<1>5. GateTyped' /\ PermitsKept /\ DOMAIN permits' \subseteq Numbers
      /\ DOMAIN origin' = DOMAIN permits'
  BY <1>2, GateApart
<1>6. TypeOK'
  BY <1>2, <1>3, <1>4, <1>5 DEF ProtocolInv, TypeOK
<1>7. \A c \in Calls : Untouched(c)
  BY <1>2 DEF Untouched
<1>8. \A c \in Calls : CallInv(c)' /\ (Spent(c)' => Spent(c))
  BY <1>5, <1>6, <1>7, OthersKept
<1>9. HeldTyped' /\ request' = request
  BY <1>2, Observing DEF ProtocolInv
<1>10. TokensApart'
  BY <1>8, <1>9 DEF ProtocolInv, TokensApart
<1> QED
  BY <1>5, <1>6, <1>8, <1>9, <1>10 DEF ProtocolInv

\* The end of the server process takes the calls under way with it.
LEMMA CrashKept ==
    ASSUME ProtocolInv, Observe, Crash
    PROVE  ProtocolInv'
<1>1. /\ pc' = [c \in Calls |-> IF pc[c] \in Busy THEN "lost" ELSE pc[c]]
      /\ UNCHANGED <<resource, edits, request, seen, origin, writes>>
      /\ permits' = Permit!Lapsed(Permit!Open) /\ clock' = clock
  BY DEF Crash, Permit!Forget
<1>2. GateTyped' /\ PermitsKept /\ DOMAIN permits' \subseteq Numbers
      /\ DOMAIN origin' = DOMAIN permits'
  BY <1>1, GateLapsing
<1>3. pc' \in [Calls -> {"unmade"} \cup Busy \cup Final]
  BY <1>1 DEF ProtocolInv, TypeOK, Final
<1>4. TypeOK'
  BY <1>1, <1>2, <1>3 DEF ProtocolInv, TypeOK
<1>5. ASSUME NEW c \in Calls PROVE CallInv(c)' /\ (Spent(c)' => Spent(c))
  <2>1. CASE pc[c] \in Busy
    <3>1. pc'[c] \in Final /\ request'[c] = request[c] /\ writes'[c] = writes[c]
      BY <1>1, <2>1 DEF Final
    <3> QED
      BY <1>2, <2>1, <3>1, Ending DEF ProtocolInv
  <2>2. CASE pc[c] \notin Busy
    <3>1. Untouched(c)
      BY <1>1, <2>2 DEF Untouched
    <3> QED
      BY <1>2, <1>4, <3>1, OthersKept
  <2> QED
    BY <2>1, <2>2
<1>6. HeldTyped' /\ request' = request
  BY <1>1, Observing DEF ProtocolInv
<1>7. TokensApart'
  BY <1>5, <1>6 DEF ProtocolInv, TokensApart
<1> QED
  BY <1>2, <1>4, <1>5, <1>6, <1>7 DEF ProtocolInv

LEMMA InvariantInit == Init => ProtocolInv
<1> SUFFICES ASSUME Init PROVE ProtocolInv
  OBVIOUS
<1>1. TypeOK
  <2>1. resource \in [Aspects -> SUBSET Marks] /\ seen \in [Calls -> [Aspects -> SUBSET Marks]]
    BY DEF Init
  <2>2. edits \in 0 .. MaxEdits /\ writes \in [Calls -> Nat]
    BY ProtocolAssumption DEF Init
  <2>3. /\ pc \in [Calls -> {"unmade"} \cup Busy \cup Final]
        /\ request \in [Calls -> Requests \cup {NoRequest}]
    BY DEF Init
  <2>4. DOMAIN permits = {} /\ DOMAIN origin = {}
    BY DEF Init, Permit!PInit
  <2> QED
    BY <2>1, <2>2, <2>3, <2>4 DEF TypeOK
<1>2. GateTyped
  BY DEF Init, Permit!PInit, GateTyped
<1>3. HeldTyped
  BY DEF Init, HeldTyped
<1>4. ASSUME NEW c \in Calls PROVE CallInv(c) /\ ~Spent(c)
  <2>1. pc[c] = "unmade" /\ writes[c] = 0
    BY DEF Init
  <2> QED
    BY <2>1, PlacesApart DEF CallInv, TokenKnown, WritesOnce, Paid, Spent, ShownHeld, BoardHeld,
       RevisionHeld
<1> QED
  BY <1>1, <1>2, <1>3, <1>4 DEF ProtocolInv, TokensApart

LEMMA InvariantNext == ProtocolInv /\ [Next]_vars => ProtocolInv'
<1> SUFFICES ASSUME ProtocolInv, [Next]_vars PROVE ProtocolInv'
  OBVIOUS
<1>1. CASE UNCHANGED vars
  BY <1>1 DEF vars, ProtocolInv, TypeOK, GateTyped, HeldTyped, CallInv, TokenKnown, WritesOnce,
     Paid, Spent, Matches, Payload, ShownHeld, BoardHeld, RevisionHeld, TokensApart
<1>2. ASSUME NEW c \in Calls, CallStep(c), Observe PROVE ProtocolInv'
  BY <1>2, CallKept
<1>3. ASSUME NEW aspect \in Aspects, NEW change \in Changes, Observe,
             Edit(aspect, [by |-> Others, change |-> change])
      PROVE  ProtocolInv'
  BY <1>3, EditKept
<1>4. ASSUME Crash, Observe PROVE ProtocolInv'
  BY <1>4, CrashKept
<1> QED
  BY <1>1, <1>2, <1>3, <1>4 DEF Next, Step

LEMMA Invariant == Spec => []ProtocolInv
  BY InvariantInit, InvariantNext, PTL DEF Spec

-----------------------------------------------------------------------------
(* Theorems *)

\* Calls, the target and the permits keep their types (TypeOK), whatever the
\* calls, other people and crashes do.
THEOREM ProtocolTypeCorrect == Spec => []TypeOK
<1>1. ProtocolInv => TypeOK
  BY DEF ProtocolInv
<1> QED
  BY <1>1, Invariant, PTL

\* Every write was announced, and a preview accounts for one write
\* (OneWritePerPreview), for any number of concurrent calls of any tools.
THEOREM WritesAreAnnounced == Spec => []OneWritePerPreview
<1>1. ProtocolInv => OneWritePerPreview
  <2> SUFFICES ASSUME ProtocolInv, NEW c \in Calls, writes[c] > 0
               PROVE  /\ writes[c] = 1
                      /\ request[c].token \in DOMAIN permits
                      /\ permits[request[c].token].payload = Payload(c)
                      /\ \A d \in Calls :
                            writes[d] > 0 /\ request[d].token = request[c].token => d = c
    BY DEF OneWritePerPreview
  <2>1. writes[c] = 1
    BY DEF ProtocolInv, CallInv, WritesOnce
  <2>2. Matches(c)
    BY DEF ProtocolInv, CallInv, Paid, Spent
  <2>3. \A d \in Calls : writes[d] > 0 /\ request[d].token = request[c].token => d = c
    BY DEF ProtocolInv, TokensApart, Spent
  <2> QED
    BY <2>1, <2>2, <2>3 DEF Matches
<1> QED
  BY <1>1, Invariant, PTL

\* Only the step Write writes.
LEMMA OnlyWrite ==
    ASSUME ProtocolInv, [Next]_vars, NEW c \in Calls, Writes(c)
    PROVE  pc[c] = "write"
<1>1. writes[c] \in Nat /\ writes'[c] > writes[c] /\ writes' # writes
  BY DEF Writes, ProtocolInv, TypeOK
<1>2. PICK d \in Calls : CallStep(d)
  BY <1>1 DEF Next, Step, Edit, Crash, vars
<1>3. d = c
  BY <1>1, <1>2, CallFrame DEF Untouched
<1> QED
  BY <1>1, <1>2, <1>3 DEF CallStep, Make, PreviewScope, PreviewState, DecidePreview,
     DecideUnavailable, DecideUnconfirmed, DecideAccepted, DecideRefused, ApplyScope, Verify,
     Write, ProviderFails

\* A write is preceded, within its call, by a moment at which the provider was
\* in the state that was confirmed (ConfirmedStateHeld).
THEOREM ConfirmedStates == Spec => ConfirmedStateHeld
<1>1. ProtocolInv /\ [Next]_vars
      => (\A c \in Calls : Writes(c) => "shown" \in held[c].made)
  <2> SUFFICES ASSUME ProtocolInv, [Next]_vars, NEW c \in Calls, Writes(c)
               PROVE  "shown" \in held[c].made
    OBVIOUS
  <2>1. pc[c] \in Accepted /\ CallInv(c)
    BY OnlyWrite DEF Accepted, ProtocolInv
  <2> QED
    BY <2>1 DEF CallInv, Paid, Spent, ShownHeld
<1> QED
  BY <1>1, Invariant, PTL DEF Spec, ConfirmedStateHeld

\* Field edits, pull-request changes and Jira writes are preceded by such a
\* moment after the token was accepted (RecheckedBeforeWrite).
THEOREM RecheckedWrites == Spec => RecheckedBeforeWrite
<1>1. ProtocolInv /\ [Next]_vars
      => (\A c \in Calls : Writes(c) =>
            /\ request[c].tool \in {"update", "pull"} => "shown" \in held[c].accepted
            /\ request[c].tool \in JiraTools => "board" \in held[c].accepted)
  <2> SUFFICES ASSUME ProtocolInv, [Next]_vars, NEW c \in Calls, Writes(c)
               PROVE  /\ request[c].tool \in {"update", "pull"} => "shown" \in held[c].accepted
                      /\ request[c].tool \in JiraTools => "board" \in held[c].accepted
    OBVIOUS
  <2>1. pc[c] = "write" /\ CallInv(c)
    BY OnlyWrite DEF ProtocolInv
  <2> QED
    BY <2>1 DEF CallInv, BoardHeld, RevisionHeld
<1> QED
  BY <1>1, Invariant, PTL DEF Spec, RecheckedBeforeWrite
=============================================================================

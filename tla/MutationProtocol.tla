-------------------------- MODULE MutationProtocol --------------------------
(***************************************************************************)
(* A provider write of the MCP server, from the assistant's tool call to   *)
(* the provider's answer: the confirmation steps of server.rs and the      *)
(* preview_* and apply_* methods of the Jira and Bitbucket backends.       *)
(*                                                                         *)
(* A call reads what it is about to change, puts the request and that      *)
(* reading in front of the confirmation gate, and then returns a preview   *)
(* with a token, is refused, or checks once more and writes.  Calls run    *)
(* concurrently, and between any two requests to the provider other people *)
(* change the same issue or pull request.                                  *)
(*                                                                         *)
(* The gate is OneTimePermit, which ConfirmationGate implements.  Permits  *)
(* may lapse at any call, which covers expiry, so its clock stands still.  *)
(***************************************************************************)
EXTENDS Naturals, FiniteSets

CONSTANTS Calls,      \* tool calls, each made once
          Tools,      \* the tools of this instance
          Changes,    \* what a request asks for
          Others,     \* other people at the provider
          NoToken,    \* a call without confirmationToken
          Numbers,    \* permit numbers
          MaxEdits    \* bound: changes made by other people

\* "pull" stands for every tool on an existing pull request: update, comment,
\* the four review actions, merge and decline differ in the change they ask
\* for, which their previews name.
JiraTools == {"update", "comment", "transition", "worklog"}
BitbucketTools == {"create", "pull"}

ASSUME ProtocolAssumption ==
    /\ Tools \subseteq JiraTools \cup BitbucketTools
    /\ Others \notin Calls
    /\ Numbers \subseteq Nat
    /\ NoToken \notin Numbers
    /\ MaxEdits \in Nat

-----------------------------------------------------------------------------
(* What the tools read and write *)

\* One thing that was done to the target: who did it and what it was.
Marks == [by : Calls \cup {Others}, change : Changes]

\* The part of the target a preview reads, and the part a write changes.
ReadBy(tool) == CASE tool = "update"     -> {"fields"}
                  [] tool = "transition" -> {"transitions"}
                  [] tool = "worklog"    -> {"worklogs"}
                  [] tool = "create"     -> {"reviewers"}
                  [] tool = "pull"       -> {"pullRequest"}
                  [] OTHER               -> {}

ChangedBy(tool) == CASE tool = "comment"    -> {"comments"}
                     [] tool = "transition" -> {"status"}
                     [] tool = "create"     -> {"pullRequests"}
                     [] OTHER               -> ReadBy(tool)

\* An issue is in scope while nobody has moved it off the configured board.
Aspects == (UNION {ReadBy(tool) \cup ChangedBy(tool) : tool \in Tools})
           \cup (IF Tools \cap JiraTools # {} THEN {"board"} ELSE {})

InScope(state) == state["board"] = {}

\* preview_update: the values of the fields that are to be set.
FieldsShown(state) == {m.change : m \in state["fields"]}

\* possible_duplicates: the worklogs that this one would repeat (own, same day,
\* same duration).
DuplicatesShown(change, state) == {m \in state["worklogs"] : m.change = change}

\* The revision of the pull request: its updated_on moves with everything that
\* is done to it.
RevisionShown(state) == state["pullRequest"]

\* resolved_reviewers: the default reviewers are looked up for the preview.
ReviewersShown(state) == state["reviewers"]

\* transition_effect: the status the transition leads to.
TargetShown(state) == state["transitions"]

\* What of the target the preview shows.  A comment shows none of it.
Shown(tool, change, state) ==
    CASE tool = "update"     -> FieldsShown(state)
      [] tool = "worklog"    -> DuplicatesShown(change, state)
      [] tool = "pull"       -> RevisionShown(state)
      [] tool = "create"     -> ReviewersShown(state)
      [] tool = "transition" -> TargetShown(state)
      [] OTHER               -> {}

\* The state is read and compared again after the token was accepted.
Rechecked(tool) == tool \in {"update", "pull"}

\* The target after a write: a field edit and a transition replace, the other
\* tools add.
Written(state, c, tool, change) ==
    LET mark == [by |-> c, change |-> change] IN
    [aspect \in DOMAIN state |->
       IF aspect \notin ChangedBy(tool) THEN state[aspect]
       ELSE IF tool \in {"update", "transition"} THEN {mark} ELSE state[aspect] \cup {mark}]

-----------------------------------------------------------------------------
VARIABLES resource,   \* the issue or pull request at the provider
          edits,      \* how often other people changed it
          pc,         \* where each call is
          request,    \* call -> [tool, change, confirmed, token]
          seen,       \* call -> the target as the preview read it
          origin,     \* history: permit number -> the call that returned it
          writes,     \* history: call -> writes that reached the provider
          held,       \* history: what was true at the provider meanwhile
          permits, clock, answer    \* the gate

gateVars == <<permits, clock, answer>>
vars == <<resource, edits, pc, request, seen, origin, writes, held, permits, clock, answer>>

\* Mutant: the payload is the request alone.
PayloadOfRequest(c) == [tool |-> request[c].tool, change |-> request[c].change, shown |-> {}]

\* The payload of the gate: the request without its control fields, and the
\* preview (confirmation_payload_with_context).
Payload(c) == [tool |-> request[c].tool, change |-> request[c].change,
               shown |-> Shown(request[c].tool, request[c].change, seen[c])]

Permit == INSTANCE OneTimePermit WITH Payloads <- {}, TTL <- 1

Busy == {"previewScope", "previewState", "decide", "applyScope", "verify", "write"}
Final == {"preview", "refused", "failed", "applied", "lost"}
Accepted == {"applyScope", "verify", "write"}

Requests == [tool : Tools, change : Changes, confirmed : BOOLEAN,
             token : Numbers \cup {NoToken}]
NoRequest == [tool |-> "none", token |-> NoToken]

Goes(c, place) == pc' = [pc EXCEPT ![c] = place]

\* Mutant: the board is not looked up again.
AfterAcceptanceDirectly(tool) == IF Rechecked(tool) THEN "verify" ELSE "write"

\* Jira tools look the board up again before they write.
AfterAcceptance(tool) == IF tool \in JiraTools THEN "applyScope"
                         ELSE IF Rechecked(tool) THEN "verify" ELSE "write"

\* Mutant: a write without an answer is sent again.
OutcomesWithRetry == {"applied", "failed", "write"}

\* Mutant: a write without an answer leaves its call behind.
OutcomesWithSilence == {"applied", "failed", "waiting"}

\* The answer to a write arrives, or is lost; nothing is sent again.
Outcomes == {"applied", "failed"}

Init == /\ resource = [aspect \in Aspects |-> {}]
        /\ edits = 0
        /\ pc = [c \in Calls |-> "unmade"]
        /\ request = [c \in Calls |-> NoRequest]
        /\ seen = [c \in Calls |-> resource]
        /\ origin = [number \in {} |-> 0]
        /\ writes = [c \in Calls |-> 0]
        /\ held = [c \in Calls |-> [made |-> {}, accepted |-> {}]]
        /\ Permit!PInit

-----------------------------------------------------------------------------
(* Steps of a call *)

\* The assistant calls a tool, with or without confirmed and a token.
Make(c, asked) ==
    /\ pc[c] = "unmade"
    /\ asked.token = NoToken \/ asked.token \in DOMAIN permits
    /\ request' = [request EXCEPT ![c] = asked]
    /\ Goes(c, IF asked.tool \in JiraTools THEN "previewScope" ELSE "previewState")
    /\ UNCHANGED <<resource, edits, seen, origin, writes, gateVars>>

\* ensure_issue_scope before the preview is built.
PreviewScope(c) ==
    /\ pc[c] = "previewScope"
    /\ Goes(c, IF InScope(resource) THEN "previewState" ELSE "failed")
    /\ UNCHANGED <<resource, edits, request, seen, origin, writes, gateVars>>

\* The reading that goes into the preview.
PreviewState(c) ==
    /\ pc[c] = "previewState"
    /\ seen' = [seen EXCEPT ![c] = resource]
    /\ Goes(c, "decide")
    /\ UNCHANGED <<resource, edits, request, origin, writes, gateVars>>

\* decide_confirmation without a token: prepare, whatever confirmed says.
DecidePreview(c) ==
    /\ pc[c] = "decide"
    /\ request[c].token = NoToken
    /\ \E number \in Numbers, L \in SUBSET Permit!Open :
         /\ \A other \in Numbers : other < number => other \in DOMAIN permits
         /\ Permit!Issue(number, Payload(c), L)
         /\ origin' = [n \in DOMAIN origin \cup {number} |->
                         IF n = number THEN c ELSE origin[n]]
    /\ Goes(c, "preview")
    /\ UNCHANGED <<resource, edits, request, seen, writes>>

\* decide_confirmation without a token, and the gate could not prepare.
DecideUnavailable(c) ==
    /\ pc[c] = "decide"
    /\ request[c].token = NoToken
    /\ \E L \in SUBSET Permit!Open : Permit!Deny(L)
    /\ Goes(c, "refused")
    /\ UNCHANGED <<resource, edits, request, seen, origin, writes>>

\* A token that comes without confirmed is refused and not consumed.
DecideUnconfirmed(c) ==
    /\ pc[c] = "decide"
    /\ request[c].token # NoToken
    /\ ~request[c].confirmed
    /\ Goes(c, "refused")
    /\ UNCHANGED <<resource, edits, request, seen, origin, writes, gateVars>>

\* consume accepts the token for this payload.
DecideAccepted(c) ==
    /\ pc[c] = "decide"
    /\ request[c].token # NoToken
    /\ request[c].confirmed
    /\ \E L \in SUBSET Permit!Open : Permit!Redeem(request[c].token, Payload(c), L)
    /\ Goes(c, AfterAcceptance(request[c].tool))
    /\ UNCHANGED <<resource, edits, request, seen, origin, writes>>

\* consume refuses: unknown, expired or used token, or another payload.
DecideRefused(c) ==
    /\ pc[c] = "decide"
    /\ request[c].token # NoToken
    /\ request[c].confirmed
    /\ \E L \in SUBSET Permit!Open : Permit!Deny(L)
    /\ Goes(c, "refused")
    /\ UNCHANGED <<resource, edits, request, seen, origin, writes>>

\* ensure_issue_scope again, before the write.
ApplyScope(c) ==
    /\ pc[c] = "applyScope"
    /\ Goes(c, IF ~InScope(resource) THEN "failed"
               ELSE IF Rechecked(request[c].tool) THEN "verify" ELSE "write")
    /\ UNCHANGED <<resource, edits, request, seen, origin, writes, gateVars>>

\* verify_expected_fields, verify_expected_revision: the state bound to the
\* request when the token was accepted must be read again.
Verify(c) ==
    /\ pc[c] = "verify"
    /\ Goes(c, IF Shown(request[c].tool, request[c].change, resource) = Payload(c).shown
               THEN "write" ELSE "failed")
    /\ UNCHANGED <<resource, edits, request, seen, origin, writes, gateVars>>

\* The provider applies the write.
Write(c) ==
    /\ pc[c] = "write"
    /\ resource' = Written(resource, c, request[c].tool, request[c].change)
    /\ writes' = [writes EXCEPT ![c] = @ + 1]
    /\ \E outcome \in Outcomes : Goes(c, outcome)
    /\ UNCHANGED <<edits, request, seen, origin, gateVars>>

\* A request to the provider fails or times out and changed nothing there, or
\* its answer does not let the call go on (the transition is not offered).
ProviderFails(c) ==
    /\ pc[c] \in Busy \ {"decide"}
    /\ Goes(c, "failed")
    /\ UNCHANGED <<resource, edits, request, seen, origin, writes, gateVars>>

\* Other people do or undo something to the target.
Edit(aspect, mark) ==
    /\ edits < MaxEdits
    /\ edits' = edits + 1
    /\ resource' = [resource EXCEPT ![aspect] =
                      IF mark \in @ THEN @ \ {mark} ELSE @ \cup {mark}]
    /\ UNCHANGED <<pc, request, seen, origin, writes, gateVars>>

\* The server process ends: calls get no answer, previews are forgotten.
Crash ==
    /\ Permit!Open # {} \/ \E c \in Calls : pc[c] \in Busy
    /\ pc' = [c \in Calls |-> IF pc[c] \in Busy THEN "lost" ELSE pc[c]]
    /\ Permit!Forget(Permit!Open)
    /\ UNCHANGED <<resource, edits, request, seen, origin, writes>>

-----------------------------------------------------------------------------
(* What was true at the provider while a confirming call was under way *)

Agreeing(state, gate, token) ==
    (IF "board" \in DOMAIN state /\ InScope(state) THEN {"board"} ELSE {})
    \cup (IF /\ token \in DOMAIN gate
             /\ LET previewed == gate[token].payload IN
                Shown(previewed.tool, previewed.change, state) = previewed.shown
          THEN {"shown"} ELSE {})

Observe ==
    held' = [c \in Calls |->
        IF pc'[c] \notin Busy \/ request'[c].token = NoToken THEN held[c]
        ELSE LET facts == Agreeing(resource', permits', request'[c].token) IN
             [made     |-> held[c].made \cup facts,
              accepted |-> IF pc'[c] \in Accepted THEN held[c].accepted \cup facts ELSE {}]]

CallStep(c) ==
    \/ \E asked \in Requests : Make(c, asked)
    \/ PreviewScope(c) \/ PreviewState(c)
    \/ DecidePreview(c) \/ DecideUnavailable(c) \/ DecideUnconfirmed(c)
    \/ DecideAccepted(c) \/ DecideRefused(c)
    \/ ApplyScope(c) \/ Verify(c) \/ Write(c) \/ ProviderFails(c)

Step == \/ \E c \in Calls : CallStep(c)
        \/ \E aspect \in Aspects, change \in Changes :
              Edit(aspect, [by |-> Others, change |-> change])
        \/ Crash

Next == Step /\ Observe

Spec == Init /\ [][Next]_vars

-----------------------------------------------------------------------------
(* Properties *)

\* Calls, the target and the permits have their types.
TypeOK ==
    /\ resource \in [Aspects -> SUBSET Marks]
    /\ edits \in 0 .. MaxEdits
    /\ pc \in [Calls -> {"unmade"} \cup Busy \cup Final]
    /\ request \in [Calls -> Requests \cup {NoRequest}]
    /\ seen \in [Calls -> [Aspects -> SUBSET Marks]]
    /\ writes \in [Calls -> Nat]
    /\ DOMAIN permits \subseteq Numbers
    /\ DOMAIN origin = DOMAIN permits

\* Every write that reached the provider was announced: its token came with a
\* preview of the same request and the same reading, and no preview accounts
\* for two writes, in one call or in two.
OneWritePerPreview ==
    \A c \in Calls : writes[c] > 0 =>
        /\ writes[c] = 1
        /\ request[c].token \in DOMAIN permits
        /\ permits[request[c].token].payload = Payload(c)
        /\ \A d \in Calls : writes[d] > 0 /\ request[d].token = request[c].token => d = c

Writes(c) == writes'[c] > writes[c]

\* What the person confirmed was true at the provider at some moment of the
\* confirming call: a preview that was out of date from the start of the
\* confirmation to its end is never applied.
ConfirmedStateHeld ==
    [][\A c \in Calls : Writes(c) => "shown" \in held[c].made]_vars

\* Field edits and pull-request changes compare the confirmed state again
\* after the token was accepted, and Jira tools look the board up again: it
\* was true at some moment between the acceptance and the write.
RecheckedBeforeWrite ==
    [][\A c \in Calls : Writes(c) =>
         /\ request[c].tool \in {"update", "pull"} => "shown" \in held[c].accepted
         /\ request[c].tool \in JiraTools => "board" \in held[c].accepted]_vars

\* As docs/user-guide/README.md puts it: once the issue or pull request has
\* changed, the confirmation of an earlier preview is rejected.
ChangedTargetRejected ==
    [][\A c \in Calls :
         pc[c] = "decide" /\ pc'[c] \in Accepted
         => seen[c] = seen[origin[request[c].token]]]_vars
=============================================================================

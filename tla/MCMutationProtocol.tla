------------------------- MODULE MCMutationProtocol -------------------------
(* Small instances of the write protocol for TLC.                           *)
EXTENDS MutationProtocol, TLC

\* Calls and changes are compared for equality only.
Alike == Permutations(Calls) \cup Permutations(Changes)

\* What a behaviour is about: two edits of the fields of one issue are previewed
\* and confirmed by three calls, or two calls make one change with any of the tools.
VARIABLE suite

Made == {c \in Calls : pc'[c] # "unmade"}

ChangesUsed == {request'[c].change : c \in Made}
               \cup UNION {{m.change : m \in resource'[aspect]} : aspect \in Aspects}

Within ==
    CASE suite = "fields" ->
           /\ \A c \in Made : request'[c].tool = "update"
           /\ Cardinality({c \in Made : request'[c].token = NoToken}) <= 2
           /\ \A aspect \in Aspects \ {"fields", "board"} : resource'[aspect] = {}
      [] suite = "tools"  ->
           Cardinality(Made) <= 2 /\ Cardinality(ChangesUsed) <= 1 /\ edits' <= 1

SuiteInit == Init /\ suite \in {"fields", "tools"}

SuiteSpec == SuiteInit /\ [][Next /\ suite' = suite /\ Within]_<<vars, suite>>
=============================================================================

--------------------------- MODULE MCUpstreamCreate ---------------------------
EXTENDS UpstreamCreate, TLC

Calls == Req \X {"Proxy", "CreateResponse"}

AllFlows == {"proxy", "stream", "replay", "json", "local"}

\* Every request body, and every answer, for a single request.
AllShapes == Shape
AllAnswers == Answer

\* With several requests: the flows that hold a place while they read, a body
\* that allows the retries, and errors that ask for a retry of each kind.
SlotFlows == {"proxy", "stream", "local"}
FewShapes == {[prev |-> FALSE, custom |-> TRUE, items |-> FALSE,
               choice |-> "named"]}
FewAnswers == {[kind |-> "ok", parses |-> TRUE, obeys |-> TRUE], [kind |-> "transport"],
               [kind |-> "error", says |-> {"custom"}],
               [kind |-> "error", says |-> {"named"}]}

Symmetry == Permutations(Req)
=============================================================================

--------------------------- MODULE ConversationLog ---------------------------
(***************************************************************************)
(* What a conversation promises its clients: a log of items to which turns *)
(* are added one at a time.  A turn is answered from exactly the context   *)
(* the log holds at the moment the turn is added; items never move.        *)
(* There are no versions, requests or conflicts at this level.             *)
(***************************************************************************)
EXTENDS Naturals, Sequences

CONSTANT Conv

VARIABLES log,   \* log[c]: the items of c, each with its place seq
          turns  \* the turns that were answered

logVars == <<log, turns>>

\* The context a turn is answered from: the log from the last summary that a
\* turn produced.
Summary(r) == r.kind = "compaction" /\ r.source = "response_output"
Context(R) == {r \in R : \A t \in R : Summary(t) => t.seq <= r.seq}

Ids(entries) == {entries[i].id : i \in DOMAIN entries}

\* c, and no other conversation, grew by rows with the given ids, placed after
\* all that c held.
Extends(c, ids) ==
  /\ \A d \in Conv \ {c} : log'[d] = log[d]
  /\ log[c] \subseteq log'[c]
  /\ {r.id : r \in log'[c] \ log[c]} = ids
  /\ \A old \in log[c] : \A new \in log'[c] \ log[c] : old.seq < new.seq

Init == log = [c \in Conv |-> {}] /\ turns = {}

\* A turn reads its context and is added in one step.
Turn(c) ==
  \E t \in turns' :
    /\ turns' = turns \cup {t}
    /\ t.conv = c
    /\ t.base = Context(log[c])
    /\ Extends(c, Ids(t.input) \cup Ids(t.output))

\* Items are added by a client: seeded or appended.
Add(c) ==
  /\ turns' = turns
  /\ Extends(c, {r.id : r \in log'[c] \ log[c]})

Remove(c) ==
  /\ turns' = turns
  /\ \E r \in log[c] : log' = [log EXCEPT ![c] = @ \ {r}]

Next == \E c \in Conv : Turn(c) \/ Add(c) \/ Remove(c)

Spec == Init /\ [][Next]_logVars
=============================================================================

----------------------------- MODULE Responses -----------------------------
(***************************************************************************)
(* The stored responses of internal/service/responses.go over the          *)
(* responses table of internal/storage/sqlite/responses.go, and the HTTP   *)
(* handlers that create, cancel and delete them.                           *)
(*                                                                         *)
(* The contents of a response are abstracted to facts: <<r, "in">> stands  *)
(* for the input items of r's own turn and <<r, "out">> for its output.  A *)
(* compaction item carries the facts of the items it summarises.           *)
(***************************************************************************)
EXTENDS Naturals, Sequences, FiniteSets

CONSTANTS Resp,        \* response identifiers
          Client,      \* concurrent HTTP requests
          LineageMax,  \* shim.limits.responses_stored_lineage_max_items, 0: none
          Backgrounds, \* the values of a request's background field
          None

ASSUME ResponsesAssumption ==
  LineageMax \in Nat /\ Backgrounds \subseteq BOOLEAN /\ None \notin Resp

VARIABLES rows,      \* the responses table: the row of each identifier, or None
          minted,    \* identifiers in use
          upstream,  \* what the upstream knows of each background response
          http,      \* what each HTTP request is doing
          gone       \* identifiers a DELETE has answered "deleted" for

vars == <<rows, minted, upstream, http, gone>>

Fact == Resp \X {"in", "out"}
Terminal == {"completed", "cancelled"}
Status == Terminal \cup {"in_progress"}

Row == [prev: Resp \cup {None}, public: BOOLEAN, background: BOOLEAN,
        status: Status, doneAt: BOOLEAN, out: BOOLEAN,
        cmp: {None} \cup Seq(SUBSET Fact), seen: SUBSET Fact]

Idle == [pc |-> "idle"]

-----------------------------------------------------------------------------
(* GetResponseLineage, newest first: the walk stops at a missing row, at a  *)
(* response without a predecessor, and at the configured number of items.   *)
Lineage(tab, id) ==
  LET walk[n \in 0 .. Cardinality(Resp)] ==
        IF n = 0 THEN <<id>>
        ELSE LET w == walk[n - 1]
                 last == tab[w[Len(w)]]
             IN IF \/ last = None
                   \/ LineageMax > 0 /\ Len(w) >= LineageMax
                THEN w
                ELSE IF last.prev = None THEN w ELSE Append(w, last.prev)
  IN walk[Cardinality(Resp)]

Cyclic(line) == \E i, j \in DOMAIN line : i # j /\ line[i] = line[j]

(* The read fails on a missing ancestor and on a cycle.                     *)
LineageFails(tab, id) ==
  LET line == Lineage(tab, id)
  IN Cyclic(line) \/ \E i \in DOMAIN line : tab[line[i]] = None

Own(tab, r) == {<<r, "in">>} \cup (IF tab[r].out THEN {<<r, "out">>} ELSE {})

TrimAfterCompaction(tab, line) ==
  {i \in DOMAIN line : \A j \in 1 .. i : tab[line[j]].cmp = None}

(* Mutant: the compaction item is taken to be the last item that counts, so *)
(* the output after it is trimmed too.                                      *)
ContextWithoutAnswer(tab, line) ==
  LET kept == TrimAfterCompaction(tab, line)
      k == Cardinality(kept) + 1
  IN UNION {Own(tab, line[i]) : i \in kept}
       \cup (IF k \in DOMAIN line THEN tab[line[k]].cmp[1] ELSE {})

(* buildLineageContextItems: the newest compaction item in a response's     *)
(* output replaces everything before it, the input of that very response    *)
(* included.                                                                *)
Context(tab, line) ==
  LET kept == TrimAfterCompaction(tab, line)
      k == Cardinality(kept) + 1
  IN UNION {Own(tab, line[i]) : i \in kept}
       \cup (IF k \in DOMAIN line
             THEN tab[line[k]].cmp[1] \cup {<<line[k], "out">>} ELSE {})

(* The base items of a request: those of the lineage it continues.          *)
Base(prev) == IF prev = None THEN {} ELSE Context(rows, Lineage(rows, prev))

(* Mutant: shadow rows are written for every request.                       *)
PersistAlways(t) == TRUE

(* What is persisted at all: a public response, and every continuation.     *)
PersistShadow(t) == t.public \/ t.prev # None

(* The row completeCreate writes for a finished turn t.  A crossed           *)
(* compaction threshold puts one compaction item in front of the output.    *)
CompletedRow(t, compacted) ==
  [prev |-> t.prev, public |-> t.public, background |-> t.background,
   status |-> "completed", doneAt |-> TRUE, out |-> TRUE,
   cmp |-> IF compacted THEN <<t.base>> ELSE None,
   seen |-> t.base \cup {<<t.id, "in">>}]

(* The row SaveExternalResponse writes for what the upstream answered.      *)
ExternalRow(t) ==
  [prev |-> t.prev, public |-> t.public, background |-> t.background,
   status |-> t.status, doneAt |-> t.status = "completed", out |-> TRUE,
   cmp |-> None, seen |-> t.base \cup {<<t.id, "in">>}]

-----------------------------------------------------------------------------
Init == /\ rows = [r \in Resp |-> None]
        /\ minted = {}
        /\ upstream = [r \in Resp |-> "none"]
        /\ http = [c \in Client |-> Idle]
        /\ gone = {}

(* Mutant: the identifier may be one of the shim's that is in use.          *)
PrepareReusing(c, id, prev, public, background) ==
  /\ http[c] = Idle
  /\ upstream[id] = "none"
  /\ prev # None => prev \in minted /\ ~LineageFails(rows, prev)
  /\ minted' = minted \cup {id}
  /\ http' = [http EXCEPT ![c] =
       [pc |-> "generate", id |-> id, prev |-> prev, public |-> public,
        background |-> background, base |-> Base(prev)]]
  /\ UNCHANGED <<rows, upstream, gone>>

(* POST /v1/responses with local state: the context is read, then the model *)
(* runs, and a background request is answered like any other.               *)
Prepare(c, id, prev, public, background) ==
  /\ http[c] = Idle
  /\ id \notin minted
  /\ prev # None => prev \in minted /\ ~LineageFails(rows, prev)
  /\ minted' = minted \cup {id}
  /\ http' = [http EXCEPT ![c] =
       [pc |-> "generate", id |-> id, prev |-> prev, public |-> public,
        background |-> background, base |-> Base(prev)]]
  /\ UNCHANGED <<rows, upstream, gone>>

(* completeCreate: nothing was locked since the context was read.           *)
CompleteCreate(c) ==
  /\ http[c].pc = "generate"
  /\ \E compacted \in BOOLEAN :
       /\ compacted => http[c].base # {}
       /\ rows' = IF PersistShadow(http[c])
                  THEN [rows EXCEPT ![http[c].id] = CompletedRow(http[c], compacted)]
                  ELSE rows
  /\ http' = [http EXCEPT ![c] = Idle]
  /\ UNCHANGED <<minted, upstream, gone>>

(* POST /v1/responses forwarded to the upstream, which keeps its own state: *)
(* the shim does not look at the predecessor.  The upstream mints the       *)
(* identifier and answers; a background response may still be in progress,  *)
(* and without output such an answer is passed on and never stored.  The    *)
(* client has the answer before anything is stored.                         *)
Forward(c, id, prev, public, background) ==
  /\ http[c] = Idle
  /\ id \notin minted
  /\ prev # None => prev \in minted
  /\ minted' = minted \cup {id}
  /\ \E status \in {"completed", "in_progress"}, output \in BOOLEAN :
       /\ status = "in_progress" => background
       /\ status = "completed" => output
       /\ upstream' = [upstream EXCEPT ![id] = status]
       /\ http' = IF ~output THEN http
                  ELSE [http EXCEPT ![c] =
                         [pc |-> "shadow", id |-> id, prev |-> prev, public |-> public,
                          background |-> background, status |-> status]]
  /\ UNCHANGED <<rows, gone>>

(* prepareShadowStore: a lineage the shim cannot read leaves the response   *)
(* unstored.                                                                *)
ShadowPrepare(c) ==
  LET t == http[c] IN
  /\ t.pc = "shadow"
  /\ http' = [http EXCEPT ![c] =
       IF t.prev # None /\ LineageFails(rows, t.prev) THEN Idle
       ELSE [pc |-> "store", id |-> t.id, prev |-> t.prev, public |-> t.public,
             background |-> t.background, status |-> t.status,
             base |-> Base(t.prev)]]
  /\ UNCHANGED <<rows, minted, upstream, gone>>

(* SaveExternalResponse of what the upstream answered.                      *)
SaveExternalResponse(c) ==
  LET t == http[c] IN
  /\ t.pc = "store"
  /\ rows' = IF PersistShadow(t) THEN [rows EXCEPT ![t.id] = ExternalRow(t)] ELSE rows
  /\ http' = [http EXCEPT ![c] = Idle]
  /\ UNCHANGED <<minted, upstream, gone>>

(* The model or the store fails.                                            *)
GenerateFails(c) ==
  /\ http[c].pc \in {"generate", "store"}
  /\ http' = [http EXCEPT ![c] = Idle]
  /\ UNCHANGED <<rows, minted, upstream, gone>>

(* External: the upstream finishes a background response by itself.         *)
UpstreamFinishes(id) ==
  /\ upstream[id] = "in_progress"
  /\ upstream' = [upstream EXCEPT ![id] = "completed"]
  /\ UNCHANGED <<rows, minted, http, gone>>

-----------------------------------------------------------------------------
Visible(id) == rows[id] # None /\ rows[id].public

(* DELETE /v1/responses/{id}: Get, then a DELETE statement; an identifier   *)
(* that is not stored, or not public, is forwarded and changes nothing.     *)
DeleteGet(c, id) ==
  /\ http[c] = Idle /\ Visible(id)
  /\ http' = [http EXCEPT ![c] = [pc |-> "delete", id |-> id]]
  /\ UNCHANGED <<rows, minted, upstream, gone>>

DeleteRow(c) ==
  /\ http[c].pc = "delete"
  /\ rows' = [rows EXCEPT ![http[c].id] = None]
  /\ gone' = IF rows[http[c].id] = None THEN gone ELSE gone \cup {http[c].id}
  /\ http' = [http EXCEPT ![c] = Idle]
  /\ UNCHANGED <<minted, upstream>>

(* POST /v1/responses/{id}/cancel, only for public background responses.    *)
CancelGet(c, id) ==
  /\ http[c] = Idle /\ Visible(id)
  /\ rows[id].background
  /\ http' = [http EXCEPT ![c] = [pc |-> "cancel", id |-> id]]
  /\ UNCHANGED <<rows, minted, upstream, gone>>

(* The upstream cancels what still runs and answers with what it now knows; *)
(* it does not know what the shim answered itself.                          *)
CancelUpstream(c) ==
  /\ http[c].pc = "cancel" /\ upstream[http[c].id] # "none"
  /\ LET id == http[c].id
         now == IF upstream[id] = "in_progress" THEN "cancelled" ELSE upstream[id]
     IN /\ upstream' = [upstream EXCEPT ![id] = now]
        /\ http' = [http EXCEPT ![c] = [pc |-> "refresh", id |-> id, reply |-> now]]
  /\ UNCHANGED <<rows, minted, gone>>

(* The upstream's answer is an error, or too large for the proxy buffer:    *)
(* it is passed on and the row is not refreshed.                            *)
CancelUnusable(c) ==
  /\ http[c].pc \in {"cancel", "refresh"}
  /\ http' = [http EXCEPT ![c] = Idle]
  /\ UNCHANGED <<rows, minted, upstream, gone>>

(* Refresh reads the row ...                                                *)
RefreshGet(c) ==
  /\ http[c].pc = "refresh"
  /\ http' = [http EXCEPT ![c] =
       IF rows[http[c].id] = None THEN Idle
       ELSE [pc |-> "save", id |-> http[c].id, reply |-> http[c].reply,
             current |-> rows[http[c].id]]]
  /\ UNCHANGED <<rows, minted, upstream, gone>>

(* Mutant: the answer replaces the row.                                     *)
MergeReplaces(reply, current) ==
  [status |-> reply, doneAt |-> reply = "completed", out |-> reply = "completed"]

(* Mutant: a cancel is taken to have succeeded.                             *)
MergeCancelled(reply, current) == [current EXCEPT !.status = "cancelled"]

(* mergeStoredResponseLifecycle: the answer wins where it says something.   *)
Merge(reply, current) ==
  [current EXCEPT !.status = reply,
                  !.doneAt = @ \/ reply = "completed",
                  !.out = @ \/ reply = "completed"]

(* ... and upserts the merged row.                                          *)
RefreshSave(c) ==
  /\ http[c].pc = "save"
  /\ rows' = [rows EXCEPT ![http[c].id] = Merge(http[c].reply, http[c].current)]
  /\ http' = [http EXCEPT ![c] = Idle]
  /\ UNCHANGED <<minted, upstream, gone>>

HttpNext ==
  \E c \in Client :
    \/ \E id \in Resp, prev \in Resp \cup {None}, public \in BOOLEAN,
          background \in Backgrounds :
         Prepare(c, id, prev, public, background)
           \/ Forward(c, id, prev, public, background)
    \/ CompleteCreate(c) \/ ShadowPrepare(c) \/ SaveExternalResponse(c)
    \/ GenerateFails(c)
    \/ \E id \in Resp : DeleteGet(c, id) \/ CancelGet(c, id)
    \/ DeleteRow(c) \/ CancelUpstream(c) \/ CancelUnusable(c)
    \/ RefreshGet(c) \/ RefreshSave(c)

Next == HttpNext \/ \E id \in Resp : UpstreamFinishes(id)

Spec == Init /\ [][Next]_vars

-----------------------------------------------------------------------------
(* Type correctness of the table and of the requests in flight.             *)
TypeOK ==
  /\ rows \in [Resp -> Row \cup {None}]
  /\ minted \subseteq Resp
  /\ upstream \in [Resp -> Status \cup {"none"}]
  /\ DOMAIN http = Client
  /\ gone \subseteq minted

(* The stored responses lead to no cycle through previous_response_id: any  *)
(* set of them has one whose predecessor is outside, so GetResponseLineage  *)
(* never reports a cycle, with or without a cap, however late rows are      *)
(* written, refreshed, deleted and written again.                           *)
LineageIsAcyclic ==
  \A S \in SUBSET {r \in Resp : rows[r] # None} :
    S # {} => \E r \in S : rows[r].prev \notin S

(* What the response p had been given and what it answered.                 *)
Known(p) == rows[p].seen \cup Own(rows, p)

(* The stored predecessors of stored responses.                             *)
Continued == {<<id, p>> \in Resp \X Resp : /\ rows[id] # None /\ rows[p] # None
                                          /\ rows[id].prev = p}

(* What the cap keeps from a continuation of p: turns beyond its reach that *)
(* no compaction item within it stands for.                                 *)
Cut(p) ==
  LET line == Lineage(rows, p)
      reached == {line[i] : i \in DOMAIN line}
  IN IF \E a \in reached : rows[a] # None /\ rows[a].cmp # None THEN {}
     ELSE {f \in Fact : f[1] \notin reached}

(* The inputs of the turns that compacted: they come after the items the    *)
(* compaction item summarises and before the item itself.                   *)
CompactingInputs == {<<a, "in">> : a \in {r \in Resp : rows[r] # None /\ rows[r].cmp # None}}

(* A continuation is given all that its predecessor knew, verbatim or       *)
(* inside a compaction item, but for what the cap on the lineage cuts and   *)
(* the inputs of turns that compacted (buildLineageContextItems): a         *)
(* compaction item keeps the turns in reach that the cap would have cut.    *)
TurnsAreCarriedOver ==
  \A pair \in Continued :
    Known(pair[2]) \ rows[pair[1]].seen \subseteq Cut(pair[2]) \cup CompactingInputs

(* docs/v3-compaction.md:89: "the compaction item carries enough shim-owned *)
(* local state to rebuild the effective context on later local follow-ups": *)
(* a continuation of the turn that compacted is given that turn's input.    *)
EffectiveContextIsRebuilt ==
  \A pair \in Continued :
    rows[pair[2]].cmp # None => <<pair[2], "in">> \in rows[pair[1]].seen

(* A stored background response that the upstream was given and that says   *)
(* it has ended says how it ended there, however cancels, the upstream's    *)
(* own progress and the row's refresh interleave (cancel, Refresh).         *)
EndedAsUpstreamSays ==
  \A id \in {r \in Resp : rows[r] # None} :
    rows[id].background /\ upstream[id] # "none" /\ rows[id].status \in Terminal =>
      rows[id].status = upstream[id]

(* DELETE /v1/responses/{id} "deletes a stored response"                    *)
(* (docs/v3-hard-delete-governance.md): it does not come back.              *)
DeletedStaysDeleted == \A id \in gone : rows[id] = None
=============================================================================

---------------------------- MODULE Conversations ----------------------------
(***************************************************************************)
(* The conversation store (internal/storage/sqlite/conversations.go) and   *)
(* the operations of the conversation and response services that read and  *)
(* extend a conversation.                                                  *)
(*                                                                         *)
(* GetConversation is two queries outside any transaction: the row of the  *)
(* conversation, which holds its version, then its items.  Every mutation  *)
(* is one transaction that starts with                                     *)
(*     UPDATE conversations SET version = version + 1                      *)
(*     WHERE id = ? AND version = ?                                        *)
(* and fails with ErrConflict when no row matched.  Between the two reads, *)
(* and while the model generates, any other request may run.               *)
(*                                                                         *)
(* An item is a row [id, seq, source, kind, sums]; sums, the ids whose     *)
(* content the row carries, stands for its payload: a message carries      *)
(* itself, a compaction item carries the summary of what was compacted.    *)
(***************************************************************************)
EXTENDS Naturals, Sequences, FiniteSets

CONSTANTS Conv,        \* conversation ids
          Item,        \* item ids, supplied by clients or generated
          Proc,        \* requests being served concurrently
          MaxVersion,  \* bound: requests start only below this version
          MaxBatch     \* bound: items per request (20 in the service)

ASSUME BoundsAssumption == MaxVersion \in Nat /\ MaxBatch \in Nat \ {0}

VARIABLES
  version,    \* conversations.version, 0 while the conversation is absent
  rows,       \* rows[c]: the conversation_items rows of c
  responses,  \* the responses rows attached to a conversation
  issued,     \* ids that clients used or NewPrefixedID returned
  req         \* req[p]: local state of the request p serves

vars == <<version, rows, responses, issued, req>>

Sources == {"seed", "append", "response_input", "response_output"}
Kinds == {"message", "compaction"}
Row == [id : Item, seq : Nat, source : Sources, kind : Kinds,
        sums : SUBSET Item]

\* What a request is about to insert: a row without its place.
Entry == [id : Item, kind : Kinds, sums : SUBSET Item]
Message(i) == [id |-> i, kind |-> "message", sums |-> {i}]

Batch == UNION {[1..n -> Item] : n \in 1..MaxBatch}

\* Whatever a client sends: messages, or compaction items it made up, which
\* summarise nothing the shim knows of.
AppendEntry(i, k) == [id |-> i, kind |-> k,
                      sums |-> IF k = "message" THEN {i} ELSE {}]

Idle == [pc |-> "idle"]

----------------------------------------------------------------------------
\* Mutant: a compaction item is trusted wherever it came from.
TrustAnyCompaction(r) == r.kind = "compaction"

\* isTrustedConversationCompaction: only what a response produced is trusted.
isTrustedConversationCompaction(r) ==
  r.kind = "compaction" /\ r.source = "response_output"

\* domainItemsFromConversation: the items from the last trusted compaction on.
domainItemsFromConversation(R) ==
  {r \in R : \A t \in R : isTrustedConversationCompaction(t) => t.seq <= r.seq}

\* Mutants: MAX(seq) without the + 1, and COUNT(*) in place of MAX(seq) + 1.
MaxSeqNoIncrement(R) ==
  IF R = {} THEN 0 - 1
  ELSE CHOOSE n \in {r.seq : r \in R} : \A r \in R : r.seq <= n
CountRows(R) == Cardinality(R)

\* nextConversationItemSeq: COALESCE(MAX(seq), -1) + 1.
nextConversationItemSeq(R) ==
  IF R = {} THEN 0
  ELSE (CHOOSE n \in {r.seq : r \in R} : \A r \in R : r.seq <= n) + 1

\* Consecutive rows from start on, as the append loops number them.
NumberRows(start, entries, sources) ==
  {[id |-> entries[i].id, seq |-> start + i - 1, source |-> sources[i],
    kind |-> entries[i].kind, sums |-> entries[i].sums] : i \in DOMAIN entries}

All(entries, source) == [i \in DOMAIN entries |-> source]

\* BuildConversationAppendItems: the input rows, then the output rows.
BuildConversationAppendItems(start, input, output) ==
  NumberRows(start, input \o output,
             All(input, "response_input") \o All(output, "response_output"))

\* insertConversationItem succeeds for every entry: id is the primary key of
\* the whole table, so an id of another conversation collides as well.
Insertable(entries) ==
  /\ \A i, j \in DOMAIN entries : entries[i].id = entries[j].id => i = j
  /\ \A i \in DOMAIN entries : \A c \in Conv : \A r \in rows[c] :
       r.id # entries[i].id

----------------------------------------------------------------------------
Init ==
  /\ version = [c \in Conv |-> 0]
  /\ rows = [c \in Conv |-> {}]
  /\ responses = {}
  /\ issued = {}
  /\ req = [p \in Proc |-> Idle]

\* CreateConversation: version 1 and the seed items in one transaction.
CreateConversation(c, ids, kinds) ==
  /\ version[c] = 0
  /\ LET entries == [i \in DOMAIN ids |-> AppendEntry(ids[i], kinds[i])]
     IN  /\ Insertable(entries)
         /\ rows' = [rows EXCEPT ![c] = NumberRows(0, entries, All(entries, "seed"))]
  /\ version' = [version EXCEPT ![c] = 1]
  /\ issued' = issued \cup {ids[i] : i \in DOMAIN ids}
  /\ UNCHANGED <<responses, req>>

\* A request arrives and GetConversation runs its first query.  prepareCreate,
\* AppendItems and DeleteItem all start this way.
SelectConversation(p, c, op, input) ==
  /\ req[p].pc = "idle"
  /\ version[c] # 0
  /\ version[c] < MaxVersion
  /\ issued' = issued \cup {input[i].id : i \in DOMAIN input}
  /\ req' = [req EXCEPT ![p] = [pc |-> "items", op |-> op, conv |-> c,
                                version |-> version[c], input |-> input]]
  /\ UNCHANGED <<version, rows, responses>>

\* GetConversation runs its second query.
SelectConversationItems(p) ==
  /\ req[p].pc = "items"
  /\ req' = [req EXCEPT ![p] =
       [pc |-> IF @.op \in {"create", "warmup"} THEN "generate" ELSE "save",
        op |-> @.op, conv |-> @.conv, version |-> @.version, input |-> @.input,
        base |-> domainItemsFromConversation(rows[@.conv]), output |-> <<>>]]
  /\ UNCHANGED <<version, rows, responses, issued>>

\* The compaction item applyAutomaticCompaction makes of the prior items.
Compacted(base, i) ==
  [id |-> i, kind |-> "compaction", sums |-> UNION {r.sums : r \in base}]

\* applyAutomaticCompaction (the threshold may or may not be crossed; with no
\* prior items nothing is compacted), Generate, and the output items that
\* completeCreate stores, with fresh ids.
Generate(p, cmp, out) ==
  /\ req[p].pc = "generate" /\ req[p].op = "create"
  /\ {cmp, out} \cap issued = {}
  /\ \/ /\ cmp = out
        /\ req' = [req EXCEPT ![p].pc = "save", ![p].output = <<Message(out)>>]
     \/ /\ cmp # out
        /\ req[p].base # {}
        /\ req' = [req EXCEPT ![p].pc = "save",
                     ![p].output = <<Compacted(req[p].base, cmp), Message(out)>>]
  /\ issued' = issued \cup {cmp, out}
  /\ UNCHANGED <<version, rows, responses>>

\* CreateWarmup stores the turn with no output and drops a compaction item.
CreateWarmup(p) ==
  /\ req[p].pc = "generate" /\ req[p].op = "warmup"
  /\ req' = [req EXCEPT ![p].pc = "save"]
  /\ UNCHANGED <<version, rows, responses, issued>>

\* Mutant: the UPDATE has no version in its WHERE clause.
NoVersionCheck(p) == version[req[p].conv] # 0

\* UPDATE ... WHERE id = ? AND version = ? matched a row.
VersionMatches(p) == version[req[p].conv] = req[p].version

----------------------------------------------------------------------------
\* SaveResponseAndAppendConversation commits: the version, the response row and
\* the items of the turn change together.
SaveResponseAndAppendConversation(p) ==
  LET c == req[p].conv
      entries == req[p].input \o req[p].output
  IN  /\ req[p].pc = "save" /\ req[p].op \in {"create", "warmup"}
      /\ VersionMatches(p)
      /\ Insertable(entries)
      /\ version' = [version EXCEPT ![c] = @ + 1]
      /\ responses' = responses \cup
           {[conv |-> c, version |-> version[c] + 1, base |-> req[p].base,
             input |-> req[p].input, output |-> req[p].output]}
      /\ rows' = [rows EXCEPT ![c] = @ \cup BuildConversationAppendItems(
                    nextConversationItemSeq(@), req[p].input, req[p].output)]
      /\ req' = [req EXCEPT ![p] = Idle]
      /\ UNCHANGED issued

\* Mutant: appended items leave the version as it was.
AppendKeepsVersion(p) ==
  LET c == req[p].conv
  IN  /\ req[p].pc = "save" /\ req[p].op = "append"
      /\ VersionMatches(p)
      /\ Insertable(req[p].input)
      /\ rows' = [rows EXCEPT ![c] = @ \cup
                    NumberRows(nextConversationItemSeq(@), req[p].input,
                               All(req[p].input, "append"))]
      /\ req' = [req EXCEPT ![p] = Idle]
      /\ UNCHANGED <<version, responses, issued>>

AppendConversationItems(p) ==
  LET c == req[p].conv
  IN  /\ req[p].pc = "save" /\ req[p].op = "append"
      /\ VersionMatches(p)
      /\ Insertable(req[p].input)
      /\ version' = [version EXCEPT ![c] = @ + 1]
      /\ rows' = [rows EXCEPT ![c] = @ \cup
                    NumberRows(nextConversationItemSeq(@), req[p].input,
                               All(req[p].input, "append"))]
      /\ req' = [req EXCEPT ![p] = Idle]
      /\ UNCHANGED <<responses, issued>>

\* DeleteConversationItem commits: it found a row with the id to delete.
DeleteConversationItem(p) ==
  LET c == req[p].conv
      gone == {r \in rows[c] : r.id = req[p].input[1].id}
  IN  /\ req[p].pc = "save" /\ req[p].op = "delete"
      /\ VersionMatches(p)
      /\ gone # {}
      /\ version' = [version EXCEPT ![c] = @ + 1]
      /\ rows' = [rows EXCEPT ![c] = @ \ gone]
      /\ req' = [req EXCEPT ![p] = Idle]
      /\ UNCHANGED <<responses, issued>>

\* The request ends without a commit: ErrConflict, an id that is taken, an item
\* that is not there, a generator error, a canceled context.  The deferred
\* Rollback leaves the tables as they were.
Fail(p) ==
  /\ req[p].pc # "idle"
  /\ req' = [req EXCEPT ![p] = Idle]
  /\ UNCHANGED <<version, rows, responses, issued>>

----------------------------------------------------------------------------
Create == \E c \in Conv : \E ids \in Batch :
            \E kinds \in [DOMAIN ids -> Kinds] : CreateConversation(c, ids, kinds)

\* A turn's input is expanded by ExpandSyntheticCompactionItems before it is
\* stored, so only messages; an append stores compaction items as they come.
Arrive(p) ==
  \E c \in Conv : \E ids \in Batch :
    \/ \E op \in {"create", "warmup"} :
         SelectConversation(p, c, op, [i \in DOMAIN ids |-> Message(ids[i])])
    \/ \E kinds \in [DOMAIN ids -> Kinds] :
         SelectConversation(p, c, "append",
                            [i \in DOMAIN ids |-> AppendEntry(ids[i], kinds[i])])
    \/ /\ Len(ids) = 1
       /\ SelectConversation(p, c, "delete", [i \in DOMAIN ids |-> Message(ids[i])])

Step(p) ==
  \/ Arrive(p)
  \/ SelectConversationItems(p)
  \/ \E cmp, out \in Item : Generate(p, cmp, out)
  \/ CreateWarmup(p)
  \/ SaveResponseAndAppendConversation(p)
  \/ AppendConversationItems(p)
  \/ DeleteConversationItem(p)
  \/ Fail(p)

Next == Create \/ \E p \in Proc : Step(p)

Spec == Init /\ [][Next]_vars
----------------------------------------------------------------------------
Ops == {"create", "warmup", "append", "delete"}
Reading == [pc : {"items"}, op : Ops, conv : Conv, version : Nat \ {0},
            input : Seq(Entry)]
Prepared == [pc : {"generate", "save"}, op : Ops, conv : Conv,
             version : Nat \ {0}, input : Seq(Entry), base : SUBSET Row,
             output : Seq(Entry)]

(* Types of the store and of what a request remembers between its steps.    *)
TypeOK ==
  /\ version \in [Conv -> Nat]
  /\ rows \in [Conv -> SUBSET Row]
  /\ responses \subseteq [conv : Conv, version : Nat, base : SUBSET Row,
                          input : Seq(Entry), output : Seq(Entry)]
  /\ issued \subseteq Item
  /\ req \in [Proc -> {Idle} \cup Reading \cup Prepared]

\* The rows keep the constraints of the schema without ever meeting the
\* UNIQUE (conversation_id, seq) one as an error: ids are unique in the table
\* and places unique in a conversation, whatever appends and deletions of the
\* last item (whose seq is used again) are interleaved.
RowsAreUnique ==
  \A c, d \in Conv : \A r \in rows[c] : \A s \in rows[d] :
    (r.id = s.id \/ (c = d /\ r.seq = s.seq)) => c = d /\ r = s

\* A request that read the items after the version, as GetConversation does,
\* and whose version is still current holds the current context: the reason
\* why the compare-and-swap alone makes the two unprotected reads safe.
FreshVersionFreshContext ==
  \A p \in Proc :
    /\ req[p].pc # "idle" => req[p].version <= version[req[p].conv]
    /\ req[p].pc \in {"generate", "save"} /\ VersionMatches(p)
         => req[p].base = domainItemsFromConversation(rows[req[p].conv])

\* What the context of a conversation carries, summaries included.
Carried(R) == UNION {r.sums : r \in domainItemsFromConversation(R)}

\* Nothing but deleting an item makes the model forget: no appended item and no
\* turn, compacted or not, removes from the context of later turns what the
\* context carried before (a compaction item a client appends is not trusted,
\* one that a response made summarises all that it hides).
ContextNeverShrinks ==
  [][\A c \in Conv : rows[c] \subseteq rows'[c]
       => Carried(rows[c]) \subseteq Carried(rows'[c])]_vars

\* The log a conversation is: its rows, and the turns that were saved.
Log == INSTANCE ConversationLog
         WITH log <- rows,
              turns <- {[conv |-> t.conv, base |-> t.base, input |-> t.input,
                         output |-> t.output] : t \in responses}

\* Reads, generation and compare-and-swap together behave as one atomic step
\* per turn: the store implements module ConversationLog.
AtomicTurns == Log!Spec
=============================================================================

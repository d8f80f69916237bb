-------------------------- MODULE ResponseSessions --------------------------
(***************************************************************************)
(* The Responses WebSocket of internal/httpapi/response_websocket.go over  *)
(* the stored responses: one response.create at a time per connection, a   *)
(* connection-local cache of store=false responses, its eviction after a   *)
(* failed continuation and its cleanup when the connection ends.           *)
(***************************************************************************)
EXTENDS Responses

CONSTANT Session  \* WebSocket connections

VARIABLES session,  \* the connection's loop: its cache and the turn it serves
          leaked    \* history: rows whose deletion or caching a storage error cut short

sessionVars == <<vars, session, leaked>>

Fresh == [pc |-> "read", cache |-> {}]

SessionInit == Init /\ session = [s \in Session |-> Fresh]
                    /\ leaked = {}

(* Only a store=false response that continues nothing is cached.            *)
IsCached(t) == ~t.public /\ t.prev = None

(* Mutant: a connection forgets a predecessor it never cached.              *)
ForgetAny(s, prev) == {prev} \ {None}

(* Forget: what a failed turn evicts.                                       *)
Forget(s, prev) == {prev} \cap session[s].cache

(* DeleteShadowResponse: never a public row.                                *)
DeleteShadow(ids) ==
  [r \in DOMAIN rows |-> IF r \in ids /\ rows[r] # None /\ ~rows[r].public
                         THEN None ELSE rows[r]]

Back(s, cache) == [session EXCEPT ![s] = [pc |-> "read", cache |-> cache]]

(* A deletion may fail, which is only logged.                               *)
Deletion(ids) ==
  \/ rows' = DeleteShadow(ids) /\ UNCHANGED leaked
  \/ ids # {} /\ leaked' = leaked \cup ids /\ UNCHANGED rows

(* handleWebSocketMessage: the predecessor must be stored.  Anything else   *)
(* is answered with an error frame and the loop goes on.                    *)
Message(s, id, prev, public, generate) ==
  /\ session[s].pc = "read"
  /\ id \notin minted
  /\ prev # None => rows[prev] # None
  /\ minted' = minted \cup {id}
  /\ session' = [session EXCEPT ![s] =
       [pc |-> "prepare", cache |-> session[s].cache, id |-> id, prev |-> prev,
        public |-> public, generate |-> generate]]
  /\ UNCHANGED <<rows, upstream, http, gone, leaked>>

(* The context is read; from here on the answer is streamed, unless the     *)
(* turn only warms the connection up.                                       *)
TurnPrepared(s) ==
  LET t == session[s] IN
  /\ t.pc = "prepare"
  /\ t.prev # None => ~LineageFails(rows, t.prev)
  /\ session' = [session EXCEPT ![s] =
       [pc |-> "generate", cache |-> t.cache, id |-> t.id, prev |-> t.prev,
        public |-> t.public, generate |-> t.generate, background |-> FALSE,
        base |-> Base(t.prev)]]
  /\ UNCHANGED <<rows, minted, upstream, http, gone, leaked>>

(* A turn refused before its stream starts (a broken lineage, tool outputs  *)
(* that answer no call, a failed warmup) evicts its predecessor.            *)
TurnRefused(s) ==
  LET t == session[s] IN
  /\ t.pc = "prepare" \/ (t.pc = "generate" /\ ~t.generate)
  /\ Deletion(Forget(s, t.prev))
  /\ session' = Back(s, t.cache \ Forget(s, t.prev))
  /\ UNCHANGED <<minted, upstream, http, gone>>

(* A turn that fails once its stream has started ends with an error event   *)
(* and nothing else: writer.Streamed() returns before the eviction.         *)
StreamFails(s) ==
  LET t == session[s] IN
  /\ t.pc = "generate" /\ t.generate
  /\ session' = Back(s, t.cache)
  /\ UNCHANGED <<rows, minted, upstream, http, gone, leaked>>

(* CreateWarmup stores no output, and so no compaction item.                *)
WarmupRow(t) == [CompletedRow(t, FALSE) EXCEPT !.out = FALSE]

(* The turn ends: the create path stores what PersistShadow says; CreateWarmup *)
(* and cacheWebSocketResponse force the row and remember a cacheable one.   *)
TurnCompleted(s) ==
  LET t == session[s] IN
  /\ t.pc = "generate"
  /\ \E compacted \in BOOLEAN :
       /\ compacted => t.base # {} /\ t.generate
       /\ rows' = [rows EXCEPT ![t.id] =
                     IF t.generate THEN CompletedRow(t, compacted) ELSE WarmupRow(t)]
  /\ session' = Back(s, t.cache \cup (IF IsCached(t) THEN {t.id} ELSE {}))
  /\ UNCHANGED <<minted, upstream, http, gone, leaked>>

(* The row is written, then its memory note is not: SaveExternalResponse    *)
(* returns the error, and the stored response is not remembered.            *)
TurnUncached(s) ==
  LET t == session[s] IN
  /\ t.pc = "generate" /\ t.generate /\ IsCached(t)
  /\ rows' = [rows EXCEPT ![t.id] = CompletedRow(t, FALSE)]
  /\ session' = Back(s, t.cache)
  /\ leaked' = leaked \cup {t.id}
  /\ UNCHANGED <<minted, upstream, http, gone>>

(* The peer leaves, the socket fails or its lifetime ends: the loop returns *)
(* and its deferred Cleanup starts.                                         *)
Close(s) ==
  /\ session[s].pc = "read"
  /\ session' = [session EXCEPT ![s].pc = "cleanup"]
  /\ UNCHANGED <<vars, leaked>>

(* Cleanup, one identifier after the other.                                 *)
Cleanup(s) ==
  /\ session[s].pc = "cleanup"
  /\ \E id \in session[s].cache :
       /\ Deletion({id})
       /\ session' = [session EXCEPT ![s].cache = @ \ {id}]
  /\ UNCHANGED <<minted, upstream, http, gone>>

Closed(s) ==
  /\ session[s].pc = "cleanup" /\ session[s].cache = {}
  /\ session' = [session EXCEPT ![s].pc = "closed"]
  /\ UNCHANGED <<vars, leaked>>

SessionStep(s) ==
  \/ \E id \in Resp, prev \in Resp \cup {None}, public, generate \in BOOLEAN :
       Message(s, id, prev, public, generate)
  \/ TurnPrepared(s) \/ TurnRefused(s) \/ StreamFails(s) \/ TurnCompleted(s)
  \/ TurnUncached(s) \/ Close(s) \/ Cleanup(s) \/ Closed(s)

SessionNext ==
  \/ Next /\ UNCHANGED <<session, leaked>>
  \/ \E s \in Session : SessionStep(s)

SessionSpec == SessionInit /\ [][SessionNext]_sessionVars

-----------------------------------------------------------------------------
(* "store=false can still continue from the connection-local cache": what a *)
(* connection has cached stays stored, whatever other connections fail at   *)
(* or clean up and whatever DELETE requests come in.                        *)
CachedIsStored ==
  \A s \in Session : \A id \in session[s].cache : rows[id] # None

(* A store=false response that continues nothing is only stored for a       *)
(* connection that will delete it: an HTTP request never stores one, and    *)
(* what a connection evicts or forgets when it ends has left the table too, *)
(* unless a storage statement failed.  A restart, which this module does    *)
(* not model, would lose the cache and keep the rows.                       *)
RootShadowsAreCached ==
  \A id \in {r \in Resp : rows[r] # None} \ leaked :
    ~rows[id].public /\ rows[id].prev = None =>
      \E s \in Session : id \in session[s].cache /\ session[s].pc # "closed"
=============================================================================

--------------------------- MODULE UpstreamCreate ----------------------------
(***************************************************************************)
(* POST /v1/responses answered by the upstream backend: the handlers of    *)
(* internal/httpapi that call it, their cascade of compatibility retries,  *)
(* and the admission places (module Admission) the calls occupy.           *)
(*                                                                         *)
(*   flow          handler                       upstream calls            *)
(*   "proxy"       proxyCreateWithShadowStore    Proxy, body read at once  *)
(*   "stream"      proxyCreateStream             Proxy, body streamed      *)
(*   "replay"      createStreamViaUpstream       Proxy, body streamed      *)
(*   "json"        createLocalStateViaUpstream   CreateResponse            *)
(*   "direct"      createProxyResponseViaUpstream, called by "json"        *)
(*   "local"       create with local state       Generate                  *)
(*                                                                         *)
(* Proxy keeps its place until the response body is closed; CreateResponse *)
(* and Generate, which share doJSONRequest, give it back when they return. *)
(* A failed local create goes on as "json" when the mode is                *)
(* prefer_upstream.  Every other flow checks, in this order,               *)
(*   1 custom tools rejected          -> bridge them to function tools     *)
(*   2 replayed input rejected        -> let the upstream keep the state   *)
(*   3 structured input rejected      -> send the input as one string      *)
(*   4 custom tools rejected (again)  -> bridge them                       *)
(* and retries at most once for each; a rejected tool_choice is retried    *)
(* with "required" or "auto" by a CreateResponse call.                     *)
(***************************************************************************)
EXTENDS Admission

CONSTANTS Req,            \* create requests
          QueueWait,      \* llama.max_queue_wait > 0
          PreferUpstream, \* responses.mode is prefer_upstream, not prefer_local
          Flows,          \* flows that requests start with
          Shapes,         \* request bodies, see Shape
          Answers         \* what the upstream answers, see Answer

ASSUME FlagsAssumption == QueueWait \in BOOLEAN /\ PreferUpstream \in BOOLEAN

\* A request makes at most one call of each kind at a time.
ASSUME CallAssumption == Call = Req \X {"Proxy", "CreateResponse"}

VARIABLES gone,  \* clients that closed the connection
          req    \* req[r]: the handler of request r

vars == <<sem, queue, held, gone, req>>

Proxied(flow) == flow \in {"proxy", "stream", "replay"}

\* What the retries tell apart in a request body and in its transport plan:
\* previous_response_id is set, custom tools are passed through and could be
\* bridged, the input is structured, and which tool the caller insists on.
Shape == [prev : BOOLEAN, custom : BOOLEAN, items : BOOLEAN,
          choice : {"none", "any", "named"}]

\* An answer is a response that has or has not usable output and does or does
\* not call the tool the caller insisted on, an HTTP error whose message may
\* match several of the patterns the retries look for, or no answer at all.
Patterns == {"custom", "string", "field", "named", "auto"}
Answer == [kind : {"ok"}, parses : BOOLEAN, obeys : BOOLEAN]
          \cup [kind : {"error"}, says : SUBSET Patterns]
          \cup [kind : {"timeout", "transport"}]

NoAnswer == [kind |-> "none"]
Idle == [pc |-> "idle"]

----------------------------------------------------------------------------
\* Mutant: any failed call is taken for a rejection.
SaysOrFailed(q, p) == q.ans.kind \in {"error", "timeout"}
                      /\ (q.ans.kind = "error" => p \in q.ans.says)

Says(q, p) == q.ans.kind = "error" /\ p \in q.ans.says

\* Mutant: a bridged plan is bridged again.
BridgeAgain(q) == Says(q, "custom")

shouldRetryCustomToolsWithBridge(q) == Says(q, "custom") /\ q.s.custom
shouldRetryLocalStateWithDirectProxy(q) == Says(q, "string") /\ q.s.prev
shouldRetryResponsesInputAsString(q) ==
  (Says(q, "string") \/ Says(q, "field")) /\ q.s.items
shouldRetryToolChoiceWithRequired(q) == Says(q, "named") /\ q.s.choice = "named"
shouldRetryToolChoiceWithAuto(q) == Says(q, "auto") /\ q.s.choice # "none"
RetryChoice(q) ==
  shouldRetryToolChoiceWithRequired(q) \/ shouldRetryToolChoiceWithAuto(q)

\* The checks that are left, as a sequence of [from, when, next]: the first one
\* that is due and holds gives the next request.
Bridged(q, n) == [q EXCEPT !.pc = "call", !.s.custom = FALSE, !.fb = FALSE,
                           !.stage = n]
Stringified(q) == [q EXCEPT !.pc = "call", !.s.items = FALSE, !.fb = FALSE,
                            !.stage = 4]
\* createProxyResponseViaUpstream and proxyCreateStream start over from the
\* fields the client sent; the former comes back to its caller when it fails.
Direct(q) ==
  [q EXCEPT !.pc = "call", !.s = q.orig, !.fb = FALSE, !.stage = 1,
            !.flow = IF q.flow = "json" THEN "direct" ELSE "stream",
            !.outer = IF q.flow = "json" THEN <<[s |-> q.s, ans |-> q.ans]>>
                                         ELSE <<>>]

Retries(q) ==
  << [due |-> q.stage <= 1 /\ shouldRetryCustomToolsWithBridge(q),
      next |-> Bridged(q, 2)],
     [due |-> /\ q.stage <= 2 /\ q.flow \in {"json", "replay"}
              /\ shouldRetryLocalStateWithDirectProxy(q),
      next |-> Direct(q)],
     [due |-> q.stage <= 3 /\ shouldRetryResponsesInputAsString(q),
      next |-> Stringified(q)],
     [due |-> q.stage <= 4 /\ shouldRetryCustomToolsWithBridge(q),
      next |-> Bridged(q, 5)] >>

Due(q) == {i \in 1..4 : Retries(q)[i].due}
NextRetry(q) == Retries(q)[CHOOSE i \in Due(q) : \A j \in Due(q) : i <= j].next

\* The handler returns; what it deferred is still to run.
Return(q, out) == [q EXCEPT !.pc = "finish", !.out = out]

\* An error is the result of createProxyResponseViaUpstream: its caller goes on
\* with the error it had before, at the next check.
Failed(q) ==
  IF q.outer = <<>> THEN Return(q, "error")
  ELSE [q EXCEPT !.pc = "decide", !.flow = "json", !.stage = 3, !.fb = TRUE,
                 !.s = q.outer[1].s, !.ans = q.outer[1].ans, !.outer = <<>>]

\* Mutant: the output of a fallback is returned as it is.
ReturnUnchecked(q) == Return(q, "answer")

\* finalizeUpstreamResponse: the response must parse and have output, and after
\* a tool_choice fallback it must obey the contract of the original request.
finalizeUpstreamResponse(q) ==
  IF q.ans.parses /\ (q.fb => q.ans.obeys) THEN Return(q, "answer") ELSE Failed(q)

\* maxLocalTextRawToolMarkupRepairRetries
MaxRepairs == 2

\* generateLocalResponseText failed, with an error the policy of
\* classifyBackendFailure does or does not let fall back to the upstream.
shouldFallbackLocalState(q, allowed) ==
  IF PreferUpstream /\ allowed
  THEN [q EXCEPT !.pc = "call", !.flow = "json", !.calls = 0]
  ELSE Return(q, "error")

----------------------------------------------------------------------------
Init ==
  /\ AdmissionInit
  /\ gone = {}
  /\ req = [r \in Req |-> Idle]

\* The call the request makes next, or is in.
Calling(r) == <<r, IF Proxied(req[r].flow) /\ ~req[r].fb
                   THEN "Proxy" ELSE "CreateResponse">>
ProxyCall(r) == <<r, "Proxy">>

\* The request is routed to one of the handlers.
Arrive(r, flow, s) ==
  /\ req[r].pc = "idle"
  /\ req' = [req EXCEPT ![r] =
       [pc |-> "call", flow |-> flow, s |-> s, orig |-> s, stage |-> 1,
        fb |-> FALSE, ans |-> NoAnswer, outer |-> <<>>, out |-> "none",
        calls |-> 0, timedOut |-> {}, late |-> {}]]
  /\ UNCHANGED <<sem, queue, held, gone>>

\* acquireUpstreamSlot
AcquireSlot(r) ==
  /\ req[r].pc = "call"
  /\ Acquire(Calling(r))
  /\ req' = [req EXCEPT ![r].pc = "sent"]
  /\ UNCHANGED gone

\* Mutant: max_queue_wait is not applied.
NoQueueTimeout(r) ==
  /\ req[r].pc = "sent"
  /\ r \in gone
  /\ Abandon(Calling(r))
  /\ req' = [req EXCEPT ![r] = Failed(@)]
  /\ UNCHANGED gone

\* acquire fails: the queue wait is over, which is a timeout to the policy of
\* the fallback, or the client is gone.
AdmissionFails(r) ==
  /\ req[r].pc = "sent"
  /\ \E over \in {QueueWait, FALSE} :
       /\ over \/ r \in gone
       /\ req' = [req EXCEPT ![r] = IF @.flow = "local"
                                    THEN shouldFallbackLocalState(@, over)
                                    ELSE Failed(@)]
  /\ Abandon(Calling(r))
  /\ UNCHANGED gone

\* The client's connection closes, which cancels the request context.
ClientGoes(r) ==
  /\ req[r].pc \notin {"idle", "done"}
  /\ r \notin gone
  /\ gone' = gone \cup {r}
  /\ UNCHANGED <<sem, queue, held, req>>

\* History: the upstream calls the handler made, the flows a call of which has
\* timed out, and those of them that were followed by another call.
Counted(q, a) ==
  [q EXCEPT !.ans = a, !.calls = @ + 1, !.late = @ \cup q.timedOut,
            !.timedOut = @ \cup (IF a.kind = "timeout" THEN {q.flow} ELSE {})]

\* streamClient.Do returns; an answer keeps the place until its body is closed.
ProxyReturns(r, a) ==
  /\ req[r].pc = "sent" /\ Calling(r) = ProxyCall(r)
  /\ r \in gone => a.kind = "transport"
  /\ LET q == Counted(req[r], a)
     IN  \/ /\ a.kind \in {"timeout", "transport"}
            /\ Release(Calling(r))
            /\ req' = [req EXCEPT ![r] = Return(q, "error")]
         \/ /\ a.kind \in {"ok", "error"}
            /\ Calling(r) \in held
            /\ req' = [req EXCEPT ![r] = [q EXCEPT !.pc = "read"]]
            /\ UNCHANGED <<sem, queue, held>>
  /\ UNCHANGED gone

\* doJSONRequest returns, after its deferred release.
CreateResponseReturns(r, a) ==
  /\ req[r].pc = "sent" /\ Calling(r) # ProxyCall(r)
  /\ r \in gone => a.kind = "transport"
  /\ Release(Calling(r))
  /\ req' = [req EXCEPT ![r] = [Counted(@, a) EXCEPT !.pc = "decide"]]
  /\ UNCHANGED gone

\* proxyCreateWithShadowStore reads the body; one that is too large is passed
\* through.  The body stays open.
ReadProxyBody(r) ==
  /\ req[r].pc = "read" /\ req[r].flow = "proxy"
  /\ \E read \in {"all", "failed", "overflow"} :
       req' = [req EXCEPT ![r] =
                 IF read = "all" THEN [@ EXCEPT !.pc = "decide"]
                 ELSE Return(@, IF read = "failed" THEN "error" ELSE "passed")]
  /\ UNCHANGED <<sem, queue, held, gone>>

\* readAndReplaceResponseBody: the body of an error is read and closed, unless
\* it is too large to be read whole.
ReadStreamBody(r) ==
  /\ req[r].pc = "read" /\ req[r].flow # "proxy"
  /\ \/ /\ req[r].ans.kind = "ok"
        /\ req' = [req EXCEPT ![r].pc = "streaming"]
        /\ UNCHANGED <<sem, queue, held>>
     \/ /\ req[r].ans.kind = "error"
        /\ Release(ProxyCall(r))
        /\ req' = [req EXCEPT ![r].pc = "decide"]
     \/ /\ req[r].ans.kind = "error"
        /\ \E pc \in {"decide", "finish"} :
             req' = [req EXCEPT ![r].pc = pc,
                       ![r].out = IF pc = "finish" THEN "error" ELSE @]
        /\ UNCHANGED <<sem, queue, held>>
  /\ UNCHANGED gone

\* proxyResponsesStream ends: the upstream finished or the client went away.
StreamEnds(r) ==
  /\ req[r].pc = "streaming"
  /\ req' = [req EXCEPT ![r] = Return(@, "passed")]
  /\ UNCHANGED <<sem, queue, held, gone>>

\* Close, when the body is still open.
Close(r) ==
  IF ProxyCall(r) \in held THEN Release(ProxyCall(r))
                           ELSE UNCHANGED <<sem, queue, held>>

\* The checks of a proxied flow: a retry closes the body first, a tool_choice
\* fallback does not.
DecideProxied(r) ==
  /\ req[r].pc = "decide" /\ Proxied(req[r].flow) /\ ~req[r].fb
  /\ LET q == req[r]
     IN  \/ /\ q.ans.kind = "ok"
            /\ req' = [req EXCEPT ![r] = Return(q, "passed")]
            /\ UNCHANGED <<sem, queue, held>>
         \/ /\ Due(q) # {}
            /\ req' = [req EXCEPT ![r] = NextRetry(q)]
            /\ Close(r)
         \/ /\ q.ans.kind # "ok" /\ Due(q) = {} /\ RetryChoice(q)
            /\ req' = [req EXCEPT ![r].pc = "call", ![r].fb = TRUE]
            /\ UNCHANGED <<sem, queue, held>>
         \/ /\ q.ans.kind # "ok" /\ Due(q) = {} /\ ~RetryChoice(q)
            /\ req' = [req EXCEPT ![r] = Return(q, "passed")]
            /\ UNCHANGED <<sem, queue, held>>
  /\ UNCHANGED gone

\* The result of the tool_choice fallback of a proxied flow.
DecideFallback(r) ==
  /\ req[r].pc = "decide" /\ Proxied(req[r].flow) /\ req[r].fb
  /\ req' = [req EXCEPT ![r] = IF @.ans.kind = "ok" THEN finalizeUpstreamResponse(@)
                               ELSE Return(@, "error")]
  /\ UNCHANGED <<sem, queue, held, gone>>

\* createResponseWithToolChoiceFallback and the checks of a JSON flow.
DecideJSON(r) ==
  /\ req[r].pc = "decide" /\ req[r].flow \in {"json", "direct"}
  /\ LET q == req[r]
     IN  req' = [req EXCEPT ![r] =
           IF q.ans.kind = "ok" THEN finalizeUpstreamResponse(q)
           ELSE IF ~q.fb /\ RetryChoice(q) THEN [q EXCEPT !.pc = "call", !.fb = TRUE]
           ELSE IF Due(q) # {} THEN NextRetry(q)
           ELSE Failed(q)]
  /\ UNCHANGED <<sem, queue, held, gone>>

\* generateLocalResponseText: raw tool-call markup in the text is repaired by
\* generating again.  Whatever else is wrong goes to shouldFallbackLocalState;
\* a timeout and an answer without usable text are failures it may act on.
DecideLocal(r) ==
  /\ req[r].pc = "decide" /\ req[r].flow = "local"
  /\ LET q == req[r]
         text == q.ans.kind = "ok" /\ q.ans.parses
     IN  \/ /\ text
            /\ req' = [req EXCEPT ![r] = Return(q, "answer")]
         \/ /\ text /\ q.calls <= MaxRepairs
            /\ req' = [req EXCEPT ![r].pc = "call"]
         \/ /\ text => q.calls > MaxRepairs
            /\ \E allowed \in BOOLEAN :
                 /\ q.ans.kind \in {"ok", "timeout"} => allowed
                 /\ req' = [req EXCEPT ![r] = shouldFallbackLocalState(q, allowed)]
  /\ UNCHANGED <<sem, queue, held, gone>>

\* Mutant: a body that was not closed on the way stays open.
FinishOpen(r) ==
  /\ req[r].pc = "finish"
  /\ req' = [req EXCEPT ![r].pc = "done"]
  /\ UNCHANGED <<sem, queue, held, gone>>

\* The deferred Close of the handler.
Finish(r) ==
  /\ req[r].pc = "finish"
  /\ Close(r)
  /\ req' = [req EXCEPT ![r].pc = "done"]
  /\ UNCHANGED gone

Handle(r) ==
  \/ AcquireSlot(r) \/ AdmissionFails(r)
  \/ \E a \in Answers : ProxyReturns(r, a) \/ CreateResponseReturns(r, a)
  \/ ReadProxyBody(r) \/ ReadStreamBody(r) \/ StreamEnds(r)
  \/ DecideProxied(r) \/ DecideFallback(r) \/ DecideJSON(r) \/ DecideLocal(r)
  \/ Finish(r)

Next == \E r \in Req : \/ \E flow \in Flows, s \in Shapes : Arrive(r, flow, s)
                       \/ ClientGoes(r)
                       \/ Handle(r)

Spec == Init /\ [][Next]_vars

\* A handler that can go on does, the upstream answers (the JSON client gives
\* up after llama.timeout) and streams end; clients need not go away.
FairSpec == Spec /\ \A r \in Req : WF_vars(Handle(r))

----------------------------------------------------------------------------
\* Types of the state of the create handlers.
TypeOK ==
  /\ AdmissionTypeOK
  /\ gone \subseteq Req
  /\ \A r \in Req : req[r].pc # "idle" =>
       /\ req[r].s \in Shape /\ req[r].ans \in Answer \cup {NoAnswer}
       /\ req[r].stage \in 1..5
       /\ req[r].out \in {"none", "error", "answer", "passed"}

\* A request that is over holds no place, whatever retries, read errors, queue
\* timeouts and disconnects it went through: each handler closes or hands over
\* every body it opened.
NothingHeldWhenDone ==
  \A r \in Req : req[r].pc \in {"idle", "done"} =>
    \A c \in held \cup Waiting : c[1] # r

\* The cascade is finite and small: a proxied create reaches the upstream at
\* most four times (six when a replay starts over as a plain proxy), a JSON
\* create twelve times, and a local one generates three times before that.
RetriesBounded ==
  \A r \in Req : req[r].pc # "idle" =>
    req[r].calls <= CASE req[r].flow = "local" -> 3
                      [] req[r].flow = "proxy" -> 4
                      [] req[r].flow \in {"stream", "replay"} -> 6
                      [] OTHER -> 12

\* What was answered after a tool_choice fallback obeys the tool_choice of the
\* original request (comment at handlers_responses.go:906).
FallbackObeysContract ==
  \A r \in Req :
    req[r].pc # "idle" /\ req[r].out = "answer" /\ req[r].fb => req[r].ans.obeys

\* "Do not retry side-effecting create requests after timeout"
\* (docs/engineering/runtime-hardening.md:111): once a call of a create has
\* timed out, the create makes no other.
NoRetryAfterTimeout == \A r \in Req : req[r].pc # "idle" => req[r].late = {}

\* Only two timeouts are followed by another call: that of the direct proxy,
\* whose error createLocalStateViaUpstream only logs, and that of a local
\* generation in prefer_upstream mode.  A create that any other flow gave up on
\* is not sent again by whatever retry is still to be tried.
TimeoutEndsMostCreates ==
  \A r \in Req : req[r].pc # "idle" =>
    req[r].late \subseteq {"direct"} \cup (IF PreferUpstream THEN {"local"} ELSE {})

\* Every create is answered, also when the client does not give up and all
\* places are taken: no handler waits for a place that only it can give back.
CreateIsAnswered ==
  \A r \in Req : (req[r].pc # "idle") ~> (req[r].pc = "done")
=============================================================================

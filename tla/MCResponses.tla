---------------------------- MODULE MCResponses ----------------------------
(* Instances of the stored responses: two requests that race, without and    *)
(* with background responses, one request that builds chains longer than the *)
(* cap on a lineage, and two WebSocket connections beside one request.       *)
EXTENDS ResponseSessions, TLC

CONSTANTS Parts, OneClient, TwoResp, ThreeResp

VARIABLE part

Races == INSTANCE Responses WITH Resp <- ThreeResp, Backgrounds <- {FALSE}
Background == INSTANCE Responses WITH Resp <- TwoResp
Chains == INSTANCE Responses WITH Client <- OneClient, Backgrounds <- {FALSE}
Sockets == INSTANCE ResponseSessions
             WITH Resp <- ThreeResp, LineageMax <- 0, Client <- OneClient,
                  Backgrounds <- {FALSE}

ResponsesInit == part \in Parts /\ SessionInit

ResponsesNext ==
  \/ part = "races" /\ Races!Next /\ UNCHANGED <<part, session, leaked>>
  \/ part = "background" /\ Background!Next /\ UNCHANGED <<part, session, leaked>>
  \/ part = "chains" /\ Chains!Next /\ UNCHANGED <<part, session, leaked>>
  \/ part = "sockets" /\ Sockets!SessionNext /\ UNCHANGED part

ResponsesSpec == ResponsesInit /\ [][ResponsesNext]_<<sessionVars, part>>

\* Identifiers, requests and connections are interchangeable, the ones of
\* TwoResp, ThreeResp and OneClient among themselves; the others stay unused
\* beside them.
Symmetry == Permutations(Resp) \cup Permutations(Client) \cup Permutations(Session)
=============================================================================

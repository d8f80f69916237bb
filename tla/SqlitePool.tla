----------------------------- MODULE SqlitePool -----------------------------
(***************************************************************************)
(* Statements of internal/storage/sqlite on the connections of Go's        *)
(* database/sql pool.  db.go runs "PRAGMA foreign_keys = ON" and "PRAGMA   *)
(* busy_timeout" once, when the store is opened; both belong to the        *)
(* connection that happens to run them.  The schema leaves the removal of  *)
(* a response's replay artifacts to ON DELETE CASCADE.                     *)
(*                                                                         *)
(* Two callers of the store: a streamed create, which saves its response   *)
(* and, once that has returned, its replay artifacts; and a DELETE.        *)
(***************************************************************************)
EXTENDS Naturals, Sequences, FiniteSets

CONSTANTS Resp,     \* response identifiers
          Client,   \* goroutines that use the store
          MaxIdle,  \* connections database/sql keeps for reuse (2 by default)
          None

VARIABLES idle,       \* free connections, the last one is used next
          job,        \* the statement each client is running
          writer,     \* the client that holds SQLite's write lock
          responses,  \* rows of the responses table
          artifacts   \* responses with rows in response_replay_artifacts

vars == <<idle, job, writer, responses, artifacts>>

Conn == [foreignKeys: BOOLEAN, busyTimeout: BOOLEAN]

(* External: SQLite's defaults for a connection database/sql opens itself.  *)
Plain == [foreignKeys |-> FALSE, busyTimeout |-> FALSE]

(* configure.                                                               *)
Configure(conn) == [conn EXCEPT !.foreignKeys = TRUE, !.busyTimeout = TRUE]

Free == [pc |-> "free"]

(* OpenWithOptions has opened one connection, configured and migrated on it. *)
Init == /\ idle = <<Configure(Plain)>>
        /\ job = [c \in Client |-> Free]
        /\ writer = None
        /\ responses = {}
        /\ artifacts = {}

(* External: database/sql hands out its last free connection or opens one.  *)
Begin(c, op, id) ==
  /\ idle' = IF idle = <<>> THEN idle ELSE SubSeq(idle, 1, Len(idle) - 1)
  /\ job' = [job EXCEPT ![c] = [pc |-> "lock", op |-> op, id |-> id,
               conn |-> IF idle = <<>> THEN Plain ELSE idle[Len(idle)]]]
  /\ UNCHANGED <<writer, responses, artifacts>>

(* A stream has ended: SaveExternalResponse writes the response ...         *)
BeginSave(c, id) == job[c] = Free /\ Begin(c, "save", id)

(* ... or, for a store=false response that continues nothing, returns       *)
(* without writing it; its artifacts are saved all the same.                *)
BeginArtifacts(c, id) ==
  /\ job[c] = Free \/ job[c] = [pc |-> "saved", id |-> id]
  /\ Begin(c, "artifacts", id)

BeginDelete(c, id) == job[c] = Free /\ Begin(c, "delete", id)

(* External: a free connection beyond MaxIdle is closed.                    *)
Return(conn) == IF Len(idle) < MaxIdle THEN Append(idle, conn) ELSE idle

(* External: one writer at a time; without busy_timeout nobody waits.       *)
Lock(c) ==
  /\ job[c].pc = "lock"
  /\ \/ /\ writer = None
        /\ writer' = c
        /\ job' = [job EXCEPT ![c].pc = "run"]
        /\ UNCHANGED <<idle>>
     \/ /\ writer # None /\ ~job[c].conn.busyTimeout
        /\ idle' = Return(job[c].conn)
        /\ job' = [job EXCEPT ![c] = Free]
        /\ UNCHANGED writer
  /\ UNCHANGED <<responses, artifacts>>

Done(c, next) ==
  /\ writer' = None
  /\ idle' = Return(job[c].conn)
  /\ job' = [job EXCEPT ![c] = next]

(* SaveResponse; the artifacts of the stream come next.                     *)
SaveResponse(c) ==
  /\ job[c].pc = "run" /\ job[c].op = "save"
  /\ responses' = responses \cup {job[c].id}
  /\ UNCHANGED artifacts
  /\ Done(c, [pc |-> "saved", id |-> job[c].id])

(* SaveResponseReplayArtifacts: one transaction that removes what was there *)
(* and inserts what the stream left, if anything.  The foreign key refuses  *)
(* an insert without a response, which rolls the transaction back.          *)
SaveArtifacts(c) ==
  /\ job[c].pc = "run" /\ job[c].op = "artifacts"
  /\ \E some \in BOOLEAN :
       artifacts' = IF ~some THEN artifacts \ {job[c].id}
                    ELSE IF job[c].conn.foreignKeys /\ job[c].id \notin responses
                    THEN artifacts ELSE artifacts \cup {job[c].id}
  /\ UNCHANGED responses
  /\ Done(c, Free)

(* DeleteResponse: one statement, the artifacts go by ON DELETE CASCADE.    *)
DeleteResponse(c) ==
  /\ job[c].pc = "run" /\ job[c].op = "delete"
  /\ responses' = responses \ {job[c].id}
  /\ artifacts' = IF job[c].conn.foreignKeys
                  THEN artifacts \ {job[c].id} ELSE artifacts
  /\ Done(c, Free)

Next ==
  \E c \in Client :
    \/ \E id \in Resp : BeginSave(c, id) \/ BeginArtifacts(c, id) \/ BeginDelete(c, id)
    \/ Lock(c) \/ SaveResponse(c) \/ SaveArtifacts(c) \/ DeleteResponse(c)

Spec == Init /\ [][Next]_vars

-----------------------------------------------------------------------------
(* docs/v3-hard-delete-governance.md: "Response replay artifacts are        *)
(* removed through the store schema/invariant for that response": the       *)
(* DELETE that takes a response out of the table takes its artifacts too.   *)
NoOrphanArtifacts ==
  [][\A id \in responses \ responses' : id \notin artifacts']_vars
=============================================================================

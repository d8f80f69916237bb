----------------------------- MODULE Containers -----------------------------
(***************************************************************************)
(* The code interpreter's containers, internal/httpapi/                    *)
(* local_code_interpreter_containers.go: a sandbox, a row of               *)
(* code_interpreter_sessions, rows of code_interpreter_container_files and *)
(* the stored files behind them, kept together by calls that each make     *)
(* several statements without a common transaction, and by a sweeper that  *)
(* runs beside them.                                                       *)
(*                                                                         *)
(* Every statement and every call of the sandbox is a step.  A fresh       *)
(* identifier is one that nothing mentions.  db.go turns foreign keys on   *)
(* for one pooled connection only: Enforced holds what a statement may     *)
(* find.  Owners, names and the content of files are left out.             *)
(***************************************************************************)
EXTENDS Naturals, FiniteSets

CONSTANTS Client, Sweeper,  \* requests, and the cleanup loop
          Cont,             \* container identifiers
          File,             \* stored file identifiers
          ClientFile,       \* those uploaded through /v1/files
          Path,             \* each file's path in a container
          RowId,            \* identifiers of container files
          TTL,              \* expires_after_minutes
          MaxTime,          \* bound on the clock
          MaxFaults,        \* bound on failing statements and crashes
          MaxDrops,         \* bound on files deleted through /v1/files
          Enforced,         \* whether foreign keys are on: a set of Booleans
          None

ASSUME ContainerAssumption ==
  /\ ClientFile \subseteq File
  /\ TTL \in Nat \ {0} /\ MaxTime \in Nat /\ MaxFaults \in Nat /\ MaxDrops \in Nat
  /\ Enforced \subseteq BOOLEAN

VARIABLES now,      \* the clock
          session,  \* rows of code_interpreter_sessions
          live,     \* containers with a sandbox
          rows,     \* rows of code_interpreter_container_files
          files,    \* rows of files
          dropped,  \* history: files gone by DELETE /v1/files or their own expiry
          op,       \* the call each process is in
          faults

vars == <<now, session, live, rows, files, dropped, op, faults>>
tables == <<session, live, rows, files, dropped>>

Process == Client \cup {Sweeper}
Session == [status: {"running", "expired"}, last: Nat]
Row == [id: RowId, cont: Cont, file: File, own: BOOLEAN]

(* A call: its container, the sessions still to look at, the one it is      *)
(* expiring, the status getContainer has seen, the rows still to clean and  *)
(* the one being cleaned, the stored file a run was given, the file being   *)
(* added, whether it created the container, and where it goes on after      *)
(* getContainer or a touch (then) and after cleanupOwnedBackingFile (back). *)
Idle == [pc |-> "idle", c |-> None, page |-> {}, snap |-> None, seen |-> None,
         todo |-> {}, row |-> None, input |-> None, file |-> None, own |-> FALSE,
         created |-> FALSE, then |-> "idle", back |-> "idle"]

Init == /\ now = 0
        /\ session = [c \in Cont |-> None]
        /\ live = {}
        /\ rows = {}
        /\ files = ClientFile
        /\ dropped = {}
        /\ op = [p \in Process |-> Idle]
        /\ faults = 0

Tick == /\ now < MaxTime
        /\ now' = now + 1
        /\ UNCHANGED <<tables, op, faults>>

RowsOf(c) == {r \in rows : r.cont = c}
Remembered(p) == op[p].todo \cup ({op[p].row} \ {None})
Mentioned == rows \cup UNION {Remembered(p) : p \in Process}

FreshCont(c) == /\ session[c] = None /\ c \notin live /\ RowsOf(c) = {}
                /\ \A p \in Process :
                     /\ op[p].c # c /\ \A s \in op[p].page : s.c # c
                     /\ op[p].snap # None => op[p].snap.c # c
FreshFile(f) == /\ f \notin files \cup ClientFile
                /\ \A p \in Process : op[p].file # f /\ op[p].input # f
                /\ \A r \in Mentioned : r.file # f
FreshRow(i) == \A r \in Mentioned : r.id # i

Goto(p, pc) ==
  op' = [op EXCEPT ![p] = IF pc = "idle" THEN Idle ELSE [op[p] EXCEPT !.pc = pc]]
Return(p) == op' = [op EXCEPT ![p] = Idle]
Cleaned(p) == op' = [op EXCEPT ![p].pc = op[p].back, ![p].row = None, ![p].back = "idle"]

(* An error ends the call; the handlers delete a container they have just   *)
(* created, and the sweeper goes on with its page.                          *)
Abort(p) ==
  op' = [op EXCEPT ![p] =
           IF p = Sweeper
           THEN [Idle EXCEPT !.pc = "page", !.page = op[p].page]
           ELSE IF op[p].created
                THEN [Idle EXCEPT !.pc = "get", !.c = op[p].c, !.then = "delete"]
                ELSE Idle]

(* A statement or the sandbox fails.                                        *)
Fault(p) ==
  /\ faults < MaxFaults
  /\ op[p].pc \notin {"idle", "saveSession"}
  /\ faults' = faults + 1
  /\ Abort(p)
  /\ UNCHANGED <<now, tables>>

(* The shim stops between two steps.  Sandboxes outlive it.                 *)
Crash ==
  /\ faults < MaxFaults
  /\ faults' = faults + 1
  /\ op' = [p \in Process |-> Idle]
  /\ UNCHANGED <<now, tables>>

-----------------------------------------------------------------------------
(* createContainer reads the clock, creates the sandbox and saves the row.  *)
CreateContainer(p, c, then) ==
  /\ op[p].pc \in IF then = "stage" THEN {"run", "runAnew"} ELSE {"idle"}
  /\ FreshCont(c)
  /\ live' = live \cup {c}
  /\ op' = [op EXCEPT ![p] = [Idle EXCEPT !.pc = "saveSession", !.c = c,
              !.snap = [c |-> c, status |-> "running", last |-> now], !.then = then,
              !.input = op[p].input]]
  /\ UNCHANGED <<now, session, rows, files, faults, dropped>>

SaveSession(p) ==
  /\ op[p].pc = "saveSession"
  /\ LET c == op[p].c IN
     \/ /\ session' = [session EXCEPT ![c] = [status |-> "running",
                                              last |-> op[p].snap.last]]
        /\ op' = [op EXCEPT ![p] =
                    IF op[p].then = "idle" THEN Idle
                    ELSE [Idle EXCEPT !.pc = op[p].then, !.c = c, !.created = TRUE,
                                      !.input = op[p].input]]
        /\ UNCHANGED <<live, faults>>
     \/ /\ faults < MaxFaults /\ faults' = faults + 1
        /\ live' = live \ {c}
        /\ Return(p)
        /\ UNCHANGED session
  /\ UNCHANGED <<now, rows, files, dropped>>

-----------------------------------------------------------------------------
Snapshot(c) == [c |-> c, status |-> session[c].status, last |-> session[c].last]

(* A request on a container begins with getContainer, which fails when      *)
(* there is none.                                                           *)
Request(p, c, then) ==
  /\ op[p].pc = "idle" /\ session[c] # None
  /\ op' = [op EXCEPT ![p] = [Idle EXCEPT !.pc = "page", !.c = c, !.then = then,
                                          !.page = {Snapshot(c)}]]
  /\ UNCHANGED <<now, tables, faults>>

(* A run looks up the stored file it was given first ...                    *)
Run(p, f) ==
  /\ op[p].pc = "idle"
  /\ op' = [op EXCEPT ![p] = [Idle EXCEPT !.pc = "run", !.input = f]]
  /\ UNCHANGED <<now, tables, faults>>

(* ... then a running container of its lineage, which it ensures.  When     *)
(* there is none, or it has expired by then, the run creates one.           *)
Reuse(p, c) ==
  /\ op[p].pc = "run" /\ session[c] # None /\ session[c].status = "running"
  /\ op' = [op EXCEPT ![p].pc = "get", ![p].c = c, ![p].then = "reuse"]
  /\ UNCHANGED <<now, tables, faults>>

(* getContainer once more, in the middle of a call.                         *)
Get(p) ==
  /\ op[p].pc = "get"
  /\ LET c == op[p].c IN
     \/ /\ session[c] = None
        /\ Abort(p)
     \/ /\ session[c] # None
        /\ op' = [op EXCEPT ![p].pc = "page", ![p].page = {Snapshot(c)}]
  /\ UNCHANGED <<now, tables, faults>>

(* listContainers and the sweeper read a page of sessions.                  *)
List(p) ==
  /\ op[p].pc = "idle"
  /\ op' = [op EXCEPT ![p] = [Idle EXCEPT !.pc = "page",
              !.page = {Snapshot(c) : c \in {d \in Cont : session[d] # None}}]]
  /\ UNCHANGED <<now, tables, faults>>

(* Mutant: the minute of expiry still counts as active.                     *)
ExpiredLate(s) == now > s.last + TTL

localCodeInterpreterContainerExpired(s) == now >= s.last + TTL

(* A listing keeps no status.                                               *)
SeenBy(p, status) == IF op[p].c = None THEN None ELSE status

(* expireIfNeeded on a session read earlier.                                *)
expireIfNeeded(p) ==
  /\ op[p].pc = "page"
  /\ \/ /\ op[p].page = {}
        /\ Goto(p, op[p].then)
     \/ \E s \in op[p].page :
          op' = [op EXCEPT ![p] =
            IF s.status = "running" /\ localCodeInterpreterContainerExpired(s)
            THEN [op[p] EXCEPT !.page = @ \ {s}, !.snap = s, !.pc = "expireSandbox"]
            ELSE [op[p] EXCEPT !.page = @ \ {s}, !.seen = SeenBy(p, s.status)]]
  /\ UNCHANGED <<now, tables, faults>>

ExpireSandbox(p) ==
  /\ op[p].pc = "expireSandbox"
  /\ live' = live \ {op[p].snap.c}
  /\ Goto(p, "expireList")
  /\ UNCHANGED <<now, session, rows, files, faults, dropped>>

ExpireList(p) ==
  /\ op[p].pc = "expireList"
  /\ op' = [op EXCEPT ![p].pc = "expireRow", ![p].todo = RowsOf(op[p].snap.c)]
  /\ UNCHANGED <<now, tables, faults>>

ExpireRow(p) ==
  /\ op[p].pc = "expireRow"
  /\ \E r \in op[p].todo :
       \/ /\ r \in rows
          /\ rows' = rows \ {r}
          /\ op' = [op EXCEPT ![p].todo = @ \ {r}, ![p].row = r,
                              ![p].pc = "count", ![p].back = "expireRow"]
       \/ /\ r \notin rows
          /\ Abort(p)
          /\ UNCHANGED rows
  /\ UNCHANGED <<now, session, live, files, faults, dropped>>

(* The row is upserted from the session read before, as expired.            *)
ExpireSave(p) ==
  /\ op[p].pc = "expireRow" /\ op[p].todo = {}
  /\ LET s == op[p].snap IN
     session' = [session EXCEPT ![s.c] = [status |-> "expired", last |-> s.last]]
  /\ op' = [op EXCEPT ![p].pc = "page", ![p].snap = None,
                      ![p].seen = SeenBy(p, "expired")]
  /\ UNCHANGED <<now, live, rows, files, faults, dropped>>

-----------------------------------------------------------------------------
References(f) == {r \in rows : r.file = f}

(* Mutant: the references are not counted.                                  *)
CountNothing(p) ==
  /\ op[p].pc = "count"
  /\ IF op[p].row.own THEN Goto(p, "unlink") ELSE Cleaned(p)
  /\ UNCHANGED <<now, tables, faults>>

(* Mutant: whose file it is does not matter.                                *)
CountAll(p) ==
  /\ op[p].pc = "count"
  /\ IF References(op[p].row.file) = {} THEN Goto(p, "unlink") ELSE Cleaned(p)
  /\ UNCHANGED <<now, tables, faults>>

(* cleanupOwnedBackingFile counts the references, then deletes the file.    *)
Count(p) ==
  /\ op[p].pc = "count"
  /\ IF op[p].row.own /\ References(op[p].row.file) = {}
     THEN Goto(p, "unlink") ELSE Cleaned(p)
  /\ UNCHANGED <<now, tables, faults>>

(* DeleteFile, with its cascade where foreign keys are on.                  *)
Unlink(p) ==
  /\ op[p].pc = "unlink"
  /\ files' = files \ {op[p].row.file}
  /\ \E fk \in Enforced :
       rows' = IF fk THEN rows \ References(op[p].row.file) ELSE rows
  /\ Cleaned(p)
  /\ UNCHANGED <<now, session, live, faults, dropped>>

-----------------------------------------------------------------------------
(* deleteContainer lists the files, destroys the sandbox, deletes the row   *)
(* and, by cascade, the files' rows, and then cleans up what it listed.     *)
DeleteList(p) ==
  /\ op[p].pc = "delete"
  /\ op' = [op EXCEPT ![p].pc = "deleteSandbox", ![p].todo = RowsOf(op[p].c),
                      ![p].seen = None]
  /\ UNCHANGED <<now, tables, faults>>

DeleteSandbox(p) ==
  /\ op[p].pc = "deleteSandbox"
  /\ live' = live \ {op[p].c}
  /\ Goto(p, "deleteRow")
  /\ UNCHANGED <<now, session, rows, files, faults, dropped>>

DeleteRow(p) ==
  /\ op[p].pc = "deleteRow"
  /\ LET c == op[p].c IN
     \/ /\ session[c] = None
        /\ Abort(p)
        /\ UNCHANGED <<session, rows>>
     \/ /\ session[c] # None
        /\ session' = [session EXCEPT ![c] = None]
        /\ \E fk \in Enforced : rows' = IF fk THEN rows \ RowsOf(c) ELSE rows
        /\ Goto(p, "deleteFiles")
  /\ UNCHANGED <<now, live, files, faults, dropped>>

DeleteFiles(p) ==
  /\ op[p].pc = "deleteFiles"
  /\ \/ /\ op[p].todo = {}
        /\ Return(p)
     \/ \E r \in op[p].todo :
          op' = [op EXCEPT ![p].todo = @ \ {r}, ![p].row = r,
                           ![p].pc = "count", ![p].back = "deleteFiles"]
  /\ UNCHANGED <<now, tables, faults>>

-----------------------------------------------------------------------------
(* An upload or an input file of a run is stored first and owned by its     *)
(* row; then getContainer is called again.                                  *)
SaveFile(p, f) ==
  /\ op[p].pc \in {"upload", "stage"} /\ FreshFile(f)
  /\ files' = files \cup {f} /\ dropped' = dropped \ {f}
  /\ op' = [op EXCEPT ![p].file = f, ![p].own = TRUE, ![p].pc = "get",
              ![p].then = IF op[p].pc = "stage" THEN "ensureStaged" ELSE "ensure"]
  /\ UNCHANGED <<now, session, live, rows, faults>>

(* persistGeneratedFiles does not look at the container again.              *)
SaveGeneratedFile(p, f) ==
  /\ op[p].pc = "executed" /\ FreshFile(f)
  /\ files' = files \cup {f} /\ dropped' = dropped \ {f}
  /\ op' = [op EXCEPT ![p].file = f, ![p].own = TRUE, ![p].pc = "byPath",
                      ![p].then = "executed"]
  /\ UNCHANGED <<now, session, live, rows, faults>>

(* createStoredContainerFile: a file the client names.                      *)
GetFile(p, f) ==
  /\ op[p].pc = "attach"
  /\ \/ /\ f \in files
        /\ op' = [op EXCEPT ![p].file = f, ![p].own = FALSE, ![p].pc = "get",
                            ![p].then = "ensure"]
     \/ /\ f \notin files
        /\ Abort(p)
  /\ UNCHANGED <<now, tables, faults>>

(* stageInputFiles: the file the run looked up when it began is not looked  *)
(* up again.                                                                *)
StageInputFile(p) ==
  /\ op[p].pc = "stage" /\ op[p].input # None
  /\ op' = [op EXCEPT ![p].file = op[p].input, ![p].own = FALSE, ![p].input = None,
                      ![p].pc = "get", ![p].then = "ensureStaged"]
  /\ UNCHANGED <<now, tables, faults>>

(* The end of file_ids, or an empty one: the container stays either way.    *)
Attached(p) ==
  /\ op[p].pc = "attach" /\ op[p].created
  /\ Return(p)
  /\ UNCHANGED <<now, tables, faults>>

(* ensureContainerSession, after its getContainer; restoring the files      *)
(* changes only the sandbox.                                                *)
Ensure(p) ==
  /\ op[p].pc \in {"ensure", "ensureStaged", "reuse"}
  /\ \/ /\ op[p].seen = "running"
        /\ live' = live \cup {op[p].c}
        /\ op' = [op EXCEPT ![p].pc = IF @ = "reuse" THEN "stage" ELSE "byPath",
                            ![p].then = CASE op[p].pc # "ensure" -> "stage"
                                          [] op[p].created -> "attach"
                                          [] OTHER -> "idle",
                            ![p].seen = None]
     \/ /\ op[p].seen # "running"
        /\ IF op[p].pc = "reuse"
           THEN op' = [op EXCEPT ![p] = [Idle EXCEPT !.pc = "runAnew",
                                                     !.input = op[p].input]]
           ELSE Abort(p)
        /\ UNCHANGED live
  /\ UNCHANGED <<now, session, rows, files, faults, dropped>>

(* Mutant: only a row of the same file is replaced.                         *)
SameFile(c, f) == {r \in RowsOf(c) : r.file = f}

SamePath(c, f) == {r \in RowsOf(c) : Path[r.file] = Path[f]}

(* saveContainerFileMetadata reads the row it is about to replace,          *)
ByPath(p) ==
  /\ op[p].pc = "byPath"
  /\ LET old == SamePath(op[p].c, op[p].file) IN
     op' = [op EXCEPT ![p].pc = "saveRow", ![p].todo = old]
  /\ UNCHANGED <<now, tables, faults>>

(* replaces whatever row is there by then in one transaction, and cleans    *)
(* up behind the row it has read.                                           *)
SaveRow(p) ==
  /\ op[p].pc = "saveRow"
  /\ LET c == op[p].c
         f == op[p].file
     IN \E fk \in Enforced :
          \/ /\ fk /\ (session[c] = None \/ f \notin files)
             /\ Abort(p)
             /\ UNCHANGED rows
          \/ /\ fk => session[c] # None /\ f \in files
             /\ \E i \in RowId :
                  /\ FreshRow(i)
                  /\ rows' = (rows \ SamePath(c, f)) \cup
                             {[id |-> i, cont |-> c, file |-> f, own |-> op[p].own]}
             /\ op' = [op EXCEPT ![p].pc = "replaced", ![p].file = None,
                                 ![p].own = FALSE]
  /\ UNCHANGED <<now, session, live, files, faults, dropped>>

Replaced(p) ==
  /\ op[p].pc = "replaced"
  /\ \/ /\ op[p].todo = {}
        /\ Goto(p, "touch")
     \/ \E r \in op[p].todo :
          op' = [op EXCEPT ![p].todo = {}, ![p].row = r,
                           ![p].pc = "count", ![p].back = "replaced"]
  /\ UNCHANGED <<now, tables, faults>>

TouchCodeInterpreterSession(p) ==
  /\ \/ op[p].pc = "touch"
     \/ op[p].pc = "touchRunning" /\ op[p].seen = "running"
  /\ LET c == op[p].c IN
     \/ /\ session[c] = None
        /\ Abort(p)
        /\ UNCHANGED session
     \/ /\ session[c] # None
        /\ session' = [session EXCEPT ![c].last = now]
        /\ Goto(p, IF op[p].pc = "touchRunning" THEN "idle" ELSE op[p].then)
  /\ UNCHANGED <<now, live, rows, files, faults, dropped>>

(* A run: input files are staged, the code executes for as long as it       *)
(* takes, generated files are saved; a container that was reused is touched.*)
Execute(p) ==
  /\ op[p].pc \in {"stage", "executed"} /\ op[p].input = None
  /\ op' = [op EXCEPT ![p] =
              CASE op[p].pc = "stage" -> [op[p] EXCEPT !.pc = "executed"]
                [] op[p].pc = "executed" /\ op[p].created -> Idle
                [] OTHER -> [op[p] EXCEPT !.pc = "touch", !.then = "idle"]]
  /\ UNCHANGED <<now, tables, faults>>

-----------------------------------------------------------------------------
(* listContainerFiles, getContainerFile and deleteContainerFile.            *)
ReadFile(p) ==
  /\ op[p].pc \in {"listFiles", "getFile", "deleteFile"}
  /\ IF op[p].seen # "running" THEN Abort(p)
     ELSE \/ /\ op[p].pc = "listFiles"
             /\ op' = [op EXCEPT ![p].pc = "touch", ![p].then = "idle"]
          \/ /\ op[p].pc # "listFiles"
             /\ \E r \in RowsOf(op[p].c) :
                  /\ r.file \in files
                  /\ op' = IF op[p].pc = "deleteFile"
                           THEN [op EXCEPT ![p].pc = "touch", ![p].row = r,
                                           ![p].then = "removeRow"]
                           ELSE [op EXCEPT ![p].pc = "touch", ![p].then = "idle"]
          \/ /\ op[p].pc # "listFiles"
             /\ Abort(p)
  /\ UNCHANGED <<now, tables, faults>>

RemoveRow(p) ==
  /\ op[p].pc = "removeRow"
  /\ \/ /\ op[p].row \in rows
        /\ rows' = rows \ {op[p].row}
        /\ op' = [op EXCEPT ![p].pc = "count", ![p].back = "touch", ![p].then = "idle"]
     \/ /\ op[p].row \notin rows
        /\ Abort(p)
        /\ UNCHANGED rows
  /\ UNCHANGED <<now, session, live, files, faults, dropped>>

-----------------------------------------------------------------------------
(* DeleteFile on its own asks nobody whose file it is.                      *)
DropFile(f) ==
  /\ Cardinality(dropped) < MaxDrops
  /\ f \in files
  /\ files' = files \ {f}
  /\ dropped' = dropped \cup {f}
  /\ \E fk \in Enforced : rows' = IF fk THEN rows \ References(f) ELSE rows
  /\ UNCHANGED <<now, session, live, op, faults>>

(* DELETE /v1/files/{id}: any stored file, a container's own included.      *)
DeleteStoredFile(f) == DropFile(f)

(* The maintenance loop; only what comes through /v1/files has an expiry.   *)
CleanupExpiredState(f) == f \in ClientFile /\ DropFile(f)

-----------------------------------------------------------------------------
(* Where a request goes on once getContainer has answered.                  *)
Operation == {"touchRunning", "delete", "upload", "attach",
              "listFiles", "getFile", "deleteFile"}

NotRunning(p) == /\ op[p].pc = "touchRunning" /\ op[p].seen # "running"
                 /\ Return(p)
                 /\ UNCHANGED <<now, tables, faults>>

Start(p) ==
  \/ List(p)
  \/ \E c \in Cont :
       \/ \E then \in {"idle", "attach", "stage"} : CreateContainer(p, c, then)
       \/ \E then \in Operation : Request(p, c, then)
       \/ Reuse(p, c)
  \/ \E f \in files \cup {None} : Run(p, f)

(* What a call of getContainer and of the sweeper may do.                   *)
Expire(p) ==
  \/ expireIfNeeded(p) \/ ExpireSandbox(p) \/ ExpireList(p) \/ ExpireRow(p)
  \/ ExpireSave(p) \/ Count(p) \/ Unlink(p)

Continue(p) ==
  \/ SaveSession(p) \/ Get(p) \/ NotRunning(p)
  \/ DeleteList(p) \/ DeleteSandbox(p) \/ DeleteRow(p) \/ DeleteFiles(p)
  \/ \E f \in File : SaveFile(p, f) \/ SaveGeneratedFile(p, f) \/ GetFile(p, f)
  \/ Attached(p) \/ StageInputFile(p) \/ Ensure(p) \/ ByPath(p) \/ SaveRow(p) \/ Replaced(p)
  \/ TouchCodeInterpreterSession(p) \/ Execute(p) \/ ReadFile(p) \/ RemoveRow(p)

Sweep == List(Sweeper) \/ Expire(Sweeper)

Next ==
  \/ Tick
  \/ Crash
  \/ Sweep
  \/ \E f \in File : DeleteStoredFile(f) \/ CleanupExpiredState(f)
  \/ \E p \in Client : Start(p) \/ Expire(p) \/ Continue(p)
  \/ \E p \in Process : Fault(p)

(* The ticker of the cleanup loop wakes it again and again; requests may    *)
(* stall for ever.                                                          *)
Fairness == WF_vars(Tick) /\ WF_vars(Sweep)

Spec == Init /\ [][Next]_vars /\ Fairness

-----------------------------------------------------------------------------
(* Types of the tables and of what a call remembers.                        *)
ContainersTypeOK ==
  /\ now \in 0..MaxTime /\ faults \in 0..MaxFaults
  /\ session \in [Cont -> Session \cup {None}]
  /\ live \subseteq Cont /\ rows \subseteq Row
  /\ files \subseteq File /\ dropped \subseteq File \ files
  /\ \A r, s \in rows : r.id = s.id => r = s
  /\ \A r, s \in rows : r.cont = s.cont /\ Path[r.file] = Path[s.file] => r = s
  /\ \A p \in Process : op[p].todo \subseteq Row /\ op[p].row \in Row \cup {None}

(* A row that owns its backing file has it until somebody deletes that very *)
(* file through /v1/files: whatever calls on containers overlap, fail or    *)
(* are cut short, and whether or not foreign keys are on, the row goes      *)
(* before the file.                                                         *)
NoDanglingUploads == \A r \in rows : r.own => r.file \in files \cup dropped

(* No call on a container deletes a file the client uploaded through        *)
(* /v1/files, however often it is attached, replaced and removed: only its  *)
(* own DELETE or its own expiry does.                                       *)
ClientFilesSurvive == ClientFile \subseteq files \cup dropped

(* docs/guides/code-interpreter.md: "Expired local containers are cleaned   *)
(* up in the background": a container nobody touches any more stops being   *)
(* running, although requests and faults interfere with the sweeps.         *)
ContainersExpire ==
  <>[](\A c \in Cont : session[c] # None /\ session[c].status = "running"
                         => session[c].last + TTL > MaxTime)
=============================================================================

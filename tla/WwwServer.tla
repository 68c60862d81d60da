----------------------------- MODULE WwwServer ------------------------------
(***************************************************************************)
(* The gRPC server of ah-svc-www (package service) and the database it     *)
(* writes to, as seen by concurrent calls.                                 *)
(*                                                                         *)
(* grpc-go runs each call in a goroutine of its own: the interceptors      *)
(* (auth, validator, acl), then the handler.  RsvpCreation opens the       *)
(* database lazily, with no lock around the check of s.sqliteHandle, pings *)
(* it, and inserts one row.  A step of the model is a stretch of one       *)
(* goroutine between two accesses to what the goroutines share: the field  *)
(* s.sqliteHandle and the SQLite file.  The field is one machine word, so  *)
(* a racy read returns a value some goroutine wrote.                       *)
(*                                                                         *)
(* The database is one SQLite file (a DSN that names a file, the only kind *)
(* the Makefile, docker-compose and the docs use), so every handle, of     *)
(* this process or of another, sees the same table.  A process kill closes *)
(* the handles and rolls back the open transaction.                        *)
(***************************************************************************)
EXTENDS RsvpParams, FiniteSets

CONSTANTS Request,       \* the calls, each made once
          UUID,          \* what uuid.New() may draw
          Handle,        \* the *gorm.DB values gorm.Open may return
          NoHandle,      \* nil
          NoOwner,       \* nobody holds the write lock of the file
          Calls,         \* the calls the clients may make
          jwtEnabled,    \* is --jwt-secret given?
          sqliteMigrate, \* is --sqlite-migrate given?
          MaxKills       \* bound: how often the process may be killed

Methods == {"RsvpCreation", "Version", "ServicesStatus"}

(* The Authorization header: absent or of another scheme, a bearer token   *)
(* that does not verify (signature, algorithm, expiry), or one that does.  *)
Tokens == {"absent", "rejected", "verified"}

Call == [method: Methods, token: Tokens, params: Params]

ASSUME ConstantsAssumption ==
    /\ Calls \subseteq Call
    /\ NoHandle \notin Handle
    /\ NoOwner \notin Request
    /\ jwtEnabled \in BOOLEAN
    /\ sqliteMigrate \in BOOLEAN
    /\ MaxKills \in Nat

VARIABLES
    call,          \* what each call asks
    phase,         \* where the goroutine of each call is
    claims,        \* has the auth interceptor put JWT claims in its context?
    local,         \* the handle the goroutine holds in a local variable
    draft,         \* the row of its open transaction: {} or a singleton
    result,        \* what the handler returned
    reply,         \* what the client got
    sqliteHandle,  \* the field s.sqliteHandle
    opened,        \* the handles opened in this process and not closed
    up,            \* is the server process running?
    kills,         \* how often it was killed
    tableExists,   \* does the file have the table rsvps?
    rows,          \* its rows; "by" is a history field: the call they are of
    erased,        \* history: the rows an operator's flush deleted
    lock           \* the call that holds the write lock of the file

server == <<phase, claims, local, draft, result>>
process == <<sqliteHandle, opened, up, kills>>
database == <<tableExists, rows, erased, lock>>
vars == <<call, reply, server, process, database>>

-----------------------------------------------------------------------------
(* Rows, results and replies *)

(* The Rsvp struct, as stored.                                             *)
Rsvp == [uuid: UUID, by: Request, params: Params]

(* RsvpInfo: the uuid and the fields of the row.                           *)
RsvpInfo == [uuid: UUID, params: Params]

convertRsvpFromModelToProtocol(row) == [uuid |-> row.uuid, params |-> row.params]

ServerCodes == {"OK", "InvalidArgument", "Unauthenticated", "PermissionDenied",
                "Internal"}

(* Codes the client's side makes up: the call's fate is unknown to it.     *)
LostCodes == {"DeadlineExceeded", "Unavailable"}

Result == [code: ServerCodes \cup LostCodes \cup {"none"},
           field: FieldNames \cup {Valid}, info: SUBSET RsvpInfo]

NoResult == [code |-> "none", field |-> Valid, info |-> {}]
Failure(code, field) == [code |-> code, field |-> field, info |-> {}]
Success(info) == [code |-> "OK", field |-> Valid, info |-> info]

Phases == {"idle", "auth", "validator", "acl", "handler", "check", "open",
           "store", "ping", "create", "insert", "commit", "reply", "done"}

(* A call that the server process is working on.                           *)
InFlight(r) == phase[r] \notin {"idle", "done"}

-----------------------------------------------------------------------------
TypeOK ==
    /\ call \in [Request -> Calls]
    /\ phase \in [Request -> Phases]
    /\ claims \in [Request -> BOOLEAN]
    /\ local \in [Request -> Handle \cup {NoHandle}]
    /\ draft \in [Request -> SUBSET Rsvp]
    /\ result \in [Request -> Result]
    /\ reply \in [Request -> Result]
    /\ sqliteHandle \in Handle \cup {NoHandle}
    /\ opened \subseteq Handle
    /\ up \in BOOLEAN
    /\ kills \in 0 .. MaxKills
    /\ tableExists \in BOOLEAN
    /\ rows \subseteq Rsvp
    /\ erased \subseteq Rsvp
    /\ lock \in Request \cup {NoOwner}

(* A server that has just been launched on a file that may have been       *)
(* migrated before, or by this launch.                                     *)
Init ==
    /\ call \in [Request -> Calls]
    /\ phase = [r \in Request |-> "idle"]
    /\ claims = [r \in Request |-> FALSE]
    /\ local = [r \in Request |-> NoHandle]
    /\ draft = [r \in Request |-> {}]
    /\ result = [r \in Request |-> NoResult]
    /\ reply = [r \in Request |-> NoResult]
    /\ sqliteHandle = NoHandle
    /\ opened = {}
    /\ up = TRUE
    /\ kills = 0
    /\ tableExists \in {b \in BOOLEAN : sqliteMigrate => b}
    /\ rows = {}
    /\ erased = {}
    /\ lock = NoOwner

-----------------------------------------------------------------------------
(* Moves of one goroutine *)

Goto(r, p) == phase' = [phase EXCEPT ![r] = p]

Return(r, res) ==
    /\ result' = [result EXCEPT ![r] = res]
    /\ Goto(r, "reply")

(* Go on to phase p, or return the error res.                              *)
Guarded(r, ok, p, res) ==
    IF ok THEN Goto(r, p) /\ UNCHANGED result ELSE Return(r, res)

(* The client sends the call; a server that is down refuses the connection. *)
Send(r) ==
    /\ phase[r] = "idle"
    /\ IF up
         THEN Goto(r, "auth") /\ UNCHANGED reply
         ELSE /\ Goto(r, "done")
              /\ reply' = [reply EXCEPT ![r] = Failure("Unavailable", Valid)]
    /\ UNCHANGED <<call, claims, local, draft, result, process, database>>

(* Mutant of Open: creation is exempted too.                               *)
OpenToAll(m) == m \in Methods

(* Methods that need no token, and the server without a secret.            *)
Open(m) == ~jwtEnabled \/ m \in {"Version", "ServicesStatus"}

(* ParseJWTFromContext fails without a secret, whatever the header.        *)
ParseJWT(c) == jwtEnabled /\ c.token = "verified"

(* The auth interceptor: claims go into the context when the token parses; *)
(* otherwise only an open method goes on, with the context it had.         *)
AuthFuncOverride(r) ==
    /\ phase[r] = "auth"
    /\ claims' = [claims EXCEPT ![r] = ParseJWT(call[r])]
    /\ Guarded(r, ParseJWT(call[r]) \/ Open(call[r].method),
               "validator", Failure("Unauthenticated", Valid))
    /\ UNCHANGED <<call, local, draft, reply, process, database>>

(* Validate of the request message; the other requests are EmptyMessages.  *)
RequestError(c) == IF c.method = "RsvpCreation" THEN Validate(c.params) ELSE Valid

ValidatorInterceptor(r) ==
    /\ phase[r] = "validator"
    /\ Guarded(r, RequestError(call[r]) = Valid, "acl",
               Failure("InvalidArgument", RequestError(call[r])))
    /\ UNCHANGED <<call, claims, local, draft, reply, process, database>>

(* The acl interceptor looks for the claims again.                         *)
AclFuncOverride(r) ==
    /\ phase[r] = "acl"
    /\ Guarded(r, Open(call[r].method) \/ claims[r],
               "handler", Failure("PermissionDenied", Valid))
    /\ UNCHANGED <<call, claims, local, draft, reply, process, database>>

(* Version and ServicesStatus answer from constants of the process.        *)
ReadHandler(r) ==
    /\ phase[r] = "handler"
    /\ call[r].method # "RsvpCreation"
    /\ Return(r, Success({}))
    /\ UNCHANGED <<call, claims, local, draft, reply, process, database>>

(* RsvpCreation validates once more.                                       *)
RsvpCreation(r) ==
    /\ phase[r] = "handler"
    /\ call[r].method = "RsvpCreation"
    /\ Guarded(r, Validate(call[r].params) = Valid, "check",
               Failure("InvalidArgument", Validate(call[r].params)))
    /\ UNCHANGED <<call, claims, local, draft, reply, process, database>>

-----------------------------------------------------------------------------
(* initDatabaseHandle: four accesses to shared state, no lock *)

(* if s.sqliteHandle == nil                                                *)
CheckHandle(r) ==
    /\ phase[r] = "check"
    /\ Goto(r, IF sqliteHandle = NoHandle THEN "open" ELSE "ping")
    /\ UNCHANGED <<call, claims, local, draft, result, reply, process, database>>

(* gorm.Open returns a handle of its own to each caller.                   *)
OpenHandle(r) ==
    /\ phase[r] = "open"
    /\ \E h \in Handle \ opened :
         /\ opened' = opened \cup {h}
         /\ local' = [local EXCEPT ![r] = h]
    /\ Goto(r, "store")
    /\ UNCHANGED <<call, claims, draft, result, reply, sqliteHandle, up, kills, database>>

(* gorm.Open fails (unreadable file, no descriptor left) and has closed    *)
(* what it opened; the field stays nil, the next call tries again.         *)
OpenFails(r) ==
    /\ phase[r] = "open"
    /\ Return(r, Failure("Internal", Valid))
    /\ UNCHANGED <<call, claims, local, draft, reply, process, database>>

(* Mutant of StoreHandle: the handle it replaces is closed.                *)
StoreHandleClosing(r) ==
    /\ phase[r] = "store"
    /\ sqliteHandle' = local[r]
    /\ opened' = opened \ {sqliteHandle}
    /\ Goto(r, "ping")
    /\ UNCHANGED <<call, claims, local, draft, result, reply, up, kills, database>>

(* s.sqliteHandle = sqliteHandle, over whatever another call stored.       *)
StoreHandle(r) ==
    /\ phase[r] = "store"
    /\ sqliteHandle' = local[r]
    /\ Goto(r, "ping")
    /\ UNCHANGED <<call, claims, local, draft, result, reply, opened, up, kills, database>>

(* s.sqliteHandle.DB().Ping(), on the handle that is in the field by now;  *)
(* it fails when the pool cannot open one more connection.                 *)
Ping(r) ==
    /\ phase[r] = "ping"
    /\ \/ Goto(r, "create") /\ UNCHANGED result
       \/ Return(r, Failure("Internal", Valid))
    /\ UNCHANGED <<call, claims, local, draft, reply, process, database>>

-----------------------------------------------------------------------------
(* CreateRsvp: castRsvpParams, then INSERT and COMMIT in a transaction *)

(* The argument s.sqliteHandle is read once more; the cast repeats the     *)
(* length checks.                                                          *)
CreateRsvp(r) ==
    /\ phase[r] = "create"
    /\ local' = [local EXCEPT ![r] = sqliteHandle]
    /\ Guarded(r, castRsvpParams(call[r].params) = Valid, "insert",
               Failure("InvalidArgument", castRsvpParams(call[r].params)))
    /\ UNCHANGED <<call, claims, draft, reply, process, database>>

(* The row CreateRsvp builds.                                              *)
NewRow(u, r) == [uuid |-> u, by |-> r, params |-> call[r].params]

(* Mutants of Insert: two of the positional parameters swapped, or no      *)
(* transaction around the INSERT.                                          *)

InsertSwapped(r) ==
    /\ phase[r] = "insert" /\ lock = NoOwner /\ tableExists
    /\ \E u \in UUID :
         /\ \A row \in rows \cup erased : row.uuid # u
         /\ draft' = [draft EXCEPT ![r] =
                {[NewRow(u, r) EXCEPT !.params.presence = call[r].params.housing,
                                      !.params.housing = call[r].params.presence]}]
    /\ lock' = r
    /\ Goto(r, "commit")
    /\ UNCHANGED <<call, claims, local, result, reply, process, tableExists, rows, erased>>

InsertAutocommits(r) ==
    /\ phase[r] = "insert" /\ lock = NoOwner /\ tableExists
    /\ \E u \in UUID :
         /\ \A row \in rows \cup erased : row.uuid # u
         /\ draft' = [draft EXCEPT ![r] = {NewRow(u, r)}]
         /\ rows' = rows \cup {NewRow(u, r)}
    /\ lock' = r
    /\ Goto(r, "commit")
    /\ UNCHANGED <<call, claims, local, result, reply, process, tableExists, erased>>

(* BeforeCreate draws the uuid (122 random bits: a draw that repeats an    *)
(* earlier one is left out) and INSERT takes the write lock of the file.   *)
Insert(r) ==
    /\ phase[r] = "insert"
    /\ lock = NoOwner
    /\ tableExists
    /\ \E u \in UUID :
         /\ \A row \in rows \cup erased : row.uuid # u
         /\ draft' = [draft EXCEPT ![r] = {NewRow(u, r)}]
    /\ lock' = r
    /\ Goto(r, "commit")
    /\ UNCHANGED <<call, claims, local, result, reply, process, tableExists, rows, erased>>

(* Mutant of InsertFails: it is tried again for as long as it fails.       *)
InsertRetries(r) == phase[r] = "insert" /\ UNCHANGED vars

(* INSERT fails: no table, a lock that is not released within the busy     *)
(* timeout, an I/O error.  Every error of CreateRsvp is reported as        *)
(* InvalidArgument.                                                        *)
InsertFails(r) ==
    /\ phase[r] = "insert"
    /\ Return(r, Failure("InvalidArgument", Valid))
    /\ UNCHANGED <<call, claims, local, draft, reply, process, database>>

(* Mutant of Commit: the transaction is run once more.                     *)
CommitTwice(r) ==
    /\ phase[r] = "commit"
    /\ rows' = rows \cup draft[r]
    /\ draft' = [draft EXCEPT ![r] = {}]
    /\ lock' = NoOwner
    /\ \/ Goto(r, "insert") /\ UNCHANGED result
       \/ Return(r, Success({convertRsvpFromModelToProtocol(row) : row \in draft[r]}))
    /\ UNCHANGED <<call, claims, local, reply, process, tableExists, erased>>

(* COMMIT makes the row durable, and the handler converts it.              *)
Commit(r) ==
    /\ phase[r] = "commit"
    /\ rows' = rows \cup draft[r]
    /\ draft' = [draft EXCEPT ![r] = {}]
    /\ lock' = NoOwner
    /\ Return(r, Success({convertRsvpFromModelToProtocol(row) : row \in draft[r]}))
    /\ UNCHANGED <<call, claims, local, reply, process, tableExists, erased>>

(* Mutants of CommitFails: the row stays, or the transaction stays open.   *)
CommitFailsKeepsRow(r) ==
    /\ phase[r] = "commit"
    /\ rows' = rows \cup draft[r]
    /\ draft' = [draft EXCEPT ![r] = {}]
    /\ lock' = NoOwner
    /\ Return(r, Failure("InvalidArgument", Valid))
    /\ UNCHANGED <<call, claims, local, reply, process, tableExists, erased>>

CommitFailsKeepsLock(r) ==
    /\ phase[r] = "commit"
    /\ draft' = [draft EXCEPT ![r] = {}]
    /\ Return(r, Failure("InvalidArgument", Valid))
    /\ UNCHANGED <<call, claims, local, reply, process, database>>

(* COMMIT fails (a reader does not let go, the disk is full): the driver   *)
(* rolls back and gorm reports the error.                                  *)
CommitFails(r) ==
    /\ phase[r] = "commit"
    /\ draft' = [draft EXCEPT ![r] = {}]
    /\ lock' = NoOwner
    /\ Return(r, Failure("InvalidArgument", Valid))
    /\ UNCHANGED <<call, claims, local, reply, process, tableExists, rows, erased>>

(* The result is sent; a client that no longer waits does not get it.      *)
Reply(r) ==
    /\ phase[r] = "reply"
    /\ Goto(r, "done")
    /\ reply' = [reply EXCEPT ![r] = IF @.code = "none" THEN result[r] ELSE @]
    /\ UNCHANGED <<call, claims, local, draft, result, process, database>>

-----------------------------------------------------------------------------
(* The environment *)

(* The deadline of the call passes at the client, or its connection        *)
(* breaks; the handler does not look at its context and goes on.           *)
GiveUp(r) ==
    /\ InFlight(r)
    /\ reply[r].code = "none"
    /\ \E code \in LostCodes :
         reply' = [reply EXCEPT ![r] = Failure(code, Valid)]
    /\ UNCHANGED <<call, server, process, database>>

(* The process is killed: there is no signal handler and no drain.         *)
Kill ==
    /\ up
    /\ kills < MaxKills
    /\ up' = FALSE
    /\ kills' = kills + 1
    /\ sqliteHandle' = NoHandle
    /\ opened' = {}
    /\ phase' = [r \in Request |-> IF InFlight(r) THEN "done" ELSE phase[r]]
    /\ local' = [r \in Request |-> NoHandle]
    /\ draft' = [r \in Request |-> {}]
    /\ lock' = NoOwner
    /\ reply' = [r \in Request |->
           IF InFlight(r) /\ reply[r].code = "none"
             THEN Failure("Unavailable", Valid) ELSE reply[r]]
    /\ UNCHANGED <<call, claims, result, tableExists, rows, erased>>

(* serve again, after databaseMigration.                                   *)
Restart ==
    /\ ~up
    /\ up' = TRUE
    /\ tableExists' = (tableExists \/ sqliteMigrate)
    /\ UNCHANGED <<call, reply, server, sqliteHandle, opened, kills, rows, erased, lock>>

(* The migrate command, another process on the same file.                  *)
MigrateSchema ==
    /\ ~tableExists
    /\ lock = NoOwner
    /\ tableExists' = TRUE
    /\ UNCHANGED <<call, reply, server, process, rows, erased, lock>>

(* migrate --flush: one DELETE statement, when it gets the write lock.     *)
Flush ==
    /\ tableExists
    /\ lock = NoOwner
    /\ rows' = {}
    /\ erased' = erased \cup rows
    /\ UNCHANGED <<call, reply, server, process, tableExists, lock>>

-----------------------------------------------------------------------------
(* The steps of the goroutine of call r *)
Step(r) ==
    \/ AuthFuncOverride(r) \/ ValidatorInterceptor(r) \/ AclFuncOverride(r)
    \/ ReadHandler(r) \/ RsvpCreation(r)
    \/ CheckHandle(r) \/ OpenHandle(r) \/ OpenFails(r) \/ StoreHandle(r) \/ Ping(r)
    \/ CreateRsvp(r) \/ Insert(r) \/ InsertFails(r)
    \/ Commit(r) \/ CommitFails(r) \/ Reply(r)

Next ==
    \/ \E r \in Request : Send(r) \/ Step(r) \/ GiveUp(r)
    \/ Kill \/ Restart \/ MigrateSchema \/ Flush

Spec == Init /\ [][Next]_vars

(* The Go scheduler runs every goroutine that can run, and a killed server *)
(* is launched again; nothing is assumed of clients and operators.         *)
FairSpec == Spec /\ (\A r \in Request : WF_vars(Step(r))) /\ WF_vars(Restart)

-----------------------------------------------------------------------------
(* Properties *)

(* Every row there is or ever was *)
Recorded == rows \cup erased

(* A client never takes the answer of the server for more or for less than *)
(* what was done: OK to a creation comes with the uuid and the parameters  *)
(* of a row recorded for this very call, any error code of the server      *)
(* means that no row of the call was recorded, or ever will be.            *)
(* RsvpCreation's three error returns and its last return.                 *)
ReplyTellsTruth ==
    \A r \in Request :
        /\ (call[r].method = "RsvpCreation" /\ reply[r].code = "OK") =>
             \E row \in Recorded :
                /\ row.by = r
                /\ row.params = call[r].params
                /\ reply[r].info = {convertRsvpFromModelToProtocol(row)}
        /\ reply[r].code \in ServerCodes \ {"OK"} =>
             /\ \A row \in Recorded : row.by # r
             /\ phase[r] = "done"

(* A call records at most one row and a uuid names at most one, over races *)
(* on the handle, failed commits, lost answers and restarts.               *)
(* CreateRsvp is called once per call and its transaction commits once.    *)
OneRowPerCall ==
    \A a, b \in Recorded : a.by = b.by \/ a.uuid = b.uuid => a = b

(* With a JWT secret no row comes from a call without a verified token,    *)
(* and no row ever breaks a rule of the validator, email included.         *)
(* The interceptor chain in front of RsvpCreation.                         *)
OnlyPermittedRows ==
    \A row \in Recorded :
        /\ jwtEnabled => call[row.by].token = "verified"
        /\ call[row.by].method = "RsvpCreation"
        /\ Validate(row.params) = Valid

(* The auth interceptor lets nothing through that the acl interceptor must *)
(* stop, and the handler's own checks never find an error: the checks of   *)
(* the five layers in front of the INSERT agree.                           *)
ChecksAgree ==
    \A r \in Request :
        /\ result[r].code # "PermissionDenied"
        /\ phase[r] \in {"acl", "handler", "create"} =>
             /\ RequestError(call[r]) = Valid
             /\ call[r].method = "RsvpCreation" => castRsvpParams(call[r].params) = Valid

(* Where the handler dereferences s.sqliteHandle it is not nil and its     *)
(* pool is open, although it was checked steps earlier and other calls     *)
(* store over it.  initDatabaseHandle line 40, RsvpCreation line 41.       *)
HandleUsable ==
    \A r \in Request :
        /\ phase[r] \in {"ping", "create"} => sqliteHandle \in opened
        /\ phase[r] \in {"insert", "commit"} => local[r] \in opened

(* The write lock of the file belongs to a call that will let go of it:    *)
(* one in its transaction, alone, in a server that is running.             *)
LockIsHeldByCommitter ==
    \A r \in Request : lock = r <=> (phase[r] = "commit" /\ up)

(* A step records at most one row, for the call whose transaction it ends, *)
(* and deletes either nothing or the whole table (an operator's flush).    *)
RowsOnlyGrow ==
    [][ \/ rows' = rows
        \/ rows' = {} /\ UNCHANGED phase
        \/ \E r \in Request : /\ rows' = rows \cup draft[r]
                              /\ phase[r] = "commit"
                              /\ phase'[r] = "reply" ]_vars

(* What initDatabaseHandle's comments say of it, "establish the connection *)
(* if it's not ready" and "init database if not ready yet": once one call  *)
(* has a handle no second one is opened.                                   *)
OneHandlePerProcess == Cardinality(opened) <= 1

(* Every call that was sent is answered, or its client gave up, and the    *)
(* goroutine behind it ends; so nobody waits for the write lock for ever.  *)
EveryCallEnds == \A r \in Request : (phase[r] # "idle") ~> (phase[r] = "done")

-----------------------------------------------------------------------------
(* The server implements the abstract service.                             *)

Row(r, info) == {[uuid |-> i.uuid, by |-> r, params |-> i.params] : i \in info}

AbstractOutcome(r) ==
    IF result[r].code = "OK" /\ result[r].info # {}
      THEN [kind |-> "created", row |-> Row(r, result[r].info)]
      ELSE [kind |-> IF result[r].code # "none" \/ phase[r] = "done"
                       THEN "declined" ELSE "open", row |-> {}]

AbstractReply(r) ==
    [kind |-> IF reply[r].code = "none" THEN "waiting"
              ELSE IF reply[r].code \in LostCodes THEN "unknown"
              ELSE IF reply[r].info # {} THEN "created" ELSE "declined",
     row |-> Row(r, reply[r].info)]

PermittedCalls ==
    {c \in Calls : c.method = "RsvpCreation" /\ (jwtEnabled => c.token = "verified")}

Abstract == INSTANCE RsvpService
    WITH Permitted <- PermittedCalls,
         outcome <- [r \in Request |-> AbstractOutcome(r)],
         reply <- [r \in Request |-> AbstractReply(r)]

(* The races on the handle, the transaction and the kills are invisible to *)
(* the callers: every behaviour of the server is one of RsvpService.       *)
ImplementsService == Abstract!Spec
=============================================================================

-------------------------- MODULE WwwServerProofs ---------------------------
(***************************************************************************)
(* The safety properties of WwwServer, proved for every set of calls, every *)
(* number of kills and either setting of the flags.                        *)
(***************************************************************************)
EXTENDS WwwServer, TLAPS

-----------------------------------------------------------------------------
(* The inductive invariant, one conjunct per concern *)

(* A call in flight needs a running server.                                *)
ProcessInv == \A r \in Request : ~up => ~InFlight(r)

(* Once the field is set it stays set, to an open handle, as long as the   *)
(* process lives: what a call saw at its check is still true at its uses.  *)
HandleInv ==
    /\ sqliteHandle # NoHandle => sqliteHandle \in opened
    /\ \A r \in Request :
         /\ phase[r] \in {"ping", "create"} => sqliteHandle # NoHandle
         /\ phase[r] \in {"store", "insert", "commit"} => local[r] \in opened

(* What the interceptors established still holds further down.             *)
CheckInv ==
    \A r \in Request :
        /\ claims[r] => ParseJWT(call[r])
        /\ phase[r] \notin {"idle", "auth", "reply", "done"} =>
             Open(call[r].method) \/ claims[r]
        /\ phase[r] \notin {"idle", "auth", "validator", "reply", "done"} =>
             RequestError(call[r]) = Valid
        /\ phase[r] \in {"check", "open", "store", "ping", "create", "insert", "commit"} =>
             call[r].method = "RsvpCreation"
        /\ result[r].code # "PermissionDenied"

(* The lock and the open transaction go together, and the transaction      *)
(* holds the row of its own call under a uuid nobody else has.             *)
DraftOf(r) ==
    \E u \in UUID :
        /\ draft[r] = {[uuid |-> u, by |-> r, params |-> call[r].params]}
        /\ \A row \in Recorded : row.uuid # u

TransactionInv ==
    \A r \in Request :
        /\ lock = r <=> phase[r] = "commit"
        /\ phase[r] # "commit" => draft[r] = {}
        /\ phase[r] = "commit" => DraftOf(r)

(* A recorded row and the result of its call determine each other.         *)
RowInv ==
    /\ \A row \in Recorded :
         /\ call[row.by] \in PermittedCalls
         /\ row.params = call[row.by].params
         /\ Validate(row.params) = Valid
         /\ result[row.by] = Success({convertRsvpFromModelToProtocol(row)})
    /\ \A a, b \in Recorded : a.uuid = b.uuid => a = b

ResultOf(r) ==
    /\ phase[r] = "reply" => result[r].code \in ServerCodes
    /\ phase[r] \notin {"reply", "done"} => result[r] = NoResult
    /\ result[r].code = "OK" =>
         \/ call[r].method # "RsvpCreation" /\ result[r].info = {}
         \/ \E row \in Recorded :
              /\ row.by = r
              /\ result[r].info = {convertRsvpFromModelToProtocol(row)}
    /\ result[r].code # "OK" => result[r].info = {}

ResultInv == \A r \in Request : ResultOf(r)

(* The client knows the result or nothing, and nothing before it asks.     *)
ReplyInv ==
    \A r \in Request :
        /\ \/ reply[r] = NoResult
           \/ reply[r].code \in LostCodes /\ reply[r].info = {}
           \/ reply[r] = result[r] /\ phase[r] = "done" /\ reply[r].code \in ServerCodes
        /\ phase[r] = "idle" => reply[r] = NoResult

IInv == /\ TypeOK
        /\ ProcessInv
        /\ HandleInv
        /\ CheckInv
        /\ TransactionInv
        /\ RowInv
        /\ ResultInv
        /\ ReplyInv

-----------------------------------------------------------------------------
(* Types *)

LEMMA FailureType ==
    ASSUME NEW code \in ServerCodes \cup LostCodes,
           NEW field \in FieldNames \cup {Valid}
    PROVE  Failure(code, field) \in Result
BY DEF Failure, Result

LEMMA CheckType ==
    ASSUME NEW p
    PROVE  /\ Validate(p) \in FieldNames \cup {Valid}
           /\ castRsvpParams(p) \in FieldNames \cup {Valid}
BY DEF Validate, castRsvpParams, FieldNames, Valid

LEMMA BooleanType == \A c : ParseJWT(c) \in BOOLEAN
BY Zenon DEF ParseJWT

LEMMA InitType == Init => TypeOK
BY ConstantsAssumption DEF Init, TypeOK, NoResult, Result, Phases, Valid

(* Every step of a goroutine, of the environment and of the operators      *)
(* keeps the types.                                                        *)
LEMMA NextType == TypeOK /\ [Next]_vars => TypeOK'
<1> SUFFICES ASSUME TypeOK, [Next]_vars PROVE TypeOK'
  OBVIOUS
<1> USE ConstantsAssumption DEF TypeOK, server, process, database
<1>a. /\ Failure("Unauthenticated", Valid) \in Result
      /\ Failure("PermissionDenied", Valid) \in Result
      /\ Failure("Internal", Valid) \in Result
      /\ Failure("Unavailable", Valid) \in Result
      /\ Failure("DeadlineExceeded", Valid) \in Result
      /\ \A f \in FieldNames \cup {Valid} : Failure("InvalidArgument", f) \in Result
  BY FailureType DEF ServerCodes, LostCodes
<1>1. ASSUME NEW r \in Request, Send(r) PROVE TypeOK'
  BY <1>1, <1>a DEF Send, Goto, Phases
<1>2. ASSUME NEW r \in Request, Step(r) PROVE TypeOK'
  <2>1. CASE AuthFuncOverride(r)
    BY <2>1, <1>a, BooleanType
    DEF AuthFuncOverride, Goto, Phases, Guarded, Return
  <2>2. CASE ValidatorInterceptor(r)
    BY <2>2, <1>a, CheckType
    DEF ValidatorInterceptor, Goto, Phases, Guarded, Return, RequestError
  <2>3. CASE AclFuncOverride(r)
    BY <2>3, <1>a
    DEF AclFuncOverride, Goto, Phases, Guarded, Return
  <2>4. CASE ReadHandler(r)
    BY <2>4
    DEF ReadHandler, Goto, Phases, Return, Success, Result, ServerCodes
  <2>5. CASE RsvpCreation(r)
    BY <2>5, <1>a, CheckType
    DEF RsvpCreation, Goto, Phases, Guarded, Return
  <2>6. CASE CheckHandle(r)
    BY <2>6
    DEF CheckHandle, Goto, Phases
  <2>7. CASE OpenHandle(r)
    BY <2>7
    DEF OpenHandle, Goto, Phases
  <2>8. CASE OpenFails(r)
    BY <2>8, <1>a
    DEF OpenFails, Goto, Phases, Return
  <2>9. CASE StoreHandle(r)
    BY <2>9
    DEF StoreHandle, Goto, Phases
  <2>10. CASE Ping(r)
    BY <2>10, <1>a
    DEF Ping, Goto, Phases, Return
  <2>11. CASE CreateRsvp(r)
    BY <2>11, <1>a, CheckType
    DEF CreateRsvp, Goto, Phases, Guarded, Return
  <2>12. CASE Insert(r)
    <3>1. PICK u \in UUID : draft' = [draft EXCEPT ![r] =
                          {[uuid |-> u, by |-> r, params |-> call[r].params]}]
      BY <2>12 DEF Insert, NewRow
    <3>2. [uuid |-> u, by |-> r, params |-> call[r].params] \in Rsvp
      BY DEF Rsvp, Call
    <3>3. QED BY <2>12, <3>1, <3>2 DEF Insert, Goto, Phases
  <2>13. CASE InsertFails(r)
    BY <2>13, <1>a
    DEF InsertFails, Goto, Phases, Return
  <2>14. CASE Commit(r)
    BY <2>14
    DEF Commit, Goto, Phases, Return, Success, Result, ServerCodes, convertRsvpFromModelToProtocol, RsvpInfo, Rsvp
  <2>15. CASE CommitFails(r)
    BY <2>15, <1>a
    DEF CommitFails, Goto, Phases, Return
  <2>16. CASE Reply(r)
    BY <2>16
    DEF Reply, Goto, Phases
  <2>17. QED
    BY <1>2, <2>1, <2>2, <2>3, <2>4, <2>5, <2>6, <2>7, <2>8, <2>9,
       <2>10, <2>11, <2>12, <2>13, <2>14, <2>15, <2>16 DEF Step
<1>3. ASSUME NEW r \in Request, GiveUp(r) PROVE TypeOK'
  BY <1>3, <1>a DEF GiveUp, LostCodes
<1>4. CASE Kill
  <2>1. phase' \in [Request -> Phases]
    BY <1>4 DEF Kill, Phases
  <2>2. reply' \in [Request -> Result]
    BY <1>4, <1>a DEF Kill
  <2>3. kills' \in 0 .. MaxKills
    BY <1>4 DEF Kill
  <2>4. QED BY <1>4, <2>1, <2>2, <2>3 DEF Kill
<1>5. CASE Restart
  BY <1>5 DEF Restart
<1>6. CASE MigrateSchema
  BY <1>6 DEF MigrateSchema
<1>7. CASE Flush
  BY <1>7 DEF Flush
<1>8. CASE UNCHANGED vars
  BY <1>8 DEF vars
<1>9. QED BY <1>1, <1>2, <1>3, <1>4, <1>5, <1>6, <1>7, <1>8 DEF Next

(* The variables keep their types in every behaviour of the server.        *)
THEOREM TypeCorrect == Spec => []TypeOK
BY InitType, NextType, PTL DEF Spec

-----------------------------------------------------------------------------
(* The invariant, conjunct by conjunct *)

LEMMA SuccessIsOK == \A info : Success(info).code = "OK" /\ Success(info).info = info
BY DEF Success

(* The call of a recorded row has returned OK.                             *)
LEMMA RecordedReturned ==
    ASSUME IInv, NEW row \in Recorded
    PROVE  row.by \in Request /\ result[row.by].code = "OK"
<1>1. row.by \in Request
  BY DEF IInv, TypeOK, Recorded, Rsvp
<1>2. result[row.by] = Success({convertRsvpFromModelToProtocol(row)})
  BY DEF IInv, RowInv
<1>3. QED BY <1>1, <1>2, SuccessIsOK

LEMMA InitInv == Init => IInv
BY InitType, ConstantsAssumption
DEF Init, IInv, ProcessInv, InFlight, HandleInv, CheckInv, TransactionInv, RowInv,
    ResultInv, ResultOf, ReplyInv, NoResult, Recorded

LEMMA ProcessStep == IInv /\ [Next]_vars => ProcessInv'
<1> SUFFICES ASSUME IInv, [Next]_vars PROVE ProcessInv'
  OBVIOUS
<1> USE DEF IInv, TypeOK, ProcessInv, InFlight, Goto, Guarded, Return,
            server, process, database, vars
<1>1. ASSUME NEW r \in Request, Send(r) \/ GiveUp(r) PROVE ProcessInv'
  BY <1>1 DEF Send, GiveUp
<1>2. ASSUME NEW r \in Request, Step(r) PROVE ProcessInv'
  BY <1>2 DEF Step, AuthFuncOverride, ValidatorInterceptor, AclFuncOverride,
     ReadHandler, RsvpCreation, CheckHandle, OpenHandle, OpenFails, StoreHandle,
     Ping, CreateRsvp, Insert, InsertFails, Commit, CommitFails, Reply
<1>3. CASE Kill \/ Restart \/ MigrateSchema \/ Flush \/ UNCHANGED vars
  BY <1>3 DEF Kill, Restart, MigrateSchema, Flush
<1>4. QED BY <1>1, <1>2, <1>3 DEF Next

LEMMA HandleStep == IInv /\ [Next]_vars => HandleInv'
<1> SUFFICES ASSUME IInv, [Next]_vars PROVE HandleInv'
  OBVIOUS
<1> USE ConstantsAssumption
    DEF IInv, TypeOK, HandleInv, Goto, Guarded, Return, server, process, database, vars
<1>1. ASSUME NEW r \in Request, Send(r) \/ GiveUp(r) PROVE HandleInv'
  BY <1>1 DEF Send, GiveUp
<1>2. ASSUME NEW r \in Request, CheckHandle(r) \/ StoreHandle(r) \/ Ping(r) \/ CreateRsvp(r)
      PROVE HandleInv'
  BY <1>2 DEF CheckHandle, StoreHandle, Ping, CreateRsvp
<1>3. ASSUME NEW r \in Request, OpenHandle(r) PROVE HandleInv'
  BY <1>3 DEF OpenHandle
<1>4. ASSUME NEW r \in Request,
             \/ AuthFuncOverride(r) \/ ValidatorInterceptor(r) \/ AclFuncOverride(r)
             \/ ReadHandler(r) \/ RsvpCreation(r) \/ OpenFails(r) \/ Insert(r)
             \/ InsertFails(r) \/ Commit(r) \/ CommitFails(r) \/ Reply(r)
      PROVE HandleInv'
  BY <1>4 DEF AuthFuncOverride, ValidatorInterceptor, AclFuncOverride, ReadHandler,
     RsvpCreation, OpenFails, Insert, InsertFails, Commit, CommitFails, Reply
<1>5. CASE Kill \/ Restart \/ MigrateSchema \/ Flush \/ UNCHANGED vars
  BY <1>5 DEF Kill, InFlight, Restart, MigrateSchema, Flush
<1>6. QED BY <1>1, <1>2, <1>3, <1>4, <1>5 DEF Next, Step

LEMMA CheckStep == IInv /\ [Next]_vars => CheckInv'
<1> SUFFICES ASSUME IInv, [Next]_vars PROVE CheckInv'
  OBVIOUS
<1> USE DEF IInv, TypeOK, CheckInv, Goto, Guarded, Return, server, process, database, vars
<1>1. ASSUME NEW r \in Request, Send(r) \/ GiveUp(r) PROVE CheckInv'
  BY <1>1 DEF Send, GiveUp
<1>2. ASSUME NEW r \in Request, AuthFuncOverride(r) PROVE CheckInv'
  BY <1>2, BooleanType DEF AuthFuncOverride, Failure
<1>3. ASSUME NEW r \in Request,
             ValidatorInterceptor(r) \/ AclFuncOverride(r) \/ RsvpCreation(r)
      PROVE CheckInv'
  BY <1>3 DEF ValidatorInterceptor, AclFuncOverride, RsvpCreation, Failure
<1>4. ASSUME NEW r \in Request,
             \/ ReadHandler(r) \/ CheckHandle(r) \/ OpenHandle(r) \/ OpenFails(r)
             \/ StoreHandle(r) \/ Ping(r) \/ CreateRsvp(r) \/ Insert(r) \/ InsertFails(r)
             \/ Commit(r) \/ CommitFails(r) \/ Reply(r)
      PROVE CheckInv'
  BY <1>4 DEF ReadHandler, CheckHandle, OpenHandle, OpenFails, StoreHandle, Ping,
     CreateRsvp, Insert, InsertFails, Commit, CommitFails, Reply, Failure, Success
<1>5. CASE Kill \/ Restart \/ MigrateSchema \/ Flush \/ UNCHANGED vars
  BY <1>5 DEF Kill, InFlight, Restart, MigrateSchema, Flush
<1>6. QED BY <1>1, <1>2, <1>3, <1>4, <1>5 DEF Next, Step

LEMMA TransactionStep == IInv /\ [Next]_vars => TransactionInv'
<1> SUFFICES ASSUME IInv, [Next]_vars PROVE TransactionInv'
  OBVIOUS
<1> USE ConstantsAssumption
    DEF IInv, TypeOK, TransactionInv, DraftOf, Recorded, Goto, Guarded, Return,
        server, process, database, vars
<1>1. ASSUME NEW r \in Request, Send(r) \/ GiveUp(r) PROVE TransactionInv'
  BY <1>1 DEF Send, GiveUp
<1>2. ASSUME NEW r \in Request, Insert(r) PROVE TransactionInv'
  BY <1>2 DEF Insert, NewRow
<1>3. ASSUME NEW r \in Request, Commit(r) \/ CommitFails(r) PROVE TransactionInv'
  BY <1>3 DEF Commit, CommitFails
<1>4. ASSUME NEW r \in Request,
             \/ AuthFuncOverride(r) \/ ValidatorInterceptor(r) \/ AclFuncOverride(r)
             \/ ReadHandler(r) \/ RsvpCreation(r) \/ CheckHandle(r) \/ OpenHandle(r)
             \/ OpenFails(r) \/ StoreHandle(r) \/ Ping(r) \/ CreateRsvp(r)
             \/ InsertFails(r) \/ Reply(r)
      PROVE TransactionInv'
  BY <1>4 DEF AuthFuncOverride, ValidatorInterceptor, AclFuncOverride, ReadHandler,
     RsvpCreation, CheckHandle, OpenHandle, OpenFails, StoreHandle, Ping, CreateRsvp,
     InsertFails, Reply
<1>5. CASE Kill
  BY <1>5 DEF Kill, InFlight
<1>6. CASE Flush
  BY <1>6 DEF Flush
<1>7. CASE Restart \/ MigrateSchema \/ UNCHANGED vars
  BY <1>7 DEF Restart, MigrateSchema
<1>8. QED BY <1>1, <1>2, <1>3, <1>4, <1>5, <1>6, <1>7 DEF Next, Step

(* Only Commit adds a row; no other step touches the rows there ever were. *)
LEMMA RecordedStep ==
    ASSUME IInv, [Next]_vars
    PROVE  \/ Recorded' = Recorded
           \/ \E r \in Request : Commit(r)
<1> USE DEF Recorded, server, process, database, vars
<1>1. ASSUME NEW r \in Request, Send(r) \/ GiveUp(r) PROVE Recorded' = Recorded
  BY <1>1 DEF Send, GiveUp
<1>2. ASSUME NEW r \in Request, Step(r), ~Commit(r) PROVE Recorded' = Recorded
  BY <1>2 DEF Step, AuthFuncOverride, ValidatorInterceptor, AclFuncOverride,
     ReadHandler, RsvpCreation, CheckHandle, OpenHandle, OpenFails, StoreHandle,
     Ping, CreateRsvp, Insert, InsertFails, CommitFails, Reply
<1>3. CASE Kill \/ Restart \/ MigrateSchema \/ Flush \/ UNCHANGED vars
  BY <1>3 DEF Kill, Restart, MigrateSchema, Flush
<1>4. QED BY <1>1, <1>2, <1>3 DEF Next

(* A result is returned once, by a goroutine that had none.                *)
LEMMA ResultStep ==
    ASSUME IInv, [Next]_vars, NEW r \in Request
    PROVE  \/ result'[r] = result[r]
           \/ result[r] = NoResult /\ phase[r] \notin {"reply", "done"} /\ phase'[r] = "reply"
<1> USE DEF IInv, TypeOK, ResultInv, ResultOf, Goto, Guarded, Return, server, process, database, vars
<1>1. ASSUME NEW q \in Request, Send(q) \/ GiveUp(q) PROVE result' = result
  BY <1>1 DEF Send, GiveUp
<1>2. ASSUME NEW q \in Request, Step(q)
      PROVE  \/ result'[r] = result[r]
             \/ result[r] = NoResult /\ phase[r] \notin {"reply", "done"} /\ phase'[r] = "reply"
  BY <1>2 DEF Step, AuthFuncOverride, ValidatorInterceptor, AclFuncOverride,
     ReadHandler, RsvpCreation, CheckHandle, OpenHandle, OpenFails, StoreHandle,
     Ping, CreateRsvp, Insert, InsertFails, Commit, CommitFails, Reply
<1>3. CASE Kill \/ Restart \/ MigrateSchema \/ Flush \/ UNCHANGED vars
  BY <1>3 DEF Kill, Restart, MigrateSchema, Flush
<1>4. QED BY <1>1, <1>2, <1>3 DEF Next

LEMMA CallStep == [Next]_vars => call' = call
<1> SUFFICES ASSUME [Next]_vars PROVE call' = call
  OBVIOUS
<1>1. ASSUME NEW q \in Request, Step(q) PROVE call' = call
  BY <1>1 DEF Step, AuthFuncOverride, ValidatorInterceptor, AclFuncOverride,
     ReadHandler, RsvpCreation, CheckHandle, OpenHandle, OpenFails, StoreHandle,
     Ping, CreateRsvp, Insert, InsertFails, Commit, CommitFails, Reply
<1>2. QED
  BY <1>1 DEF Next, Send, GiveUp, Kill, Restart, MigrateSchema, Flush, vars

LEMMA RowStep == IInv /\ [Next]_vars => RowInv'
<1> SUFFICES ASSUME IInv, [Next]_vars PROVE RowInv'
  OBVIOUS
<1>1. CASE Recorded' = Recorded
  <2>1. \A row \in Recorded : row.by \in Request /\ result'[row.by] = result[row.by]
    <3>1. SUFFICES ASSUME NEW row \in Recorded
                   PROVE row.by \in Request /\ result'[row.by] = result[row.by]
      OBVIOUS
    <3>2. row.by \in Request /\ result[row.by].code = "OK"
      BY RecordedReturned
    <3>3. QED BY <3>2, ResultStep DEF NoResult
  <2>2. QED BY <1>1, <2>1, CallStep DEF IInv, RowInv, PermittedCalls
<1>2. ASSUME NEW r \in Request, Commit(r) PROVE RowInv'
  <2>1. PICK u \in UUID :
          /\ draft[r] = {[uuid |-> u, by |-> r, params |-> call[r].params]}
          /\ \A row \in Recorded : row.uuid # u
    BY <1>2 DEF Commit, IInv, TransactionInv, DraftOf
  <2> DEFINE new == [uuid |-> u, by |-> r, params |-> call[r].params]
  <2>2. Recorded' = Recorded \cup {new}
    BY <1>2, <2>1 DEF Commit, Recorded
  <2>3. result' = [result EXCEPT ![r] = Success({convertRsvpFromModelToProtocol(new)})]
    <3>1. {convertRsvpFromModelToProtocol(row) : row \in draft[r]}
             = {convertRsvpFromModelToProtocol(new)}
      BY <2>1
    <3>2. QED BY <1>2, <3>1 DEF Commit, Return
  <2>4. \A row \in Recorded : row.by \in Request /\ row.by # r
    <3>1. result[r] = NoResult
      BY <1>2 DEF Commit, IInv, ResultInv, ResultOf
    <3>2. QED BY <3>1, RecordedReturned DEF NoResult
  <2>5. call[r] \in PermittedCalls /\ Validate(call[r].params) = Valid
    <3>1. phase[r] = "commit"
      BY <1>2 DEF Commit
    <3>2. QED
      BY <3>1 DEF IInv, CheckInv, TypeOK, PermittedCalls, RequestError, ParseJWT, Open
  <2>6. \A row \in Recorded : result'[row.by] = result[row.by]
    BY <2>3, <2>4 DEF IInv, TypeOK
  <2>7. result'[r] = Success({convertRsvpFromModelToProtocol(new)})
    BY <2>3 DEF IInv, TypeOK
  <2>8. call' = call
    BY CallStep
  <2>9. \A row \in Recorded' :
           /\ call'[row.by] \in PermittedCalls
           /\ row.params = call'[row.by].params
           /\ Validate(row.params) = Valid
           /\ result'[row.by] = Success({convertRsvpFromModelToProtocol(row)})
    BY <2>2, <2>5, <2>6, <2>7, <2>8 DEF IInv, RowInv
  <2>10. \A a, b \in Recorded' : a.uuid = b.uuid => a = b
    BY <2>1, <2>2 DEF IInv, RowInv
  <2>11. PermittedCalls' = PermittedCalls
    BY DEF PermittedCalls
  <2>12. QED BY <2>9, <2>10, <2>11 DEF RowInv
<1>3. QED BY <1>1, <1>2, RecordedStep

(* A call whose result does not change keeps its part of ResultInv, and a  *)
(* failure establishes it.                                                 *)
LEMMA ResultKept ==
    ASSUME NEW r \in Request, ResultOf(r), call' = call, Recorded \subseteq Recorded',
           result'[r] = result[r],
           phase'[r] = "reply" => phase[r] = "reply",
           phase'[r] \notin {"reply", "done"} => phase[r] \notin {"reply", "done"}
    PROVE  ResultOf(r)'
BY DEF ResultOf

LEMMA ResultFailed ==
    ASSUME NEW r \in Request, NEW code \in ServerCodes \ {"OK"}, NEW field,
           result'[r] = Failure(code, field), phase'[r] = "reply"
    PROVE  ResultOf(r)'
<1>1. result'[r].code = code /\ result'[r].info = {}
  BY DEF Failure
<1>2. QED BY <1>1 DEF ResultOf

LEMMA ResultInvStep == IInv /\ [Next]_vars => ResultInv'
<1> SUFFICES ASSUME IInv, [Next]_vars, NEW q \in Request PROVE ResultOf(q)'
  BY DEF ResultInv
<1>a. ResultOf(q) /\ call' = call
  BY CallStep DEF IInv, ResultInv
<1>b. Recorded \subseteq Recorded'
  BY RecordedStep DEF Commit, Recorded
<1>c. ServerCodes \ {"OK"} = {"InvalidArgument", "Unauthenticated", "PermissionDenied", "Internal"}
  BY DEF ServerCodes
<1> USE DEF IInv, TypeOK, Goto, Guarded, Return, server, process, database, vars
<1>1. ASSUME NEW r \in Request, Send(r) PROVE ResultOf(q)'
  <2>1. CASE q = r
    <3>1. result'[q] = result[q] /\ phase[q] = "idle" /\ phase'[q] \in {"auth", "done"}
      BY <1>1, <2>1 DEF Send
    <3>2. QED BY <3>1, <1>a, <1>b, ResultKept
  <2>2. CASE q # r
    <3>1. result'[q] = result[q] /\ phase'[q] = phase[q]
      BY <1>1, <2>2 DEF Send
    <3>2. QED BY <3>1, <1>a, <1>b, ResultKept
  <2>3. QED BY <2>1, <2>2
<1>2. ASSUME NEW r \in Request, Step(r), q # r PROVE ResultOf(q)'
  <2>1. result'[q] = result[q] /\ phase'[q] = phase[q]
    BY <1>2 DEF Step, AuthFuncOverride, ValidatorInterceptor, AclFuncOverride,
       ReadHandler, RsvpCreation, CheckHandle, OpenHandle, OpenFails, StoreHandle,
       Ping, CreateRsvp, Insert, InsertFails, Commit, CommitFails, Reply
  <2>2. QED BY <2>1, <1>a, <1>b, ResultKept
<1>3. ASSUME \/ AuthFuncOverride(q) \/ ValidatorInterceptor(q) \/ AclFuncOverride(q)
             \/ RsvpCreation(q) \/ CheckHandle(q) \/ OpenHandle(q)
             \/ OpenFails(q) \/ StoreHandle(q) \/ Ping(q) \/ CreateRsvp(q)
             \/ Insert(q) \/ InsertFails(q) \/ CommitFails(q) \/ Reply(q)
      PROVE ResultOf(q)'
  <2>1. \/ /\ phase'[q] = "reply"
           /\ \E code \in ServerCodes \ {"OK"}, field \in FieldNames \cup {Valid} :
                 result'[q] = Failure(code, field)
        \/ /\ result'[q] = result[q]
           /\ phase'[q] # "reply"
           /\ phase'[q] = "done" \/ phase[q] \notin {"reply", "done"}
    <3>1. CASE ValidatorInterceptor(q)
      <4>1. RequestError(call[q]) \in FieldNames \cup {Valid}
        BY CheckType DEF RequestError
      <4>2. QED BY <3>1, <4>1, <1>c DEF ValidatorInterceptor
    <3>2. CASE RsvpCreation(q)
      BY <3>2, <1>c, CheckType DEF RsvpCreation
    <3>3. CASE CreateRsvp(q)
      BY <3>3, <1>c, CheckType DEF CreateRsvp
    <3>4. CASE AuthFuncOverride(q) \/ AclFuncOverride(q)
      BY <3>4, <1>c DEF AuthFuncOverride, AclFuncOverride
    <3>5. CASE OpenFails(q) \/ Ping(q) \/ InsertFails(q) \/ CommitFails(q)
      BY <3>5, <1>c DEF OpenFails, Ping, InsertFails, CommitFails
    <3>6. CASE CheckHandle(q) \/ OpenHandle(q) \/ StoreHandle(q) \/ Insert(q) \/ Reply(q)
      BY <3>6 DEF CheckHandle, OpenHandle, StoreHandle, Insert, Reply
    <3>7. QED BY <1>3, <3>1, <3>2, <3>3, <3>4, <3>5, <3>6
  <2>2. QED BY <2>1, <1>a, <1>b, ResultKept, ResultFailed
<1>4. ASSUME ReadHandler(q) PROVE ResultOf(q)'
  <2>1. /\ call[q].method # "RsvpCreation"
        /\ phase'[q] = "reply"
        /\ result'[q] = Success({})
    BY <1>4 DEF ReadHandler
  <2>2. QED BY <2>1, <1>a, SuccessIsOK DEF ResultOf, ServerCodes
<1>5. ASSUME Commit(q) PROVE ResultOf(q)'
  <2>1. PICK u \in UUID :
          draft[q] = {[uuid |-> u, by |-> q, params |-> call[q].params]}
    BY <1>5 DEF Commit, TransactionInv, DraftOf
  <2> DEFINE row == [uuid |-> u, by |-> q, params |-> call[q].params]
  <2>2. result'[q] = Success({convertRsvpFromModelToProtocol(row)})
    <3>1. {convertRsvpFromModelToProtocol(x) : x \in draft[q]}
             = {convertRsvpFromModelToProtocol(row)}
      BY <2>1
    <3>2. QED BY <1>5, <3>1 DEF Commit
  <2>3. row \in Recorded' /\ row.by = q
    BY <1>5, <2>1 DEF Commit, Recorded
  <2>4. phase'[q] = "reply"
    BY <1>5 DEF Commit
  <2> HIDE DEF row
  <2>5. QED BY <2>2, <2>3, <2>4, SuccessIsOK DEF ResultOf, ServerCodes
<1>6. CASE Kill
  <2>1. result' = result /\ phase'[q] \in {phase[q], "done"}
    BY <1>6 DEF Kill
  <2>2. QED BY <2>1, <1>a, <1>b, ResultKept
<1>7. ASSUME NEW r \in Request, GiveUp(r) PROVE ResultOf(q)'
  <2>1. result' = result /\ phase' = phase
    BY <1>7 DEF GiveUp
  <2>2. QED BY <2>1, <1>a, <1>b, ResultKept
<1>8. CASE Restart \/ MigrateSchema \/ Flush \/ UNCHANGED vars
  <2>1. result' = result /\ phase' = phase
    BY <1>8 DEF Restart, MigrateSchema, Flush
  <2>2. QED BY <2>1, <1>a, <1>b, ResultKept
<1>9. QED
  BY <1>1, <1>2, <1>3, <1>4, <1>5, <1>6, <1>7, <1>8 DEF Next, Step

LEMMA ReplyStep == IInv /\ [Next]_vars => ReplyInv'
<1> SUFFICES ASSUME IInv, [Next]_vars PROVE ReplyInv'
  OBVIOUS
<1> USE DEF IInv, TypeOK, ReplyInv, ResultInv, ResultOf, Goto, Guarded, Return, Failure, LostCodes,
            server, process, database, vars
<1>1. ASSUME NEW r \in Request, Send(r) PROVE ReplyInv'
  BY <1>1 DEF Send
<1>2. ASSUME NEW r \in Request, GiveUp(r) PROVE ReplyInv'
  BY <1>2 DEF GiveUp, InFlight
<1>3. ASSUME NEW r \in Request, Reply(r) PROVE ReplyInv'
  BY <1>3 DEF Reply
<1>4. ASSUME NEW r \in Request, Step(r), ~Reply(r) PROVE ReplyInv'
  <2>1. reply' = reply
    BY <1>4 DEF Step, AuthFuncOverride, ValidatorInterceptor, AclFuncOverride,
     ReadHandler, RsvpCreation, CheckHandle, OpenHandle, OpenFails, StoreHandle,
     Ping, CreateRsvp, Insert, InsertFails, Commit, CommitFails
  <2>2. \A q \in Request : phase[q] = "done" => phase'[q] = "done" /\ result'[q] = result[q]
    BY <1>4 DEF Step, AuthFuncOverride, ValidatorInterceptor, AclFuncOverride,
     ReadHandler, RsvpCreation, CheckHandle, OpenHandle, OpenFails, StoreHandle,
     Ping, CreateRsvp, Insert, InsertFails, Commit, CommitFails
  <2>3. \A q \in Request : phase'[q] = "idle" => phase[q] = "idle"
    BY <1>4 DEF Step, AuthFuncOverride, ValidatorInterceptor, AclFuncOverride,
     ReadHandler, RsvpCreation, CheckHandle, OpenHandle, OpenFails, StoreHandle,
     Ping, CreateRsvp, Insert, InsertFails, Commit, CommitFails
  <2>4. QED BY <2>1, <2>2, <2>3
<1>5. CASE Kill
  BY <1>5 DEF Kill, InFlight
<1>6. CASE Restart \/ MigrateSchema \/ Flush \/ UNCHANGED vars
  BY <1>6 DEF Restart, MigrateSchema, Flush
<1>7. QED BY <1>1, <1>2, <1>3, <1>4, <1>5, <1>6 DEF Next

LEMMA NextInv == IInv /\ [Next]_vars => IInv'
<1> SUFFICES ASSUME IInv, [Next]_vars PROVE IInv'
  OBVIOUS
<1>1. TypeOK'
  BY NextType DEF IInv
<1>2. QED
  BY <1>1, ProcessStep, HandleStep, CheckStep, TransactionStep, RowStep,
     ResultInvStep, ReplyStep DEF IInv

(* The inductive invariant holds in every behaviour of the server.         *)
THEOREM Invariance == Spec => []IInv
BY InitInv, NextInv, PTL DEF Spec

-----------------------------------------------------------------------------
(* The properties *)

(* An OK names a row recorded for the call and an error means no row ever. *)
THEOREM RepliesTellTruth == Spec => []ReplyTellsTruth
<1>1. IInv => ReplyTellsTruth
  <2> SUFFICES ASSUME IInv, NEW r \in Request
               PROVE  /\ (call[r].method = "RsvpCreation" /\ reply[r].code = "OK") =>
                           \E row \in Recorded :
                              /\ row.by = r
                              /\ row.params = call[r].params
                              /\ reply[r].info = {convertRsvpFromModelToProtocol(row)}
                      /\ reply[r].code \in ServerCodes \ {"OK"} =>
                           /\ \A row \in Recorded : row.by # r
                           /\ phase[r] = "done"
    BY DEF ReplyTellsTruth
  <2>1. reply[r].code \in ServerCodes => reply[r] = result[r] /\ phase[r] = "done"
    BY DEF IInv, ReplyInv, NoResult, ServerCodes, LostCodes
  <2>2. ASSUME call[r].method = "RsvpCreation", reply[r].code = "OK"
        PROVE  \E row \in Recorded :
                  /\ row.by = r
                  /\ row.params = call[r].params
                  /\ reply[r].info = {convertRsvpFromModelToProtocol(row)}
    <3>1. reply[r] = result[r]
      BY <2>1, <2>2 DEF ServerCodes
    <3>2. PICK row \in Recorded :
             row.by = r /\ result[r].info = {convertRsvpFromModelToProtocol(row)}
      BY <2>2, <3>1 DEF IInv, ResultInv, ResultOf
    <3>3. row.params = call[r].params
      BY <3>2 DEF IInv, RowInv
    <3>4. QED BY <3>1, <3>2, <3>3
  <2>3. ASSUME reply[r].code \in ServerCodes \ {"OK"}, NEW row \in Recorded
        PROVE  row.by # r
    BY <2>1, <2>3, RecordedReturned
  <2>4. QED BY <2>1, <2>2, <2>3
<1>2. QED BY <1>1, Invariance, PTL

(* A call never records two rows, and a uuid never names two.              *)
THEOREM RowsAreUnique == Spec => []OneRowPerCall
<1>1. IInv => OneRowPerCall
  <2> SUFFICES ASSUME IInv, NEW a \in Recorded, NEW b \in Recorded,
                      a.by = b.by \/ a.uuid = b.uuid
               PROVE  a = b
    BY DEF OneRowPerCall
  <2>1. CASE a.by = b.by
    <3>1. Success({convertRsvpFromModelToProtocol(a)})
             = Success({convertRsvpFromModelToProtocol(b)})
      BY <2>1 DEF IInv, RowInv
    <3>2. convertRsvpFromModelToProtocol(a) = convertRsvpFromModelToProtocol(b)
      BY <3>1, SuccessIsOK
    <3>3. a.uuid = b.uuid
      BY <3>2 DEF convertRsvpFromModelToProtocol
    <3>4. QED BY <3>3 DEF IInv, RowInv
  <2>2. CASE a.uuid = b.uuid
    BY <2>2 DEF IInv, RowInv
  <2>3. QED BY <2>1, <2>2
<1>2. QED BY <1>1, Invariance, PTL

(* No row without a verified token, or against a rule of the validator.    *)
THEOREM RowsArePermitted == Spec => []OnlyPermittedRows
<1>1. IInv => OnlyPermittedRows
  BY DEF IInv, RowInv, OnlyPermittedRows, PermittedCalls
<1>2. QED BY <1>1, Invariance, PTL

(* s.sqliteHandle is open wherever the handler dereferences it.            *)
THEOREM HandlesAreUsable == Spec => []HandleUsable
<1>1. IInv => HandleUsable
  BY DEF IInv, HandleInv, HandleUsable
<1>2. QED BY <1>1, Invariance, PTL

(* The write lock is held by a call that is about to commit or roll back.  *)
THEOREM LocksAreReleased == Spec => []LockIsHeldByCommitter
<1>1. IInv => LockIsHeldByCommitter
  BY DEF IInv, TransactionInv, ProcessInv, InFlight, LockIsHeldByCommitter
<1>2. QED BY <1>1, Invariance, PTL

(* castRsvpParams never rejects what Validate accepted, for all lengths.   *)
LEMMA CastFollowsValidate ==
    ASSUME NEW p \in Params, Validate(p) = Valid
    PROVE  castRsvpParams(p) = Valid
BY DEF Params, Validate, castRsvpParams, Valid

(* The checks of the layers in front of the INSERT agree.                  *)
THEOREM LayersAgree == Spec => []ChecksAgree
<1>1. IInv => ChecksAgree
  <2> SUFFICES ASSUME IInv, NEW r \in Request,
                      phase[r] \in {"acl", "handler", "create"}
               PROVE  /\ RequestError(call[r]) = Valid
                      /\ call[r].method = "RsvpCreation" =>
                            castRsvpParams(call[r].params) = Valid
    BY DEF ChecksAgree, IInv, CheckInv
  <2>1. RequestError(call[r]) = Valid
    BY DEF IInv, CheckInv
  <2>2. call[r].params \in Params
    BY ConstantsAssumption DEF IInv, TypeOK, Call
  <2>3. QED BY <2>1, <2>2, CastFollowsValidate DEF RequestError
<1>2. QED BY <1>1, Invariance, PTL

(* Only a COMMIT adds to the table and only a flush takes from it, one row *)
(* of one call at a time, or all of them.                                  *)
THEOREM RowsChangeByCommitOrFlush == Spec => RowsOnlyGrow
<1> DEFINE Allowed == \/ rows' = rows
                      \/ rows' = {} /\ UNCHANGED phase
                      \/ \E r \in Request : /\ rows' = rows \cup draft[r]
                                            /\ phase[r] = "commit"
                                            /\ phase'[r] = "reply"
<1>1. IInv /\ [Next]_vars => [Allowed]_vars
  <2> SUFFICES ASSUME IInv, Next PROVE Allowed
    OBVIOUS
  <2>1. ASSUME NEW r \in Request, Commit(r) PROVE Allowed
    BY <2>1 DEF Commit, Return, Goto, IInv, TypeOK
  <2>2. ASSUME NEW r \in Request, Send(r) \/ GiveUp(r) \/ (Step(r) /\ ~Commit(r))
        PROVE  rows' = rows
    BY <2>2 DEF Send, GiveUp, Step, AuthFuncOverride, ValidatorInterceptor,
       AclFuncOverride, ReadHandler, RsvpCreation, CheckHandle, OpenHandle, OpenFails,
       StoreHandle, Ping, CreateRsvp, Insert, InsertFails, CommitFails, Reply, database
  <2>3. CASE Flush
    BY <2>3 DEF Flush, server
  <2>4. CASE Kill \/ Restart \/ MigrateSchema
    BY <2>4 DEF Kill, Restart, MigrateSchema
  <2>5. QED BY <2>1, <2>2, <2>3, <2>4 DEF Next
<1>2. QED BY <1>1, Invariance, PTL DEF Spec, RowsOnlyGrow
=============================================================================

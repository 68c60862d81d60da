------------------------- MODULE WwwServerRefinement ------------------------
(***************************************************************************)
(* WwwServer implements RsvpService: the races, the transaction and the    *)
(* kills show in no behaviour the callers and the table can tell apart     *)
(* from one where an RSVP is recorded in a single step.                    *)
(***************************************************************************)
EXTENDS WwwServerProofs

-----------------------------------------------------------------------------
(* The mapping, call by call *)

LEMMA OutcomeOpen ==
    ASSUME IInv, NEW r \in Request, phase[r] \notin {"reply", "done"}
    PROVE  AbstractOutcome(r) = [kind |-> "open", row |-> {}]
<1>1. result[r] = NoResult
  BY DEF IInv, ResultInv, ResultOf
<1>2. QED BY <1>1 DEF AbstractOutcome, NoResult

LEMMA OutcomeKept ==
    ASSUME NEW r \in Request, result'[r] = result[r],
           result[r].code # "none" \/ (phase'[r] = "done" <=> phase[r] = "done")
    PROVE  AbstractOutcome(r)' = AbstractOutcome(r)
BY DEF AbstractOutcome, Row

LEMMA OutcomeDeclined ==
    ASSUME NEW r \in Request, result'[r].info = {},
           result'[r].code # "none" \/ phase'[r] = "done"
    PROVE  AbstractOutcome(r)' = [kind |-> "declined", row |-> {}]
BY DEF AbstractOutcome

LEMMA ReplyKept ==
    ASSUME NEW r \in Request, reply'[r] = reply[r]
    PROVE  AbstractReply(r)' = AbstractReply(r)
BY DEF AbstractReply, Row

LEMMA ReplyWaiting ==
    ASSUME NEW r \in Request, reply[r] = NoResult
    PROVE  AbstractReply(r) = [kind |-> "waiting", row |-> {}]
BY DEF AbstractReply, Row, NoResult

LEMMA ReplyLost ==
    ASSUME NEW r \in Request, NEW code \in LostCodes,
           reply'[r] = Failure(code, Valid)
    PROVE  AbstractReply(r)' = [kind |-> "unknown", row |-> {}]
<1>1. reply'[r].code = code /\ reply'[r].info = {}
  BY DEF Failure
<1>2. code # "none"
  BY DEF LostCodes
<1>3. QED BY <1>1, <1>2 DEF AbstractReply, Row

(* What the client is told of a finished call is its outcome.              *)
LEMMA ReplyDelivered ==
    ASSUME IInv, NEW r \in Request, phase[r] = "reply", reply'[r] = result[r]
    PROVE  AbstractReply(r)' = AbstractOutcome(r)
<1>1. result[r].code \in ServerCodes /\ (result[r].code # "OK" => result[r].info = {})
  BY DEF IInv, ResultInv, ResultOf
<1>2. result[r].code # "none" /\ result[r].code \notin LostCodes
  BY <1>1 DEF ServerCodes, LostCodes
<1>3. CASE result[r].info = {}
  <2>1. AbstractReply(r)' = [kind |-> "declined", row |-> {}]
    BY <1>2, <1>3 DEF AbstractReply, Row
  <2>2. AbstractOutcome(r) = [kind |-> "declined", row |-> {}]
    BY <1>2, <1>3 DEF AbstractOutcome
  <2>3. QED BY <2>1, <2>2
<1>4. CASE result[r].info # {}
  <2>1. AbstractReply(r)' = [kind |-> "created", row |-> Row(r, result[r].info)]
    BY <1>2, <1>4 DEF AbstractReply, Row
  <2>2. AbstractOutcome(r) = [kind |-> "created", row |-> Row(r, result[r].info)]
    BY <1>1, <1>4 DEF AbstractOutcome
  <2>3. QED BY <2>1, <2>2
<1>5. QED BY <1>3, <1>4

-----------------------------------------------------------------------------
(* The mapped variables *)
outcomeBar == [r \in Request |-> AbstractOutcome(r)]
replyBar == [r \in Request |-> AbstractReply(r)]

(* A step that leaves results, replies and rows alone is a stutter.        *)
LEMMA Stutter ==
    ASSUME call' = call, rows' = rows,
           \A r \in Request : AbstractOutcome(r)' = AbstractOutcome(r),
           \A r \in Request : AbstractReply(r)' = AbstractReply(r)
    PROVE  UNCHANGED Abstract!vars
BY DEF Abstract!vars

(* A call that returns without a row.                                      *)
LEMMA Declining ==
    ASSUME IInv, NEW r \in Request, phase[r] \notin {"reply", "done"},
           call' = call, rows' = rows, reply' = reply,
           \A q \in Request \ {r} : AbstractOutcome(q)' = AbstractOutcome(q),
           AbstractOutcome(r)' = [kind |-> "declined", row |-> {}]
    PROVE  Abstract!Decline(r)
<1>1. outcomeBar[r].kind = "open"
  BY OutcomeOpen DEF outcomeBar
<1>2. outcomeBar' = [outcomeBar EXCEPT ![r] = [kind |-> "declined", row |-> {}]]
  BY DEF outcomeBar
<1>3. replyBar' = replyBar
  BY ReplyKept DEF replyBar
<1>4. QED BY <1>1, <1>2, <1>3 DEF Abstract!Decline, Abstract!Nothing, outcomeBar, replyBar

-----------------------------------------------------------------------------
(* Steps *)

(* The goroutine of another call is not concerned by a step of r.          *)
LEMMA OthersKept ==
    ASSUME TypeOK, NEW r \in Request, Step(r), NEW q \in Request \ {r}
    PROVE  /\ AbstractOutcome(q)' = AbstractOutcome(q)
           /\ AbstractReply(q)' = AbstractReply(q)
<1>1. result'[q] = result[q] /\ phase'[q] = phase[q] /\ reply'[q] = reply[q]
  BY DEF TypeOK, Goto, Guarded, Return, process, database,
     Step, AuthFuncOverride, ValidatorInterceptor, AclFuncOverride,
     ReadHandler, RsvpCreation, CheckHandle, OpenHandle, OpenFails, StoreHandle,
     Ping, CreateRsvp, Insert, InsertFails, Commit, CommitFails, Reply
<1>2. QED BY <1>1, OutcomeKept, ReplyKept

(* Every step of a goroutine but Commit and Reply either moves on or       *)
(* returns without a row.                                                  *)
LEMMA SilentStep ==
    ASSUME IInv, NEW r \in Request, Step(r), ~Commit(r), ~Reply(r)
    PROVE  Abstract!Decline(r) \/ UNCHANGED Abstract!vars
<1> USE DEF IInv, TypeOK, Goto, Guarded, Return, process, database
<1>1. /\ call' = call
      /\ rows' = rows
      /\ reply' = reply
      /\ phase[r] \notin {"idle", "reply", "done"}
  BY DEF Step, AuthFuncOverride, ValidatorInterceptor, AclFuncOverride,
     ReadHandler, RsvpCreation, CheckHandle, OpenHandle, OpenFails, StoreHandle,
     Ping, CreateRsvp, Insert, InsertFails, CommitFails
<1>2. \/ result'[r] = result[r] /\ phase'[r] # "done"
      \/ result'[r].info = {} /\ result'[r].code # "none"
  <2>1. CASE ReadHandler(r)
    BY <2>1, SuccessIsOK DEF ReadHandler
  <2>2. \A code, field : Failure(code, field).code = code /\ Failure(code, field).info = {}
    BY DEF Failure
  <2>3. CASE ~ReadHandler(r)
    BY <2>2, <2>3 DEF Step, AuthFuncOverride, ValidatorInterceptor, AclFuncOverride,
       RsvpCreation, CheckHandle, OpenHandle, OpenFails, StoreHandle,
       Ping, CreateRsvp, Insert, InsertFails, CommitFails
  <2>4. QED BY <2>1, <2>3
<1>3. \A q \in Request \ {r} : AbstractOutcome(q)' = AbstractOutcome(q)
  BY OthersKept
<1>4. \A q \in Request : AbstractReply(q)' = AbstractReply(q)
  BY <1>1, ReplyKept
<1>5. CASE result'[r] = result[r] /\ phase'[r] # "done"
  <2>1. AbstractOutcome(r)' = AbstractOutcome(r)
    BY <1>1, <1>5, OutcomeKept
  <2>2. QED BY <1>1, <1>3, <1>4, <2>1, Stutter
<1>6. CASE result'[r].info = {} /\ result'[r].code # "none"
  <2>1. AbstractOutcome(r)' = [kind |-> "declined", row |-> {}]
    BY <1>6, OutcomeDeclined
  <2>2. QED BY <1>1, <1>3, <2>1, Declining
<1>7. QED BY <1>2, <1>5, <1>6

(* COMMIT is the step that records the row.                                *)
LEMMA CommitStep ==
    ASSUME IInv, NEW r \in Request, Commit(r)
    PROVE  Abstract!Create(r)
<1>1. PICK u \in UUID :
        /\ draft[r] = {[uuid |-> u, by |-> r, params |-> call[r].params]}
        /\ \A row \in Recorded : row.uuid # u
  BY DEF Commit, IInv, TransactionInv, DraftOf
<1> DEFINE new == [uuid |-> u, by |-> r, params |-> call[r].params]
<1>2. phase[r] = "commit" /\ phase'[r] = "reply"
  BY DEF Commit, Return, Goto, IInv, TypeOK
<1>3. call[r] \in PermittedCalls /\ Validate(call[r].params) = Valid
  BY <1>2 DEF IInv, CheckInv, TypeOK, PermittedCalls, RequestError, ParseJWT, Open
<1>4. result'[r] = Success({[uuid |-> u, params |-> call[r].params]})
  <2>1. {convertRsvpFromModelToProtocol(row) : row \in draft[r]}
          = {[uuid |-> u, params |-> call[r].params]}
    BY <1>1 DEF convertRsvpFromModelToProtocol
  <2>2. QED BY <2>1 DEF Commit, Return, IInv, TypeOK
<1>5. AbstractOutcome(r)' = [kind |-> "created", row |-> {new}]
  <2>1. result'[r].code = "OK" /\ result'[r].info = {[uuid |-> u, params |-> call[r].params]}
    BY <1>4, SuccessIsOK
  <2>2. Row(r, result'[r].info) = {new}
    BY <2>1 DEF Row
  <2>3. QED BY <2>1, <2>2 DEF AbstractOutcome, Row
<1>6. outcomeBar[r].kind = "open"
  BY <1>2, OutcomeOpen DEF outcomeBar
<1>7. outcomeBar' = [outcomeBar EXCEPT ![r] = [kind |-> "created", row |-> {new}]]
  <2>1. \A q \in Request \ {r} : AbstractOutcome(q)' = AbstractOutcome(q)
    BY OthersKept DEF IInv, Step
  <2>2. QED BY <1>5, <2>1 DEF outcomeBar
<1>8. rows' = rows \cup {new} /\ call' = call /\ \A other \in rows : other.uuid # u
  BY <1>1 DEF Commit, Recorded
<1>9. replyBar' = replyBar
  <2>1. reply' = reply
    BY DEF Commit
  <2>2. QED BY <2>1, ReplyKept DEF replyBar
<1>10. QED
  BY <1>3, <1>6, <1>7, <1>8, <1>9 DEF Abstract!Create, outcomeBar, replyBar,
     Abstract!Validate, Abstract!Valid, Validate, Valid

(* The answer reaches a client that waits, or nobody.                      *)
LEMMA ReplyingStep ==
    ASSUME IInv, NEW r \in Request, Reply(r)
    PROVE  Abstract!Answer(r) \/ UNCHANGED Abstract!vars
<1>1. /\ call' = call /\ rows' = rows /\ result' = result
      /\ phase[r] = "reply" /\ phase' = [phase EXCEPT ![r] = "done"]
  BY DEF Reply, Goto, database
<1>2. result[r].code \in ServerCodes /\ result[r].code # "none"
  BY <1>1 DEF IInv, ResultInv, ResultOf, ServerCodes
<1>3. \A q \in Request : AbstractOutcome(q)' = AbstractOutcome(q)
  BY <1>1, <1>2, OutcomeKept DEF IInv, TypeOK
<1>4. \A q \in Request \ {r} : AbstractReply(q)' = AbstractReply(q)
  BY OthersKept DEF IInv, Step
<1>5. CASE reply[r].code = "none"
  <2>1. reply[r] = NoResult
    BY <1>5 DEF IInv, ReplyInv, LostCodes, ServerCodes
  <2>2. reply'[r] = result[r]
    BY <1>5 DEF Reply, IInv, TypeOK
  <2>3. AbstractReply(r)' = AbstractOutcome(r)
    BY <1>1, <2>2, ReplyDelivered
  <2>4. replyBar' = [replyBar EXCEPT ![r] = outcomeBar[r]]
    BY <1>4, <2>3 DEF replyBar, outcomeBar
  <2>5. outcomeBar' = outcomeBar
    BY <1>3 DEF outcomeBar
  <2>6. replyBar[r].kind = "waiting"
    BY <2>1, ReplyWaiting DEF replyBar
  <2>7. outcomeBar[r].kind # "open"
    BY <1>1, <1>2 DEF outcomeBar, AbstractOutcome
  <2>8. QED BY <1>1, <2>4, <2>5, <2>6, <2>7 DEF Abstract!Answer, outcomeBar, replyBar
<1>6. CASE reply[r].code # "none"
  <2>1. reply'[r] = reply[r]
    BY <1>6 DEF Reply, IInv, TypeOK
  <2>2. QED BY <1>1, <1>3, <1>4, <2>1, ReplyKept, Stutter
<1>7. QED BY <1>5, <1>6

(* A client that gives up loses its answer and nothing else happens.       *)
LEMMA GiveUpStep ==
    ASSUME IInv, NEW r \in Request, GiveUp(r)
    PROVE  Abstract!Lose(r)
<1>1. call' = call /\ rows' = rows /\ result' = result /\ phase' = phase
  BY DEF GiveUp, server, database
<1>2. PICK code \in LostCodes : reply' = [reply EXCEPT ![r] = Failure(code, Valid)]
  BY DEF GiveUp
<1>3. reply[r] = NoResult
  BY DEF GiveUp, IInv, ReplyInv, LostCodes, ServerCodes
<1>4. replyBar[r].kind = "waiting"
  BY <1>3, ReplyWaiting DEF replyBar
<1>5. AbstractReply(r)' = [kind |-> "unknown", row |-> {}]
  BY <1>2, ReplyLost DEF IInv, TypeOK
<1>6. \A q \in Request \ {r} : AbstractReply(q)' = AbstractReply(q)
  BY <1>2, ReplyKept DEF IInv, TypeOK
<1>7. replyBar' = [replyBar EXCEPT ![r] = [kind |-> "unknown", row |-> {}]]
  BY <1>5, <1>6 DEF replyBar
<1>8. outcomeBar' = outcomeBar
  BY <1>1, OutcomeKept DEF outcomeBar
<1>9. QED BY <1>1, <1>4, <1>7, <1>8 DEF Abstract!Lose, Abstract!Nothing, outcomeBar, replyBar

(* Calls that end without an answer, in one step: those in S.              *)
LEMMA Abandoned ==
    ASSUME NEW S \in SUBSET Request, call' = call, rows' = rows,
           outcomeBar' = [r \in Request |->
               IF r \in S /\ outcomeBar[r].kind = "open"
                 THEN [kind |-> "declined", row |-> {}] ELSE outcomeBar[r]],
           replyBar' = [r \in Request |->
               IF r \in S /\ replyBar[r].kind = "waiting"
                 THEN [kind |-> "unknown", row |-> {}] ELSE replyBar[r]]
    PROVE  Abstract!Kill
BY DEF Abstract!Kill, Abstract!Nothing, outcomeBar, replyBar

(* A killed server abandons the calls in flight.                           *)
LEMMA KillStep == ASSUME IInv, Kill PROVE Abstract!Kill
<1> DEFINE S == {r \in Request : InFlight(r)}
<1>1. call' = call /\ rows' = rows /\ result' = result
  BY DEF Kill
<1>2. ASSUME NEW r \in Request
      PROVE  AbstractOutcome(r)' =
               IF r \in S /\ AbstractOutcome(r).kind = "open"
                 THEN [kind |-> "declined", row |-> {}] ELSE AbstractOutcome(r)
  <2>1. phase'[r] = IF InFlight(r) THEN "done" ELSE phase[r]
    BY DEF Kill
  <2>2. CASE ~InFlight(r)
    BY <1>1, <2>1, <2>2, OutcomeKept
  <2>3. CASE InFlight(r) /\ phase[r] = "reply"
    <3>1. result[r].code # "none"
      BY <2>3 DEF IInv, ResultInv, ResultOf, ServerCodes
    <3>2. AbstractOutcome(r)' = AbstractOutcome(r)
      BY <1>1, <3>1, OutcomeKept
    <3>3. AbstractOutcome(r).kind # "open"
      BY <3>1 DEF AbstractOutcome
    <3>4. QED BY <3>2, <3>3
  <2>4. CASE InFlight(r) /\ phase[r] # "reply"
    <3>1. phase[r] \notin {"reply", "done"}
      BY <2>4 DEF InFlight
    <3>2. AbstractOutcome(r) = [kind |-> "open", row |-> {}]
      BY <3>1, OutcomeOpen
    <3>3. result'[r].info = {}
      BY <1>1, <3>1 DEF IInv, ResultInv, ResultOf, NoResult
    <3>4. AbstractOutcome(r)' = [kind |-> "declined", row |-> {}]
      BY <2>1, <2>4, <3>3, OutcomeDeclined
    <3>5. QED BY <2>4, <3>2, <3>4
  <2>5. QED BY <2>2, <2>3, <2>4
<1>3. ASSUME NEW r \in Request
      PROVE  AbstractReply(r)' =
               IF r \in S /\ AbstractReply(r).kind = "waiting"
                 THEN [kind |-> "unknown", row |-> {}] ELSE AbstractReply(r)
  <2>1. reply'[r] = IF InFlight(r) /\ reply[r].code = "none"
                      THEN Failure("Unavailable", Valid) ELSE reply[r]
    BY DEF Kill
  <2>2. CASE reply[r].code = "none"
    <3>1. AbstractReply(r) = [kind |-> "waiting", row |-> {}]
      BY <2>2, ReplyWaiting DEF IInv, ReplyInv, LostCodes, ServerCodes
    <3>2. CASE InFlight(r)
      <4>1. AbstractReply(r)' = [kind |-> "unknown", row |-> {}]
        BY <2>1, <2>2, <3>2, ReplyLost DEF LostCodes
      <4>2. QED BY <3>1, <3>2, <4>1
    <3>3. CASE ~InFlight(r)
      BY <2>1, <3>3, ReplyKept
    <3>4. QED BY <3>2, <3>3
  <2>3. CASE reply[r].code # "none"
    <3>1. AbstractReply(r).kind # "waiting"
      BY <2>3 DEF AbstractReply
    <3>2. AbstractReply(r)' = AbstractReply(r)
      BY <2>1, <2>3, ReplyKept
    <3>3. QED BY <3>1, <3>2
  <2>4. QED BY <2>2, <2>3
<1> HIDE DEF S
<1>4. S \in SUBSET Request
  BY DEF S
<1>5. QED BY <1>1, <1>2, <1>3, <1>4, Abandoned DEF outcomeBar, replyBar

(* A call sent to a server that is down is abandoned at once.              *)
LEMMA SendStep ==
    ASSUME IInv, NEW r \in Request, Send(r)
    PROVE  Abstract!Kill \/ UNCHANGED Abstract!vars
<1>1. call' = call /\ rows' = rows /\ result' = result /\ phase[r] = "idle"
  BY DEF Send, database
<1>2. \A q \in Request \ {r} : phase'[q] = phase[q] /\ reply'[q] = reply[q]
  BY DEF Send, Goto, IInv, TypeOK
<1>3. \A q \in Request \ {r} : /\ AbstractOutcome(q)' = AbstractOutcome(q)
                               /\ AbstractReply(q)' = AbstractReply(q)
  BY <1>1, <1>2, OutcomeKept, ReplyKept
<1>4. AbstractOutcome(r) = [kind |-> "open", row |-> {}]
  BY <1>1, OutcomeOpen
<1>5. CASE up
  <2>1. phase'[r] = "auth" /\ reply' = reply
    BY <1>5 DEF Send, Goto, IInv, TypeOK
  <2>2. AbstractOutcome(r)' = AbstractOutcome(r)
    BY <1>1, <2>1, OutcomeKept
  <2>3. AbstractReply(r)' = AbstractReply(r)
    BY <2>1, ReplyKept
  <2>4. QED BY <1>1, <1>3, <2>2, <2>3, Stutter
<1>6. CASE ~up
  <2>1. phase'[r] = "done" /\ reply'[r] = Failure("Unavailable", Valid)
    BY <1>6 DEF Send, Goto, IInv, TypeOK
  <2>2. AbstractOutcome(r)' = [kind |-> "declined", row |-> {}]
    <3>1. result[r] = NoResult
      BY <1>1 DEF IInv, ResultInv, ResultOf
    <3>2. result'[r].info = {}
      BY <1>1, <3>1 DEF NoResult
    <3>3. QED BY <2>1, <3>2, OutcomeDeclined
  <2>3. AbstractReply(r)' = [kind |-> "unknown", row |-> {}]
    BY <2>1, ReplyLost DEF LostCodes
  <2>4. outcomeBar' = [q \in Request |->
               IF q \in {r} /\ outcomeBar[q].kind = "open"
                 THEN [kind |-> "declined", row |-> {}] ELSE outcomeBar[q]]
    BY <1>3, <1>4, <2>2 DEF outcomeBar
  <2>5. replyBar' = [q \in Request |->
               IF q \in {r} /\ replyBar[q].kind = "waiting"
                 THEN [kind |-> "unknown", row |-> {}] ELSE replyBar[q]]
    <3>1. AbstractReply(r) = [kind |-> "waiting", row |-> {}]
      BY <1>1, ReplyWaiting DEF IInv, ReplyInv
    <3>2. QED BY <1>3, <2>3, <3>1 DEF replyBar
  <2>6. QED BY <1>1, <2>4, <2>5, Abandoned
<1>7. QED BY <1>5, <1>6 DEF IInv, TypeOK

LEMMA OperatorStep ==
    ASSUME IInv, Restart \/ MigrateSchema \/ Flush \/ UNCHANGED vars
    PROVE  Abstract!Erase \/ UNCHANGED Abstract!vars
<1>1. call' = call /\ result' = result /\ phase' = phase /\ reply' = reply
  BY DEF Restart, MigrateSchema, Flush, vars, server
<1>2. /\ \A q \in Request : AbstractOutcome(q)' = AbstractOutcome(q)
      /\ \A q \in Request : AbstractReply(q)' = AbstractReply(q)
  BY <1>1, OutcomeKept, ReplyKept
<1>3. CASE Flush
  <2>1. rows' = {}
    BY <1>3 DEF Flush
  <2>2. QED BY <1>1, <1>2, <2>1 DEF Abstract!Erase
<1>4. CASE ~Flush
  <2>1. rows' = rows
    BY <1>4 DEF Restart, MigrateSchema, vars, database
  <2>2. QED BY <1>1, <1>2, <2>1, Stutter
<1>5. QED BY <1>3, <1>4

-----------------------------------------------------------------------------
LEMMA InitRefines == Init => Abstract!Init
<1> SUFFICES ASSUME Init PROVE Abstract!Init
  OBVIOUS
<1>1. \A r \in Request : AbstractOutcome(r) = [kind |-> "open", row |-> {}]
  BY DEF Init, AbstractOutcome, NoResult
<1>2. \A r \in Request : AbstractReply(r) = [kind |-> "waiting", row |-> {}]
  BY ReplyWaiting DEF Init
<1>3. QED BY <1>1, <1>2 DEF Init, Abstract!Init, Abstract!Nothing

LEMMA NextRefines == IInv /\ [Next]_vars => [Abstract!Next]_(Abstract!vars)
<1> SUFFICES ASSUME IInv, [Next]_vars PROVE [Abstract!Next]_(Abstract!vars)
  OBVIOUS
<1>1. ASSUME NEW r \in Request, Step(r) PROVE [Abstract!Next]_(Abstract!vars)
  BY <1>1, SilentStep, CommitStep, ReplyingStep DEF Abstract!Next
<1>2. ASSUME NEW r \in Request, Send(r) \/ GiveUp(r) PROVE [Abstract!Next]_(Abstract!vars)
  BY <1>2, SendStep, GiveUpStep DEF Abstract!Next
<1>3. CASE Kill
  BY <1>3, KillStep DEF Abstract!Next
<1>4. CASE Restart \/ MigrateSchema \/ Flush \/ UNCHANGED vars
  BY <1>4, OperatorStep DEF Abstract!Next
<1>5. QED BY <1>1, <1>2, <1>3, <1>4 DEF Next

(* Every behaviour of the server, with its unsynchronised handle, its      *)
(* failures, lost answers and kills, is a behaviour of RsvpService.        *)
THEOREM Refinement == Spec => ImplementsService
BY InitRefines, NextRefines, Invariance, PTL DEF Spec, ImplementsService, Abstract!Spec
=============================================================================

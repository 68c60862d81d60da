------------------------------ MODULE FuncTest ------------------------------
(***************************************************************************)
(* The functest command: a server goroutine and a session of nine tests    *)
(* that start together and meet at an address, which other processes may   *)
(* take, hold and give up.                                                 *)
(*                                                                         *)
(* A call and the judgement of its answer are one step of the session.     *)
(* What it ends with is "ok", "refused" (an InvalidArgument that names the *)
(* right field), "unmatched" (metrics that lack a pattern) or "error": no  *)
(* connection, no token, a database error, an answer lost on its way back, *)
(* or one that makes no sense.                                             *)
(***************************************************************************)
EXTENDS Naturals, Sequences

Methods == {"Version", "ServicesStatus", "RsvpCreation"}

VARIABLES config,     \* the flags: [embed, random, certs, migrate]
          holder,     \* who listens: nobody, own, instance (of this program), stranger
          step,       \* of runFunctionalTests: port, token, migrate, session
          launched,   \* the server goroutine has still to listen
          table,      \* the table of the database exists
          test,       \* the test of the session, by its number
          case,       \* its request
          try,        \* its attempt
          failures,   \* <<test, what its call ended with>>
          exit,       \* "running", "pass" (0) or "fail" (1)
          rows,       \* history: the rows that the valid request of a test recorded
          metrics,    \* the methods counted by the process that listens
          alone       \* history: no other process has held the address

world == <<holder, launched, alone>>
session == <<step, test, case, try, failures, exit>>
vars == <<config, world, session, table, rows, metrics>>

(* runFunctionalTestSession.  Mutant: the metrics are asked for early.     *)
SessionMetricsEarly == <<"Version", "HttpVersion", "HttpMetrics", "ServicesStatus",
             "HttpServicesStatus", "RsvpCreation", "HttpRsvpCreation",
             "HttpStatus", "HttpSwagger">>
Session == <<"Version", "HttpVersion", "ServicesStatus", "HttpServicesStatus",
             "RsvpCreation", "HttpRsvpCreation", "HttpStatus", "HttpMetrics", "HttpSwagger">>

Grpc == {"Version", "ServicesStatus", "RsvpCreation"}
Creations == {"RsvpCreation", "HttpRsvpCreation"}
Method(t) == CASE t \in {"Version", "HttpVersion"} -> {"Version"}
               [] t \in {"ServicesStatus", "HttpServicesStatus"} -> {"ServicesStatus"}
               [] t \in Creations -> {"RsvpCreation"}
               [] OTHER -> {}

(* testGetRsvpCreationRequest: five that are refused, and a valid one.     *)
Cases(t) == IF t \in Creations THEN 6 ELSE 1
Invalid(t) == t \in Creations /\ case < 6

(* An instance of this program may have served others before.              *)
NoMetrics == [received |-> {}, sent |-> {}]
AllMetrics == [received |-> Methods, sent |-> Methods]

Init ==
    /\ config \in [embed: BOOLEAN, random: BOOLEAN, certs: BOOLEAN, migrate: BOOLEAN]
    /\ holder \in {"nobody", "instance", "stranger"}
    /\ step = "port"
    /\ launched = FALSE
    /\ table \in BOOLEAN
    /\ test = 1 /\ case = 1 /\ try = 1
    /\ failures = {}
    /\ exit = "running"
    /\ rows = [t \in Creations |-> 0]
    /\ metrics \in (IF holder = "instance" THEN {NoMetrics, AllMetrics} ELSE {NoMetrics})
    /\ alone = (holder = "nobody")

Running(s) == exit = "running" /\ step = s

-----------------------------------------------------------------------------
(* runFunctionalTests, before the session *)

(* A port that was free when getFreePort closed it; when it fails, the     *)
(* default address stays.  Then the server goroutine is started.           *)
getFreePort ==
    /\ Running("port")
    /\ step' = "token"
    /\ launched' = config.embed
    /\ \/ /\ config.embed /\ config.random
          /\ holder' = "nobody" /\ alone' = TRUE /\ metrics' = NoMetrics
       \/ UNCHANGED <<holder, alone, metrics>>
    /\ UNCHANGED <<config, table, test, case, try, failures, exit, rows>>

(* jwt.Create of the token for an embedded server, if it has a secret.     *)
CreateToken ==
    /\ Running("token")
    /\ \/ step' = "migrate" /\ exit' = exit
       \/ config.embed /\ step' = step /\ exit' = "fail"
    /\ UNCHANGED <<config, world, table, test, case, try, failures, rows, metrics>>

(* gorm.Open, Ping and MigrateSchema, each of which may fail.              *)
Migrate ==
    /\ Running("migrate")
    /\ \/ ~config.migrate /\ step' = "session" /\ UNCHANGED <<table, exit>>
       \/ config.migrate /\ step' = "session" /\ table' = TRUE /\ exit' = exit
       \/ config.migrate /\ step' = step /\ table' = table /\ exit' = "fail"
    /\ UNCHANGED <<config, world, test, case, try, failures, rows, metrics>>

-----------------------------------------------------------------------------
(* The server goroutine *)

(* Mutant of Listen: a server that cannot start leaves the session alone.  *)
ListenOrReturn ==
    /\ exit = "running" /\ launched
    /\ launched' = FALSE
    /\ holder' = IF config.certs /\ holder = "nobody" THEN "own" ELSE holder
    /\ UNCHANGED <<config, session, table, rows, metrics, alone>>

(* OnSingleAddress or OnMultipleAddresses: log.Fatal when the address is   *)
(* taken or a certificate is missing.                                      *)
Listen ==
    /\ exit = "running" /\ launched
    /\ launched' = FALSE
    /\ IF config.certs /\ holder = "nobody"
         THEN holder' = "own" /\ exit' = exit
         ELSE holder' = holder /\ exit' = "fail"
    /\ UNCHANGED <<config, step, test, case, try, failures, table, rows, metrics, alone>>

(* Other processes come and go at an address that is not ours.             *)
Others ==
    /\ exit = "running"
    /\ \/ holder = "nobody" /\ holder' \in {"instance", "stranger"}
       \/ holder \in {"instance", "stranger"} /\ holder' = "nobody"
    /\ metrics' \in (IF holder' = "instance" THEN {NoMetrics, AllMetrics} ELSE {NoMetrics})
    /\ alone' = FALSE
    /\ UNCHANGED <<config, launched, session, table, rows>>

-----------------------------------------------------------------------------
(* The session *)

(* What this program does of a request.  An instance that is not ours may  *)
(* ask for another token.                                                  *)
Outcomes(t) ==
    IF Invalid(t) THEN {"refused"} \cup (IF holder = "instance" THEN {"error"} ELSE {})
    ELSE IF t \in Creations THEN {"error"} \cup (IF table THEN {"ok"} ELSE {})
    ELSE IF t = "HttpMetrics" THEN {IF metrics = AllMetrics THEN "ok" ELSE "unmatched"}
    ELSE {"ok"}

(* grpc_prometheus comes first in the chain: a call counts as received     *)
(* whatever becomes of it, as sent without an error.  Neither counter is   *)
(* there before, since grpc_prometheus.Register precedes RegisterService;  *)
(* the summaries of instrf are there from the start.                       *)
Counted(t, outcome) ==
    [received |-> metrics.received \cup Method(t),
     sent |-> metrics.sent \cup (IF outcome = "ok" THEN Method(t) ELSE {})]

(* Mutant of Retried: no gRPC test gives up at once.                       *)
RetriedAll == Grpc

(* "one retry if the connection is unavailable", in fact after any error.  *)
Retried == {"Version", "ServicesStatus"}

(* testRsvpCreationResponse asks gRPC for the code and the message, and    *)
(* HTTP for an error only.                                                 *)
Passes(t, result) ==
    \/ ~Invalid(t) /\ result = "ok"
    \/ Invalid(t) /\ result = "refused"
    \/ Invalid(t) /\ t \notin Grpc /\ result = "error"

Judge(t, result) ==
    IF t \in Retried /\ try = 1 /\ result = "error" /\ config.certs
      THEN try' = 2 /\ UNCHANGED <<test, case, failures>>
      ELSE /\ try' = 1
           /\ failures' = IF Passes(t, result) THEN failures ELSE failures \cup {<<t, result>>}
           /\ case' = IF case < Cases(t) THEN case + 1 ELSE 1
           /\ test' = IF case < Cases(t) THEN test ELSE test + 1

(* This program answers, and the answer may be lost on its way.            *)
Served(t) ==
    /\ holder \in {"own", "instance"}
    /\ t \in Grpc => config.certs
    /\ \E outcome \in Outcomes(t), lost \in BOOLEAN :
         /\ metrics' = Counted(t, outcome)
         /\ rows' = IF t \in Creations /\ outcome = "ok" THEN [rows EXCEPT ![t] = @ + 1] ELSE rows
         /\ Judge(t, IF lost THEN "error" ELSE outcome)

(* No client, no connection, or not one to this program; anything may say  *)
(* "OK" to a GET of /status.                                               *)
NotServed(t) ==
    /\ \/ Judge(t, "error")
       \/ t = "HttpStatus" /\ holder = "stranger" /\ Judge(t, "ok")
    /\ UNCHANGED <<metrics, rows>>

Test ==
    /\ Running("session")
    /\ test <= Len(Session)
    /\ Served(Session[test]) \/ NotServed(Session[test])
    /\ UNCHANGED <<config, world, step, exit, table>>

(* The gRPC clients set no deadline, so whoever does not answer them holds *)
(* the session up; http.Client has its Timeout.                            *)
Returns == Test /\ (holder \in {"nobody", "own"} \/ Session[test] \notin Grpc)

(* os.Exit with the verdict.                                               *)
Exit ==
    /\ Running("session")
    /\ test > Len(Session)
    /\ exit' = IF failures = {} THEN "pass" ELSE "fail"
    /\ UNCHANGED <<config, world, step, test, case, try, failures, table, rows, metrics>>

Next == getFreePort \/ CreateToken \/ Migrate \/ Listen \/ Others \/ Test \/ Exit

(* The goroutines of the process run, and calls return where Returns says. *)
Fairness == /\ WF_vars(getFreePort) /\ WF_vars(CreateToken) /\ WF_vars(Migrate)
            /\ WF_vars(Listen) /\ WF_vars(Exit)
            /\ WF_vars(Returns)

Spec == Init /\ [][Next]_vars /\ Fairness

-----------------------------------------------------------------------------
(* Properties *)

(* A session that exits with 0 has recorded one RSVP by gRPC and one by    *)
(* HTTP, no more and no fewer: whoever holds the address, no answer was    *)
(* lost and made up for by another attempt, and no test that the server    *)
(* did not answer has passed for it.                                       *)
PassMeansRecorded == exit = "pass" => \A t \in Creations : rows[t] = 1

(* The metrics test needs what the tests before it have done to the        *)
(* process: on a server of its own, a pattern it does not find comes with  *)
(* a failure of one of those, so it reports nothing new.                   *)
MetricsFollowTheOthers ==
    alone /\ <<"HttpMetrics", "unmatched">> \in failures =>
        \E f \in failures : Method(f[1]) # {}

(* A session with a server of its own ends, also when another process was  *)
(* faster at the address and never answers: the server's log.Fatal ends    *)
(* the process.                                                            *)
SessionEnds == <>(config.embed => exit # "running")
=============================================================================

# A TLA+ model of ah-svc-www

`ah-svc-www` is a small web service that records the answers (RSVPs) of wedding guests.
A Go process serves gRPC and HTTP/1.1, on one address or on two; its HTTP side holds a REST gateway
to the gRPC side and a single-page form written in Elm. RSVPs are rows of one table in an SQLite
file. The same binary has a migration command, a token generator, a command-line client with an
interactive console, and a functional test runner.

This directory holds TLA+ modules that model its behaviour, the TLC configurations that check them
on small instances, and TLAPS proofs of the main properties for every value of the constants.
`PROJECT.json` maps every definition to the source lines it models.

## 1. Inventory

| Component | State | Operations | Interacts with |
|---|---|---|---|
| gRPC server (`service/`) | `s.sqliteHandle`, nil until the first creation; the context of each call | auth, validator and acl interceptors; `RsvpCreation`, `Version`, `ServicesStatus`; `initDatabaseHandle` | one goroutine per call; all share the handle and the SQLite file |
| checks of the parameters (`pb/www.validator.pb.go`, `models/rsvp_queries.go`) | none | `Validate`, `castRsvpParams` | called by the interceptor, by the handler and by the query functions |
| query functions (`models/`) | the table `rsvps`, with soft deletion | `CreateRsvp`, `FindRsvpByUUID`, `ListRsvps`, `UpdateRsvp`, `DeleteRsvpLogically`, `DeleteRsvpPhysically` | SQL through gorm; only `CreateRsvp` has a caller in the server today |
| schema (`models/migrate_schema.go`, `cmd/migrate.go`) | the existence of the table | `MigrateSchema`, `Flush` | another process on the same file, or `serve --sqlite-migrate` |
| `serve` (`server/`, `cmd/serve.go`) | listeners, the channel `eps`, the counter `i` and `ok` | start-up, two `Serve` goroutines, cmux with one address, exit | opens what the gRPC and HTTP servers serve |
| web form (`ui/elm/src`) | `model.rsvp`, `rsvpResponse`, `errors`, four display flags | eight messages of `update`; the view decides which the guest can send | `POST /api/v1/rsvp_creation` |
| REST gateway (`pb/www.pb.gw.go`, grpc-gateway) | none | one handler per method, deadline, cancellation when the client goes away | a client of the gRPC server in the same process |
| routes and static UI (`service/service.go`, `service/http.go`) | route table, asset file system | `/status`, `/version`, `/404`, `/`, `/api/v1/`, `/metrics`, swagger | mounted in the HTTP server |
| command-line client, console (`cmd/remotecli`, `client/`, `cmd/console.go`, `cmd/cli.go`) | connection, context with the JWT, default timeout | `rsvp_creation`, `version`, `jwt`, `default_timeout`, ... | calls the gRPC server with deadlines |
| functional tests (`cmd/functest*`) | an embedded server, a list of failures | nine tests in order | starts the server in a goroutine, then calls it |
| `token` (`cmd/token.go`) | none | signs claims with a secret | none |

What is hard in this code, and what must hold in spite of it:

* *The lazy database handle.* `initDatabaseHandle` checks, opens, stores and pings without a lock
  and `RsvpCreation` reads the field once more. Whatever the interleaving, a handler must never use
  a nil or a closed handle. That only one handle is opened is what the comments suggest; it does not
  hold (finding `handle_leak`).
* *A reply and a row.* `INSERT` or `COMMIT` may fail, the client may have given up, the process may
  be killed at any point, an operator may flush the table. A reply must still be true of the row.
* *Five layers of checks* (auth, validator, acl, handler, `castRsvpParams`) in front of one `INSERT`,
  written in different ways; they must agree.
* *One writer.* SQLite has one write lock for the file; it must always come back.
* *Read, then write* in two statements: `UpdateRsvp` and `DeleteRsvpLogically` against each other,
  with errors between the two that are not looked at.
* *Two servers, one channel.* The exits of two goroutines in any order, cmux in front of them with
  bounded queues, clients that connect and say nothing.
* *A form with several requests on their way*, edited while it waits.
* *HTTP in front of gRPC.* Redirections, a route table filled from a map, method overrides, and
  calls that are abandoned while the service goes on; the status must be true of the row.
* *A test session beside the server it tests*, at an address that was free a moment ago.

## 2. Modules

```
RsvpParams ............ parameters of an RSVP, Validate, castRsvpParams
  RsvpService ......... what callers are promised: atomic creation, truthful answers
  WwwServer ........... the gRPC server, its goroutines, the SQLite file   -- implements RsvpService
    MCWwwServer         instances for TLC
    WwwServerProofs     invariants, for every value of the constants
      WwwServerRefinement   WwwServer implements RsvpService
  RsvpQueries ......... the query functions as sequences of SQL statements
    MCRsvpQueries
    RsvpQueriesProofs
  RsvpForm ............ the Elm form and the requests it sends
    RsvpEndToEnd ...... the form in front of RsvpService, with the JSON in between
      MCRsvpEndToEnd
      RsvpEndToEndProofs
  HttpFront ........... middlewares, routes, pages and REST gateway, in front of RsvpService
    MCHttpFront
    HttpFrontProofs
  RemoteCli ........... cli and console: settings, calls, deadlines, results
    MCRemoteCli
    RemoteCliProofs
ServerLifecycle ....... start-up, cmux, the channel eps, exit
    MCServerLifecycle
    ServerLifecycleProofs
FuncTest .............. the functional tests beside their embedded server
    FuncTestProofs
```

### RsvpParams
A text is its length in bytes, all that Go's `len` sees of it. An email is the verdict of the
regular expression. The three answers (presence, housing, brunch) are kept as they are, so a swap of two of the seven
positional parameters of `CreateRsvp` is visible. `Validate` and `castRsvpParams` return the field
their error names, in the order of the code.

### WwwServer
A step is the stretch of one goroutine between two accesses to shared state. `phase[r]` is the
program counter of the goroutine of call `r`:

| phase | action | code |
|---|---|---|
| idle | `Send` | a client, or the gateway |
| auth, validator, acl | `AuthFuncOverride`, `ValidatorInterceptor`, `AclFuncOverride` | `auth_and_acl_funcs.go`, the interceptor chain of `server.go` |
| handler | `ReadHandler`, `RsvpCreation` | the three handlers, up to `initDatabaseHandle` |
| check, open, store, ping | `CheckHandle`, `OpenHandle` / `OpenFails`, `StoreHandle`, `Ping` | `init_databases.go` 22-45, one action per access to the field |
| create | `CreateRsvp` | the argument `s.sqliteHandle` is read, `castRsvpParams` |
| insert, commit | `Insert` / `InsertFails`, `Commit` / `CommitFails` | gorm's transaction around `Create` |
| reply | `Reply` | the result leaves the server |

`GiveUp` is a deadline or a broken connection at the client: the handler does not look at its context
and goes on. `Kill` drops the handles, the open transaction and the calls in flight; there is no
signal handler and no drain. `Restart`, `MigrateSchema` and `Flush` are the other commands of the
binary on the same file. The field `by` of a row and the variable `erased` are history: nothing in
the code reads them. SQLite, gorm, grpc-go and the JWT library are represented by what this code
uses of them: a write lock per file, atomic commit, rollback at a crash or an error, a handle per
`Open`, a verdict per token. The `sqliteHandle` field is one machine word, so a racy read is a read
of some value that was written. The uuid of a row is fresh: a collision of two random uuids is left
out. `closeDatabaseHandle` is not modelled, as nothing calls it. The DSN names a file: an in-memory
DSN would give each handle a table of its own.

`RsvpService` is the abstract specification: one atomic `Create`, and replies that are what was done
or "unknown". The refinement mapping reads `outcome` off `result` and `phase` and `reply` off the
code the client received.

### RsvpQueries
Each function is one or two statements; statements are atomic and nothing holds two together.
gorm is modelled by the SQL it issues here: a struct whose primary key is the nil UUID adds no
condition; `First`, `Updates` and `Delete` see soft-deleted rows only under `Unscoped`;
`RecordNotFound()` is true of an empty answer and of no other error; `gorm:delete_option LIMIT 1` is
a syntax error unless SQLite was compiled with `SQLITE_ENABLE_UPDATE_DELETE_LIMIT`. The vendored
amalgamation is not; a build with the tag `libsqlite3` against a system library may be. Both are
values of the constant `LimitSupported`. `wrote` is history.

### ServerLifecycle
The main goroutine's `pc` walks the start-up steps of `serve()`, each of which may end the process,
then runs cmux (one address) or waits on `eps` (two). Listeners, the two `Serve` goroutines and the
connections are processes of their own. `Backlog` is the capacity of a cmux queue (1024 in cmux).
What a connection carries is the subject of `WwwServer`.

### RsvpForm and RsvpEndToEnd
`update` runs once per message. A text is `[blank, chars, bytes]` because Elm counts UTF-16 units and
Go bytes, an email the verdict of both regular expressions. What the view hides cannot be clicked: the
form is gone after a success, the button after a global error, children and music when the guest does
not come. `RsvpForm` is the page alone; who answers its requests is left open.

`RsvpEndToEnd` puts `RsvpService` behind it, so what the page confirms is compared with a row of the
specification that `WwwServer` is proved to implement. Guest, service and answers interleave; the
answer of a call may get lost, the process be killed and the table flushed. The gateway between the
two converts: it marshals with `OrigName`, and the Elm decoder looks for camel-case names and takes
the default for what it does not find, so `childrenNameAge` never comes back to the page.

### HttpFront
One client with the request it sends and the redirections it is sent on. A path is a location the
code names, what follows it (nothing, letters, a slash, a slash and more, a colon with or without a
verb) and whether slashes are doubled in it. `ServeHTTP` is the whole of the synchronous part: the
preflight of rs/cors, the redirection of gorilla/mux to the clean path, the first route that matches,
the page or the gateway. `order` is the order in which the range over the Go map `routeMap` registered the
gateway's routes. `gwmux` is grpc-gateway's `ServeMux.ServeHTTP` with its method override and its
fallback for forms, both of which consume the body.

A handler waits in two places. The first is the body: `ParseForm` and the decoder of
`request_Www_RsvpCreation_0` read from the client, and the `http.Server` of `server.go` has no
`ReadTimeout`. `sending` are the clients that have not sent all of their body; `ServeHTTP` is not
enabled on a path that reads it until `BodyArrives`, or until the client leaves, whose body is then
cut off and refused with a 400. The second is the gRPC call (`stage = "calling"`), which ends with
the service's answer (`Forward`), the client's departure (`Cancel`), the `Grpc-Timeout` header
(`Deadline`) or a broken connection (`Unavailable`). The service may go on afterwards: `called`
outlives the handler. net/http watches a connection only after the body was read to its end, so
`Cancel` is for the clients in `watched`: those without a body, those whose form `ParseForm` has read,
and those whose JSON ends at its `Content-Length` (`sized`; behind a chunked body the decoder may or
may not have met the end). The body of a form that an override made a GET is never read, and nobody
notices that its client leaves. A handler has ended when it returns: net/http then sends the response,
and may first wait for the rest of an unread body. The reading of the request line and headers comes
before the handler, and is left out.

`now` is the request as the handler sees
it, `ask` what the client first asked for. `http.FileServer`, `ParseForm`, the body of a
request and clients that follow a 301 with a GET are external. Not modelled: the responses' bodies and headers, except for the JSON of a
row in `RsvpEndToEnd`; the recovery and logging middlewares. `Absent` is the empty string, what
there is of a path or a header that has nothing there; `Handler` is the first entry of the route
table that matches.

### FuncTest
The session and the server goroutine start together. `holder` is who listens at the address:
nobody, the embedded server, another instance of this program, or a stranger; other processes come
and go. A call and the verdict on it are one step, because the session is sequential and the service's own
interleavings are the subject of `WwwServer`: `Served` is an answer of this program, which may be lost
on its way back, `NotServed` everything else. `metrics` holds the gRPC counters of the process that
listens, which are not there before a method was called; the HTTP summaries that the
metrics test also looks for are exported from registration on. The fields of the answers are not
compared one by one: an answer is right or not.

### RemoteCli
`log` holds the lines evaluated so far with their results; the first entry of a console is the
question for the remote version that it asks before its prompt. `token` is the authorization metadata
of `c.ctx`, `defaultTimeout` the field of that name. A line is what `parseParams` makes of it: the
command and whether its arguments are missing, empty, unparsable or a value. The action names are
such that none is a prefix of another, so the random order of Go's map in `Eval` does not matter.
A call has a deadline or none; `Wrap` is the conversion of seconds to a `time.Duration`, with the
width as a constant, so that the overflow of a huge timeout happens in the runs too. The service is
external: it may handle a call after its client has given up, or never. Under TLS an error of
`grpc.Dial` is assigned to a shadowed `err`; the client then has a nil connection, and the first call
panics.

## 3. Runs

| Run | Instance | Result |
|---|---|---|
| `server_safety` | 2 calls out of 7 kinds (valid, at the length limits, bad length, bad email, bad token, no token, read), JWT on, 2 handles, 1 kill, table initially there or not | 102,692 states up to symmetry; 7 invariants, the action property `RowsOnlyGrow` and the refinement `ImplementsService` hold |
| `server_liveness` | 2 concurrent creations, 1 kill | `EveryCallEnds` holds |
| `handle_leak` | 2 concurrent creations | `OneHandlePerProcess` is violated: finding |
| `queries` | 3 callers out of 16 calls on tables of at most 2 rows to begin with, any statement may fail in the functions of `Failing` | 219,177 states up to symmetry; calls touch only the row they name, errors mean no change, deletions are final, a last page misses nothing |
| `queries_update` | 1 caller, no statement fails | `UpdateTakesEffect` is violated: finding |
| `lifecycle` | 3 connections, queues of 1, all flags, every failure | 26,248 states; channels, exits and the three liveness properties |
| `end_to_end` | 4 edits, 2 requests, texts on both sides of every limit, kills and flushes | 962,464 states; confirmations are rows of the service, refusals are flagged and recorded nothing |
| `form_double_submit` | 2 edits, 2 requests | `OneRequestAtATime` is violated: finding |
| `http_front` | 1 request out of 46, one per branch of the front, 6 orders of the route map | 5,568 states; the status is true of the row, only the POST of a message to the path records one, pages are reachable, a handler ends that has its body or whose client is missed |
| `functest` | all flags, any holder of the address, 9 tests with 19 calls and their retries | 527,200 states; a pass means one row per valid request, the metrics test adds no failure of its own, an embedded session ends |
| `cli` | cli and console, 17 kinds of line, 3 lines after the greeting, 6-bit durations | calls carry the current settings, results and exit status are true, deadlines end calls |
| `cli_hang` | 2 lines | `TimeoutEndsCalls` is violated: finding |

**Bounds.** Two calls are the smallest number that races on the handle, on the write lock and on the
uuid; the proofs cover any number of them. One kill is enough for a row from before and a row from
after a restart. Three callers on a table of two rows let one call be overtaken between its two
statements by two others, and leave a row that is nobody's. Two of three connections speak the same protocol, so a queue
of 1 is full in some state. Two requests let an answer arrive late; four edits are two to make the
form valid and two more while an answer is on its way. Three lines are a setting, another that
replaces it or fails, and a call. Handlers of the HTTP side share nothing but the route table, which is not written after start-up,
so one request is the whole of `HttpFront`, once for each branch; the steps of handler, client, service and process
interleave on it. `FuncTest` has no bound: there is one session. The bounds on kills, edits and requests are guards
(`MaxKills`, `MaxEdits`, `MaxRequests`, `MaxLines`); after them the system may stop, so these runs switch the deadlock check
off. Calls are made once each and the lifecycle ends with the process, so it is off there too.

**Symmetry** is used in `server_safety` (calls, uuids, handles) and in `queries` (callers), which have no
liveness property.

**Fairness.** `FairSpec` of `WwwServer`: weak fairness of the steps of each call, because the Go
scheduler runs every goroutine that can run and a statement on SQLite returns (the driver's busy
timeout turns a wait for the lock into an error); weak fairness of `Restart`, because the process
runs under a supervisor. `FairSpec` of `ServerLifecycle`: the main goroutine and the two `Serve`
goroutines. `FairSpec` of `RemoteCli`: the command runs, and the timer of a context fires; the
service and the network may do nothing. `HttpFront`: a handler runs once the body of its client is
there or the client has left (`Arrived`), timers fire, and a closed connection is noticed if net/http
watches it; nothing is asked of the gRPC service. Whether a client sends the rest of its body is up to
the client. The one thing asked of a client is to follow a redirection if it stays, without which a redirected
request comes to no answer, and only once its body is there, as the redirection may not be sent before.
`FuncTest`: the goroutines run, HTTP calls return (the client has a timeout), gRPC calls return where
nobody or the embedded server listens (`EveryCallEnds`), not where another process does. Nothing else is assumed of clients, who may stay silent for ever, of operators, or of
failures.

**Mutants.** Each property of a passing run has a mutant: a change of one mapped definition, such as
a lock that is not released or a check that is off by one, under which the property fails. They are
defined next to what they change and marked as such.

## 4. Proofs

Every invariant and every action property that a passing run checks is a theorem, and so is the
refinement. The theorems hold for any set of calls, handles and uuids, any number of kills,
connections, requests, edits and lines, any texts and any tables. They assume what the modules say of
their constants (`ConstantsAssumption`, `QueriesAssumption`, `FormAssumption`, `HttpFrontAssumption`,
`RemoteCliAssumption`, `BacklogAssumption`), which TLC evaluates in the runs; these are types, and
that the values standing for "none" are none of the others. That `2^Width` is a positive natural, in
`RemoteCliAssumption`, is true of every width; the provers do not know it of the power operator.
Three theorems have a hypothesis of their own, given with them below.

`WwwServerProofs` proves `TypeCorrect` on its own, then the invariance of

    IInv == TypeOK /\ ProcessInv /\ HandleInv /\ CheckInv
            /\ TransactionInv /\ RowInv /\ ResultInv /\ ReplyInv

The stated properties are not inductive: `ReplyTellsTruth` speaks of replies only, and a reply is
true because the result was (`ResultInv`), which is so because the row left the transaction with it
(`TransactionInv`: a call holds the lock exactly while it has a draft, and the draft is of this call
and has a uuid that no row has). `HandleInv` says that a handle in the field, or in the local variable of a call that is about to use it, is
open, and that past the check the field is not nil: handles are only closed by a kill, which also
resets the field. `CheckInv` carries the verdicts of the interceptors along the phases, so that what
reaches `INSERT` is valid and permitted; `RowInv` keeps it for the rows. `ProcessInv` says that a
process that is down works on no call. There is one step lemma per conjunct. From `Invariance` follow
`RepliesTellTruth`, `RowsAreUnique`, `RowsArePermitted`, `HandlesAreUsable`, `LocksAreReleased`,
`LayersAgree` and the action property `RowsChangeByCommitOrFlush`.

`WwwServerRefinement` proves `Refinement == Spec => ImplementsService`: `Commit` of a call is
`Create`, the errors and the end of a read are `Decline`, `Reply` is `Answer` or a stutter for a
client that gave up, `GiveUp` is `Lose`, `Kill` is `Kill` with the set of the calls in flight,
`Flush` is `Erase`, and every other step is a stutter.

`ServerLifecycleProofs` proves the invariance of
`TypeOK /\ StartInv /\ ChannelInv /\ SniffInv /\ ExitsAreCounted` and from it `ChannelsAreSafe`,
`ExitsAreNotLost` and `EndIsJustified`. `StartInv` says that before the two `go` statements nothing is
served, sniffed or failed, `ChannelInv` that `eps` is closed only at exit with both exits collected, `SniffInv` that after
cmux no connection is being sniffed.

The theorem `TypeCorrect` states the first conjunct.

`RsvpQueriesProofs` proves `TypeOK /\ ControlInv /\ KeyInv` invariant. `ControlInv` ties a second
statement to the function that issues it and says that a call which has not returned has changed
nothing; `KeyInv` says that the struct an earlier statement filled is of the row the call names,
unless it named the nil UUID. `StepEffect` sums up what a step may do to the table (nothing, or one of
insertion, update, soft deletion, removal at the end of a call that succeeds), and the results follow
from it: `ErrorsChangeNothing`, `DeletedRowsStay`, and `LiveUpdatesTakeEffect`, which says when the
violated `UpdateTakesEffect` does hold. Three results need a hypothesis, each of which a
divergence of section 5 makes necessary: `NamedRowOnly` that no update or logical deletion names the nil UUID,
`DeletionsStay` that a physical deletion spells the UUID as it is stored, `PagesAreComplete` that
the statements of `ListRsvps` do not fail (the error of `Count` is not looked at, and 0 is then the
total). `PagesAreComplete` also counts: a selection that only grew and is not larger than the page is the page.

`RsvpEndToEndProofs` proves `PageInv /\ ServiceType /\ ServiceInv /\ SentInv /\ ShownInv /\
DisplayInv` invariant. `ServiceInv` relates what the service did of a call to its row and to what the
caller knows; `SentInv` says that a form that was sent passed the page's checks and that an answer, once
given, remains one the service and the gateway may give: the service may go on, but outcomes and
replies are final. `ShownInv` says that what is shown is the answer to some request, which is all that is true
when two are on their way. `DisplayInv` says that a text that is not the initial one has its error flag
up; since Elm's check and Go's check disagree on what is long, it is what makes `RefusalsAreFlagged`
true. From these follow `ConfirmationHolds` and `NeverTooShort`.

`HttpFrontProofs` proves `FrontType /\ ServiceType /\ RequestInv` invariant, with four facts per client:
`CallOf` (the row of a call), `StatusOfCall` (what a status says of the call behind it), `PostOf` (a
request that was redirected is a GET without a body, so a call to the creation is the one that was
asked for), `GetOf` (a GET stays one, on its page). `RoutesAre` and `HandlerIs` compute the handler
of every path for all six orders of the route map. `ConnectionType`, on `sending` and `watched`, is an
invariant of its own: no other fact rests on them. From these follow `ThePostRecords`,
`StatusTellsTruth` and `EveryPageAnswers`.

`RemoteCliProofs` proves `LogType /\ Waiting /\ OneLine /\ ExitTellsTruth /\ Settings /\
SettingsGovernCalls /\ Recorded` invariant. `SettingsGovernCalls` is not inductive: a new line needs that
the token and the timeout in the struct are those of the last lines that set them (`Settings`), and the old ones
that later lines and late answers change neither the lines in front of them nor whether a
`default_timeout` succeeded, which is so because no setting line is ever sent (`Recorded`). `Settings` also
carries that the lines that set something have a last one, step by step, as an induction over the log
is out of reach. `Waiting` says that only the last line may be waiting. `Appended` and `Handled` describe
the two kinds of step, a line and the end of a call; each action is shown to be one of them, or to leave
the log alone. From these follow `SettingsAreCurrent`, `ResultsTellTruth` and `ExitsTellTruth`.

`FuncTestProofs` proves `TypeInv /\ RowsInv /\ CountInv /\ ExitInv /\ MetricsFollowTheOthers`
invariant. `RowsInv` says that as long as nothing failed each creation test behind the session has
recorded one row, and `CountInv` that, while no other process has held the address, every test behind it is
counted in the metrics or among the failures. `PassIsRecorded` and `MetricsTellNothingNew` follow.

Only model-checked: the liveness properties (`EveryCallEnds`, `RootFailureEndsProcess`,
`LastReturnEndsProcess`, `QueuedConnectionsLeave`, `RequestsEnd`, `SessionEnds`, `DeadlinesEndCalls`),
because fairness and `ENABLED` are out of the prover's reach, and the four violations, which are
counterexamples. `RsvpEndToEnd` and `HttpFront` include the steps of `RsvpService` rather than refine it:
their calls are made as they go, where `RsvpService` has them from the start, so what they say of the server
rests on `Refinement` for every choice of calls.

## 5. Findings

1. `handle_leak`: two first creations both find the handle nil and both open the database; the first handle is
   never closed. `HandleUsable` shows that nothing worse happens.
2. `queries_update`: `UpdateRsvp` finds a soft-deleted row, changes nothing and reports success; and of the
   nil UUID, which `uuid.Parse` accepts, it loads the first row of the table and writes that one, or every live
   row when the load failed.
3. `form_double_submit`: nothing sets `rsvpResponse` to `Loading`, so the button stays active and a
   second click records a second RSVP.
4. `cli_hang`: `RemoteVersion` passes no deadline, so `version`, and the console before its first
   prompt, wait for ever for a service that does not answer, whatever `--timeout` says.

The second is in a function the server does not call yet. The models contain more
that no run reports:

* `FindRsvpByUUID` returns an empty struct and no error when its SELECT fails for any reason other
  than "not found";
* with the vendored SQLite both deletions fail with a syntax error (`LimitSupported = FALSE`);
  `DeleteRsvpPhysically` of a UUID in another accepted spelling succeeds and deletes nothing;
* `ListRsvps` with limit 0 counts 0 rows, since only the offset is cancelled, and with a concurrent
  deletion a page can say it is the last when it is not (`NothingMissed` leaves that case out);
* with two addresses the process goes on when one of its servers has failed;
* in the form an error answer that names no field shows nothing to the guest, and a refused
  children or music text is hidden once presence is switched off;
* in the console `jwt ""` unsets the token and then reports an error, `jwt` without a token reports an
  error instead of printing nothing, `default_timeout 0` is refused although the help says
  "(0 to disable)", and the validation in `cmdRsvpCreation` never runs, because `Validate` has a
  pointer receiver and is looked up on the value;
* the page never learns the `children_name_age`, `created_at`, `updated_at` and `deleted_at` of its row, because the gateway
  and the Elm decoder name them differently; it shows none of them today. `Request.Www.servicesStatus`
  asks for a path that has no route, and has no caller;
* the goroutines of the generated gateway handlers that watch for a closed connection are never
  started, because the response writer that prometheus hands down is no `CloseNotifier`; the request's
  context does their work, but not where the body was not read to its end: a form POST to
  `/api/v1/version` with an override to GET stays in its call, after its client has left, until the service
  answers;
* without a `ReadTimeout` a client that sends a part of its body and stays holds a handler for ever;
* a POST to `/api/v1//rsvp_creation` is redirected and arrives as a GET, which is answered 501; a path with a
  bare trailing colon is taken for the path without it; an insertion that fails in the database is answered
  400;
* an embedded functional test may fail because its server was not listening yet (one retry in two of
  the tests, none in the others), or run against another instance of the program that held the
  address, until its own server's `log.Fatal` ends it; without an embedded server its gRPC tests have
  no deadline;
* a creation whose call failed at the command line may have been recorded, and repeating it records a
  second row.

## 6. Plan

Done, in this order: `RsvpParams`, `RsvpService`, `WwwServer`, their proofs and the refinement;
`RsvpQueries`; `ServerLifecycle` and its proofs; `RsvpForm`; `RemoteCli`; `RsvpEndToEnd`;
`HttpFront`; `FuncTest`.

Then the proofs of `RsvpQueries`, `RsvpEndToEnd`, `HttpFront`, `RemoteCli` and `FuncTest`.

To come: the parts of the liveness arguments that are safety, as invariants with proofs (a call that
waits has somebody who can end it), and what `OneHandlePerProcess` is when creations do not overlap.

Not modelled: the `token` command (no state); the question the `migrate` command asks before it
flushes; the generated messages, swagger and assets as data; the layout of the form, logging, and the metrics other
than the counters the functional tests look for. `ServicesStatus` starts one goroutine for the one
service there is and waits for it, so it is the read handler of `WwwServer`. The tools under `_tools/` and the
libraries under `vendor/` are not this program; of the latter, what the modules need is modelled
where it is used.

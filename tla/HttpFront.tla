----------------------------- MODULE HttpFront ------------------------------
(***************************************************************************)
(* The HTTP/1.1 side of the server: the chain of middlewares, the router,  *)
(* the pages, and the REST gateway, which calls the gRPC service of the    *)
(* same process (RsvpService, which WwwServer is proved to implement).     *)
(*                                                                         *)
(* A request is one handler goroutine, which waits in two places and is    *)
(* one step in between.  It waits for the body it reads, for as long as    *)
(* the client likes: the http.Server has no ReadTimeout.  And it waits for *)
(* the gRPC call, while its client may leave, its deadline pass, its       *)
(* answer be lost or the process die; net/http notices that a client has   *)
(* left only once it has read that client's body to the end.               *)
(*                                                                         *)
(* A path is a location the code names, what follows it, and whether       *)
(* slashes are doubled somewhere in it.                                    *)
(***************************************************************************)
EXTENDS RsvpParams, Sequences

CONSTANTS Client,     \* one request each, with the redirects it is sent on
          Asks,       \* what they may ask for: a subset of Ask
          Cors        \* corsAllowedOrigins # ""

Creation == "/api/v1/rsvp_creation"

(* A header that is not sent, and what follows a path that ends.           *)
Absent == ""

(* routeMap: a map, so registered in any order.                            *)
routeMap == {"/api/v1/services/status", Creation, "/api/v1/version"}

(* The files of ui/assets.go: index.html and one for all the others.       *)
Assets == {"/index.html", "/favicon.ico"}

Location == routeMap \cup Assets \cup
    {"/api/v1/swagger.json", "/metrics", "/status", "/version", "/404", "/", "/missing"}
Path == [at: Location, rest: {Absent, "x", "/", "/x", ":", ":x"}, doubled: BOOLEAN]

(* A body is a JSON message or neither that nor a form, and "sized" if it  *)
(* ends with that message at its Content-Length, where a decoder meets the *)
(* end as well (of a chunked body it need not).  An "override" is the      *)
(* X-HTTP-Method-Override header, "form" the content type of one, and      *)
(* "preflight" the Access-Control-Request-Method header.  Only a POST has  *)
(* a body.                                                                 *)
Body == [json: BOOLEAN, params: Params, sized: BOOLEAN]
Ask == [path: Path, method: {"GET", "POST", "OPTIONS"}, body: Body,
        form: BOOLEAN, override: {Absent, "GET", "POST"}, preflight: BOOLEAN,
        timeout: {"none", "some", "bad"}, token: BOOLEAN]

(* What a decoder that meets the end of the body at once leaves.           *)
NoParams == [names |-> 0, email |-> FALSE, presence |-> FALSE, childrenNameAge |-> 0,
             housing |-> FALSE, music |-> 0, brunch |-> FALSE]
NoBody == [json |-> TRUE, params |-> NoParams, sized |-> TRUE]

ASSUME HttpFrontAssumption == Asks \subseteq Ask /\ Cors \in BOOLEAN

VARIABLES ask,        \* what each client asked for
          now,        \* the request it has sent last, as the handler sees it
          stage,      \* "sent", "redirected", "calling" or "ended"
          status,     \* the HTTP status, 0 for none
          gone,       \* the clients that have closed their connection
          sending,    \* the clients that have not sent all of their body
          watched,    \* the clients whose departure net/http notices in a call
          called,     \* the requests that reached the gRPC service
          order,      \* the order the range over routeMap had at start-up
          rows, outcome, reply    \* of RsvpService

service == <<rows, outcome, reply>>
fixed == <<ask, order>>
connection == <<sending, watched>>
vars == <<now, stage, status, gone, called, connection, fixed, service>>

Calls == [rpc: routeMap, token: BOOLEAN, params: {a.body.params : a \in Asks} \cup {NoParams}]
call == [c \in Client |->
           [rpc |-> IF now[c].path.at \in routeMap THEN now[c].path.at ELSE "/api/v1/version",
            token |-> now[c].token, params |-> now[c].body.params]]

(* AuthFuncOverride: a token is asked for RsvpCreation only.               *)
Permitted == {k \in Calls : k.rpc = Creation /\ k.token}

Service == INSTANCE RsvpService WITH Request <- Client, UUID <- Client

Statuses == {200, 301, 400, 401, 404, 408, 500, 501, 503, 504}

TypeOK ==
    /\ ask \in [Client -> Asks]
    /\ \A c \in Client : now[c].path \in Path /\ now[c].body \in Body
    /\ stage \in [Client -> {"sent", "redirected", "calling", "ended"}]
    /\ status \in [Client -> Statuses \cup {0}]
    /\ gone \subseteq Client
    /\ sending \subseteq Client
    /\ watched \subseteq Client
    /\ called \subseteq Client
    /\ {order[i] : i \in 1 .. 3} = routeMap
    /\ \A c \in Client : outcome[c].kind # "open" => c \in called

Init ==
    /\ ask \in [Client -> Asks]
    /\ now = ask
    /\ stage = [c \in Client |-> "sent"]
    /\ status = [c \in Client |-> 0]
    /\ gone = {}
    /\ sending = {c \in Client : ask[c].method = "POST"}
    /\ watched = {}
    /\ called = {}
    /\ order \in {o \in [1 .. 3 -> routeMap] : \A i, j \in 1 .. 3 : o[i] = o[j] => i = j}
    /\ Service!Init

-----------------------------------------------------------------------------
(* Responses *)

(* The switch over the codes; an unknown one is a 500.                     *)
StatusOf == [OK |-> 200, Canceled |-> 408, InvalidArgument |-> 400,
             DeadlineExceeded |-> 504, Unauthenticated |-> 401, Internal |-> 500,
             Unimplemented |-> 501, Unavailable |-> 503]

(* Mutants of HTTPStatusFromCode: a status of its own for a client that    *)
(* has left, or the one of its other mistakes.                             *)
HTTPStatusFromCodeOfClosed(code) == IF code = "Canceled" THEN 499 ELSE StatusOf[code]
HTTPStatusFromCodeOfCaller(code) == IF code = "Canceled" THEN 400 ELSE StatusOf[code]

HTTPStatusFromCode(code) == StatusOf[code]

Ended(c, s) ==
    /\ stage' = [stage EXCEPT ![c] = "ended"]
    /\ status' = [status EXCEPT ![c] = s]

Respond(c, s) == Ended(c, s) /\ UNCHANGED <<now, gone, called, connection, fixed, service>>

Redirect(c, path) ==
    /\ stage' = [stage EXCEPT ![c] = "redirected"]
    /\ status' = [status EXCEPT ![c] = 301]
    /\ now' = [now EXCEPT ![c].path = path]
    /\ UNCHANGED <<gone, called, connection, fixed, service>>

-----------------------------------------------------------------------------
(* The router *)

cleanPath(path) == [path EXCEPT !.doubled = FALSE]

Prefix(at, handler) == [at |-> at, exact |-> FALSE, handler |-> handler]
Exactly(at, handler) == [at |-> at, exact |-> TRUE, handler |-> handler]

Swaggers == <<Prefix("/api/v1/swagger.json", "Swagger")>>
Gateways == [i \in 1 .. 3 |-> Prefix(order[i], "gwmux")]
Metrics == <<Exactly("/metrics", "Metrics")>>

(* RegisterRoutes.                                                         *)
Pages == <<Exactly("/status", "Status"), Exactly("/version", "Version"),
           Exactly("/404", "NotFound"), Prefix("/", "Root")>>

(* Mutant of Routes: the pages are registered before the metrics.          *)
RoutesPagesFirst == Swaggers \o Gateways \o Pages \o Metrics

(* RegisterHTTPServices: the first route that matches is taken.            *)
Routes == Swaggers \o Gateways \o Metrics \o Pages

Matches(route, path) ==
    \/ route.at = "/"
    \/ path.at = route.at /\ (route.exact => path.rest = Absent)

Handler(path) ==
    LET first == CHOOSE i \in DOMAIN Routes : /\ Matches(Routes[i], path)
                                              /\ \A j \in 1 .. i - 1 : ~Matches(Routes[j], path)
    IN Routes[first].handler

-----------------------------------------------------------------------------
(* The pages *)

(* http.FileServer on a file that is there: no trailing slash, and no name *)
(* of an index page.                                                       *)
FileServer(c, path) ==
    IF path.rest = "/" THEN Redirect(c, [path EXCEPT !.rest = Absent])
    ELSE IF path.at \in {"/", "/index.html"} THEN Redirect(c, [path EXCEPT !.at = "/"])
    ELSE Respond(c, 200)

(* Mutant of Root: the index page is left to the file server.              *)
RootByFileServer(c) ==
    LET path == now[c].path IN
    IF path.at \notin Assets \cup {"/"} \/ path.rest \notin {Absent, "/"}
      THEN Respond(c, 404) ELSE FileServer(c, path)

(* The page of the wedding, or an asset: AssetInfo knows files only, and   *)
(* path.Join has dropped a trailing slash.                                 *)
Root(c) ==
    LET path == now[c].path IN
    IF path.at = "/" THEN Respond(c, 200)
    ELSE IF path.at \notin Assets \/ path.rest \notin {Absent, "/"} THEN Respond(c, 404)
    ELSE FileServer(c, path)

Page(c, handler) ==
    \/ handler = "Root" /\ Root(c)
    \/ handler = "NotFound" /\ Respond(c, 404)
    \/ handler \in {"Swagger", "Metrics", "Status", "Version"} /\ Respond(c, 200)

-----------------------------------------------------------------------------
(* The gateway *)

isPathLengthFallback(r) == r.method = "POST" /\ r.form

(* What waits for a body waits for all of it, or for the client to leave.  *)
Arrived(c) == c \notin sending \/ c \in gone

(* ParseForm reads the body of a POST, and there is nothing left of it;    *)
(* it fails when the body is cut off, or is not a form.                    *)
ParseForm(r) == IF r.method = "POST" THEN [r EXCEPT !.body = NoBody] ELSE r
ParseFormFails(c, r) == r.method = "POST" /\ (c \in sending \/ ~r.body.json)

Override(r) ==
    IF r.override # Absent /\ isPathLengthFallback(r)
      THEN [r EXCEPT !.method = r.override] ELSE r

(* Mutant of Match: a pattern is taken for a prefix.                       *)
MatchPrefix(path) == path.rest \in {Absent, ":", "/", "/x", ":x"}

(* Pattern.Match: every component, and no verb; an empty verb is none.     *)
Match(path) == path.rest \in {Absent, ":"}

MethodOf(at) == IF at = Creation THEN "POST" ELSE "GET"

(* Mutant of ReadToEnd: the message is read and never the end behind it.   *)
ReadToMessage(c, r) == {now[c].method # "POST"}

(* Whether the body has been read to its end when the call is made.  What  *)
(* ParseForm leaves is that end; of a GET that came as a POST nothing was  *)
(* read; and a JSON decoder stops behind the message.                      *)
ReadToEnd(c, r) ==
    IF r.method # now[c].method THEN {FALSE} ELSE IF r.body.sized THEN {TRUE} ELSE BOOLEAN

(* AnnotateContext, the decoding of the message, and the gRPC call.        *)
CallService(c, r) ==
    \/ /\ r.timeout = "bad"
       /\ Respond(c, HTTPStatusFromCode("InvalidArgument"))
    \/ /\ r.timeout # "bad"
       /\ r.path.at = Creation => Arrived(c)
       /\ IF r.path.at = Creation /\ (c \in sending \/ ~r.body.json)
            THEN Respond(c, HTTPStatusFromCode("InvalidArgument"))
            ELSE /\ now' = [now EXCEPT ![c] = r]
                 /\ stage' = [stage EXCEPT ![c] = "calling"]
                 /\ called' = called \cup {c}
                 /\ \E end \in ReadToEnd(c, r) :
                        watched' = IF end THEN watched \cup {c} ELSE watched
                 /\ UNCHANGED <<status, gone, sending, fixed, service>>

(* ServeMux.ServeHTTP of grpc-gateway: the handler of the method, or that  *)
(* of another method for the POST of a form, which is read as such.        *)
gwmux(c) ==
    LET r == Override(now[c])
        other == Match(r.path) /\ r.method # MethodOf(r.path.at)
        form == \/ now[c].override # Absent /\ isPathLengthFallback(now[c])
                \/ other /\ isPathLengthFallback(r)
    IN /\ form /\ r.method = "POST" => Arrived(c)
       /\ IF form /\ ParseFormFails(c, r)
            THEN Respond(c, HTTPStatusFromCode("InvalidArgument"))
          ELSE IF ~Match(r.path) \/ (other /\ ~isPathLengthFallback(r))
            THEN Respond(c, HTTPStatusFromCode("Unimplemented"))
          ELSE CallService(c, IF form THEN ParseForm(r) ELSE r)

(* The negroni chain: the preflight of rs/cors answers by itself, and the  *)
(* router cleans the path before it looks for a route.                     *)
ServeHTTP(c) ==
    LET path == now[c].path IN
    /\ stage[c] = "sent"
    /\ IF Cors /\ now[c].method = "OPTIONS" /\ now[c].preflight THEN Respond(c, 200)
       ELSE IF cleanPath(path) # path THEN Redirect(c, cleanPath(path))
       ELSE IF Handler(path) = "gwmux" THEN gwmux(c)
       ELSE Page(c, Handler(path))

-----------------------------------------------------------------------------
(* The end of a call *)

(* The code of a call that the service declined: its token, its message,   *)
(* or the database (an insertion that fails is an InvalidArgument too).    *)
CodesOf(c) ==
    IF reply[c].kind = "created" \/ call[c].rpc # Creation THEN {"OK"}
    ELSE IF ~call[c].token THEN {"Unauthenticated"}
    ELSE IF Validate(call[c].params) # Valid THEN {"InvalidArgument"}
    ELSE {"InvalidArgument", "Internal"}

(* ForwardResponseMessage, or HTTPError with the code.                     *)
Forward(c) ==
    /\ stage[c] = "calling"
    /\ reply[c].kind \in {"created", "declined"}
    /\ \E code \in CodesOf(c) : Respond(c, HTTPStatusFromCode(code))

(* The call ends without the service's answer.                             *)
Abandon(c, code) ==
    /\ stage[c] = "calling"
    /\ UNCHANGED <<now, gone, called, connection, fixed>>
    /\ Service!Lose(c)
    /\ Ended(c, HTTPStatusFromCode(code))

(* The writer that negroni and prometheus hand down is no CloseNotifier,   *)
(* so the goroutine that would watch for the client is never started.      *)
CloseNotifier == FALSE

(* Mutant of Cancel: the context of the call is not the request's.         *)
CancelByWatcher(c) == CloseNotifier /\ c \in gone /\ Abandon(c, "Canceled")

(* The context of the call derives from the request's, which the HTTP      *)
(* server cancels when it notices that the connection is closed.           *)
Cancel(c) == c \in gone /\ c \in watched /\ Abandon(c, "Canceled")

(* The Grpc-Timeout header; there is no deadline without it.               *)
Deadline(c) == now[c].timeout = "some" /\ Abandon(c, "DeadlineExceeded")

(* The connection to the gRPC server breaks, or is not there.              *)
Unavailable(c) == Abandon(c, "Unavailable")

-----------------------------------------------------------------------------
(* The client and the rest of the world *)

(* The rest of a body arrives.                                             *)
BodyArrives(c) ==
    /\ c \in sending
    /\ c \notin gone
    /\ stage[c] # "ended"
    /\ sending' = sending \ {c}
    /\ UNCHANGED <<now, stage, status, gone, called, watched, fixed, service>>

(* A redirection is followed; a POST becomes a GET without a body.         *)
Follow(c) ==
    /\ stage[c] = "redirected"
    /\ stage' = [stage EXCEPT ![c] = "sent"]
    /\ status' = [status EXCEPT ![c] = 0]
    /\ now' = IF now[c].method = "POST"
                THEN [now EXCEPT ![c].method = "GET", ![c].body = NoBody, ![c].form = FALSE]
                ELSE now
    /\ sending' = sending \ {c}
    /\ UNCHANGED <<gone, called, watched, fixed, service>>

Disconnect(c) ==
    /\ c \notin gone
    /\ stage[c] # "ended"
    /\ gone' = gone \cup {c}
    /\ stage' = [stage EXCEPT ![c] = IF @ = "redirected" THEN "ended" ELSE @]
    /\ UNCHANGED <<now, status, called, connection, fixed, service>>

(* The gRPC service goes on with a call, also one whose handler has ended. *)
Serve(c) ==
    /\ c \in called
    /\ UNCHANGED <<now, stage, status, gone, called, connection, fixed>>
    /\ \/ Service!Create(c)
       \/ Service!Decline(c)
       \/ stage[c] = "calling" /\ Service!Answer(c)

(* The process dies with the handlers and the calls, and is started again; *)
(* or an operator empties the table.                                       *)
Disturb ==
    /\ UNCHANGED <<now, status, gone, called, connection, fixed>>
    /\ \/ /\ Service!Kill
          /\ \A c \in Client :
               /\ c \notin called => outcome'[c] = outcome[c] /\ reply'[c] = reply[c]
               /\ c \in called => outcome'[c].kind # "open" /\ reply'[c].kind # "waiting"
          /\ stage' = [c \in Client |->
                 IF stage[c] = "redirected" THEN "redirected" ELSE "ended"]
       \/ Service!Erase /\ UNCHANGED stage

Ends(c) == Forward(c) \/ Cancel(c) \/ Deadline(c)

Next ==
    \/ \E c \in Client : \/ ServeHTTP(c) \/ Ends(c) \/ Unavailable(c)
                         \/ BodyArrives(c) \/ Follow(c) \/ Disconnect(c) \/ Serve(c)
    \/ Disturb

(* A handler that has what it waits for runs, a deadline passes, and a     *)
(* departure that net/http watches for is noticed.  Nobody has to send the *)
(* rest of a body, or to leave; what the code asks of a client that stays  *)
(* is to follow its redirections, and before the body has arrived not even *)
(* that.  Nothing is asked of the gRPC service or the connection to it.    *)
Fairness ==
    \A c \in Client : /\ WF_vars(Arrived(c) /\ ServeHTTP(c))
                      /\ WF_vars(Arrived(c) /\ Follow(c))
                      /\ WF_vars(Ends(c))

Spec == Init /\ [][Next]_vars /\ Fairness

-----------------------------------------------------------------------------
(* Properties *)

(* What the status tells a client, also one that heard of it after the     *)
(* service had already gone on: a 200 from rsvp_creation is the row of     *)
(* that very message, and with any other status than the three of a lost   *)
(* call (408, 503, 504) no row was or will be recorded.  The error paths   *)
(* of the generated handlers and HTTPStatusFromCode.                       *)
HttpTellsTruth ==
    \A c \in Client :
        /\ status[c] = 200 /\ c \in called /\ call[c].rpc = Creation =>
             {row.params : row \in outcome[c].row} = {ask[c].body.params}
        /\ status[c] \in {301, 400, 401, 404, 500, 501} => outcome[c].kind # "created"

(* An RSVP is recorded for the POST of a JSON message to the very path,    *)
(* with a token: neither a redirection (which forgets the body), a longer  *)
(* path under the same prefix, the fallback between methods, an override   *)
(* nor a preflight leads to one.  The handlers are not wrapped in the JWT  *)
(* middleware: "it's already secured".                                     *)
OnlyThePostRecords ==
    \A c \in Client : outcome[c].kind = "created" =>
        LET a == ask[c] IN
        /\ a.path.at = Creation /\ a.path.rest \in {Absent, ":"} /\ ~a.path.doubled
        /\ a.method = "POST" /\ a.token /\ a.body.json
        /\ \A row \in outcome[c].row : row.params = a.body.params

(* Whatever the order of the map and however the path is written, a GET    *)
(* reaches the handler registered for it: no route hides another one, and  *)
(* the redirections end at the page.  RegisterHTTPServices, RegisterRoutes *)
(* and Root.                                                               *)
PagesAnswer ==
    \A c \in Client :
        LET a == ask[c] IN
        stage[c] = "ended" /\ c \notin gone /\ status[c] # 0 /\ a.method = "GET" /\ a.path.rest = Absent =>
            \/ a.path.at \in {"/404", "/missing"} /\ status[c] = 404
            \/ a.path.at = Creation /\ status[c] = 501
            \/ a.path.at \in routeMap /\ status[c] \in {503, 504}
            \/ a.path.at \in routeMap /\ a.timeout = "bad" /\ status[c] = 400
            \/ a.path.at \notin {"/404", "/missing", Creation} /\ status[c] = 200

(* The requests whose client is missed as soon as it leaves: there is no   *)
(* body, or the gateway reads it to its end.                               *)
Missed(a) ==
    \/ a.method # "POST"
    \/ IF a.form /\ (a.path.at # Creation \/ a.override = "POST")
         THEN a.override # "GET" ELSE a.body.sized

(* A request whose body is there, or whose client has left, comes to its   *)
(* answer or to the gRPC call, so no redirection leads back to itself and  *)
(* a body that is cut off holds no handler.  A handler in the call ends,   *)
(* although the service may never answer, once its deadline has passed or  *)
(* its client, if it is one of those that are missed, has left.  ServeHTTP *)
(* of the server and of grpc-gateway, and its generated handlers.          *)
RequestsEnd ==
    \A c \in Client :
        /\ stage[c] = "sent" /\ Arrived(c) ~> stage[c] \in {"calling", "ended"}
        /\ stage[c] = "calling" /\ (ask[c].timeout = "some" \/ (c \in gone /\ Missed(ask[c])))
             ~> stage[c] = "ended"
=============================================================================

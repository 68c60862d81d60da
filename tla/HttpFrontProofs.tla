--------------------------- MODULE HttpFrontProofs --------------------------
(***************************************************************************)
(* What a status says of an RSVP, what records one, and which page answers *)
(* which path, proved for any clients, requests and interleaving.          *)
(***************************************************************************)
EXTENDS HttpFront, SequenceTheorems, TLAPS

-----------------------------------------------------------------------------
(* The router *)

Orders == {o \in [1 .. 3 -> routeMap] : \A i, j \in 1 .. 3 : o[i] = o[j] => i = j}

Handlers == {"Swagger", "gwmux", "Metrics", "Status", "Version", "NotFound", "Root"}

(* The elements of a concatenation.                                        *)
Joins(u, s, t) ==
    /\ Len(u) = Len(s) + Len(t)
    /\ \A i \in 1 .. Len(s) : u[i] = s[i]
    /\ \A i \in 1 .. Len(t) : u[Len(s) + i] = t[i]

LEMMA Concat ==
    ASSUME NEW S, NEW s \in Seq(S), NEW t \in Seq(S)
    PROVE  s \o t \in Seq(S) /\ Joins(s \o t, s, t)
<1>1. /\ s \o t \in Seq(S) /\ Len(s) \in Nat /\ Len(t) \in Nat
      /\ Len(s \o t) = Len(s) + Len(t)
      /\ \A i \in 1 .. Len(s) + Len(t) : (s \o t)[i] = IF i <= Len(s) THEN s[i] ELSE t[i - Len(s)]
  BY ConcatProperties, LenProperties
<1>2. ASSUME NEW i \in 1 .. Len(t)
      PROVE  (s \o t)[Len(s) + i] = t[i]
  <2>1. /\ Len(s) + i \in 1 .. Len(s) + Len(t) /\ ~(Len(s) + i <= Len(s))
        /\ (Len(s) + i) - Len(s) = i
    BY <1>1
  <2>2. QED
    BY <1>1, <2>1
<1>3. QED
  BY <1>1, <1>2 DEF Joins

(* The nine routes, in the order they are registered.                      *)
LEMMA RoutesAre ==
    ASSUME order \in Orders
    PROVE  /\ DOMAIN Routes = 1 .. 9
           /\ Routes[1] = Prefix("/api/v1/swagger.json", "Swagger")
           /\ \A i \in 1 .. 3 : Routes[1 + i] = Prefix(order[i], "gwmux")
           /\ Routes[5] = Exactly("/metrics", "Metrics")
           /\ Routes[6] = Exactly("/status", "Status")
           /\ Routes[7] = Exactly("/version", "Version")
           /\ Routes[8] = Exactly("/404", "NotFound")
           /\ Routes[9] = Prefix("/", "Root")
<1> DEFINE Route == [at: Location, exact: BOOLEAN, handler: Handlers]
<1>1. order \in [1 .. 3 -> Location]
  BY DEF Orders, Location
<1>2. Swaggers \in Seq(Route) /\ Len(Swaggers) = 1
  BY DEF Swaggers, Prefix, Location, Handlers
<1>3. Gateways \in Seq(Route) /\ Len(Gateways) = 3
  <2>1. Gateways \in [1 .. 3 -> Route]
    BY <1>1 DEF Gateways, Prefix, Handlers
  <2>2. Gateways \in Seq(Route)
    BY <2>1, SeqDef
  <2>3. DOMAIN Gateways = 1 .. Len(Gateways) /\ Len(Gateways) \in Nat
    BY <2>2, LenProperties
  <2>4. DOMAIN Gateways = 1 .. 3
    BY <2>1
  <2>5. \A n \in Nat : 1 .. n = 1 .. 3 => n = 3
    <3>1. SUFFICES ASSUME NEW n \in Nat, 1 .. n = 1 .. 3 PROVE n = 3
      OBVIOUS
    <3>2. 3 \in 1 .. n
      BY <3>1
    <3>3. n \in 1 .. n
      BY <3>2
    <3>4. n \in 1 .. 3
      BY <3>1, <3>3
    <3>5. QED
      BY <3>2, <3>4
  <2>6. QED
    BY <2>2, <2>3, <2>4, <2>5
<1>4. Metrics \in Seq(Route) /\ Len(Metrics) = 1
  BY DEF Metrics, Exactly, Location, Handlers
<1>5. Pages \in Seq(Route) /\ Len(Pages) = 4
  BY DEF Pages, Exactly, Prefix, Location, Handlers
<1> HIDE DEF Route
<1> DEFINE four == Swaggers \o Gateways
           five == four \o Metrics
           nine == five \o Pages
<1>6. four \in Seq(Route) /\ Joins(four, Swaggers, Gateways)
  BY <1>2, <1>3, Concat
<1> HIDE DEF four
<1>7. Len(four) = 4 /\ four[1] = Swaggers[1] /\ \A i \in 1 .. 3 : four[1 + i] = Gateways[i]
  BY <1>2, <1>3, <1>6 DEF Joins
<1>8. five \in Seq(Route) /\ Joins(five, four, Metrics)
  BY <1>4, <1>6, Concat
<1> HIDE DEF five
<1>9. Len(five) = 5 /\ (\A i \in 1 .. 4 : five[i] = four[i]) /\ five[5] = Metrics[1]
  BY <1>4, <1>7, <1>8 DEF Joins
<1>10. nine \in Seq(Route) /\ Joins(nine, five, Pages)
  BY <1>5, <1>8, Concat
<1> HIDE DEF nine
<1>11. Len(nine) = 9 /\ (\A i \in 1 .. 5 : nine[i] = five[i]) /\ \A i \in 1 .. 4 : nine[5 + i] = Pages[i]
  BY <1>5, <1>9, <1>10 DEF Joins
<1>12. Routes = nine
  BY DEF Routes, nine, five, four
<1>13. DOMAIN Routes = 1 .. 9
  BY <1>10, <1>11, <1>12, LenProperties
<1>14. Routes[1] = Swaggers[1] /\ \A i \in 1 .. 3 : Routes[1 + i] = Gateways[i]
  BY <1>7, <1>9, <1>11, <1>12
<1>15. Routes[5] = Metrics[1]
  BY <1>9, <1>11, <1>12
<1>16. Routes[6] = Pages[1] /\ Routes[7] = Pages[2] /\ Routes[8] = Pages[3] /\ Routes[9] = Pages[4]
  BY <1>11, <1>12
<1>17. QED
  BY <1>13, <1>14, <1>15, <1>16 DEF Swaggers, Gateways, Metrics, Pages

LEMMA FirstRoute ==
    ASSUME order \in Orders, NEW path, NEW i \in 1 .. 9,
           Matches(Routes[i], path), \A j \in 1 .. i - 1 : ~Matches(Routes[j], path)
    PROVE  Handler(path) = Routes[i].handler
<1> DEFINE first == CHOOSE k \in DOMAIN Routes : /\ Matches(Routes[k], path)
                                                 /\ \A j \in 1 .. k - 1 : ~Matches(Routes[j], path)
<1>1. DOMAIN Routes = 1 .. 9
  BY RoutesAre
<1>2. first \in 1 .. 9 /\ Matches(Routes[first], path)
      /\ \A j \in 1 .. first - 1 : ~Matches(Routes[j], path)
  BY <1>1
<1> HIDE DEF first
<1>3. first = i
  BY <1>2
<1> USE DEF first
<1>4. QED
  BY <1>3 DEF Handler

(* Whatever the order of the map: no route of it hides another.            *)
LEMMA HandlerIs ==
    ASSUME order \in Orders, NEW path \in Path
    PROVE  /\ path.at = "/api/v1/swagger.json" => Handler(path) = "Swagger"
           /\ Handler(path) = "gwmux" <=> path.at \in routeMap
           /\ path.at = "/metrics" /\ path.rest = Absent => Handler(path) = "Metrics"
           /\ path.at = "/status" /\ path.rest = Absent => Handler(path) = "Status"
           /\ path.at = "/version" /\ path.rest = Absent => Handler(path) = "Version"
           /\ path.at = "/404" /\ path.rest = Absent => Handler(path) = "NotFound"
           /\ path.at \in Assets \cup {"/", "/missing"} => Handler(path) = "Root"
           /\ Handler(path) \in Handlers
<1> USE DEF routeMap, Creation, Assets, Handlers
<1>1. order[1] \in routeMap /\ order[2] \in routeMap /\ order[3] \in routeMap
      /\ order[1] # order[2] /\ order[1] # order[3] /\ order[2] # order[3]
  BY DEF Orders
<1>2. /\ Routes[1] = Prefix("/api/v1/swagger.json", "Swagger")
      /\ Routes[2] = Prefix(order[1], "gwmux")
      /\ Routes[3] = Prefix(order[2], "gwmux")
      /\ Routes[4] = Prefix(order[3], "gwmux")
      /\ Routes[5] = Exactly("/metrics", "Metrics")
      /\ Routes[6] = Exactly("/status", "Status")
      /\ Routes[7] = Exactly("/version", "Version")
      /\ Routes[8] = Exactly("/404", "NotFound")
      /\ Routes[9] = Prefix("/", "Root")
  BY RoutesAre
<1>3. /\ Matches(Routes[1], path) <=> path.at = "/api/v1/swagger.json"
      /\ Matches(Routes[2], path) <=> path.at = order[1]
      /\ Matches(Routes[3], path) <=> path.at = order[2]
      /\ Matches(Routes[4], path) <=> path.at = order[3]
      /\ Matches(Routes[5], path) <=> path.at = "/metrics" /\ path.rest = Absent
      /\ Matches(Routes[6], path) <=> path.at = "/status" /\ path.rest = Absent
      /\ Matches(Routes[7], path) <=> path.at = "/version" /\ path.rest = Absent
      /\ Matches(Routes[8], path) <=> path.at = "/404" /\ path.rest = Absent
      /\ Matches(Routes[9], path)
  BY <1>1, <1>2 DEF Matches, Prefix, Exactly
<1>4. ASSUME NEW i \in 1 .. 9, Matches(Routes[i], path),
             \A j \in 1 .. 9 : j < i => ~Matches(Routes[j], path)
      PROVE  Handler(path) = Routes[i].handler
  BY <1>4, FirstRoute
<1>5. /\ Routes[1].handler = "Swagger" /\ Routes[2].handler = "gwmux"
      /\ Routes[3].handler = "gwmux" /\ Routes[4].handler = "gwmux"
      /\ Routes[5].handler = "Metrics" /\ Routes[6].handler = "Status"
      /\ Routes[7].handler = "Version" /\ Routes[8].handler = "NotFound"
      /\ Routes[9].handler = "Root"
  BY <1>2 DEF Prefix, Exactly
<1>6. \A k : k \in routeMap <=> k \in {order[1], order[2], order[3]}
  BY <1>1
<1>7. CASE path.at = "/api/v1/swagger.json"
  <2>1. Handler(path) = "Swagger"
    BY <1>3, <1>4, <1>5, <1>7
  <2>2. QED
    BY <1>7, <2>1
<1>8. CASE path.at \in routeMap
  <2>1. CASE path.at = order[1]
    BY <1>1, <1>3, <1>4, <1>5, <2>1
  <2>2. CASE path.at = order[2]
    BY <1>1, <1>3, <1>4, <1>5, <2>2
  <2>3. CASE path.at = order[3]
    BY <1>1, <1>3, <1>4, <1>5, <2>3
  <2>4. QED
    BY <1>6, <1>8, <2>1, <2>2, <2>3
<1>9. CASE path.at \notin routeMap \cup {"/api/v1/swagger.json"}
  <2>1. /\ ~Matches(Routes[1], path) /\ ~Matches(Routes[2], path)
        /\ ~Matches(Routes[3], path) /\ ~Matches(Routes[4], path)
    BY <1>1, <1>3, <1>9
  <2>2. CASE Matches(Routes[5], path)
    BY <1>3, <1>4, <1>5, <2>1, <2>2
  <2>3. CASE Matches(Routes[6], path)
    BY <1>3, <1>4, <1>5, <2>1, <2>3
  <2>4. CASE Matches(Routes[7], path)
    BY <1>3, <1>4, <1>5, <2>1, <2>4
  <2>5. CASE Matches(Routes[8], path)
    BY <1>3, <1>4, <1>5, <2>1, <2>5
  <2>6. CASE \A i \in 5 .. 8 : ~Matches(Routes[i], path)
    <3>1. Handler(path) = "Root"
      BY <1>3, <1>4, <1>5, <2>1, <2>6
    <3>2. QED
      BY <1>3, <1>9, <2>6, <3>1
  <2>7. QED
    BY <2>2, <2>3, <2>4, <2>5, <2>6
<1>10. QED
  BY <1>7, <1>8, <1>9

-----------------------------------------------------------------------------
(* The inductive invariant *)

Stages == {"sent", "redirected", "calling", "ended"}
Rows == [uuid: Client, by: Client, params: Params]
Did == [kind: {"open", "created", "declined"}, row: SUBSET Rows]
Knows == [kind: {"waiting", "created", "declined", "unknown"}, row: SUBSET Rows]

FrontType ==
    /\ ask \in [Client -> Asks]
    /\ now \in [Client -> Ask]
    /\ stage \in [Client -> Stages]
    /\ status \in [Client -> Statuses \cup {0}]
    /\ gone \subseteq Client
    /\ called \subseteq Client
    /\ order \in Orders

ServiceType ==
    /\ outcome \in [Client -> Did]
    /\ reply \in [Client -> Knows]

(* What the service has done of a call, and what its handler was told.     *)
CallOf(c) ==
    /\ c \notin called => outcome[c].kind = "open" /\ reply[c].kind = "waiting"
    /\ outcome[c].kind = "created" =>
         /\ call[c] \in Permitted
         /\ Validate(call[c].params) = Valid
         /\ \E row \in Rows : outcome[c].row = {row} /\ row.params = call[c].params
    /\ reply[c].kind \in {"created", "declined"} => reply[c] = outcome[c]

(* Where a request is, and what a status says of its call.                 *)
StatusOfCall(c) ==
    /\ stage[c] \in {"sent", "calling"} => status[c] = 0
    /\ stage[c] = "calling" => c \in called
    /\ c \in called =>
         stage[c] \in {"calling", "ended"}
    /\ c \in called =>
         \/ status[c] \in {0, 408, 503, 504}
         \/ status[c] = 200 /\ reply[c].kind = "created"
         \/ reply[c].kind = "declined" /\ (call[c].rpc = Creation => status[c] # 200)

(* A POST that was redirected is none any more, so a call to RsvpCreation  *)
(* is the one that was asked for, with its message or with none.           *)
PostOf(c) ==
    /\ now[c].token = ask[c].token
    /\ stage[c] = "sent" /\ now[c].method = "POST" => now[c] = ask[c]
    /\ c \in called /\ now[c].path.at = Creation =>
         /\ now[c].path = ask[c].path
         /\ Match(ask[c].path) /\ ~ask[c].path.doubled
         /\ ask[c].method = "POST" /\ ask[c].body.json
         /\ now[c].body \in {ask[c].body, NoBody}

(* What the page of a path answers.                                        *)
Told(path, timeout, s) ==
    \/ path.at \in {"/404", "/missing"} /\ s = 404
    \/ path.at = Creation /\ s = 501
    \/ path.at \in routeMap /\ s \in {503, 504}
    \/ path.at \in routeMap /\ timeout = "bad" /\ s = 400
    \/ path.at \notin {"/404", "/missing", Creation} /\ s = 200

PlainGet(r) == r.method = "GET" /\ r.path.rest = Absent

(* A GET stays one, for the page that was asked for or, instead of the     *)
(* index page, for the root.                                               *)
GetOf(c) ==
    PlainGet(ask[c]) =>
        /\ PlainGet(now[c])
        /\ now[c].timeout = ask[c].timeout
        /\ \/ now[c].path.at = ask[c].path.at
           \/ now[c].path.at = "/" /\ ask[c].path.at = "/index.html"
        /\ c \in called => now[c].path.at \in routeMap \ {Creation}
        /\ stage[c] = "ended" =>
             \/ c \in gone
             \/ status[c] = 0
             \/ Told(now[c].path, now[c].timeout, status[c])

RequestInv == \A c \in Client : CallOf(c) /\ StatusOfCall(c) /\ PostOf(c) /\ GetOf(c)

IInv == FrontType /\ ServiceType /\ RequestInv

(* A step changes nothing of the other clients' requests.                  *)
Alone(c) ==
    \A d \in Client \ {c} :
        /\ now'[d] = now[d] /\ stage'[d] = stage[d] /\ status'[d] = status[d]
        /\ (d \in gone)' <=> d \in gone
        /\ (d \in called)' <=> d \in called
        /\ outcome'[d] = outcome[d] /\ reply'[d] = reply[d]

LEMMA OthersStay ==
    ASSUME RequestInv, NEW c \in Client, Alone(c), ask' = ask, NEW d \in Client \ {c}
    PROVE  (CallOf(d) /\ StatusOfCall(d) /\ PostOf(d) /\ GetOf(d))'
<1>1. call'[d] = call[d]
  BY DEF call, Alone
<1>2. CallOf(d) /\ StatusOfCall(d) /\ PostOf(d) /\ GetOf(d)
  BY DEF RequestInv
<1>3. CallOf(d)'
  BY <1>1, <1>2 DEF CallOf, Alone
<1>4. StatusOfCall(d)'
  BY <1>1, <1>2 DEF StatusOfCall, Alone
<1>5. PostOf(d)'
  BY <1>2 DEF PostOf, Alone
<1>6. GetOf(d)'
  BY <1>2 DEF GetOf, Alone
<1>7. QED
  BY <1>3, <1>4, <1>5, <1>6

-----------------------------------------------------------------------------
(* What the front does with a request *)

Responds(c) ==
    \E s \in Statuses \ {301} :
        /\ Respond(c, s)
        /\ PlainGet(now[c]) => Told(now[c].path, now[c].timeout, s)

Redirects(c) ==
    \E path \in Path :
        /\ Redirect(c, path)
        /\ now[c].path.rest = Absent =>
             /\ path.rest = Absent
             /\ \/ path.at = now[c].path.at
                \/ path.at = "/" /\ now[c].path.at = "/index.html"

(* The call is made for the path and with the token of the request; for    *)
(* RsvpCreation, by a POST with the message it had, or without any.        *)
RoutedAs(c, r) ==
    /\ r.path = now[c].path /\ r.token = now[c].token /\ r.timeout = now[c].timeout
    /\ r.path.at \in routeMap
    /\ PlainGet(now[c]) => r.method = "GET" /\ r.path.at # Creation
    /\ r.path.at = Creation => Match(r.path) /\ ~r.path.doubled /\ now[c].method = "POST"

CallFor(c, r) ==
    /\ RoutedAs(c, r)
    /\ r.path.at = Creation => now[c].body.json /\ r.body \in {now[c].body, NoBody}

CallsService(c) ==
    \E r \in Ask :
        /\ CallFor(c, r)
        /\ now' = [now EXCEPT ![c] = r]
        /\ stage' = [stage EXCEPT ![c] = "calling"]
        /\ called' = called \cup {c}
        /\ watched' \subseteq watched \cup {c}
        /\ UNCHANGED <<status, gone, sending, fixed, service>>

LEMMA AbsentIs ==
    Absent \notin {"x", "/", "/x", ":", ":x", "GET", "POST"}
BY Zenon DEF Absent

LEMMA NothingType ==
    NoParams \in Params /\ NoBody \in Body /\ NoBody.json /\ NoBody.params = NoParams
<1>1. NoParams \in Params
  BY DEF NoParams, Params
<1>2. QED
  BY <1>1 DEF NoBody, Body

(* A message that arrives with an error of the client, or as a call.       *)
LEMMA CallServiceEffect ==
    ASSUME NEW c \in Client, NEW r \in Ask, CallService(c, r), RoutedAs(c, r),
           r.path.at = Creation /\ r.body.json =>
             now[c].body.json /\ r.body \in {now[c].body, NoBody}
    PROVE  Responds(c) \/ CallsService(c)
<1> DEFINE cut == r.path.at = Creation /\ (c \in sending \/ ~r.body.json)
<1>1. CASE /\ r.timeout = "bad" \/ r.path.at = Creation
           /\ Respond(c, HTTPStatusFromCode("InvalidArgument"))
  <2>1. Respond(c, 400)
    BY <1>1 DEF HTTPStatusFromCode, StatusOf
  <2>2. PlainGet(now[c]) => Told(now[c].path, now[c].timeout, 400)
    BY <1>1 DEF Told, RoutedAs
  <2>3. QED
    BY <2>1, <2>2 DEF Responds, Statuses
<1>2. CASE /\ r.timeout # "bad" /\ ~cut
           /\ now' = [now EXCEPT ![c] = r]
           /\ stage' = [stage EXCEPT ![c] = "calling"]
           /\ called' = called \cup {c}
           /\ \E end \in ReadToEnd(c, r) :
                 watched' = IF end THEN watched \cup {c} ELSE watched
           /\ UNCHANGED <<status, gone, sending, fixed, service>>
  <2>1. CallFor(c, r)
    BY <1>2 DEF CallFor
  <2>2. watched' \subseteq watched \cup {c}
    BY <1>2
  <2>3. QED
    BY <1>2, <2>1, <2>2 DEF CallsService
<1>3. QED
  BY <1>1, <1>2 DEF CallService

LEMMA gwmuxEffect ==
    ASSUME FrontType, NEW c \in Client, gwmux(c),
           now[c].path.at \in routeMap, ~now[c].path.doubled
    PROVE  Responds(c) \/ CallsService(c)
<1> DEFINE q == now[c]
           r == Override(q)
           parsed == q.override # Absent /\ isPathLengthFallback(q)
           other == Match(r.path) /\ r.method # MethodOf(r.path.at)
           form == parsed \/ (other /\ isPathLengthFallback(r))
           read == IF form THEN ParseForm(r) ELSE r
<1>1. q \in Ask
  BY DEF FrontType
<1>2. /\ r \in Ask /\ r.path = q.path /\ r.token = q.token /\ r.timeout = q.timeout
      /\ r.body = q.body /\ r.form = q.form
      /\ r.method # q.method => q.method = "POST" /\ parsed
  BY <1>1, AbsentIs DEF Override, Ask, isPathLengthFallback
<1>3. ParseForm(r) \in Ask /\ ParseForm(r) \in {r, [r EXCEPT !.body = NoBody]}
  BY <1>2, NothingType DEF ParseForm, Ask
<1>4. \/ /\ form /\ r.method = "POST"
         /\ Respond(c, HTTPStatusFromCode("InvalidArgument"))
      \/ /\ ~Match(r.path)
         /\ Respond(c, HTTPStatusFromCode("Unimplemented"))
      \/ /\ r.method # MethodOf(r.path.at)
         /\ Respond(c, HTTPStatusFromCode("Unimplemented"))
      \/ /\ form => ~ParseFormFails(c, r)
         /\ Match(r.path) /\ (r.method = MethodOf(r.path.at) \/ isPathLengthFallback(r))
         /\ CallService(c, read)
  BY DEF gwmux, ParseFormFails
<1> HIDE DEF r, read
<1>5. PlainGet(q) => q.method = "GET" /\ r.method = "GET" /\ ~parsed /\ Match(r.path)
                     /\ ~isPathLengthFallback(r)
  BY <1>2 DEF PlainGet, Match, isPathLengthFallback
<1>6. ASSUME ~PlainGet(q), NEW code \in {"InvalidArgument", "Unimplemented"},
             Respond(c, HTTPStatusFromCode(code))
      PROVE  Responds(c)
  BY <1>6 DEF Responds, HTTPStatusFromCode, StatusOf, Statuses
<1>7. CASE form /\ r.method = "POST" /\ Respond(c, HTTPStatusFromCode("InvalidArgument"))
  BY <1>5, <1>6, <1>7
<1>8. CASE ~Match(r.path) /\ Respond(c, HTTPStatusFromCode("Unimplemented"))
  BY <1>5, <1>6, <1>8
<1>10. CASE r.method # MethodOf(r.path.at) /\ Respond(c, HTTPStatusFromCode("Unimplemented"))
  <2>1. Respond(c, 501)
    BY <1>10 DEF HTTPStatusFromCode, StatusOf
  <2>2. PlainGet(q) => q.path.at = Creation
    BY <1>2, <1>5, <1>10 DEF MethodOf
  <2>3. PlainGet(q) => Told(q.path, q.timeout, 501)
    BY <2>2 DEF Told
  <2>4. QED
    BY <2>1, <2>3 DEF Responds, Statuses
<1>11. ASSUME NEW m \in Ask, m \in {r, [r EXCEPT !.body = NoBody]}, CallService(c, m), Match(r.path),
              r.path.at = Creation => q.method = "POST",
              r.path.at = Creation /\ m.body.json => q.body.json,
              PlainGet(q) => r.path.at # Creation
       PROVE  Responds(c) \/ CallsService(c)
  <2>1. /\ m.path = r.path /\ m.token = r.token /\ m.timeout = r.timeout /\ m.method = r.method
        /\ m.body \in {r.body, NoBody}
    BY <1>2, <1>11 DEF Ask
  <2>2. RoutedAs(c, m)
    BY <1>2, <1>5, <1>11, <2>1 DEF RoutedAs
  <2>3. QED
    BY <1>2, <1>11, <2>1, <2>2, CallServiceEffect
<1>12. CASE /\ form => ~ParseFormFails(c, r)
            /\ Match(r.path) /\ (r.method = MethodOf(r.path.at) \/ isPathLengthFallback(r))
            /\ CallService(c, read)
  <2>1. read \in Ask /\ read \in {r, [r EXCEPT !.body = NoBody]}
    BY <1>2, <1>3 DEF read
  <2>2. PlainGet(q) => r.path.at # Creation
    BY <1>5, <1>12 DEF MethodOf
  <2>3. r.path.at = Creation => r.method = "POST"
    BY <1>12 DEF MethodOf, isPathLengthFallback
  <2>4. r.path.at = Creation => q.method = "POST"
    BY <1>2, <2>3
  <2>5. r.path.at = Creation /\ read.body.json => q.body.json
    BY <1>2, <1>12, <2>3 DEF read, ParseFormFails
  <2>6. QED
    BY <1>11, <1>12, <2>1, <2>2, <2>4, <2>5
<1>13. QED
  BY <1>4, <1>7, <1>8, <1>10, <1>12

LEMMA PageEffect ==
    ASSUME FrontType, NEW c \in Client, now[c].path.at \notin routeMap,
           Page(c, Handler(now[c].path))
    PROVE  Responds(c) \/ Redirects(c)
<1> DEFINE path == now[c].path
<1>1. path \in Path
  BY DEF FrontType, Ask
<1>2. order \in Orders
  BY DEF FrontType
<1>3. /\ path.at \in Location \ routeMap
      /\ path.rest \in {Absent, "x", "/", "/x", ":", ":x"}
  BY <1>1 DEF Path
<1>4. path.at \in Location /\ path.rest = Absent =>
        \/ path.at = "/404" /\ Handler(path) = "NotFound"
        \/ path.at \in Assets \cup {"/", "/missing"} /\ Handler(path) = "Root"
        \/ path.at \notin Assets \cup {"/", "/missing", "/404", Creation}
           /\ Handler(path) \in {"Swagger", "Metrics", "Status", "Version"}
  <2>1. HAVE path.at \in Location /\ path.rest = Absent
  <2>2. path.at \in {"/api/v1/swagger.json", "/metrics", "/status", "/version", "/404"}
                      \cup Assets \cup {"/", "/missing"}
    BY <1>3 DEF Location
  <2>3. QED
    BY <1>1, <1>2, <2>1, <2>2, HandlerIs DEF Assets, Creation
<1> HIDE DEF path
<1>5. CASE Handler(path) = "NotFound" /\ Respond(c, 404)
  <2>1. PlainGet(now[c]) => Told(path, now[c].timeout, 404)
    BY <1>3, <1>4, <1>5 DEF PlainGet, Told, path
  <2>2. QED
    BY <1>5, <2>1 DEF Responds, Statuses, path
<1>6. CASE Handler(path) \in {"Swagger", "Metrics", "Status", "Version"} /\ Respond(c, 200)
  <2>1. PlainGet(now[c]) => Told(path, now[c].timeout, 200)
    BY <1>3, <1>4, <1>6 DEF PlainGet, Told, path
  <2>2. QED
    BY <1>6, <2>1 DEF Responds, Statuses, path
<1>7. CASE Handler(path) = "Root" /\ Root(c)
  <2>1. \/ path.at = "/" /\ Respond(c, 200)
        \/ /\ path.at # "/" /\ (path.at \notin Assets \/ path.rest \notin {Absent, "/"})
           /\ Respond(c, 404)
        \/ path.at \in Assets /\ FileServer(c, path)
    BY <1>7 DEF Root, path
  <2>2. CASE path.at = "/" /\ Respond(c, 200)
    <3>1. Told(path, now[c].timeout, 200)
      BY <2>2 DEF Told, Creation
    <3>2. QED
      BY <2>2, <3>1 DEF Responds, Statuses, path
  <2>3. CASE /\ path.at # "/" /\ (path.at \notin Assets \/ path.rest \notin {Absent, "/"})
             /\ Respond(c, 404)
    <3>1. PlainGet(now[c]) => Told(path, now[c].timeout, 404)
      BY <1>3, <1>4, <1>7, <2>3 DEF PlainGet, Told, path
    <3>2. QED
      BY <2>3, <3>1 DEF Responds, Statuses, path
  <2>4. CASE path.at \in Assets /\ FileServer(c, path)
    <3>1. CASE path.rest = "/"
      <4>1. Redirect(c, [path EXCEPT !.rest = Absent])
        BY <2>4, <3>1 DEF FileServer
      <4>2. [path EXCEPT !.rest = Absent] \in Path
        BY <1>1 DEF Path, path
      <4>3. path.rest # Absent
        BY <3>1, AbsentIs
      <4>4. QED
        BY <4>1, <4>2, <4>3 DEF Redirects, path
    <3>2. CASE path.rest # "/" /\ path.at \in {"/", "/index.html"}
      <4>1. Redirect(c, [path EXCEPT !.at = "/"])
        BY <2>4, <3>2 DEF FileServer
      <4>2. [path EXCEPT !.at = "/"] \in Path
        BY <1>1 DEF Path, path, Location
      <4>3. [path EXCEPT !.at = "/"].at = "/" /\ [path EXCEPT !.at = "/"].rest = path.rest
        BY <1>1 DEF Path, path
      <4>4. path.at = "/index.html"
        BY <2>4, <3>2 DEF Assets
      <4>5. QED
        BY <4>1, <4>2, <4>3, <4>4 DEF Redirects, path
    <3>3. CASE path.rest # "/" /\ path.at \notin {"/", "/index.html"}
      <4>1. Respond(c, 200)
        BY <2>4, <3>3 DEF FileServer
      <4>2. Told(path, now[c].timeout, 200)
        BY <2>4 DEF Told, Assets, Creation
      <4>3. QED
        BY <4>1, <4>2 DEF Responds, Statuses, path
    <3>4. QED
      BY <3>1, <3>2, <3>3
  <2>5. QED
    BY <2>1, <2>2, <2>3, <2>4
<1>8. QED
  BY <1>5, <1>6, <1>7 DEF Page, path

LEMMA FrontEffect ==
    ASSUME FrontType, NEW c \in Client, ServeHTTP(c)
    PROVE  /\ stage[c] = "sent"
           /\ Responds(c) \/ Redirects(c) \/ CallsService(c)
<1> DEFINE path == now[c].path
<1> SUFFICES Responds(c) \/ Redirects(c) \/ CallsService(c)
  BY DEF ServeHTTP
<1>1. path \in Path /\ order \in Orders
  BY DEF FrontType, Ask
<1>2. CASE now[c].method = "OPTIONS" /\ Respond(c, 200)
  BY <1>2 DEF Responds, PlainGet, Statuses
<1>3. CASE Redirect(c, cleanPath(path))
  <2>1. cleanPath(path) \in Path /\ cleanPath(path).at = path.at /\ cleanPath(path).rest = path.rest
    BY <1>1 DEF cleanPath, Path
  <2>2. QED
    BY <1>3, <2>1 DEF Redirects
<1>4. CASE cleanPath(path) = path /\ Handler(path) = "gwmux" /\ gwmux(c)
  <2>1. path.at \in routeMap
    BY <1>1, <1>4, HandlerIs
  <2>2. ~path.doubled
    BY <1>1, <1>4 DEF cleanPath, Path
  <2>3. QED
    BY <1>4, <2>1, <2>2, gwmuxEffect
<1>5. CASE Handler(path) # "gwmux" /\ Page(c, Handler(path))
  <2>1. path.at \notin routeMap
    BY <1>1, <1>5, HandlerIs
  <2>2. QED
    BY <1>5, <2>1, PageEffect
<1>6. QED
  BY <1>2, <1>3, <1>4, <1>5 DEF ServeHTTP

-----------------------------------------------------------------------------
(* The steps of a handler *)

RequestOf(c) == CallOf(c) /\ StatusOfCall(c) /\ PostOf(c) /\ GetOf(c)

LEMMA StepOfOne ==
    ASSUME IInv, NEW c \in Client, Alone(c), ask' = ask,
           FrontType', ServiceType', RequestOf(c)'
    PROVE  IInv'
<1>1. ASSUME NEW d \in Client
      PROVE  RequestOf(d)'
  BY <1>1, OthersStay DEF IInv, RequestOf
<1>2. QED
  BY <1>1 DEF IInv, RequestInv, RequestOf

LEMMA RespondStep ==
    ASSUME IInv, NEW c \in Client, stage[c] = "sent", Responds(c)
    PROVE  IInv'
<1>1. PICK s \in Statuses \ {301} :
        Respond(c, s) /\ (PlainGet(now[c]) => Told(now[c].path, now[c].timeout, s))
  BY DEF Responds
<1>2. /\ stage' = [stage EXCEPT ![c] = "ended"] /\ status' = [status EXCEPT ![c] = s]
      /\ now' = now /\ gone' = gone /\ called' = called /\ ask' = ask /\ order' = order
      /\ rows' = rows /\ outcome' = outcome /\ reply' = reply
  BY <1>1 DEF Respond, Ended, fixed, service
<1>3. RequestOf(c) /\ FrontType /\ ServiceType
  BY DEF IInv, RequestInv, RequestOf
<1>4. Alone(c)
  BY <1>2, <1>3 DEF Alone, FrontType
<1>5. FrontType' /\ ServiceType'
  BY <1>2, <1>3 DEF FrontType, ServiceType, Stages
<1>6. stage'[c] = "ended" /\ status'[c] = s /\ call' = call /\ c \notin called
  BY <1>2, <1>3 DEF FrontType, call, RequestOf, StatusOfCall
<1>7. RequestOf(c)'
  <2>1. CallOf(c)'
    BY <1>2, <1>3, <1>6 DEF RequestOf, CallOf
  <2>2. StatusOfCall(c)'
    BY <1>2, <1>6 DEF StatusOfCall
  <2>3. PostOf(c)'
    BY <1>2, <1>3, <1>6 DEF RequestOf, PostOf
  <2>4. GetOf(c)'
    BY <1>1, <1>2, <1>3, <1>6 DEF RequestOf, GetOf
  <2>5. QED
    BY <2>1, <2>2, <2>3, <2>4 DEF RequestOf
<1>8. QED
  BY <1>2, <1>4, <1>5, <1>7, StepOfOne

LEMMA RedirectStep ==
    ASSUME IInv, NEW c \in Client, stage[c] = "sent", Redirects(c)
    PROVE  IInv'
<1>1. PICK path \in Path :
        /\ Redirect(c, path)
        /\ now[c].path.rest = Absent =>
             /\ path.rest = Absent
             /\ \/ path.at = now[c].path.at
                \/ path.at = "/" /\ now[c].path.at = "/index.html"
  BY DEF Redirects
<1> DEFINE r == [now[c] EXCEPT !.path = path]
<1>2. RequestOf(c) /\ FrontType /\ ServiceType
  BY DEF IInv, RequestInv, RequestOf
<1>3. r \in Ask /\ r.path = path /\ r.method = now[c].method /\ r.token = now[c].token
      /\ r.timeout = now[c].timeout
  BY <1>2 DEF FrontType, Ask
<1> HIDE DEF r
<1>4. /\ stage' = [stage EXCEPT ![c] = "redirected"] /\ status' = [status EXCEPT ![c] = 301]
      /\ now' = [now EXCEPT ![c] = r]
      /\ gone' = gone /\ called' = called /\ ask' = ask /\ order' = order
      /\ rows' = rows /\ outcome' = outcome /\ reply' = reply
  BY <1>1 DEF Redirect, fixed, service, r
<1>5. Alone(c)
  BY <1>2, <1>4 DEF Alone, FrontType
<1>6. FrontType' /\ ServiceType'
  BY <1>2, <1>3, <1>4 DEF FrontType, ServiceType, Stages, Statuses
<1>7. stage'[c] = "redirected" /\ status'[c] = 301 /\ now'[c] = r /\ c \notin called
  BY <1>2, <1>4 DEF FrontType, RequestOf, StatusOfCall
<1>8. RequestOf(c)'
  <2>1. outcome[c].kind = "open" /\ reply[c].kind = "waiting"
    BY <1>2, <1>7 DEF RequestOf, CallOf
  <2>2. CallOf(c)'
    BY <1>4, <2>1 DEF CallOf
  <2>3. StatusOfCall(c)'
    BY <1>4, <1>7 DEF StatusOfCall
  <2>4. PostOf(c)'
    BY <1>2, <1>3, <1>4, <1>7 DEF RequestOf, PostOf
  <2>5. GetOf(c)'
    BY <1>1, <1>2, <1>3, <1>4, <1>7 DEF RequestOf, GetOf, PlainGet
  <2>6. QED
    BY <2>2, <2>3, <2>4, <2>5 DEF RequestOf
<1>9. QED
  BY <1>4, <1>5, <1>6, <1>8, StepOfOne

LEMMA CallStep ==
    ASSUME IInv, NEW c \in Client, stage[c] = "sent", CallsService(c)
    PROVE  IInv'
<1>1. PICK r \in Ask :
        /\ CallFor(c, r)
        /\ now' = [now EXCEPT ![c] = r]
        /\ stage' = [stage EXCEPT ![c] = "calling"]
        /\ called' = called \cup {c}
        /\ UNCHANGED <<status, gone, sending, fixed, service>>
  BY DEF CallsService
<1>2. RequestOf(c) /\ FrontType /\ ServiceType
  BY DEF IInv, RequestInv, RequestOf
<1>3. status' = status /\ gone' = gone /\ ask' = ask /\ order' = order
      /\ rows' = rows /\ outcome' = outcome /\ reply' = reply
  BY <1>1 DEF fixed, service
<1>4. Alone(c)
  BY <1>1, <1>2, <1>3 DEF Alone, FrontType
<1>5. FrontType' /\ ServiceType'
  BY <1>1, <1>2, <1>3 DEF FrontType, ServiceType, Stages
<1>6. /\ stage'[c] = "calling" /\ now'[c] = r /\ c \notin called /\ c \in called'
      /\ status[c] = 0
  BY <1>1, <1>2 DEF FrontType, RequestOf, StatusOfCall
<1>7. RequestOf(c)'
  <2>1. outcome[c].kind = "open" /\ reply[c].kind = "waiting"
    BY <1>2, <1>6 DEF RequestOf, CallOf
  <2>2. CallOf(c)'
    BY <1>3, <2>1 DEF CallOf
  <2>3. StatusOfCall(c)'
    BY <1>3, <1>6 DEF StatusOfCall
  <2>4. PostOf(c)'
    <3>1. r.token = ask[c].token
      BY <1>1, <1>2 DEF CallFor, RoutedAs, RequestOf, PostOf
    <3>2. CASE r.path.at = Creation
      <4>1. now[c].method = "POST" /\ now[c] = ask[c]
        BY <1>1, <1>2, <3>2 DEF CallFor, RoutedAs, RequestOf, PostOf
      <4>2. QED
        BY <1>1, <1>3, <1>6, <3>1, <3>2, <4>1 DEF CallFor, RoutedAs, PostOf
    <3>3. CASE r.path.at # Creation
      BY <1>3, <1>6, <3>1, <3>3 DEF PostOf
    <3>4. QED
      BY <3>2, <3>3
  <2>5. GetOf(c)'
    BY <1>1, <1>2, <1>3, <1>6 DEF CallFor, RoutedAs, RequestOf, GetOf, PlainGet
  <2>6. QED
    BY <2>2, <2>3, <2>4, <2>5 DEF RequestOf
<1>8. QED
  BY <1>3, <1>4, <1>5, <1>7, StepOfOne

(* The status of a call that the service has answered.                     *)
LEMMA ForwardStep ==
    ASSUME IInv, NEW c \in Client, Forward(c)
    PROVE  IInv'
<1>1. PICK code \in CodesOf(c) : Respond(c, HTTPStatusFromCode(code))
  BY DEF Forward
<1> DEFINE s == HTTPStatusFromCode(code)
<1>2. RequestOf(c) /\ FrontType /\ ServiceType
  BY DEF IInv, RequestInv, RequestOf
<1>3. stage[c] = "calling" /\ reply[c].kind \in {"created", "declined"} /\ c \in called
  BY <1>2 DEF Forward, RequestOf, StatusOfCall
<1>4. /\ s \in Statuses \ {0}
      /\ reply[c].kind = "created" \/ call[c].rpc # Creation => s = 200
      /\ reply[c].kind # "created" /\ call[c].rpc = Creation => s # 200
  BY <1>1 DEF CodesOf, HTTPStatusFromCode, StatusOf, Statuses
<1> HIDE DEF s
<1>5. /\ stage' = [stage EXCEPT ![c] = "ended"] /\ status' = [status EXCEPT ![c] = s]
      /\ now' = now /\ gone' = gone /\ called' = called /\ ask' = ask /\ order' = order
      /\ rows' = rows /\ outcome' = outcome /\ reply' = reply
  BY <1>1 DEF Respond, Ended, fixed, service, s
<1>6. Alone(c)
  BY <1>2, <1>5 DEF Alone, FrontType
<1>7. FrontType' /\ ServiceType'
  BY <1>2, <1>4, <1>5 DEF FrontType, ServiceType, Stages
<1>8. stage'[c] = "ended" /\ status'[c] = s /\ call' = call
  BY <1>2, <1>5 DEF FrontType, call
<1>9. RequestOf(c)'
  <2>1. CallOf(c)'
    BY <1>2, <1>5, <1>8 DEF RequestOf, CallOf
  <2>2. StatusOfCall(c)'
    BY <1>3, <1>4, <1>5, <1>8 DEF StatusOfCall
  <2>3. PostOf(c)'
    BY <1>2, <1>5, <1>8 DEF RequestOf, PostOf
  <2>4. GetOf(c)'
    <3>1. SUFFICES ASSUME PlainGet(ask[c]) PROVE Told(now[c].path, now[c].timeout, s)
      BY <1>2, <1>5, <1>8 DEF RequestOf, GetOf
    <3>2. now[c].path.at \in routeMap \ {Creation}
      BY <1>2, <1>3, <3>1 DEF RequestOf, GetOf
    <3>3. s = 200
      BY <1>4, <3>2 DEF call
    <3>4. QED
      BY <3>2, <3>3 DEF Told, routeMap
  <2>5. QED
    BY <2>1, <2>2, <2>3, <2>4 DEF RequestOf
<1>10. QED
  BY <1>5, <1>6, <1>7, <1>9, StepOfOne

(* A call that is lost: by a client that has left, at the deadline, or for *)
(* the connection.                                                         *)
LEMMA AbandonStep ==
    ASSUME IInv, NEW c \in Client, Ends(c) \/ Unavailable(c), ~Forward(c)
    PROVE  IInv'
<1>1. PICK s \in {408, 503, 504} :
        /\ s = 408 => c \in gone
        /\ stage[c] = "calling"
        /\ UNCHANGED <<now, gone, called, fixed>>
        /\ Service!Lose(c)
        /\ Ended(c, s)
  BY DEF Ends, Unavailable, Cancel, Deadline, Abandon, HTTPStatusFromCode, StatusOf
<1>2. RequestOf(c) /\ FrontType /\ ServiceType
  BY DEF IInv, RequestInv, RequestOf
<1> DEFINE lost == Service!Nothing("unknown")
<1>3. lost \in Knows /\ lost.kind = "unknown"
  BY DEF Service!Nothing, Knows
<1> HIDE DEF lost
<1>4. /\ stage' = [stage EXCEPT ![c] = "ended"] /\ status' = [status EXCEPT ![c] = s]
      /\ now' = now /\ gone' = gone /\ called' = called /\ ask' = ask /\ order' = order
      /\ outcome' = outcome /\ reply' = [reply EXCEPT ![c] = lost]
  BY <1>1 DEF Ended, Service!Lose, fixed, lost
<1>5. Alone(c)
  BY <1>2, <1>4 DEF Alone, FrontType, ServiceType
<1>6. FrontType' /\ ServiceType'
  BY <1>2, <1>3, <1>4 DEF FrontType, ServiceType, Stages, Statuses
<1>7. stage'[c] = "ended" /\ status'[c] = s /\ call' = call /\ reply'[c] = lost /\ c \in called
  BY <1>1, <1>2, <1>4 DEF FrontType, ServiceType, call, RequestOf, StatusOfCall
<1>8. RequestOf(c)'
  <2>1. CallOf(c)'
    BY <1>2, <1>3, <1>4, <1>7 DEF RequestOf, CallOf
  <2>2. StatusOfCall(c)'
    BY <1>4, <1>7 DEF StatusOfCall
  <2>3. PostOf(c)'
    BY <1>2, <1>4, <1>7 DEF RequestOf, PostOf
  <2>4. GetOf(c)'
    BY <1>1, <1>2, <1>4, <1>7 DEF RequestOf, GetOf, Told
  <2>5. QED
    BY <2>1, <2>2, <2>3, <2>4 DEF RequestOf
<1>9. QED
  BY <1>4, <1>5, <1>6, <1>8, StepOfOne

-----------------------------------------------------------------------------
(* The steps of a client *)

LEMMA FollowStep ==
    ASSUME IInv, NEW c \in Client, Follow(c)
    PROVE  IInv'
<1>1. RequestOf(c) /\ FrontType /\ ServiceType
  BY DEF IInv, RequestInv, RequestOf
<1> DEFINE r == IF now[c].method = "POST"
                  THEN [now[c] EXCEPT !.method = "GET", !.body = NoBody, !.form = FALSE]
                  ELSE now[c]
<1>2. /\ r \in Ask /\ r.path = now[c].path /\ r.token = now[c].token
      /\ r.timeout = now[c].timeout /\ r.method # "POST"
      /\ now[c].method = "GET" => r.method = "GET"
  BY <1>1, NothingType DEF FrontType, Ask
<1>3. now' = [now EXCEPT ![c] = r]
  BY <1>1 DEF Follow, FrontType
<1> HIDE DEF r
<1>4. /\ stage[c] = "redirected" /\ stage' = [stage EXCEPT ![c] = "sent"]
      /\ status' = [status EXCEPT ![c] = 0]
      /\ gone' = gone /\ called' = called /\ ask' = ask /\ order' = order
      /\ outcome' = outcome /\ reply' = reply
  BY DEF Follow, fixed, service
<1>5. Alone(c)
  BY <1>1, <1>3, <1>4 DEF Alone, FrontType
<1>6. FrontType' /\ ServiceType'
  BY <1>1, <1>2, <1>3, <1>4 DEF FrontType, ServiceType, Stages
<1>7. stage'[c] = "sent" /\ status'[c] = 0 /\ now'[c] = r /\ c \notin called
  BY <1>1, <1>3, <1>4 DEF FrontType, RequestOf, StatusOfCall
<1>8. RequestOf(c)'
  <2>1. CallOf(c)'
    BY <1>1, <1>4, <1>7 DEF RequestOf, CallOf
  <2>2. StatusOfCall(c)'
    BY <1>4, <1>7 DEF StatusOfCall
  <2>3. PostOf(c)'
    BY <1>1, <1>2, <1>4, <1>7 DEF RequestOf, PostOf
  <2>4. GetOf(c)'
    BY <1>1, <1>2, <1>4, <1>7 DEF RequestOf, GetOf, PlainGet
  <2>5. QED
    BY <2>1, <2>2, <2>3, <2>4 DEF RequestOf
<1>9. QED
  BY <1>4, <1>5, <1>6, <1>8, StepOfOne

LEMMA DisconnectStep ==
    ASSUME IInv, NEW c \in Client, Disconnect(c)
    PROVE  IInv'
<1>1. RequestOf(c) /\ FrontType /\ ServiceType
  BY DEF IInv, RequestInv, RequestOf
<1>2. /\ now' = now /\ status' = status /\ called' = called /\ ask' = ask /\ order' = order
      /\ outcome' = outcome /\ reply' = reply /\ gone' = gone \cup {c}
      /\ stage' = [stage EXCEPT ![c] = IF @ = "redirected" THEN "ended" ELSE @]
  BY DEF Disconnect, fixed, service
<1>3. Alone(c)
  BY <1>1, <1>2 DEF Alone, FrontType
<1>4. FrontType' /\ ServiceType'
  BY <1>1, <1>2 DEF FrontType, ServiceType, Stages
<1>5. /\ stage'[c] = IF stage[c] = "redirected" THEN "ended" ELSE stage[c]
      /\ c \in gone' /\ call' = call
  BY <1>1, <1>2 DEF FrontType, call
<1>6. RequestOf(c)'
  <2>1. CallOf(c)'
    BY <1>1, <1>2, <1>5 DEF RequestOf, CallOf
  <2>2. StatusOfCall(c)'
    BY <1>1, <1>2, <1>5 DEF RequestOf, StatusOfCall
  <2>3. PostOf(c)'
    BY <1>1, <1>2, <1>5 DEF RequestOf, PostOf
  <2>4. GetOf(c)'
    BY <1>1, <1>2, <1>5 DEF RequestOf, GetOf
  <2>5. QED
    BY <2>1, <2>2, <2>3, <2>4 DEF RequestOf
<1>7. QED
  BY <1>2, <1>3, <1>4, <1>6, StepOfOne

-----------------------------------------------------------------------------
(* The steps of the service *)

(* The two sides speak of the same checks.                                 *)
LEMMA SameValidate ==
    Service!Valid = Valid /\ \A p : Service!Validate(p) = Validate(p)
BY DEF Validate, Valid, Service!Validate, Service!Valid

LEMMA CallType ==
    ASSUME FrontType, NEW c \in Client
    PROVE  call[c].params \in Params
BY DEF FrontType, call, Ask, Body

LEMMA ServeStep ==
    ASSUME IInv, NEW c \in Client, Serve(c)
    PROVE  IInv'
<1>1. RequestOf(c) /\ FrontType /\ ServiceType /\ c \in called
  BY DEF IInv, RequestInv, RequestOf, Serve
<1>2. /\ now' = now /\ stage' = stage /\ status' = status /\ gone' = gone
      /\ called' = called /\ ask' = ask /\ order' = order
  BY DEF Serve, fixed
<1>3. call' = call /\ FrontType'
  BY <1>1, <1>2 DEF call, FrontType
<1>4. PostOf(c)' /\ GetOf(c)'
  BY <1>1, <1>2 DEF RequestOf, PostOf, GetOf
<1>5. CASE Service!Create(c)
  <2>1. /\ outcome[c].kind = "open" /\ call[c] \in Permitted
        /\ Validate(call[c].params) = Valid /\ reply' = reply
    BY <1>5, SameValidate DEF Service!Create
  <2>2. PICK u \in Client :
          outcome' = [outcome EXCEPT ![c] =
            [kind |-> "created", row |-> {[uuid |-> u, by |-> c, params |-> call[c].params]}]]
    BY <1>5 DEF Service!Create
  <2> DEFINE row == [uuid |-> u, by |-> c, params |-> call[c].params]
             done == [kind |-> "created", row |-> {row}]
  <2>3. row \in Rows /\ row.params = call[c].params
    BY <1>1, CallType DEF Rows
  <2> HIDE DEF row
  <2>4. done \in Did /\ done.kind = "created" /\ done.row = {row}
    BY <2>3 DEF Did
  <2> HIDE DEF done
  <2>5. outcome' = [outcome EXCEPT ![c] = done]
    BY <2>2 DEF done, row
  <2>6. ServiceType' /\ Alone(c) /\ outcome'[c] = done
    BY <1>1, <1>2, <2>1, <2>4, <2>5 DEF ServiceType, Alone
  <2>7. reply[c].kind \notin {"created", "declined"}
    BY <1>1, <2>1 DEF RequestOf, CallOf
  <2>8. CallOf(c)'
    BY <1>1, <1>2, <1>3, <2>1, <2>3, <2>4, <2>6, <2>7 DEF CallOf
  <2>9. StatusOfCall(c)'
    BY <1>1, <1>2, <1>3, <2>1 DEF RequestOf, StatusOfCall
  <2>10. QED
    BY <1>2, <1>3, <1>4, <2>6, <2>8, <2>9, StepOfOne DEF RequestOf
<1>6. CASE Service!Decline(c)
  <2> DEFINE done == Service!Nothing("declined")
  <2>1. done \in Did /\ done.kind = "declined"
    BY DEF Service!Nothing, Did
  <2> HIDE DEF done
  <2>2. outcome[c].kind = "open" /\ reply' = reply /\ outcome' = [outcome EXCEPT ![c] = done]
    BY <1>6 DEF Service!Decline, done
  <2>3. ServiceType' /\ Alone(c) /\ outcome'[c] = done
    BY <1>1, <1>2, <2>1, <2>2 DEF ServiceType, Alone
  <2>4. reply[c].kind \notin {"created", "declined"}
    BY <1>1, <2>2 DEF RequestOf, CallOf
  <2>5. CallOf(c)'
    BY <1>1, <1>2, <1>3, <2>1, <2>2, <2>3, <2>4 DEF CallOf
  <2>6. StatusOfCall(c)'
    BY <1>1, <1>2, <1>3, <2>2 DEF RequestOf, StatusOfCall
  <2>7. QED
    BY <1>2, <1>3, <1>4, <2>3, <2>5, <2>6, StepOfOne DEF RequestOf
<1>7. CASE stage[c] = "calling" /\ Service!Answer(c)
  <2>1. /\ outcome[c].kind # "open" /\ outcome' = outcome
        /\ reply' = [reply EXCEPT ![c] = outcome[c]]
    BY <1>7 DEF Service!Answer
  <2>2. outcome[c] \in Did /\ outcome[c] \in Knows
    BY <1>1, <2>1 DEF ServiceType, Did, Knows
  <2>3. ServiceType' /\ Alone(c) /\ reply'[c] = outcome[c]
    BY <1>1, <1>2, <2>1, <2>2 DEF ServiceType, Alone
  <2>4. CallOf(c)'
    BY <1>1, <1>2, <1>3, <2>1, <2>3 DEF RequestOf, CallOf
  <2>5. StatusOfCall(c)'
    BY <1>1, <1>2, <1>7 DEF RequestOf, StatusOfCall
  <2>6. QED
    BY <1>2, <1>3, <1>4, <2>3, <2>4, <2>5, StepOfOne DEF RequestOf
<1>8. QED
  BY <1>5, <1>6, <1>7 DEF Serve

(* The process dies: every call that was made is over, and the requests    *)
(* that were not are still to come.                                        *)
LEMMA DisturbStep ==
    ASSUME IInv, Disturb
    PROVE  IInv'
<1>1. FrontType /\ ServiceType /\ \A c \in Client : RequestOf(c)
  BY DEF IInv, RequestInv, RequestOf
<1>2. /\ now' = now /\ status' = status /\ gone' = gone
      /\ called' = called /\ ask' = ask /\ order' = order
  BY DEF Disturb, fixed
<1>3. call' = call
  BY <1>2 DEF call
<1>4. CASE Service!Erase /\ UNCHANGED stage
  <2>1. outcome' = outcome /\ reply' = reply /\ stage' = stage
    BY <1>4 DEF Service!Erase
  <2>2. QED
    BY <1>1, <1>2, <1>3, <2>1
    DEF IInv, FrontType, ServiceType, RequestInv, RequestOf, CallOf, StatusOfCall, PostOf, GetOf
<1>5. CASE /\ Service!Kill
           /\ \A c \in Client :
                /\ c \notin called => outcome'[c] = outcome[c] /\ reply'[c] = reply[c]
                /\ c \in called => outcome'[c].kind # "open" /\ reply'[c].kind # "waiting"
           /\ stage' = [c \in Client |-> IF stage[c] = "redirected" THEN "redirected" ELSE "ended"]
  <2> DEFINE closed == Service!Nothing("declined")
             lost == Service!Nothing("unknown")
  <2>1. /\ closed \in Did /\ closed.kind = "declined"
        /\ lost \in Knows /\ lost.kind = "unknown"
    BY DEF Service!Nothing, Did, Knows
  <2> HIDE DEF closed, lost
  <2>2. PICK S \in SUBSET Client :
          /\ outcome' = [c \in Client |->
               IF c \in S /\ outcome[c].kind = "open" THEN closed ELSE outcome[c]]
          /\ reply' = [c \in Client |->
               IF c \in S /\ reply[c].kind = "waiting" THEN lost ELSE reply[c]]
    BY <1>5 DEF Service!Kill, closed, lost
  <2>3. ServiceType'
    BY <1>1, <2>1, <2>2 DEF ServiceType
  <2>4. FrontType'
    BY <1>1, <1>2, <1>5 DEF FrontType, Stages
  <2>5. ASSUME NEW c \in Client
        PROVE  RequestOf(c)'
    <3>1. RequestOf(c)
      BY <1>1
    <3>2. stage'[c] = IF stage[c] = "redirected" THEN "redirected" ELSE "ended"
      BY <1>5
    <3>3. \/ outcome'[c] = outcome[c]
          \/ outcome[c].kind = "open" /\ outcome'[c] = closed
      BY <2>2
    <3>4. \/ reply'[c] = reply[c]
          \/ reply[c].kind = "waiting" /\ reply'[c] = lost
      BY <2>2
    <3>5. c \notin called => outcome'[c] = outcome[c] /\ reply'[c] = reply[c]
      BY <1>5
    <3>6. CallOf(c)'
      <4>1. c \notin called => outcome'[c].kind = "open" /\ reply'[c].kind = "waiting"
        BY <3>1, <3>5 DEF RequestOf, CallOf
      <4>2. outcome'[c].kind = "created" => outcome'[c] = outcome[c]
        BY <2>1, <3>3
      <4>3. reply'[c].kind \in {"created", "declined"} => reply'[c] = outcome'[c]
        <5>1. SUFFICES ASSUME reply'[c].kind \in {"created", "declined"}
                       PROVE  reply'[c] = outcome'[c]
          OBVIOUS
        <5>2. reply'[c] = reply[c]
          BY <2>1, <3>4, <5>1
        <5>3. reply[c] = outcome[c] /\ outcome[c].kind # "open"
          BY <3>1, <5>1, <5>2 DEF RequestOf, CallOf
        <5>4. QED
          BY <3>3, <5>2, <5>3
      <4>4. QED
        BY <1>2, <1>3, <3>1, <4>1, <4>2, <4>3 DEF RequestOf, CallOf
    <3>7. StatusOfCall(c)'
      <4>1. stage'[c] \notin {"sent", "calling"}
        BY <3>2
      <4>2. c \in called => stage'[c] = "ended"
        BY <3>1, <3>2 DEF RequestOf, StatusOfCall
      <4>3. c \in called =>
              \/ status[c] \in {0, 408, 503, 504}
              \/ status[c] = 200 /\ reply'[c].kind = "created"
              \/ reply'[c].kind = "declined" /\ (call[c].rpc = Creation => status[c] # 200)
        BY <3>1, <3>4 DEF RequestOf, StatusOfCall
      <4>4. QED
        BY <1>2, <1>3, <4>1, <4>2, <4>3 DEF StatusOfCall
    <3>8. PostOf(c)'
      BY <1>2, <3>1, <3>2 DEF RequestOf, PostOf
    <3>9. GetOf(c)'
      <4>1. stage[c] \in {"sent", "calling"} => status[c] = 0
        BY <3>1 DEF RequestOf, StatusOfCall
      <4>2. stage[c] \in Stages
        BY <1>1 DEF FrontType
      <4>3. QED
        BY <1>2, <3>1, <3>2, <4>1, <4>2 DEF RequestOf, GetOf, Stages
    <3>10. QED
      BY <3>6, <3>7, <3>8, <3>9 DEF RequestOf
  <2>6. QED
    BY <2>3, <2>4, <2>5 DEF IInv, RequestInv, RequestOf
<1>6. QED
  BY <1>4, <1>5 DEF Disturb

-----------------------------------------------------------------------------
LEMMA Initially ==
    Init => IInv
<1> SUFFICES ASSUME Init PROVE IInv
  OBVIOUS
<1>1. /\ ask \in [Client -> Asks] /\ now = ask
      /\ stage = [c \in Client |-> "sent"] /\ status = [c \in Client |-> 0]
      /\ gone = {} /\ called = {} /\ order \in Orders
      /\ outcome = [c \in Client |-> Service!Nothing("open")]
      /\ reply = [c \in Client |-> Service!Nothing("waiting")]
  BY DEF Init, Service!Init, Orders
<1>2. FrontType
  BY <1>1, HttpFrontAssumption DEF FrontType, Stages
<1>3. ServiceType
  BY <1>1 DEF ServiceType, Service!Nothing, Did, Knows
<1>4. ASSUME NEW c \in Client
      PROVE  CallOf(c) /\ StatusOfCall(c) /\ PostOf(c) /\ GetOf(c)
  BY <1>1 DEF CallOf, StatusOfCall, PostOf, GetOf, Service!Nothing
<1>5. QED
  BY <1>2, <1>3, <1>4 DEF IInv, RequestInv

LEMMA Step ==
    ASSUME IInv, [Next]_vars
    PROVE  IInv'
<1>1. ASSUME NEW c \in Client, ServeHTTP(c)
      PROVE  IInv'
  BY <1>1, FrontEffect, RespondStep, RedirectStep, CallStep DEF IInv
<1>2. ASSUME NEW c \in Client, Ends(c) \/ Unavailable(c)
      PROVE  IInv'
  BY <1>2, ForwardStep, AbandonStep
<1>3. ASSUME NEW c \in Client, Follow(c) \/ Disconnect(c) \/ Serve(c)
      PROVE  IInv'
  BY <1>3, FollowStep, DisconnectStep, ServeStep
<1> DEFINE Stays == /\ now' = now /\ stage' = stage /\ status' = status /\ gone' = gone
                    /\ called' = called /\ ask' = ask /\ order' = order
                    /\ outcome' = outcome /\ reply' = reply
<1>4. CASE Disturb
  BY <1>4, DisturbStep
<1>5. CASE Stays
  <2>1. call' = call
    BY <1>5 DEF call
  <2>2. QED
    BY <1>5, <2>1
    DEF IInv, FrontType, ServiceType, RequestInv, CallOf, StatusOfCall, PostOf, GetOf
<1>6. CASE UNCHANGED vars
  <2>1. Stays
    BY <1>6 DEF vars, fixed, service
  <2>2. QED
    BY <1>5, <2>1
<1>7. ASSUME NEW c \in Client, BodyArrives(c)
      PROVE  IInv'
  <2>1. Stays
    BY <1>7 DEF BodyArrives, fixed, service
  <2>2. QED
    BY <1>5, <2>1
<1>8. QED
  BY <1>1, <1>2, <1>3, <1>4, <1>6, <1>7 DEF Next

LEMMA Invariance ==
    Spec => []IInv
<1>1. Spec => Init /\ [][Next]_vars
  BY DEF Spec
<1>2. QED
  BY <1>1, Initially, Step, PTL

(* What net/http knows of the connections.                                 *)
ConnectionType == sending \subseteq Client /\ watched \subseteq Client

LEMMA ConnectionStep ==
    ASSUME IInv, ConnectionType, [Next]_vars
    PROVE  ConnectionType'
<1>1. ASSUME NEW c \in Client, ServeHTTP(c)
      PROVE  ConnectionType'
  <2>1. Responds(c) \/ Redirects(c) \/ CallsService(c)
    BY <1>1, FrontEffect DEF IInv
  <2>2. sending' = sending /\ watched' \subseteq watched \cup {c}
    BY <2>1 DEF Responds, Redirects, CallsService, Respond, Redirect, connection
  <2>3. QED
    BY <2>2 DEF ConnectionType
<1>2. ASSUME NEW c \in Client, Ends(c) \/ Unavailable(c)
      PROVE  ConnectionType'
  BY <1>2 DEF ConnectionType, Ends, Forward, Cancel, Deadline, Unavailable, Respond, Abandon, connection
<1>3. ASSUME NEW c \in Client, BodyArrives(c) \/ Follow(c) \/ Disconnect(c) \/ Serve(c)
      PROVE  ConnectionType'
  BY <1>3 DEF ConnectionType, BodyArrives, Follow, Disconnect, Serve, connection
<1>4. CASE Disturb \/ UNCHANGED vars
  BY <1>4 DEF ConnectionType, Disturb, vars, connection
<1>5. QED
  BY <1>1, <1>2, <1>3, <1>4 DEF Next

LEMMA ConnectionInvariance ==
    Spec => []ConnectionType
<1>1. Init => ConnectionType
  BY DEF Init, ConnectionType
<1>2. Spec => Init /\ [][Next]_vars
  BY DEF Spec
<1>3. QED
  BY <1>1, <1>2, ConnectionStep, Invariance, PTL

-----------------------------------------------------------------------------
(* The theorems *)

(* Every handler keeps its types, the range over routeMap gives each of    *)
(* its routes, and only a request that reached the gRPC service has an     *)
(* outcome: ServeHTTP down to the gateway.                                 *)
THEOREM TypeCorrect ==
    Spec => []TypeOK
<1>1. ASSUME order \in Orders
      PROVE  {order[i] : i \in 1 .. 3} = routeMap
  <2>1. order[1] \in routeMap /\ order[2] \in routeMap /\ order[3] \in routeMap
        /\ order[1] # order[2] /\ order[1] # order[3] /\ order[2] # order[3]
    BY <1>1 DEF Orders
  <2>2. {order[i] : i \in 1 .. 3} = {order[1], order[2], order[3]}
    OBVIOUS
  <2>3. routeMap \subseteq {order[1], order[2], order[3]}
    BY <2>1 DEF routeMap, Creation
  <2>4. QED
    BY <2>1, <2>2, <2>3
<1>2. IInv /\ ConnectionType => TypeOK
  <2>1. SUFFICES ASSUME IInv, ConnectionType PROVE TypeOK
    OBVIOUS
  <2>2. \A c \in Client : now[c].path \in Path /\ now[c].body \in Body
    BY <2>1 DEF IInv, FrontType, Ask
  <2>3. \A c \in Client : outcome[c].kind # "open" => c \in called
    BY <2>1 DEF IInv, RequestInv, CallOf
  <2>4. QED
    BY <1>1, <2>1, <2>2, <2>3 DEF IInv, FrontType, Stages, ConnectionType, TypeOK
<1>3. QED
  BY <1>2, Invariance, ConnectionInvariance, PTL

(* A row that the service records for a request of the HTTP side is the    *)
(* message that was posted, and to this path: the gateway, the router and  *)
(* the JWT check of AuthFuncOverride together.                             *)
LEMMA RecordedAsPosted ==
    ASSUME IInv, NEW c \in Client, outcome[c].kind = "created"
    PROVE  /\ c \in called /\ now[c].path.at = Creation
           /\ ask[c].path.at = Creation /\ Match(ask[c].path) /\ ~ask[c].path.doubled
           /\ ask[c].method = "POST" /\ ask[c].token /\ ask[c].body.json
           /\ \E row \in Rows : outcome[c].row = {row} /\ row.params = ask[c].body.params
<1>1. CallOf(c) /\ PostOf(c)
  BY DEF IInv, RequestInv
<1>2. call[c] \in Permitted /\ Validate(call[c].params) = Valid /\ c \in called
  BY <1>1 DEF CallOf
<1>3. call[c].rpc = Creation /\ call[c].token
  BY <1>2 DEF Permitted
<1>4. now[c].path.at = Creation /\ now[c].token /\ call[c].params = now[c].body.params
  BY <1>3 DEF call, Creation
<1>5. now[c].body # NoBody
  BY <1>2, <1>4, NothingType DEF NoParams, Validate, Valid
<1>6. now[c].body = ask[c].body
  BY <1>1, <1>2, <1>4, <1>5 DEF PostOf
<1>7. QED
  BY <1>1, <1>2, <1>4, <1>6 DEF PostOf, CallOf

(* Neither a redirection, a longer path, the fallback between methods, an  *)
(* override nor a preflight leads to a row: RegisterHTTPServices, the      *)
(* router and ServeMux.ServeHTTP.                                          *)
THEOREM ThePostRecords ==
    Spec => []OnlyThePostRecords
<1>1. ASSUME IInv, NEW c \in Client, outcome[c].kind = "created"
      PROVE  /\ ask[c].path.at = Creation
             /\ ask[c].path.rest \in {Absent, ":"} /\ ~ask[c].path.doubled
             /\ ask[c].method = "POST" /\ ask[c].token /\ ask[c].body.json
             /\ \A row \in outcome[c].row : row.params = ask[c].body.params
  BY <1>1, RecordedAsPosted DEF Match
<1>2. IInv => OnlyThePostRecords
  BY <1>1 DEF OnlyThePostRecords
<1>3. QED
  BY <1>2, Invariance, PTL

(* What the status says of the row is true, whatever the service does      *)
(* after a handler has ended: Forward, HTTPError and HTTPStatusFromCode.   *)
THEOREM StatusTellsTruth ==
    Spec => []HttpTellsTruth
<1>1. ASSUME IInv, NEW c \in Client, status[c] = 200, c \in called, call[c].rpc = Creation
      PROVE  {row.params : row \in outcome[c].row} = {ask[c].body.params}
  <2>1. CallOf(c) /\ StatusOfCall(c)
    BY <1>1 DEF IInv, RequestInv
  <2>2. reply[c].kind = "created"
    BY <1>1, <2>1 DEF StatusOfCall
  <2>3. outcome[c].kind = "created"
    BY <2>1, <2>2 DEF CallOf
  <2>4. QED
    BY <1>1, <2>3, RecordedAsPosted
<1>2. ASSUME IInv, NEW c \in Client, status[c] \in {301, 400, 401, 404, 500, 501}
      PROVE  outcome[c].kind # "created"
  <2>1. CallOf(c) /\ StatusOfCall(c)
    BY <1>2 DEF IInv, RequestInv
  <2>2. c \in called => reply[c].kind = "declined"
    BY <1>2, <2>1 DEF StatusOfCall
  <2>3. QED
    BY <2>1, <2>2 DEF CallOf
<1>3. IInv => HttpTellsTruth
  BY <1>1, <1>2 DEF HttpTellsTruth
<1>4. QED
  BY <1>3, Invariance, PTL

(* Every page answers, whatever the order of the map: RegisterRoutes, Root *)
(* and the file server behind it.                                          *)
THEOREM EveryPageAnswers ==
    Spec => []PagesAnswer
<1>1. ASSUME IInv, NEW c \in Client, PlainGet(ask[c]),
             stage[c] = "ended", c \notin gone, status[c] # 0
      PROVE  Told(ask[c].path, ask[c].timeout, status[c])
  <2>1. GetOf(c)
    BY <1>1 DEF IInv, RequestInv
  <2>2. Told(now[c].path, ask[c].timeout, status[c])
    BY <1>1, <2>1 DEF GetOf
  <2>3. CASE now[c].path.at = ask[c].path.at
    BY <2>2, <2>3 DEF Told
  <2>4. CASE now[c].path.at = "/" /\ ask[c].path.at = "/index.html"
    BY <2>2, <2>4 DEF Told, routeMap, Creation
  <2>5. QED
    BY <1>1, <2>1, <2>3, <2>4 DEF GetOf
<1>2. IInv => PagesAnswer
  BY <1>1 DEF PagesAnswer, Told, PlainGet
<1>3. QED
  BY <1>2, Invariance, PTL
=============================================================================

---------------------------- MODULE MCHttpFront -----------------------------
(* HttpFront with one request for every branch of the front.               *)
EXTENDS HttpFront

Good == [names |-> 3, email |-> TRUE, presence |-> TRUE, childrenNameAge |-> 0,
         housing |-> TRUE, music |-> 0, brunch |-> FALSE]
Bad == [Good EXCEPT !.email = FALSE]

At(at, rest, doubled) == [at |-> at, rest |-> rest, doubled |-> doubled]

Get(path) == [path |-> path, method |-> "GET", body |-> NoBody, form |-> FALSE,
              override |-> "", preflight |-> FALSE, timeout |-> "none", token |-> TRUE]
Post(path) == [Get(path) EXCEPT !.method = "POST", !.body = [json |-> TRUE, params |-> Good, sized |-> TRUE]]
Exact == Post(At(Creation, "", FALSE))
Form(at) == [Post(At(at, "", FALSE)) EXCEPT !.form = TRUE]

(* Every page, and every way to write the path of one.                     *)
MCPages ==
    {Get(At(at, "", FALSE)) : at \in Location \cup {Creation}} \cup
    {Get(At(at, "/", doubled)) : at \in Assets \cup {"/status"}, doubled \in BOOLEAN} \cup
    {[Get(At("/api/v1/version", "", FALSE)) EXCEPT !.timeout = t] : t \in {"some", "bad"}} \cup
    {Get(At("/favicon.ico", "x", FALSE))}

(* Every way to post an RSVP, and the ones that are none.                  *)
MCPosts ==
    {Post(At(Creation, rest, FALSE)) : rest \in {"", "x", "/", "/x", ":", ":x"}} \cup
    {Post(At(Creation, "", TRUE))} \cup
    {[Exact EXCEPT !.timeout = t, !.token = k] : t \in {"some", "bad"}, k \in BOOLEAN} \cup
    {[Exact EXCEPT !.body.params = Bad], [Exact EXCEPT !.body.json = FALSE], [Exact EXCEPT !.body.sized = FALSE],
     [Exact EXCEPT !.token = FALSE]} \cup
    {[Form(at) EXCEPT !.override = o] : at \in {Creation, "/api/v1/version"}, o \in {"", "GET", "POST"}} \cup
    {[Form("/api/v1/version") EXCEPT !.body.json = FALSE, !.override = o] : o \in {"", "POST"}} \cup
    {[Exact EXCEPT !.method = "OPTIONS", !.body = NoBody, !.preflight = p] : p \in BOOLEAN}

MCAsks == MCPages \cup MCPosts
=============================================================================

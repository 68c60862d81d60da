-------------------------- MODULE ServerLifecycle ---------------------------
(***************************************************************************)
(* The serve command: start-up, the two protocol servers, exit.            *)
(*                                                                         *)
(* The main goroutine migrates the schema, listens, builds the gRPC and    *)
(* the HTTP server and starts one goroutine per protocol, which sends on   *)
(* the channel eps when its Serve returns.  With two addresses each Serve  *)
(* has a TCP listener of its own.  With one address the main goroutine     *)
(* runs the connection multiplexer cmux, which sniffs what each accepted   *)
(* connection sends first and queues it for one of two listeners without a *)
(* socket.  Nothing calls Stop or Shutdown, so Serve returns only with the *)
(* error of its listener.                                                  *)
(*                                                                         *)
(* What a connection carries is not modelled here; the calls are those of  *)
(* WwwServer.                                                              *)
(***************************************************************************)
EXTENDS Naturals, FiniteSets

CONSTANTS Conn,     \* connections clients may open, each once
          Backlog   \* what the channel of a multiplexed listener holds

Proto == {"grpc", "http"}
Listeners == Proto \cup {"root"}

(* The command line: one address or two, --sqlite-migrate, --sqlite-dsn,   *)
(* and the three certificate flags (all of them given, or not).            *)
Flags == [single: BOOLEAN, migrate: BOOLEAN, dsn: BOOLEAN, tls: BOOLEAN]

ASSUME BacklogAssumption == Backlog \in Nat \ {0}

VARIABLES flags,
          pc,        \* where the main goroutine is
          listener,  \* each listener: "none", "open", "failed" or "closed"
          serve,     \* the goroutine of each protocol
          eps,       \* the channel: the protocols whose exit it holds
          epsClosed, \* close(eps)
          collected, \* the exits received; its cardinality is the variable i
          ok,        \* the result variable
          code,      \* how the process ended
          kind,      \* what each connection speaks
          conn       \* how far each connection is

mainVars == <<eps, epsClosed, collected, ok>>
vars == <<flags, pc, listener, serve, mainVars, code, kind, conn>>

Steps == {"databaseMigration", "listen", "listenGrpc", "listenHttp", "grpcServer",
          "httpServer", "https", "spawn", "mux", "collect", "exited"}
ConnStates == {"away", "sniffed", "queued", "served", "closed"}

TypeOK ==
    /\ flags \in Flags
    /\ pc \in Steps
    /\ listener \in [Listeners -> {"none", "open", "failed", "closed"}]
    /\ serve \in [Proto -> {"none", "serving", "returned"}]
    /\ eps \subseteq Proto
    /\ epsClosed \in BOOLEAN
    /\ collected \subseteq Proto
    /\ ok \in BOOLEAN
    /\ code \in {"running", "success", "failure"}
    /\ kind \in [Conn -> Proto]
    /\ conn \in [Conn -> ConnStates]

Init ==
    /\ flags \in Flags
    /\ pc = "databaseMigration"
    /\ listener = [l \in Listeners |-> "none"]
    /\ serve = [p \in Proto |-> "none"]
    /\ eps = {}
    /\ epsClosed = FALSE
    /\ collected = {}
    /\ ok = TRUE
    /\ code = "running"
    /\ kind \in [Conn -> Proto]
    /\ conn = [c \in Conn |-> "away"]

-----------------------------------------------------------------------------
(* Start-up, in the main goroutine *)

(* os.Exit(1) and log.Fatal; the kernel closes every socket.               *)
Exit(how) ==
    /\ pc' = "exited"
    /\ code' = how
    /\ listener' = [l \in Listeners |-> IF listener[l] = "none" THEN "none" ELSE "closed"]
    /\ conn' = [c \in Conn |-> IF conn[c] = "away" THEN "away" ELSE "closed"]

(* Step p goes on to step next, or ends the process when it may fail.      *)
Startup(p, mayFail, next) ==
    /\ pc = p
    /\ \/ pc' = next /\ UNCHANGED <<listener, code, conn>>
       \/ mayFail /\ Exit("failure")
    /\ UNCHANGED <<flags, serve, mainVars, kind>>

Listening == IF flags.single THEN "listen" ELSE "listenGrpc"

(* Without --sqlite-migrate nothing is done, without a DSN it is an error. *)
DatabaseMigration ==
    IF flags.migrate /\ ~flags.dsn
      THEN /\ pc = "databaseMigration"
           /\ Exit("failure")
           /\ UNCHANGED <<flags, serve, mainVars, kind>>
      ELSE Startup("databaseMigration", flags.migrate, Listening)

(* net.Listen; the address may be taken.                                   *)
Listen(p, opens, next) ==
    /\ pc = p
    /\ \/ /\ pc' = next
          /\ listener' = [l \in Listeners |-> IF l \in opens THEN "open" ELSE listener[l]]
          /\ UNCHANGED <<code, conn>>
       \/ Exit("failure")
    /\ UNCHANGED <<flags, serve, mainVars, kind>>

ListenGrpc == Listen("listenGrpc", {"grpc"}, "listenHttp")
ListenHttp == Listen("listenHttp", {"http"}, "grpcServer")

(* One socket, and the two listeners of cmux behind it.                    *)
ListenSingle == Listen("listen", Listeners, "grpcServer")

(* Key pair and CA are only read when the three flags are given.           *)
GrpcServer == Startup("grpcServer", flags.tls, "httpServer")

(* The gateway's key pair and its dial to the gRPC address.                *)
HttpServer == Startup("httpServer", TRUE, IF flags.single THEN "spawn" ELSE "https")

HttpsListener == Startup("https", flags.tls, "spawn")

(* Mutant of Spawn: the HTTP server is not started.                        *)
SpawnGrpcOnly ==
    /\ pc = "spawn"
    /\ serve' = [serve EXCEPT !["grpc"] = "serving"]
    /\ pc' = IF flags.single THEN "mux" ELSE "collect"
    /\ UNCHANGED <<flags, listener, mainVars, code, kind, conn>>

(* The two go statements; then m.Serve() with one address, or the loop.    *)
Spawn ==
    /\ pc = "spawn"
    /\ serve' = [p \in Proto |-> "serving"]
    /\ pc' = IF flags.single THEN "mux" ELSE "collect"
    /\ UNCHANGED <<flags, listener, mainVars, code, kind, conn>>

-----------------------------------------------------------------------------
(* cmux, with one address *)

SetConn(c, s) == conn' = [conn EXCEPT ![c] = s]

(* root.Accept, and a goroutine that sniffs.                               *)
MuxAccept(c) ==
    /\ pc = "mux"
    /\ listener["root"] = "open"
    /\ conn[c] = "away"
    /\ SetConn(c, "sniffed")
    /\ UNCHANGED <<flags, pc, listener, serve, mainVars, code, kind>>

(* The client has sent enough, or closed: the connection goes to the queue *)
(* that matches, if it has room, or is closed once the root has failed.    *)
MuxServe(c) ==
    /\ conn[c] = "sniffed"
    /\ \/ /\ Cardinality({d \in Conn : conn[d] = "queued" /\ kind[d] = kind[c]}) < Backlog
          /\ SetConn(c, "queued")
       \/ /\ listener["root"] = "failed"
          /\ SetConn(c, "closed")
    /\ UNCHANGED <<flags, pc, listener, serve, mainVars, code, kind>>

(* Accept fails for good (temporary errors are retried).                   *)
RootFails ==
    /\ pc = "mux"
    /\ listener["root"] = "open"
    /\ listener' = [listener EXCEPT !["root"] = "failed"]
    /\ UNCHANGED <<flags, pc, serve, mainVars, code, kind, conn>>

(* Mutant of MuxReturns: the two listeners are left open.                  *)
MuxLeavesQueues ==
    /\ pc = "mux"
    /\ listener["root"] = "failed"
    /\ \A c \in Conn : conn[c] # "sniffed"
    /\ pc' = "collect"
    /\ UNCHANGED <<flags, listener, serve, mainVars, code, kind, conn>>

(* m.Serve returns: it has waited for the sniffing goroutines, closes both *)
(* queues and what they hold; its error is dropped.                        *)
MuxReturns ==
    /\ pc = "mux"
    /\ listener["root"] = "failed"
    /\ \A c \in Conn : conn[c] # "sniffed"
    /\ listener' = [l \in Listeners |-> "closed"]
    /\ conn' = [c \in Conn |-> IF conn[c] = "queued" THEN "closed" ELSE conn[c]]
    /\ pc' = "collect"
    /\ UNCHANGED <<flags, serve, mainVars, code, kind>>

-----------------------------------------------------------------------------
(* The goroutine of protocol p *)

(* Serve accepts a connection of its listener.                             *)
ServeAccept(p, c) ==
    /\ serve[p] = "serving"
    /\ pc # "exited"
    /\ kind[c] = p
    /\ \/ flags.single /\ conn[c] = "queued"
       \/ ~flags.single /\ conn[c] = "away" /\ listener[p] = "open"
    /\ SetConn(c, "served")
    /\ UNCHANGED <<flags, pc, listener, serve, mainVars, code, kind>>

(* A TCP listener fails for good.                                          *)
ListenerFails(p) ==
    /\ serve[p] = "serving"
    /\ pc # "exited"
    /\ ~flags.single
    /\ listener[p] = "open"
    /\ listener' = [listener EXCEPT ![p] = "failed"]
    /\ UNCHANGED <<flags, pc, serve, mainVars, code, kind, conn>>

(* Mutants of ServeReturns: the exit is not sent; the state of the         *)
(* listener is taken for that of the goroutine.                            *)
ServeReturnsSilently(p) ==
    /\ serve[p] = "serving"
    /\ pc # "exited"
    /\ listener[p] \in {"failed", "closed"}
    /\ serve' = [serve EXCEPT ![p] = "returned"]
    /\ listener' = [listener EXCEPT ![p] = "closed"]
    /\ UNCHANGED <<flags, pc, mainVars, code, kind, conn>>

ServeReturnsListener(p) ==
    /\ serve[p] = "serving"
    /\ pc # "exited"
    /\ listener[p] \in {"failed", "closed"}
    /\ serve' = [serve EXCEPT ![p] = "closed"]
    /\ eps' = eps \cup {p}
    /\ UNCHANGED <<flags, pc, listener, epsClosed, collected, ok, code, kind, conn>>

(* Serve returns its listener's error, which goes into eps.                *)
ServeReturns(p) ==
    /\ serve[p] = "serving"
    /\ pc # "exited"
    /\ listener[p] \in {"failed", "closed"}
    /\ serve' = [serve EXCEPT ![p] = "returned"]
    /\ eps' = eps \cup {p}
    /\ listener' = [listener EXCEPT ![p] = "closed"]
    /\ UNCHANGED <<flags, pc, epsClosed, collected, ok, code, kind, conn>>

(* Mutants of Collect: the channel is closed at its first exit, errors do  *)
(* not reset ok, the loop waits for a third exit.                          *)
CollectOne ==
    /\ pc = "collect"
    /\ \E p \in eps : eps' = eps \ {p} /\ collected' = collected \cup {p}
    /\ ok' = FALSE
    /\ epsClosed' = TRUE
    /\ Exit("failure")
    /\ UNCHANGED <<flags, serve, kind>>

CollectSucceeds ==
    /\ pc = "collect"
    /\ \E p \in eps : eps' = eps \ {p} /\ collected' = collected \cup {p}
    /\ IF collected' = Proto
         THEN epsClosed' = TRUE /\ Exit("success")
         ELSE UNCHANGED <<pc, listener, epsClosed, code, conn>>
    /\ UNCHANGED <<flags, serve, ok, kind>>

CollectThree ==
    /\ pc = "collect"
    /\ \E p \in eps : eps' = eps \ {p} /\ collected' = collected \cup {p}
    /\ ok' = FALSE
    /\ UNCHANGED <<flags, pc, listener, serve, epsClosed, code, kind, conn>>

(* for err := range eps: one exit is received; after as many as the        *)
(* channel's capacity it is closed, ok is returned and serve() exits.      *)
Collect ==
    /\ pc = "collect"
    /\ \E p \in eps :
         /\ eps' = eps \ {p}
         /\ collected' = collected \cup {p}
    /\ ok' = FALSE
    /\ IF Cardinality(collected') = Cardinality(Proto)
         THEN epsClosed' = TRUE /\ Exit("failure")
         ELSE UNCHANGED <<pc, listener, epsClosed, code, conn>>
    /\ UNCHANGED <<flags, serve, kind>>

-----------------------------------------------------------------------------
Main == \/ DatabaseMigration \/ ListenSingle \/ ListenGrpc \/ ListenHttp
        \/ GrpcServer \/ HttpServer \/ HttpsListener \/ Spawn
        \/ MuxReturns \/ Collect

Next == \/ Main
        \/ RootFails
        \/ \E c \in Conn : MuxAccept(c) \/ MuxServe(c)
        \/ \E p \in Proto : \/ ListenerFails(p) \/ ServeReturns(p)
                            \/ \E c \in Conn : ServeAccept(p, c)

Spec == Init /\ [][Next]_vars

(* Goroutines that can run do run.  Nothing is assumed of clients: one may *)
(* stay silent for ever (MuxServe), and nothing of failures.               *)
FairSpec ==
    /\ Spec
    /\ WF_vars(Main)
    /\ \A p \in Proto : /\ WF_vars(ServeReturns(p))
                        /\ \A c \in Conn : WF_vars(ServeAccept(p, c))

-----------------------------------------------------------------------------
(* Properties *)

Sniffing == \E c \in Conn : conn[c] = "sniffed"

(* No goroutine can send on a channel that was closed, which would panic:  *)
(* eps is closed after both exits were received, and the queues of cmux    *)
(* when no sniffing goroutine is left.  Lines 241 and 305 of server.go.    *)
NoSendOnClosedChannel ==
    /\ epsClosed => \A p \in Proto : serve[p] = "returned"
    /\ flags.single /\ pc \in {"collect", "exited"} => ~Sniffing

(* Every exit that was sent is in the channel or was received, so the      *)
(* channel, of capacity 2, never blocks a sender.                          *)
ExitsAreCounted ==
    /\ eps \cup collected = {p \in Proto : serve[p] = "returned"}
    /\ eps \cap collected = {}

(* The process of serve never ends by itself with success, and once it has *)
(* started to serve it does not end while a protocol is still served.      *)
EndsOnlyWhenNothingIsServed ==
    pc = "exited" =>
        /\ code = "failure"
        /\ \A p \in Proto : serve[p] # "serving"
        /\ ~ok => collected = Proto

(* One address: if the socket fails both protocols and the process end,    *)
(* unless a client that connected and sends nothing holds cmux up.         *)
RootFailureEndsProcess ==
    (listener["root"] = "failed") ~> (pc = "exited" \/ Sniffing)

(* When both Serve calls have returned the process ends.                   *)
LastReturnEndsProcess ==
    (\A p \in Proto : serve[p] = "returned") ~> (pc = "exited")

(* No connection is left in a queue of cmux: it is served or closed, also  *)
(* when the multiplexer is shut down around it.                            *)
QueuedConnectionsLeave ==
    \A c \in Conn : (conn[c] = "queued") ~> (conn[c] \in {"served", "closed"})
=============================================================================

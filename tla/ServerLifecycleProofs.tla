----------------------- MODULE ServerLifecycleProofs ------------------------
(***************************************************************************)
(* The safety properties of ServerLifecycle, for any set of connections    *)
(* and any backlog.                                                        *)
(***************************************************************************)
EXTENDS ServerLifecycle, FiniteSetTheorems, TLAPS

(* Before the two go statements nothing serves and no error was seen.      *)
BeforeSpawn == {"databaseMigration", "listen", "listenGrpc", "listenHttp", "grpcServer",
                "httpServer", "https", "spawn"}

StartInv == pc \in BeforeSpawn =>
                /\ \A p \in Proto : serve[p] = "none"
                /\ ok
                /\ ~Sniffing

(* eps is closed by the step that ends the process, which has both exits.  *)
ChannelInv ==
    /\ epsClosed => collected = Proto
    /\ pc = "exited" => /\ code = "failure"
                        /\ ~ok => collected = Proto
                        /\ ok => \A p \in Proto : serve[p] = "none"

(* Sniffing goroutines live in cmux only.                                  *)
SniffInv == Sniffing => pc = "mux"

IInv == TypeOK /\ StartInv /\ ChannelInv /\ SniffInv /\ ExitsAreCounted

(* The invariant holds before the first step.                              *)
LEMMA InitInv == Init => IInv
<1> SUFFICES ASSUME Init PROVE IInv
  OBVIOUS
<1>1. TypeOK
  BY DEF Init, TypeOK, Steps, ConnStates
<1>2. ~Sniffing
  BY DEF Init, Sniffing
<1>3. StartInv /\ ChannelInv /\ SniffInv
  BY <1>2 DEF Init, StartInv, ChannelInv, SniffInv
<1>4. ExitsAreCounted
  BY DEF Init, ExitsAreCounted
<1>5. QED BY <1>1, <1>3, <1>4 DEF IInv

(* Both exits are in when as many were received as there are protocols.    *)
LEMMA AllCollected ==
    ASSUME NEW S \in SUBSET Proto, Cardinality(S) = Cardinality(Proto)
    PROVE  S = Proto
<1>1. IsFiniteSet({"grpc"})
  BY FS_EmptySet, FS_AddElement
<1>2. IsFiniteSet(Proto)
  BY <1>1, FS_AddElement DEF Proto
<1>3. QED BY <1>2, FS_Subset

(* A step of the start-up, whether it goes on or ends the process.         *)
LEMMA StartupStep ==
    ASSUME IInv, NEW p \in BeforeSpawn \ {"spawn"}, NEW next \in BeforeSpawn,
           NEW mayFail \in BOOLEAN, NEW opens \in SUBSET Listeners,
           Startup(p, mayFail, next) \/ Listen(p, opens, next)
    PROVE  IInv'
<1> USE DEF IInv, StartInv, ChannelInv, SniffInv, ExitsAreCounted, Sniffing,
            BeforeSpawn, mainVars
<1>1. pc = p /\ UNCHANGED <<flags, serve, eps, epsClosed, collected, ok, kind>>
  BY DEF Startup, Listen
<1>2. CASE pc' = next /\ UNCHANGED <<code, conn>>
           /\ listener' \in [Listeners -> {"none", "open", "failed", "closed"}]
  BY <1>1, <1>2 DEF TypeOK, Steps
<1>3. CASE Exit("failure")
  BY <1>1, <1>3 DEF Exit, TypeOK, Steps, ConnStates
<1>4. QED BY <1>2, <1>3 DEF Startup, Listen, TypeOK

(* The start-up as a whole.                                                *)
LEMMA MainStartup ==
    ASSUME IInv,
           \/ DatabaseMigration \/ ListenSingle \/ ListenGrpc \/ ListenHttp
           \/ GrpcServer \/ HttpServer \/ HttpsListener
    PROVE  IInv'
<1> USE DEF BeforeSpawn
<1>f. flags.tls \in BOOLEAN /\ flags.migrate \in BOOLEAN
  BY DEF IInv, TypeOK, Flags
<1>1. CASE DatabaseMigration
  <2>1. CASE flags.migrate /\ ~flags.dsn
    <3>1. Startup("databaseMigration", TRUE, Listening)
      BY <1>1, <2>1 DEF DatabaseMigration, Startup
    <3>2. QED BY <3>1, StartupStep DEF Listening
  <2>2. CASE ~(flags.migrate /\ ~flags.dsn)
    <3>1. Startup("databaseMigration", flags.migrate, Listening)
      BY <1>1, <2>2 DEF DatabaseMigration
    <3>2. QED BY <3>1, <1>f, StartupStep DEF Listening
  <2>3. QED BY <2>1, <2>2
<1>2. CASE ListenSingle \/ ListenGrpc \/ ListenHttp
  <2>1. {"grpc"} \in SUBSET Listeners /\ {"http"} \in SUBSET Listeners
    BY DEF Listeners, Proto
  <2>2. \/ Listen("listen", Listeners, "grpcServer")
        \/ Listen("listenGrpc", {"grpc"}, "listenHttp")
        \/ Listen("listenHttp", {"http"}, "grpcServer")
    BY <1>2 DEF ListenSingle, ListenGrpc, ListenHttp
  <2>3. CASE Listen("listen", Listeners, "grpcServer")
    BY <2>3, StartupStep
  <2>4. CASE Listen("listenGrpc", {"grpc"}, "listenHttp")
    BY <2>1, <2>4, StartupStep
  <2>5. CASE Listen("listenHttp", {"http"}, "grpcServer")
    BY <2>1, <2>5, StartupStep
  <2>6. QED BY <2>2, <2>3, <2>4, <2>5
<1>3. CASE GrpcServer \/ HttpsListener
  BY <1>3, <1>f, StartupStep DEF GrpcServer, HttpsListener
<1>4. CASE HttpServer
  BY <1>4, StartupStep DEF HttpServer
<1>5. QED BY <1>1, <1>2, <1>3, <1>4

(* Every step preserves the invariant.                                     *)
LEMMA NextInv == IInv /\ [Next]_vars => IInv'
<1> SUFFICES ASSUME IInv, [Next]_vars PROVE IInv'
  OBVIOUS
<1> USE DEF IInv, StartInv, ChannelInv, SniffInv, ExitsAreCounted, Sniffing,
            BeforeSpawn, mainVars
<1>1. CASE \/ DatabaseMigration \/ ListenSingle \/ ListenGrpc \/ ListenHttp
           \/ GrpcServer \/ HttpServer \/ HttpsListener
  BY <1>1, MainStartup
<1>2. CASE Spawn
  BY <1>2 DEF Spawn, TypeOK, Steps
<1>3. CASE MuxReturns
  BY <1>3 DEF MuxReturns, TypeOK, Steps, ConnStates
<1>4. CASE Collect
  <2>1. PICK p \in eps : eps' = eps \ {p} /\ collected' = collected \cup {p}
    BY <1>4 DEF Collect
  <2>2. collected' \in SUBSET Proto /\ ExitsAreCounted'
    BY <1>4, <2>1 DEF Collect, TypeOK
  <2>3. CASE Cardinality(collected') = Cardinality(Proto)
    <3>1. collected' = Proto
      BY <2>2, <2>3, AllCollected
    <3>2. pc' = "exited" /\ code' = "failure" /\ ok' = FALSE /\ epsClosed' = TRUE
      BY <1>4, <2>3 DEF Collect, Exit
    <3>3. TypeOK'
      <4>1. /\ listener' \in [Listeners -> {"none", "open", "failed", "closed"}]
            /\ conn' \in [Conn -> ConnStates]
        BY <1>4, <2>3 DEF Collect, Exit, TypeOK, ConnStates
      <4>2. eps' \subseteq Proto /\ UNCHANGED <<flags, serve, kind>>
        BY <1>4, <2>1 DEF Collect, TypeOK
      <4>3. QED BY <2>2, <3>2, <4>1, <4>2 DEF TypeOK, Steps
    <3>4. ~Sniffing'
      BY <1>4, <2>3 DEF Collect, Exit
    <3>5. QED BY <2>2, <3>1, <3>2, <3>3, <3>4
  <2>4. CASE Cardinality(collected') # Cardinality(Proto)
    BY <1>4, <2>1, <2>2, <2>4 DEF Collect, TypeOK
  <2>5. QED BY <2>3, <2>4
<1>5. CASE RootFails
  BY <1>5 DEF RootFails, TypeOK
<1>6. ASSUME NEW c \in Conn, MuxAccept(c) \/ MuxServe(c) PROVE IInv'
  <2>1. UNCHANGED <<flags, pc, listener, serve, eps, epsClosed, collected, ok, code, kind>>
    BY <1>6 DEF MuxAccept, MuxServe
  <2>2. pc = "mux" /\ TypeOK'
    BY <1>6, <2>1 DEF MuxAccept, MuxServe, SetConn, TypeOK, ConnStates
  <2>3. QED BY <2>1, <2>2
<1>7. ASSUME NEW p \in Proto, ListenerFails(p) PROVE IInv'
  BY <1>7 DEF ListenerFails, TypeOK, Listeners
<1>8. ASSUME NEW p \in Proto, ServeReturns(p) PROVE IInv'
  <2>1. TypeOK' /\ ExitsAreCounted'
    BY <1>8 DEF ServeReturns, TypeOK, Listeners
  <2>2. QED BY <1>8, <2>1 DEF ServeReturns
<1>9. ASSUME NEW p \in Proto, NEW c \in Conn, ServeAccept(p, c) PROVE IInv'
  BY <1>9 DEF ServeAccept, SetConn, TypeOK, ConnStates
<1>10. CASE UNCHANGED vars
  BY <1>10 DEF vars, TypeOK
<1>11. QED
  BY <1>1, <1>2, <1>3, <1>4, <1>5, <1>6, <1>7, <1>8, <1>9, <1>10 DEF Next, Main

(* The inductive invariant holds in every behaviour of the command.        *)
THEOREM Invariance == Spec => []IInv
BY InitInv, NextInv, PTL DEF Spec

(* The steps of Main, the listeners, the two goroutines and the exits they *)
(* send stay of their types; in particular only the exits of the protocols *)
(* are collected, so the loop of ServeProto receives no other.             *)
THEOREM TypeCorrect == Spec => []TypeOK
<1>1. IInv => TypeOK
  BY DEF IInv
<1>2. QED BY <1>1, Invariance, PTL

(* Neither eps nor the queues of cmux are closed under a sender.           *)
THEOREM ChannelsAreSafe == Spec => []NoSendOnClosedChannel
<1>1. IInv => NoSendOnClosedChannel
  BY DEF IInv, ChannelInv, SniffInv, ExitsAreCounted, NoSendOnClosedChannel
<1>2. QED BY <1>1, Invariance, PTL

(* No exit is lost or received twice.                                      *)
THEOREM ExitsAreNotLost == Spec => []ExitsAreCounted
<1>1. IInv => ExitsAreCounted
  BY DEF IInv
<1>2. QED BY <1>1, Invariance, PTL

(* The process ends with failure, and not while it serves a protocol.      *)
THEOREM EndIsJustified == Spec => []EndsOnlyWhenNothingIsServed
<1>1. IInv => EndsOnlyWhenNothingIsServed
  BY DEF IInv, TypeOK, ChannelInv, ExitsAreCounted, EndsOnlyWhenNothingIsServed
<1>2. QED BY <1>1, Invariance, PTL
=============================================================================

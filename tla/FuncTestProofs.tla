--------------------------- MODULE FuncTestProofs ---------------------------
(***************************************************************************)
(* What the verdict of a session says of the rows and of the metrics,      *)
(* whoever holds the address and whatever is lost.                         *)
(***************************************************************************)
EXTENDS FuncTest, TLAPS

-----------------------------------------------------------------------------
(* The inductive invariant *)

TypeInv ==
    /\ test \in 1 .. 10
    /\ case \in 1 .. 6
    /\ rows \in [Creations -> Nat]
    /\ metrics \in [received: SUBSET Methods, sent: SUBSET Methods]
    /\ step # "session" => test = 1 /\ case = 1 /\ failures = {}

(* While nothing has failed, every creation behind us has its one row.     *)
Place(t) == IF t = "RsvpCreation" THEN 5 ELSE 6
RowsInv ==
    failures = {} => \A t \in Creations : rows[t] = IF test > Place(t) THEN 1 ELSE 0

(* A failure that is more than a missing pattern.                          *)
Reported == \E f \in failures : Method(f[1]) # {}

(* What has been called is counted, unless its test has said otherwise.    *)
CountInv ==
    alone /\ ~Reported =>
        \A k \in 1 .. test - 1 : /\ Method(Session[k]) \subseteq metrics.received
                                 /\ Method(Session[k]) \subseteq metrics.sent

ExitInv == exit = "pass" => failures = {} /\ test = 10

IInv == TypeInv /\ RowsInv /\ CountInv /\ ExitInv /\ MetricsFollowTheOthers

-----------------------------------------------------------------------------
(* The session and its requests *)

LEMMA SessionIs ==
    /\ Len(Session) = 9
    /\ \A k \in 1 .. 9 :
         /\ Session[k] = "RsvpCreation" <=> k = 5
         /\ Session[k] = "HttpRsvpCreation" <=> k = 6
         /\ Session[k] = "HttpMetrics" <=> k = 8
    /\ Method(Session[1]) = {"Version"}
    /\ Method(Session[3]) = {"ServicesStatus"}
    /\ Method(Session[5]) = {"RsvpCreation"}
    /\ Method("HttpMetrics") = {}
<1>1. /\ Session[1] = "Version" /\ Session[2] = "HttpVersion" /\ Session[3] = "ServicesStatus"
      /\ Session[4] = "HttpServicesStatus" /\ Session[5] = "RsvpCreation"
      /\ Session[6] = "HttpRsvpCreation" /\ Session[7] = "HttpStatus"
      /\ Session[8] = "HttpMetrics" /\ Session[9] = "HttpSwagger" /\ Len(Session) = 9
  BY DEF Session
<1>2. \A k \in 1 .. 9 : k \in {1, 2, 3, 4, 5, 6, 7, 8, 9}
  OBVIOUS
<1>3. \A k \in 1 .. 9 :
         /\ Session[k] = "RsvpCreation" <=> k = 5
         /\ Session[k] = "HttpRsvpCreation" <=> k = 6
         /\ Session[k] = "HttpMetrics" <=> k = 8
  BY <1>1, <1>2
<1>4. QED
  BY <1>1, <1>3 DEF Method, Creations

LEMMA MethodType == \A t : Method(t) \in SUBSET Methods
BY DEF Method, Methods, Creations

(* A request of test t whose call ended with result.                       *)
Asked(t, result) ==
    /\ result \in {"ok", "refused", "unmatched", "error"}
    /\ Judge(t, result)
    /\ rows' \in [Creations -> Nat]
    /\ t \notin Creations \/ Invalid(t) => rows' = rows
    /\ result = "ok" /\ t \in Creations => rows' = [rows EXCEPT ![t] = @ + 1]
    /\ Invalid(t) => result # "ok"
    /\ metrics' \in [received: SUBSET Methods, sent: SUBSET Methods]
    /\ metrics.received \subseteq metrics'.received
    /\ metrics.sent \subseteq metrics'.sent
    /\ result = "ok" => Method(t) \subseteq metrics'.received /\ Method(t) \subseteq metrics'.sent
    /\ result = "unmatched" => t = "HttpMetrics" /\ metrics # AllMetrics

LEMMA ServedIsAsked ==
    ASSUME TypeInv, NEW t, Served(t)
    PROVE  \E result : Asked(t, result)
<1>1. PICK outcome \in Outcomes(t), lost \in BOOLEAN :
        /\ metrics' = Counted(t, outcome)
        /\ rows' = IF t \in Creations /\ outcome = "ok" THEN [rows EXCEPT ![t] = @ + 1] ELSE rows
        /\ Judge(t, IF lost THEN "error" ELSE outcome)
  BY DEF Served
<1> DEFINE result == IF lost THEN "error" ELSE outcome
<1>2. /\ outcome \in {"ok", "refused", "unmatched", "error"}
      /\ Invalid(t) => outcome # "ok"
      /\ outcome = "unmatched" => t = "HttpMetrics" /\ metrics # AllMetrics
  BY DEF Outcomes
<1>3. /\ metrics' \in [received: SUBSET Methods, sent: SUBSET Methods]
      /\ metrics.received \subseteq metrics'.received
      /\ metrics.sent \subseteq metrics'.sent
      /\ outcome = "ok" => Method(t) \subseteq metrics'.received /\ Method(t) \subseteq metrics'.sent
  BY <1>1, MethodType DEF Counted, TypeInv
<1>4. rows' \in [Creations -> Nat]
  BY <1>1 DEF TypeInv
<1>5. Asked(t, result)
  BY <1>1, <1>2, <1>3, <1>4 DEF Asked
<1>6. QED
  BY <1>5

LEMMA NotServedIsAsked ==
    ASSUME TypeInv, NEW t, NotServed(t)
    PROVE  \E result : Asked(t, result)
<1>1. metrics' = metrics /\ rows' = rows
  BY DEF NotServed
<1>2. CASE Judge(t, "error")
  <2>1. Asked(t, "error")
    BY <1>1, <1>2 DEF Asked, TypeInv
  <2>2. QED
    BY <2>1
<1>3. CASE t = "HttpStatus" /\ Judge(t, "ok")
  <2>1. Method(t) = {} /\ t \notin Creations /\ ~Invalid(t)
    BY <1>3 DEF Method, Creations, Invalid
  <2>2. Asked(t, "ok")
    BY <1>1, <1>3, <2>1 DEF Asked, TypeInv
  <2>3. QED
    BY <2>2
<1>4. QED
  BY <1>2, <1>3 DEF NotServed

-----------------------------------------------------------------------------
(* Every step keeps the invariant *)

LEMMA AskedKept ==
    ASSUME IInv, Running("session"), test <= 9,
           NEW result, Asked(Session[test], result),
           UNCHANGED <<config, world, step, exit, table>>
    PROVE  IInv'
<1> DEFINE t == Session[test]
<1>1. /\ test \in 1 .. 9 /\ test \in Nat /\ case \in 1 .. 6 /\ exit = "running"
      /\ step' = step /\ exit' = exit /\ alone' = alone /\ step = "session"
  BY DEF IInv, TypeInv, Running, world
<1>2. /\ t = "RsvpCreation" <=> test = 5
      /\ t = "HttpRsvpCreation" <=> test = 6
      /\ t = "HttpMetrics" <=> test = 8
  BY <1>1, SessionIs
<1>3. Asked(t, result)
  OBVIOUS
<1> HIDE DEF t
<1>4. t \in Creations <=> test \in {5, 6}
  BY <1>2 DEF Creations
(* Tried again, on to the next request, or on to the next test.            *)
<1> DEFINE Judged ==
      failures' = IF Passes(t, result) THEN failures ELSE failures \cup {<<t, result>>}
<1>5. \/ /\ t \notin Creations
         /\ UNCHANGED <<test, case, failures>>
      \/ /\ t \in Creations /\ case < 6
         /\ test' = test /\ case' = case + 1 /\ Judged
      \/ /\ ~Invalid(t)
         /\ test' = test + 1 /\ case' = 1 /\ Judged
  <2>1. Judge(t, result)
    BY <1>3 DEF Asked
  <2>2. CASE t \in Retried /\ try = 1 /\ result = "error" /\ config.certs
    BY <2>1, <2>2 DEF Judge, Retried, Creations
  <2>3. CASE ~(t \in Retried /\ try = 1 /\ result = "error" /\ config.certs)
    <3>1. /\ Judged
          /\ case' = IF case < Cases(t) THEN case + 1 ELSE 1
          /\ test' = IF case < Cases(t) THEN test ELSE test + 1
      BY <2>1, <2>3 DEF Judge
    <3>2. Cases(t) = IF t \in Creations THEN 6 ELSE 1
      BY DEF Cases
    <3>3. Invalid(t) <=> t \in Creations /\ case < 6
      BY DEF Invalid
    <3> HIDE DEF Judged
    <3>4. QED
      BY <1>1, <3>1, <3>2, <3>3
  <2>4. QED
    BY <2>2, <2>3
<1>6. failures \subseteq failures'
  BY <1>5
<1>7. TypeInv'
  <2>1. test' \in 1 .. 10 /\ case' \in 1 .. 6
    BY <1>1, <1>5
  <2>2. QED
    BY <1>1, <1>3, <2>1 DEF TypeInv, Asked
<1>8. RowsInv'
  <2> SUFFICES ASSUME failures' = {}
               PROVE  \A c \in Creations : rows'[c] = IF test' > Place(c) THEN 1 ELSE 0
    BY DEF RowsInv, Place
  <2>1. \A c \in Creations : rows[c] = IF test > Place(c) THEN 1 ELSE 0
    BY <1>6 DEF IInv, RowsInv
  <2>2. CASE test' = test
    <3>1. t \notin Creations \/ Invalid(t)
      BY <1>1, <1>5, <2>2 DEF Invalid
    <3>2. rows' = rows
      BY <1>3, <3>1 DEF Asked
    <3>3. QED
      BY <2>1, <2>2, <3>2
  <2>3. CASE test' = test + 1 /\ ~Invalid(t) /\ Judged
    <3>1. result = "ok"
      BY <2>3 DEF Passes
    <3>2. CASE t \in Creations
      <4>1. rows' = [rows EXCEPT ![t] = @ + 1] /\ rows \in [Creations -> Nat]
        BY <1>3, <3>1, <3>2 DEF Asked, IInv, TypeInv
      <4>2. test = Place(t) /\ \A c \in Creations : c = t \/ test # Place(c)
        BY <1>2, <3>2 DEF Creations, Place
      <4>3. QED
        BY <1>1, <2>1, <2>3, <3>2, <4>1, <4>2 DEF Place
    <3>3. CASE t \notin Creations
      <4>1. rows' = rows
        BY <1>3, <3>3 DEF Asked
      <4>2. test \notin {5, 6}
        BY <1>4, <3>3
      <4>3. QED
        BY <1>1, <2>1, <2>3, <4>1, <4>2 DEF Place
    <3>4. QED
      BY <3>2, <3>3
  <2>4. QED
    BY <1>5, <2>2, <2>3
<1>9. CountInv'
  <2> SUFFICES ASSUME alone, ~Reported', NEW k \in 1 .. test' - 1
               PROVE  /\ Method(Session[k]) \subseteq metrics'.received
                      /\ Method(Session[k]) \subseteq metrics'.sent
    BY <1>1 DEF CountInv, Method
  <2>1. ~Reported
    BY <1>6 DEF Reported, Method
  <2>2. CASE k \in 1 .. test - 1
    BY <1>3, <2>1, <2>2 DEF IInv, CountInv, Asked
  <2>3. CASE k \notin 1 .. test - 1
    <3>1. k = test /\ test' = test + 1 /\ ~Invalid(t) /\ Judged
      BY <1>1, <1>5, <2>3
    <3>2. CASE Passes(t, result)
      BY <1>3, <3>1, <3>2 DEF Passes, Asked, t
    <3>3. CASE ~Passes(t, result)
      <4>1. <<t, result>> \in failures' /\ <<t, result>>[1] = t
        BY <3>1, <3>3
      <4>2. Method(t) = {}
        BY <4>1 DEF Reported, Method
      <4>3. QED
        BY <3>1, <4>2 DEF t
    <3>4. QED
      BY <3>2, <3>3
  <2>4. QED
    BY <2>2, <2>3
<1>10. ExitInv'
  BY <1>1 DEF ExitInv
<1>11. MetricsFollowTheOthers'
  <2> SUFFICES ASSUME alone, <<"HttpMetrics", "unmatched">> \in failures'
               PROVE  Reported'
    BY <1>1 DEF MetricsFollowTheOthers, Reported, Method
  <2>1. Reported => Reported'
    BY <1>6 DEF Reported, Method
  <2>2. CASE <<"HttpMetrics", "unmatched">> \in failures
    BY <2>1, <2>2 DEF IInv, MetricsFollowTheOthers, Reported
  <2>3. CASE <<"HttpMetrics", "unmatched">> \notin failures
    <3>1. <<t, result>> = <<"HttpMetrics", "unmatched">>
      BY <1>5, <2>3
    <3>2. test = 8 /\ metrics # AllMetrics
      BY <1>2, <1>3, <3>1 DEF Asked
    <3>3. ASSUME ~Reported PROVE FALSE
      <4>1. \A k \in {1, 3, 5} : /\ Method(Session[k]) \subseteq metrics.received
                                 /\ Method(Session[k]) \subseteq metrics.sent
        BY <3>2, <3>3 DEF IInv, CountInv
      <4>2. Methods \subseteq metrics.received /\ Methods \subseteq metrics.sent
        BY <4>1, SessionIs DEF Methods
      <4>3. metrics \in [received: SUBSET Methods, sent: SUBSET Methods]
        BY DEF IInv, TypeInv
      <4>4. QED
        BY <3>2, <4>2, <4>3 DEF AllMetrics
    <3>4. QED
      BY <2>1, <3>3
  <2>4. QED
    BY <2>2, <2>3
<1>12. QED
  BY <1>7, <1>8, <1>9, <1>10, <1>11 DEF IInv

(* Before the session nothing has been asked.                              *)
LEMMA BeforeKept ==
    ASSUME IInv, step # "session", UNCHANGED <<test, case, failures, rows>>,
           metrics' \in [received: SUBSET Methods, sent: SUBSET Methods], exit' # "pass"
    PROVE  IInv'
<1>1. test = 1 /\ case = 1 /\ failures = {} /\ 1 .. test - 1 = {}
  BY DEF IInv, TypeInv
<1>2. TypeInv' /\ ExitInv'
  BY <1>1 DEF IInv, TypeInv, ExitInv
<1>3. RowsInv'
  BY DEF IInv, RowsInv, Place
<1>4. CountInv' /\ MetricsFollowTheOthers'
  BY <1>1 DEF CountInv, MetricsFollowTheOthers
<1>5. QED
  BY <1>2, <1>3, <1>4 DEF IInv

(* Nothing is asked while the server starts, others come or go, or at the  *)
(* end.                                                                    *)
LEMMA OutsideKept ==
    ASSUME IInv, UNCHANGED <<step, test, case, failures, rows>>,
           exit' = "pass" => exit = "pass" \/ (failures = {} /\ test > Len(Session)),
           \/ metrics' = metrics /\ alone' = alone
           \/ /\ alone' = FALSE
              /\ metrics' \in [received: SUBSET Methods, sent: SUBSET Methods]
    PROVE  IInv'
<1>1. TypeInv'
  BY DEF IInv, TypeInv
<1>2. RowsInv'
  BY DEF IInv, RowsInv, Place
<1>3. ExitInv'
  BY SessionIs DEF IInv, ExitInv, TypeInv
<1>4. CountInv' /\ MetricsFollowTheOthers'
  <2>1. CASE metrics' = metrics /\ alone' = alone
    <3>1. Reported' <=> Reported
      BY DEF Reported, Method
    <3>2. CountInv'
      BY <2>1, <3>1 DEF IInv, CountInv, Method
    <3>3. MetricsFollowTheOthers'
      BY <2>1 DEF IInv, MetricsFollowTheOthers, Method
    <3>4. QED
      BY <3>2, <3>3
  <2>2. CASE alone' = FALSE
    BY <2>2 DEF CountInv, MetricsFollowTheOthers
  <2>3. QED
    BY <2>1, <2>2
<1>5. QED
  BY <1>1, <1>2, <1>3, <1>4 DEF IInv

LEMMA MetricsType ==
    /\ NoMetrics \in [received: SUBSET Methods, sent: SUBSET Methods]
    /\ AllMetrics \in [received: SUBSET Methods, sent: SUBSET Methods]
BY DEF NoMetrics, AllMetrics

LEMMA InitHolds == Init => IInv
<1> SUFFICES ASSUME Init PROVE IInv
  OBVIOUS
<1>1. TypeInv /\ RowsInv
  BY MetricsType DEF Init, TypeInv, RowsInv, Place, Creations
<1>2. CountInv /\ ExitInv /\ MetricsFollowTheOthers
  BY DEF Init, CountInv, ExitInv, MetricsFollowTheOthers
<1>3. QED
  BY <1>1, <1>2 DEF IInv

LEMMA NextHolds == IInv /\ [Next]_vars => IInv'
<1> SUFFICES ASSUME IInv, [Next]_vars PROVE IInv'
  OBVIOUS
<1>1. metrics \in [received: SUBSET Methods, sent: SUBSET Methods]
  BY DEF IInv, TypeInv
<1>2. CASE getFreePort
  BY <1>1, <1>2, MetricsType, BeforeKept DEF getFreePort, Running
<1>3. CASE CreateToken
  BY <1>1, <1>3, BeforeKept DEF CreateToken, Running
<1>4. CASE Migrate
  <2>1. /\ step = "migrate" /\ exit = "running" /\ exit' # "pass"
        /\ UNCHANGED <<test, case, failures, rows, metrics>>
    BY <1>4 DEF Migrate, Running
  <2>2. QED
    BY <1>1, <2>1, BeforeKept
<1>5. CASE Listen
  BY <1>5, OutsideKept DEF Listen
<1>6. CASE Others
  BY <1>6, MetricsType, OutsideKept DEF Others, session
<1>7. CASE Test
  <2>1. /\ Running("session") /\ test <= 9
        /\ UNCHANGED <<config, world, step, exit, table>>
    BY <1>7, SessionIs DEF Test
  <2>2. TypeInv
    BY DEF IInv
  <2>3. \E result : Asked(Session[test], result)
    BY <1>7, <2>2, ServedIsAsked, NotServedIsAsked DEF Test
  <2>4. QED
    BY <2>1, <2>3, AskedKept
<1>8. CASE Exit
  BY <1>8, OutsideKept DEF Exit, world
<1>9. CASE UNCHANGED vars
  BY <1>9, OutsideKept DEF vars, world, session
<1>10. QED
  BY <1>2, <1>3, <1>4, <1>5, <1>6, <1>7, <1>8, <1>9 DEF Next

LEMMA Invariance == Spec => []IInv
BY InitHolds, NextHolds, PTL DEF Spec

-----------------------------------------------------------------------------
(* The results *)

(* functest exits with 0 only when each of the two creation tests has      *)
(* recorded exactly one RSVP, whatever answers it missed and whoever came  *)
(* to hold the address: runFunctionalTestSession and os.Exit.              *)
THEOREM PassIsRecorded == Spec => []PassMeansRecorded
<1>1. IInv => PassMeansRecorded
  <2> SUFFICES ASSUME IInv, exit = "pass", NEW t \in Creations
               PROVE  rows[t] = 1
    BY DEF PassMeansRecorded
  <2>1. failures = {} /\ test = 10
    BY DEF IInv, ExitInv
  <2>2. QED
    BY <2>1 DEF IInv, RowsInv, Place
<1>2. QED
  BY <1>1, Invariance, PTL

(* On a server of its own, a pattern that HttpMetrics misses comes with a  *)
(* failure of one of the calls it is to count: testHttpMetrics.            *)
THEOREM MetricsTellNothingNew == Spec => []MetricsFollowTheOthers
<1>1. IInv => MetricsFollowTheOthers
  BY DEF IInv
<1>2. QED
  BY <1>1, Invariance, PTL
=============================================================================

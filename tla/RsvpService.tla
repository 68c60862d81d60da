---------------------------- MODULE RsvpService -----------------------------
(***************************************************************************)
(* What the service promises its callers, with no database handle, no      *)
(* interceptor and no transaction in sight:                                *)
(*                                                                         *)
(*  - an RSVP is recorded in one atomic step, only for a call that may     *)
(*    make it and whose parameters are valid, and once per call;           *)
(*  - a caller that is told "created" is told of that very row, and one    *)
(*    that is told "refused" knows that no row was or will be recorded;    *)
(*  - a caller that loses its answer (deadline, broken connection, killed  *)
(*    server) knows nothing: the row may be there, or may still come.      *)
(***************************************************************************)
EXTENDS RsvpParams

CONSTANTS Request,      \* the calls
          UUID,         \* primary keys
          Calls,        \* what a call may ask: records with a field params
          Permitted     \* the calls that are allowed to record an RSVP

VARIABLES call,         \* [Request -> Calls]
          rows,         \* the table: records [uuid, by, params]
          outcome,      \* what the service did of each call
          reply         \* what the caller knows of it

vars == <<call, rows, outcome, reply>>

Nothing(k) == [kind |-> k, row |-> {}]

Init == /\ call \in [Request -> Calls]
        /\ rows = {}
        /\ outcome = [r \in Request |-> Nothing("open")]
        /\ reply = [r \in Request |-> Nothing("waiting")]

(* The one step that records an RSVP.                                      *)
Create(r) ==
    /\ outcome[r].kind = "open"
    /\ call[r] \in Permitted
    /\ Validate(call[r].params) = Valid
    /\ \E u \in UUID :
         LET row == [uuid |-> u, by |-> r, params |-> call[r].params]
         IN /\ \A other \in rows : other.uuid # u
            /\ rows' = rows \cup {row}
            /\ outcome' = [outcome EXCEPT ![r] = [kind |-> "created", row |-> {row}]]
    /\ UNCHANGED <<call, reply>>

(* A call that records nothing: an error, or a method that only reads.     *)
Decline(r) ==
    /\ outcome[r].kind = "open"
    /\ outcome' = [outcome EXCEPT ![r] = Nothing("declined")]
    /\ UNCHANGED <<call, rows, reply>>

(* The caller still waiting is told what was done, and nothing else.       *)
Answer(r) ==
    /\ outcome[r].kind # "open"
    /\ reply[r].kind = "waiting"
    /\ reply' = [reply EXCEPT ![r] = outcome[r]]
    /\ UNCHANGED <<call, rows, outcome>>

(* The caller of one call loses its answer.                                *)
Lose(r) ==
    /\ reply[r].kind = "waiting"
    /\ reply' = [reply EXCEPT ![r] = Nothing("unknown")]
    /\ UNCHANGED <<call, rows, outcome>>

(* The service is killed: the calls in flight, a set of the pending ones,  *)
(* are abandoned as they stand; nothing recorded is lost.                  *)
Kill ==
    \E S \in SUBSET Request :
        /\ outcome' = [r \in Request |->
               IF r \in S /\ outcome[r].kind = "open"
                 THEN Nothing("declined") ELSE outcome[r]]
        /\ reply' = [r \in Request |->
               IF r \in S /\ reply[r].kind = "waiting"
                 THEN Nothing("unknown") ELSE reply[r]]
        /\ UNCHANGED <<call, rows>>

(* An operator empties the table.                                          *)
Erase == /\ rows' = {}
         /\ UNCHANGED <<call, outcome, reply>>

Next == \/ \E r \in Request : Create(r) \/ Decline(r) \/ Answer(r) \/ Lose(r)
        \/ Kill
        \/ Erase

Spec == Init /\ [][Next]_vars
=============================================================================

------------------------- MODULE RsvpQueriesProofs --------------------------
(***************************************************************************)
(* The safety properties of RsvpQueries, proved for any number of          *)
(* concurrent calls, any table and any statement that fails.               *)
(***************************************************************************)
EXTENDS RsvpQueries, FiniteSetTheorems, WellFoundedInduction, TLAPS

-----------------------------------------------------------------------------
(* Statements *)

(* First finds a row whenever there is one: a set of uuids has a least.    *)
LEMMA LeastUuid ==
    ASSUME NEW S \in SUBSET Nat, S # {}
    PROVE  Min(S) \in S
<1> DEFINE R == {pair \in Nat \X Nat : pair[1] < pair[2]}
<1>1. PICK x \in S : \A y \in S : ~(<<y, x>> \in R)
  <2>1. IsWellFoundedOn(R, Nat)
    BY NatLessThanWellFounded DEF OpToRel
  <2>2. QED
    BY <2>1, WFMin
<1>2. ASSUME NEW y \in S PROVE x =< y
  <2>1. x \in Nat /\ y \in Nat
    OBVIOUS
  <2>2. y < x => <<y, x>> \in R
    BY <2>1
  <2>3. QED
    BY <1>1, <2>1, <2>2
<1>3. QED
  BY <1>1, <1>2 DEF Min

(* What a SELECT leaves in the struct is a struct, and of the row that was *)
(* named unless the nil UUID was.                                          *)
LEMMA FirstType ==
    ASSUME TypeOK, NEW uuid \in {NilUuid} \cup Uuids, NEW unscoped \in BOOLEAN,
           NEW fails \in BOOLEAN, ~RecordNotFound(uuid, unscoped, fails)
    PROVE  /\ First(uuid, unscoped, fails) \in Struct
           /\ uuid # NilUuid => First(uuid, unscoped, fails).uuid = uuid
<1>1. CASE fails
  BY <1>1 DEF First, Unscanned, Struct, ZeroParams, Params
<1>2. CASE ~fails
  <2> DEFINE S == Matching(uuid, unscoped)
  <2>1. S # {} /\ S \subseteq DOMAIN rows /\ S \subseteq Nat
    BY <1>2, QueriesAssumption DEF RecordNotFound, Matching, TypeOK, Uuids
  <2>2. Min(S) \in S
    BY <2>1, LeastUuid
  <2>3. rows[Min(S)] \in Row /\ Min(S) \in Uuids
    BY <2>1, <2>2 DEF TypeOK
  <2>4. First(uuid, unscoped, fails) = StructOf(Min(S))
    BY <1>2 DEF First
  <2>5. uuid # NilUuid => Min(S) = uuid
    BY <2>2 DEF Matching
  <2>6. QED
    BY <2>3, <2>4, <2>5 DEF StructOf, Struct, Row
<1>3. QED
  BY <1>1, <1>2

LEMMA FailsType == \A c \in Caller : StatementFails(c) \subseteq BOOLEAN
BY DEF StatementFails

-----------------------------------------------------------------------------
(* Types *)

LEMMA InitType == Init => TypeOK
BY QueriesAssumption DEF Init, TypeOK, NoReturn, Errors

(* The two halves of TypeOK that most steps change.                        *)
ControlOK ==
    /\ pc \in [Caller -> {"call", "updates", "delete", "count", "done"}]
    /\ ret \in [Caller -> [err: Errors, rsvp: SUBSET Struct, list: SUBSET Uuids,
                           size: Nat, hasMore: BOOLEAN]]

TableOK ==
    /\ DOMAIN rows \subseteq Uuids
    /\ rows \in [DOMAIN rows -> Row]
    /\ wrote \in [Caller -> SUBSET Uuids]

Returns(c) == \E err \in Errors, structs \in SUBSET Struct : Return(c, err, structs)

LEMMA ReturnType ==
    ASSUME TypeOK, NEW c \in Caller, Returns(c)
    PROVE  ControlOK'
<1>1. PICK err \in Errors, structs \in SUBSET Struct : Return(c, err, structs)
  BY DEF Returns
<1>2. [NoReturn EXCEPT !.err = err, !.rsvp = structs]
        \in [err: Errors, rsvp: SUBSET Struct, list: SUBSET Uuids, size: Nat, hasMore: BOOLEAN]
  BY DEF NoReturn
<1>3. QED
  BY <1>1, <1>2 DEF TypeOK, ControlOK, Return, Goto

LEMMA WriteType ==
    ASSUME TypeOK, NEW c \in Caller, NEW new, DOMAIN new \subseteq DOMAIN rows,
           \A u \in DOMAIN new : new[u] \in Row, Write(c, new)
    PROVE  TableOK'
BY DEF TypeOK, TableOK, Write

(* The rows that an UPDATE writes are rows.                                *)
LEMMA NewRowsType ==
    ASSUME TypeOK, NEW S \in SUBSET DOMAIN rows, NEW params \in Params
    PROVE  /\ DOMAIN SetParams(S, params) = S /\ DOMAIN SetDeleted(S) = S
           /\ \A u \in S : SetParams(S, params)[u] \in Row /\ SetDeleted(S)[u] \in Row
           /\ \A u \in S : /\ SetParams(S, params)[u].deleted = rows[u].deleted
                           /\ SetDeleted(S)[u].deleted
BY DEF TypeOK, SetParams, SetDeleted, Row

LEMMA CallType ==
    ASSUME TypeOK, NEW c \in Caller
    PROVE  /\ call[c] \in Calls
           /\ call[c].id.uuid \in {NilUuid} \cup Uuids
           /\ call[c].params \in Params
           /\ call[c].page \in Page
BY QueriesAssumption DEF TypeOK, Call, Id

LEMMA MatchingType ==
    ASSUME NEW uuid, NEW unscoped \in BOOLEAN
    PROVE  Matching(uuid, unscoped) \subseteq DOMAIN rows
BY DEF Matching

LEMMA SelectedFinite ==
    ASSUME TypeOK, NEW page
    PROVE  IsFiniteSet(Selected(page)) /\ Cardinality(Selected(page)) \in Nat
<1>1. IsFiniteSet(Uuids)
  <2>1. 1 \in Int /\ MaxUuid \in Int
    BY QueriesAssumption
  <2>2. QED
    BY <2>1, FS_Interval DEF Uuids
<1>2. Selected(page) \in SUBSET Uuids
  BY DEF Selected, TypeOK
<1>3. IsFiniteSet(Selected(page))
  BY <1>1, <1>2, FS_Subset
<1>4. QED
  BY <1>3, FS_CardinalityType

LEMMA StepType ==
    ASSUME TypeOK, NEW c \in Caller, Step(c)
    PROVE  TypeOK'
<1> DEFINE uuid == call[c].id.uuid
<1> USE DEF NoWrite
<1>c. /\ call[c] \in Calls
      /\ uuid \in {NilUuid} \cup Uuids
      /\ call[c].params \in Params
      /\ call[c].page \in Page
  BY CallType
<1>e. Errors = {"none", "bad UUID", "invalid field", "cannot find", "flags", "database"}
  BY DEF Errors
<1>f. StatementFails(c) \subseteq BOOLEAN
  BY FailsType
<1>r. /\ Return(c, "bad UUID", {}) => ControlOK'
      /\ Return(c, "invalid field", {}) => ControlOK'
      /\ Return(c, "cannot find", {}) => ControlOK'
      /\ Return(c, "flags", {}) => ControlOK'
      /\ Return(c, "database", {}) => ControlOK'
      /\ Return(c, "none", {}) => ControlOK'
      /\ \A struct \in Struct :
           /\ Return(c, "database", {struct}) => ControlOK'
           /\ Return(c, "none", {struct}) => ControlOK'
  BY <1>e, ReturnType DEF Returns
<1>1. CASE BadUuid(c)
  BY <1>1, <1>r DEF BadUuid, TypeOK, ControlOK, TableOK
<1>2. CASE BadParams(c)
  BY <1>2, <1>r DEF BadParams, TypeOK, ControlOK, TableOK
<1>3. CASE CreateRsvp(c)
  <2>1. PICK u \in Fresh, fails \in StatementFails(c) :
          LET row == [params |-> call[c].params, deleted |-> FALSE]
              struct == [uuid |-> u, params |-> call[c].params, deleted |-> FALSE]
          IN IF fails
               THEN Return(c, "database", {struct}) /\ NoWrite
               ELSE /\ rows' = [v \in DOMAIN rows \cup {u} |->
                                   IF v = u THEN row ELSE rows[v]]
                    /\ wrote' = [wrote EXCEPT ![c] = {u}]
                    /\ Return(c, "none", {struct})
    BY <1>3 DEF CreateRsvp
  <2>2. u \in Uuids
    BY DEF Fresh
  <2>3. [uuid |-> u, params |-> call[c].params, deleted |-> FALSE] \in Struct
    BY <1>c, <2>2 DEF Struct
  <2>4. TableOK'
    <3>1. [params |-> call[c].params, deleted |-> FALSE] \in Row
      BY <1>c DEF Row
    <3>2. CASE fails
      BY <2>1, <3>2 DEF TypeOK, TableOK
    <3>3. CASE ~fails
      <4> DEFINE row == [params |-> call[c].params, deleted |-> FALSE]
      <4>1. rows' = [v \in DOMAIN rows \cup {u} |-> IF v = u THEN row ELSE rows[v]]
        BY <2>1, <3>3
      <4>2. row \in Row
        BY <3>1
      <4> HIDE DEF row
      <4>3. DOMAIN rows' = DOMAIN rows \cup {u} /\ \A v \in DOMAIN rows' : rows'[v] \in Row
        BY <4>1, <4>2 DEF TypeOK
      <4>4. rows' \in [DOMAIN rows' -> Row]
        BY <4>1, <4>3
      <4>5. QED
        BY <2>1, <2>2, <3>3, <4>3, <4>4 DEF TypeOK, TableOK
    <3>4. QED
      BY <3>2, <3>3
  <2>5. ControlOK'
    BY <2>1, <2>3, <1>r
  <2>6. QED
    BY <1>3, <2>4, <2>5 DEF CreateRsvp, TypeOK, ControlOK, TableOK
<1>4. CASE FindRsvpByUUID(c)
  <2>1. PICK fails \in StatementFails(c) :
          IF RecordNotFound(uuid, TRUE, fails)
            THEN Return(c, "cannot find", {})
            ELSE Return(c, "none", {First(uuid, TRUE, fails)})
    BY <1>4 DEF FindRsvpByUUID
  <2>2. ControlOK'
    <3>1. CASE RecordNotFound(uuid, TRUE, fails)
      BY <2>1, <3>1, <1>r
    <3>2. CASE ~RecordNotFound(uuid, TRUE, fails)
      <4>1. First(uuid, TRUE, fails) \in Struct
        BY <1>c, <1>f, <3>2, FirstType
      <4>2. QED
        BY <2>1, <3>2, <4>1, <1>r
    <3>3. QED
      BY <3>1, <3>2
  <2>3. QED
    BY <1>4, <2>2 DEF FindRsvpByUUID, TypeOK, ControlOK, TableOK
<1>5. ASSUME NEW unscoped \in BOOLEAN, NEW next \in {"updates", "delete"},
             Load(c, unscoped, next)
      PROVE  TypeOK'
  <2>1. PICK fails \in StatementFails(c) :
          IF RecordNotFound(uuid, unscoped, fails)
            THEN Return(c, "cannot find", {}) /\ UNCHANGED rsvp
            ELSE /\ rsvp' = [rsvp EXCEPT ![c] = {First(uuid, unscoped, fails)}]
                 /\ Goto(c, next)
                 /\ UNCHANGED ret
    BY <1>5 DEF Load
  <2>2. CASE RecordNotFound(uuid, unscoped, fails)
    <3>1. ControlOK'
      BY <2>1, <2>2, <1>r
    <3>2. QED
      BY <1>5, <2>1, <2>2, <3>1 DEF Load, TypeOK, ControlOK, TableOK
  <2>3. CASE ~RecordNotFound(uuid, unscoped, fails)
    <3>1. First(uuid, unscoped, fails) \in Struct
      BY <1>c, <1>f, <2>3, FirstType
    <3>2. QED
      <4>1. rsvp' \in [Caller -> SUBSET Struct]
        BY <2>1, <2>3, <3>1 DEF TypeOK
      <4>2. QED
        BY <1>5, <2>1, <2>3, <4>1 DEF Load, TypeOK, Goto
  <2>4. QED
    BY <2>2, <2>3
<1>6. CASE UpdateRsvpLoad(c)
  BY <1>5, <1>6 DEF UpdateRsvpLoad
<1>7. CASE UpdateRsvp(c)
  <2>1. PICK struct \in rsvp[c], fails \in StatementFails(c) :
          LET changed == [struct EXCEPT !.params = call[c].params]
          IN IF fails
               THEN Return(c, "database", {changed}) /\ NoWrite
               ELSE /\ Write(c, SetParams(Matching(struct.uuid, FALSE), call[c].params))
                    /\ Return(c, "none", {changed})
    BY <1>7 DEF UpdateRsvp
  <2>2. [struct EXCEPT !.params = call[c].params] \in Struct
    <3>1. struct \in Struct
      BY DEF TypeOK
    <3>2. QED
      BY <1>c, <3>1 DEF Struct
  <2>3. TableOK'
    <3>1. CASE fails
      BY <2>1, <3>1 DEF TypeOK, ControlOK, TableOK
    <3>2. CASE ~fails
      <4> DEFINE new == SetParams(Matching(struct.uuid, FALSE), call[c].params)
      <4>1. DOMAIN new \subseteq DOMAIN rows /\ \A u \in DOMAIN new : new[u] \in Row
        <5>1. Matching(struct.uuid, FALSE) \in SUBSET DOMAIN rows
          BY MatchingType
        <5>2. QED
          BY <1>c, <5>1, NewRowsType
      <4>2. Write(c, new)
        BY <2>1, <3>2
      <4> HIDE DEF new
      <4>3. QED
        BY <4>1, <4>2, WriteType
    <3>3. QED
      BY <3>1, <3>2
  <2>4. ControlOK'
    BY <2>1, <2>2, <1>r
  <2>5. QED
    BY <1>7, <2>3, <2>4 DEF UpdateRsvp, TypeOK, ControlOK, TableOK
<1>8. CASE DeleteRsvpLogicallyLoad(c)
  BY <1>5, <1>8 DEF DeleteRsvpLogicallyLoad
<1>9. CASE DeleteRsvpLogically(c)
  <2>1. PICK struct \in rsvp[c], fails \in StatementFails(c) :
          LET targets == Matching(struct.uuid, FALSE)
          IN IF fails \/ ~LimitSupported
               THEN Return(c, "database", {struct}) /\ NoWrite
               ELSE /\ IF targets = {} THEN NoWrite
                       ELSE \E u \in targets : Write(c, SetDeleted({u}))
                    /\ Return(c, "none", {[struct EXCEPT !.deleted = TRUE]})
    BY <1>9 DEF DeleteRsvpLogically
  <2>2. struct \in Struct /\ [struct EXCEPT !.deleted = TRUE] \in Struct
    <3>1. struct \in Struct
      BY DEF TypeOK
    <3>2. QED
      BY <3>1 DEF Struct
  <2>3. TableOK'
    <3>1. CASE NoWrite
      BY <3>1 DEF TypeOK, ControlOK, TableOK
    <3>2. CASE \E u \in Matching(struct.uuid, FALSE) : Write(c, SetDeleted({u}))
      <4>1. PICK u \in Matching(struct.uuid, FALSE) : Write(c, SetDeleted({u}))
        BY <3>2
      <4> DEFINE new == SetDeleted({u})
      <4>2. DOMAIN new \subseteq DOMAIN rows /\ \A v \in DOMAIN new : new[v] \in Row
        <5>1. {u} \in SUBSET DOMAIN rows
          BY MatchingType
        <5>2. QED
          BY <1>c, <5>1, NewRowsType
      <4>3. Write(c, new)
        BY <4>1
      <4> HIDE DEF new
      <4>4. QED
        BY <4>2, <4>3, WriteType
    <3>3. QED
      BY <2>1, <3>1, <3>2
  <2>4. ControlOK'
    BY <2>1, <2>2, <1>r
  <2>5. QED
    BY <1>9, <2>3, <2>4 DEF DeleteRsvpLogically, TypeOK, ControlOK, TableOK
<1>10. CASE DeleteRsvpPhysically(c)
  <2>1. TableOK'
    BY <1>10 DEF DeleteRsvpPhysically, TypeOK, ControlOK, TableOK, Restrict
  <2>2. Return(c, "database", {}) \/ Return(c, "none", {})
    BY <1>10 DEF DeleteRsvpPhysically
  <2>3. QED
    BY <1>10, <2>1, <2>2, <1>r DEF DeleteRsvpPhysically, TypeOK, ControlOK, TableOK
<1>11. CASE ListRsvpsFind(c)
  <2>1. PageOf(call[c].page) \subseteq Uuids
    BY DEF PageOf, Selected, TypeOK, ControlOK, TableOK
  <2>2. CASE Return(c, "flags", {}) /\ UNCHANGED list
    BY <1>11, <2>2, <1>r DEF ListRsvpsFind, TypeOK, ControlOK, TableOK
  <2>3. CASE /\ \E fails \in StatementFails(c) :
                  /\ list' = [list EXCEPT ![c] = IF fails THEN {} ELSE PageOf(call[c].page)]
                  /\ ret' = [ret EXCEPT ![c].err = IF fails THEN "database" ELSE "none"]
             /\ Goto(c, "count")
    <3>1. list' \in [Caller -> SUBSET Uuids]
      BY <2>1, <2>3 DEF TypeOK
    <3>2. ret' \in [Caller -> [err: Errors, rsvp: SUBSET Struct, list: SUBSET Uuids,
                               size: Nat, hasMore: BOOLEAN]]
      <4> DEFINE R == [err: Errors, rsvp: SUBSET Struct, list: SUBSET Uuids,
                       size: Nat, hasMore: BOOLEAN]
      <4>1. ret[c] \in R
        BY DEF TypeOK
      <4>2. \A e \in Errors : [ret[c] EXCEPT !.err = e] \in R
        BY <4>1
      <4>3. \E e \in Errors : ret' = [ret EXCEPT ![c] = [ret[c] EXCEPT !.err = e]]
        BY <1>e, <2>3
      <4>4. ret \in [Caller -> R]
        BY DEF TypeOK
      <4> HIDE DEF R
      <4>5. ret' \in [Caller -> R]
        BY <4>2, <4>3, <4>4
      <4>6. QED
        BY <4>5 DEF R
    <3>3. QED
      BY <1>11, <2>3, <3>1, <3>2 DEF ListRsvpsFind, TypeOK, Goto
  <2>4. QED
    BY <1>11, <2>2, <2>3 DEF ListRsvpsFind
<1>12. CASE ListRsvps(c)
  <2>1. PICK size \in Nat :
          ret' = [ret EXCEPT ![c].list = list[c], ![c].size = size,
                   ![c].hasMore = call[c].page.offset + Cardinality(list[c]) < size]
    <3>1. IsFiniteSet(Selected(call[c].page))
      BY SelectedFinite
    <3>2. Cardinality(Selected(call[c].page)) \in Nat
      BY <3>1, FS_CardinalityType
    <3>3. QED
      BY <1>12, <3>2 DEF ListRsvps
  <2>2. (call[c].page.offset + Cardinality(list[c]) < size) \in BOOLEAN
    OBVIOUS
  <2>3. QED
    <3>1. list[c] \in SUBSET Uuids
      BY DEF TypeOK
    <3>2. ret' \in [Caller -> [err: Errors, rsvp: SUBSET Struct, list: SUBSET Uuids,
                               size: Nat, hasMore: BOOLEAN]]
      <4> DEFINE R == [err: Errors, rsvp: SUBSET Struct, list: SUBSET Uuids,
                       size: Nat, hasMore: BOOLEAN]
                 more == call[c].page.offset + Cardinality(list[c]) < size
                 new == [ret[c] EXCEPT !.list = list[c], !.size = size, !.hasMore = more]
      <4>1. ret[c] \in R
        BY DEF TypeOK
      <4>2. new \in R
        BY <2>2, <3>1, <4>1
      <4>3. ret' = [ret EXCEPT ![c] = new]
        BY <2>1
      <4>4. ret \in [Caller -> R]
        BY DEF TypeOK
      <4> HIDE DEF R, new
      <4>5. ret' \in [Caller -> R]
        BY <4>2, <4>3, <4>4
      <4>6. QED
        BY <4>5 DEF R
    <3>3. QED
      BY <1>12, <3>2 DEF ListRsvps, TypeOK, Goto
<1>13. CASE Flush(c)
  <2>1. TableOK'
    <3>1. CASE NoWrite
      BY <3>1 DEF TypeOK, TableOK
    <3>2. CASE rows' = Restrict(rows, {}) /\ wrote' = [wrote EXCEPT ![c] = DOMAIN rows]
      <4>1. DOMAIN rows' = {} /\ rows' \in [{} -> Row]
        BY <3>2 DEF Restrict
      <4>2. QED
        BY <3>2, <4>1 DEF TypeOK, TableOK
    <3>3. QED
      BY <1>13, <3>1, <3>2 DEF Flush
  <2>2. Return(c, "database", {}) \/ Return(c, "none", {})
    BY <1>13 DEF Flush
  <2>3. QED
    BY <1>13, <2>1, <2>2, <1>r DEF Flush, TypeOK, ControlOK, TableOK
<1>14. QED
  BY <1>1, <1>2, <1>3, <1>4, <1>6, <1>7, <1>8, <1>9, <1>10, <1>11, <1>12, <1>13 DEF Step

(* The types of the local variables and of the table, whatever the calls   *)
(* do to each other.                                                       *)
THEOREM TypeCorrect == Spec => []TypeOK
<1>1. TypeOK /\ [Next]_vars => TypeOK'
  <2>1. TypeOK /\ UNCHANGED vars => TypeOK'
    BY DEF TypeOK, vars
  <2>2. QED
    BY <2>1, StepType DEF Next
<1>2. QED
  BY <1>1, InitType, PTL DEF Spec

-----------------------------------------------------------------------------
(* The inductive invariant *)

(* A second statement belongs to the function that issues it, and a call   *)
(* that has not returned has changed nothing yet.                          *)
ControlInv ==
    \A c \in Caller :
        /\ pc[c] = "updates" => call[c].fn = "UpdateRsvp"
        /\ pc[c] = "delete" => call[c].fn = "DeleteRsvpLogically"
        /\ pc[c] = "count" => call[c].fn = "ListRsvps"
        /\ pc[c] # "done" => wrote[c] = {}

(* The struct that a second statement takes its key from is of the row     *)
(* that the call names.                                                    *)
KeyInv ==
    \A c \in Caller : \A struct \in rsvp[c] :
        call[c].id.uuid # NilUuid => struct.uuid = call[c].id.uuid

NoDeletion ==
    \A d \in Caller : Deletes(d) \/ call[d].fn = "Flush" => wrote[d] = {}

(* What ListRsvps has read is still selected when it counts.               *)
PageInv ==
    \A c \in Caller :
        pc[c] = "count" /\ NoDeletion => list[c] \subseteq Selected(call[c].page)

-----------------------------------------------------------------------------
(* What a step may do *)

(* It is a step of one call, whose arguments do not change.                *)
LEMMA StepFrame ==
    ASSUME TypeOK, NEW c \in Caller, Step(c)
    PROVE  /\ call' = call
           /\ \A d \in Caller \ {c} :
                /\ pc'[d] = pc[d] /\ rsvp'[d] = rsvp[d] /\ list'[d] = list[d]
                /\ ret'[d] = ret[d] /\ wrote'[d] = wrote[d]
<1> USE DEF TypeOK, Return, Goto, NoWrite, Write, Load
<1>1. CASE BadUuid(c) \/ BadParams(c) \/ FindRsvpByUUID(c)
  BY <1>1 DEF BadUuid, BadParams, FindRsvpByUUID
<1>2. CASE CreateRsvp(c)
  BY <1>2 DEF CreateRsvp
<1>3. CASE UpdateRsvpLoad(c) \/ DeleteRsvpLogicallyLoad(c)
  BY <1>3 DEF UpdateRsvpLoad, DeleteRsvpLogicallyLoad
<1>4. CASE UpdateRsvp(c)
  BY <1>4 DEF UpdateRsvp
<1>5. CASE DeleteRsvpLogically(c)
  BY <1>5 DEF DeleteRsvpLogically
<1>6. CASE DeleteRsvpPhysically(c)
  BY <1>6 DEF DeleteRsvpPhysically
<1>7. CASE ListRsvpsFind(c) \/ ListRsvps(c)
  BY <1>7 DEF ListRsvpsFind, ListRsvps
<1>8. CASE Flush(c)
  BY <1>8 DEF Flush
<1>9. QED
  BY <1>1, <1>2, <1>3, <1>4, <1>5, <1>6, <1>7, <1>8 DEF Step

(* The rows outside S stay as they are.                                    *)
KeptOutside(S) ==
    /\ DOMAIN rows' \ S = DOMAIN rows \ S
    /\ \A u \in DOMAIN rows \ S : rows'[u] = rows[u]

(* A struct whose key is the uuid that call c names, or was found by it.   *)
KeyOf(c, key) == call[c].id.uuid # NilUuid => key = call[c].id.uuid

(* The four ways in which a call that succeeds changes the table.          *)
Inserted(c) ==
    /\ call[c].fn = "CreateRsvp"
    /\ \E u \in Fresh :
         /\ wrote'[c] = {u}
         /\ DOMAIN rows' = DOMAIN rows \cup {u}
         /\ KeptOutside({u})

Updated(c) ==
    /\ call[c].fn = "UpdateRsvp"
    /\ DOMAIN rows' = DOMAIN rows
    /\ \E key : /\ KeyOf(c, key)
                /\ wrote'[c] = Matching(key, FALSE)
                /\ KeptOutside(Matching(key, FALSE))
                /\ \A u \in Matching(key, FALSE) : rows'[u].deleted = rows[u].deleted

SoftDeleted(c) ==
    /\ call[c].fn = "DeleteRsvpLogically"
    /\ DOMAIN rows' = DOMAIN rows
    /\ \E key : \E u \in Matching(key, FALSE) :
         KeyOf(c, key) /\ wrote'[c] = {u} /\ KeptOutside({u}) /\ rows'[u].deleted

Removed(c) ==
    /\ call[c].fn \in {"DeleteRsvpPhysically", "Flush"}
    /\ call[c].fn = "DeleteRsvpPhysically" => wrote'[c] \subseteq {call[c].id.uuid}
    /\ wrote'[c] \subseteq DOMAIN rows
    /\ DOMAIN rows' = DOMAIN rows \ wrote'[c]
    /\ KeptOutside(wrote'[c])

Effect(c) ==
    \/ rows' = rows /\ wrote'[c] = {}
    \/ /\ pc'[c] = "done" /\ ret'[c].err = "none"
       /\ Inserted(c) \/ Updated(c) \/ SoftDeleted(c) \/ Removed(c)

(* A call that returns sets its program counter and its error.             *)
LEMMA ReturnEffect ==
    ASSUME TypeOK, NEW c \in Caller, NEW err, NEW structs, Return(c, err, structs)
    PROVE  pc'[c] = "done" /\ ret'[c].err = err
BY DEF TypeOK, Return, Goto, NoReturn

LEMMA NoWriteEffect ==
    ASSUME ControlInv, NEW c \in Caller, pc[c] # "done", NoWrite
    PROVE  Effect(c)
BY DEF ControlInv, NoWrite, Effect

LEMMA StepEffect ==
    ASSUME TypeOK, ControlInv, KeyInv, NEW c \in Caller, Step(c)
    PROVE  Effect(c)
<1>w. wrote \in [Caller -> SUBSET Uuids]
  BY DEF TypeOK
<1>1. CASE BadUuid(c) \/ BadParams(c) \/ FindRsvpByUUID(c) \/ ListRsvpsFind(c) \/ ListRsvps(c)
  BY <1>1, NoWriteEffect
  DEF BadUuid, BadParams, FindRsvpByUUID, ListRsvpsFind, ListRsvps, Starts
<1>2. CASE UpdateRsvpLoad(c) \/ DeleteRsvpLogicallyLoad(c)
  BY <1>2, NoWriteEffect DEF UpdateRsvpLoad, DeleteRsvpLogicallyLoad, Load, Starts
<1>3. CASE CreateRsvp(c)
  <2>1. PICK u \in Fresh, fails \in StatementFails(c) :
          LET row == [params |-> call[c].params, deleted |-> FALSE]
              struct == [uuid |-> u, params |-> call[c].params, deleted |-> FALSE]
          IN IF fails
               THEN Return(c, "database", {struct}) /\ NoWrite
               ELSE /\ rows' = [v \in DOMAIN rows \cup {u} |->
                                   IF v = u THEN row ELSE rows[v]]
                    /\ wrote' = [wrote EXCEPT ![c] = {u}]
                    /\ Return(c, "none", {struct})
    BY <1>3 DEF CreateRsvp
  <2>2. CASE fails
    BY <1>3, <2>1, <2>2, NoWriteEffect DEF CreateRsvp, Starts
  <2>3. CASE ~fails
    <3>1. pc'[c] = "done" /\ ret'[c].err = "none"
      BY <2>1, <2>3, ReturnEffect
    <3>2. Inserted(c)
      BY <1>3, <1>w, <2>1, <2>3 DEF CreateRsvp, Starts, Inserted, KeptOutside
    <3>3. QED
      BY <3>1, <3>2 DEF Effect
  <2>4. QED
    BY <2>2, <2>3
<1>4. CASE UpdateRsvp(c)
  <2>1. PICK struct \in rsvp[c], fails \in StatementFails(c) :
          LET changed == [struct EXCEPT !.params = call[c].params]
          IN IF fails
               THEN Return(c, "database", {changed}) /\ NoWrite
               ELSE /\ Write(c, SetParams(Matching(struct.uuid, FALSE), call[c].params))
                    /\ Return(c, "none", {changed})
    BY <1>4 DEF UpdateRsvp
  <2>2. CASE fails
    BY <1>4, <2>1, <2>2, NoWriteEffect DEF UpdateRsvp
  <2>3. CASE ~fails
    <3> DEFINE S == Matching(struct.uuid, FALSE)
               new == SetParams(S, call[c].params)
    <3>1. pc'[c] = "done" /\ ret'[c].err = "none"
      BY <2>1, <2>3, ReturnEffect
    <3>2. /\ DOMAIN new = S /\ S \subseteq DOMAIN rows
          /\ \A u \in S : new[u].deleted = rows[u].deleted
      <4>1. S \in SUBSET DOMAIN rows /\ call[c].params \in Params
        BY CallType, MatchingType
      <4>2. QED
        BY <4>1, NewRowsType
    <3>3. Write(c, new)
      BY <2>1, <2>3
    <3>4. KeyOf(c, struct.uuid) /\ call[c].fn = "UpdateRsvp" /\ wrote[c] = {}
      BY <1>4 DEF UpdateRsvp, ControlInv, KeyInv, KeyOf
    <3> HIDE DEF new
    <3>5. /\ wrote'[c] = S /\ DOMAIN rows' = DOMAIN rows
          /\ \A u \in DOMAIN rows : rows'[u] = IF u \in S THEN new[u] ELSE rows[u]
      BY <1>w, <3>2, <3>3, <3>4 DEF Write
    <3>6. Updated(c)
      BY <3>2, <3>4, <3>5 DEF Updated, KeptOutside
    <3>7. QED
      BY <3>1, <3>6 DEF Effect
  <2>4. QED
    BY <2>2, <2>3
<1>5. CASE DeleteRsvpLogically(c)
  <2>1. PICK struct \in rsvp[c], fails \in StatementFails(c) :
          LET targets == Matching(struct.uuid, FALSE)
          IN IF fails \/ ~LimitSupported
               THEN Return(c, "database", {struct}) /\ NoWrite
               ELSE /\ IF targets = {} THEN NoWrite
                       ELSE \E u \in targets : Write(c, SetDeleted({u}))
                    /\ Return(c, "none", {[struct EXCEPT !.deleted = TRUE]})
    BY <1>5 DEF DeleteRsvpLogically
  <2>2. CASE NoWrite
    BY <1>5, <2>2, NoWriteEffect DEF DeleteRsvpLogically
  <2>3. CASE ~NoWrite
    <3>1. PICK u \in Matching(struct.uuid, FALSE) : Write(c, SetDeleted({u}))
      BY <2>1, <2>3
    <3> DEFINE new == SetDeleted({u})
    <3>2. pc'[c] = "done" /\ ret'[c].err = "none"
      BY <2>1, <2>3, ReturnEffect
    <3>3. DOMAIN new = {u} /\ u \in DOMAIN rows /\ new[u].deleted
      <4>1. {u} \in SUBSET DOMAIN rows /\ call[c].params \in Params
        BY CallType, MatchingType
      <4>2. QED
        BY <4>1, NewRowsType
    <3>4. Write(c, new)
      BY <3>1
    <3>5. KeyOf(c, struct.uuid) /\ call[c].fn = "DeleteRsvpLogically" /\ wrote[c] = {}
      BY <1>5 DEF DeleteRsvpLogically, ControlInv, KeyInv, KeyOf
    <3> HIDE DEF new
    <3>6. /\ wrote'[c] = {u} /\ DOMAIN rows' = DOMAIN rows
          /\ \A v \in DOMAIN rows : rows'[v] = IF v = u THEN new[u] ELSE rows[v]
      BY <1>w, <3>3, <3>4, <3>5 DEF Write
    <3>7. SoftDeleted(c)
      BY <3>3, <3>5, <3>6 DEF SoftDeleted, KeptOutside
    <3>8. QED
      BY <3>2, <3>7 DEF Effect
  <2>4. QED
    BY <2>2, <2>3
<1>6. CASE DeleteRsvpPhysically(c)
  <2> DEFINE T == {u \in DOMAIN rows : u = call[c].id.uuid /\ call[c].id.form = "stored"}
  <2>1. CASE NoWrite
    BY <1>6, <2>1, NoWriteEffect DEF DeleteRsvpPhysically, Starts
  <2>2. CASE ~NoWrite
    <3>1. /\ rows' = Restrict(rows, DOMAIN rows \ T)
          /\ wrote' = [wrote EXCEPT ![c] = T]
          /\ Return(c, "none", {})
      BY <1>6, <2>2 DEF DeleteRsvpPhysically
    <3>2. pc'[c] = "done" /\ ret'[c].err = "none"
      BY <3>1, ReturnEffect
    <3>3. Removed(c)
      BY <1>6, <1>w, <3>1 DEF DeleteRsvpPhysically, Starts, Removed, KeptOutside, Restrict
    <3>4. QED
      BY <3>2, <3>3 DEF Effect
  <2>3. QED
    BY <2>1, <2>2
<1>7. CASE Flush(c)
  <2>1. CASE NoWrite
    BY <1>7, <2>1, NoWriteEffect DEF Flush, Starts
  <2>2. CASE ~NoWrite
    <3>1. /\ rows' = Restrict(rows, {})
          /\ wrote' = [wrote EXCEPT ![c] = DOMAIN rows]
          /\ Return(c, "none", {})
      BY <1>7, <2>2 DEF Flush
    <3>2. pc'[c] = "done" /\ ret'[c].err = "none"
      BY <3>1, ReturnEffect
    <3>3. Removed(c)
      BY <1>7, <1>w, <3>1 DEF Flush, Starts, Removed, KeptOutside, Restrict
    <3>4. QED
      BY <3>2, <3>3 DEF Effect
  <2>3. QED
    BY <2>1, <2>2
<1>8. QED
  BY <1>1, <1>2, <1>3, <1>4, <1>5, <1>6, <1>7 DEF Step

-----------------------------------------------------------------------------
(* Invariance *)

LEMMA ControlStep ==
    ASSUME TypeOK, ControlInv, KeyInv, NEW c \in Caller, Step(c)
    PROVE  ControlInv'
<1>1. call' = call /\ \A d \in Caller \ {c} : pc'[d] = pc[d] /\ wrote'[d] = wrote[d]
  BY StepFrame
<1>2. pc'[c] # "done" => wrote'[c] = {}
  BY StepEffect DEF Effect
<1>3. /\ pc'[c] = "updates" => call[c].fn = "UpdateRsvp"
      /\ pc'[c] = "delete" => call[c].fn = "DeleteRsvpLogically"
      /\ pc'[c] = "count" => call[c].fn = "ListRsvps"
  <2> USE DEF TypeOK, Return, Goto, Starts
  <2>1. CASE BadUuid(c) \/ BadParams(c) \/ FindRsvpByUUID(c)
    BY <2>1 DEF BadUuid, BadParams, FindRsvpByUUID
  <2>2. CASE CreateRsvp(c)
    BY <2>2 DEF CreateRsvp
  <2>3. CASE UpdateRsvpLoad(c) \/ DeleteRsvpLogicallyLoad(c)
    BY <2>3 DEF UpdateRsvpLoad, DeleteRsvpLogicallyLoad, Load
  <2>4. CASE UpdateRsvp(c) \/ DeleteRsvpLogically(c) \/ DeleteRsvpPhysically(c)
    BY <2>4 DEF UpdateRsvp, DeleteRsvpLogically, DeleteRsvpPhysically
  <2>5. CASE ListRsvpsFind(c) \/ ListRsvps(c) \/ Flush(c)
    BY <2>5 DEF ListRsvpsFind, ListRsvps, Flush
  <2>6. QED
    BY <2>1, <2>2, <2>3, <2>4, <2>5 DEF Step
<1>4. QED
  BY <1>1, <1>2, <1>3 DEF ControlInv

LEMMA KeyStep ==
    ASSUME TypeOK, KeyInv, NEW c \in Caller, Step(c)
    PROVE  KeyInv'
<1>1. call' = call /\ \A d \in Caller \ {c} : rsvp'[d] = rsvp[d]
  BY StepFrame
<1>2. \A struct \in rsvp'[c] : KeyOf(c, struct.uuid)
  <2>1. CASE rsvp' = rsvp
    BY <2>1 DEF KeyInv, KeyOf
  <2>2. ASSUME NEW unscoped \in BOOLEAN, NEW next, Load(c, unscoped, next), rsvp' # rsvp
        PROVE  \A struct \in rsvp'[c] : KeyOf(c, struct.uuid)
    <3> DEFINE uuid == call[c].id.uuid
    <3>1. PICK fails \in StatementFails(c) :
            /\ ~RecordNotFound(uuid, unscoped, fails)
            /\ rsvp' = [rsvp EXCEPT ![c] = {First(uuid, unscoped, fails)}]
      BY <2>2 DEF Load
    <3>2. uuid # NilUuid => First(uuid, unscoped, fails).uuid = uuid
      BY <3>1, CallType, FailsType, FirstType
    <3>3. QED
      BY <3>1, <3>2 DEF TypeOK, KeyOf
  <2>3. CASE UpdateRsvpLoad(c) \/ DeleteRsvpLogicallyLoad(c)
    BY <2>1, <2>2, <2>3 DEF UpdateRsvpLoad, DeleteRsvpLogicallyLoad
  <2>4. QED
    BY <2>1, <2>3
    DEF Step, BadUuid, BadParams, CreateRsvp, FindRsvpByUUID, UpdateRsvp, DeleteRsvpLogically,
        DeleteRsvpPhysically, ListRsvpsFind, ListRsvps, Flush
<1>3. QED
  BY <1>1, <1>2 DEF KeyInv, KeyOf

IInv == TypeOK /\ ControlInv /\ KeyInv

LEMMA Invariance == Spec => []IInv
<1>1. Init => IInv
  BY InitType DEF Init, IInv, ControlInv, KeyInv
<1>2. IInv /\ [Next]_vars => IInv'
  <2>1. IInv /\ UNCHANGED vars => IInv'
    BY DEF IInv, TypeOK, ControlInv, KeyInv, vars
  <2>2. QED
    BY <2>1, StepType, ControlStep, KeyStep DEF Next, IInv
<1>3. QED
  BY <1>1, <1>2, PTL DEF Spec

-----------------------------------------------------------------------------
(* Theorems *)

(* An error of either statement comes before anything is written.          *)
THEOREM ErrorsChangeNothing == Spec => []ErrorMeansUntouched
<1>1. Init => ErrorMeansUntouched
  BY DEF Init, ErrorMeansUntouched
<1>2. IInv /\ ErrorMeansUntouched /\ [Next]_vars => ErrorMeansUntouched'
  <2>1. ASSUME IInv, ErrorMeansUntouched, NEW c \in Caller, Step(c)
        PROVE  ErrorMeansUntouched'
    <3>1. \A d \in Caller \ {c} : ret'[d] = ret[d] /\ wrote'[d] = wrote[d]
      BY <2>1, StepFrame DEF IInv
    <3>2. wrote'[c] = {} \/ ret'[c].err = "none"
      BY <2>1, StepEffect DEF IInv, Effect
    <3>3. QED
      BY <2>1, <3>1, <3>2 DEF ErrorMeansUntouched
  <2>2. ErrorMeansUntouched /\ UNCHANGED vars => ErrorMeansUntouched'
    BY DEF ErrorMeansUntouched, vars
  <2>3. QED
    BY <2>1, <2>2 DEF Next
<1>3. QED
  BY <1>1, <1>2, Invariance, PTL DEF Spec

(* Every statement looks for its row among those that are not soft-        *)
(* deleted, whatever the statement before it has seen; the others remove.  *)
THEOREM DeletedRowsStay == Spec => DeletedRowsAreFinal
<1> DEFINE Final == \A u \in DOMAIN rows \cap DOMAIN rows' :
                        rows[u].deleted => rows'[u] = rows[u]
<1>1. IInv /\ [Next]_vars => [Final]_vars
  <2>1. ASSUME IInv, NEW c \in Caller, Step(c)
        PROVE  Final
    <3>1. Effect(c)
      BY <2>1, StepEffect DEF IInv
    <3>2. CASE rows' = rows
      BY <3>2
    <3>3. CASE Inserted(c)
      BY <3>3 DEF Inserted, KeptOutside, Fresh
    <3>4. CASE Updated(c)
      BY <3>4 DEF Updated, KeptOutside, Matching
    <3>5. CASE SoftDeleted(c)
      BY <3>5 DEF SoftDeleted, KeptOutside, Matching
    <3>6. CASE Removed(c)
      BY <3>6 DEF Removed, KeptOutside
    <3>7. QED
      BY <3>1, <3>2, <3>3, <3>4, <3>5, <3>6 DEF Effect
  <2>2. QED
    BY <2>1 DEF Next
<1>2. QED
  BY <1>1, Invariance, PTL DEF Spec, DeletedRowsAreFinal

(* The calls that name a row: two functions take the nil UUID for any.     *)
NamesARow(k) ==
    k.fn \in {"UpdateRsvp", "DeleteRsvpLogically"} => k.id.uuid # NilUuid

(* Without the nil UUID a call by UUID touches no row but the one it       *)
(* names.                                                                  *)
THEOREM NamedRowOnly ==
    ASSUME \A k \in Calls : NamesARow(k)
    PROVE  Spec => []OnlyTheNamedRow
<1>1. Init => OnlyTheNamedRow
  BY DEF Init, OnlyTheNamedRow
<1>2. IInv /\ OnlyTheNamedRow /\ [Next]_vars => OnlyTheNamedRow'
  <2>1. ASSUME IInv, OnlyTheNamedRow, NEW c \in Caller, Step(c)
        PROVE  OnlyTheNamedRow'
    <3>1. call' = call /\ \A d \in Caller \ {c} : wrote'[d] = wrote[d]
      BY <2>1, StepFrame DEF IInv
    <3>2. NamesARow(call[c])
      BY <2>1, CallType DEF IInv
    <3>3. call[c].fn \in ByUuid => wrote'[c] \subseteq {call[c].id.uuid}
      <4>1. Effect(c)
        BY <2>1, StepEffect DEF IInv
      <4>2. CASE Inserted(c)
        BY <4>2 DEF Inserted, ByUuid
      <4>3. CASE Updated(c)
        BY <3>2, <4>3 DEF Updated, NamesARow, KeyOf, Matching
      <4>4. CASE SoftDeleted(c)
        BY <3>2, <4>4 DEF SoftDeleted, NamesARow, KeyOf, Matching
      <4>5. CASE Removed(c)
        BY <4>5 DEF Removed, ByUuid
      <4>6. QED
        BY <4>1, <4>2, <4>3, <4>4, <4>5 DEF Effect
    <3>4. QED
      BY <2>1, <3>1, <3>3 DEF OnlyTheNamedRow
  <2>2. OnlyTheNamedRow /\ UNCHANGED vars => OnlyTheNamedRow'
    BY DEF OnlyTheNamedRow, vars
  <2>3. QED
    BY <2>1, <2>2 DEF Next
<1>3. QED
  BY <1>1, <1>2, Invariance, PTL DEF Spec

(* UpdateTakesEffect for the rows that are still there and not soft-       *)
(* deleted when the second statement runs.                                 *)
LiveRowsAreUpdated ==
    [][ \A c \in Caller :
            (/\ pc[c] = "updates" /\ pc'[c] = "done" /\ ret'[c].err = "none"
             /\ call[c].id.uuid \in DOMAIN rows
             /\ ~rows[call[c].id.uuid].deleted) =>
                /\ call[c].id.uuid \in DOMAIN rows'
                /\ rows'[call[c].id.uuid].params = call[c].params ]_vars

(* An update that returned no error took effect, unless its row was soft-  *)
(* deleted or removed before the UPDATE: the key of the struct that First  *)
(* filled is the one that was named, however the statements interleave.    *)
(* So it reports an update that was none only for a row that is soft-      *)
(* deleted or not there, the nil UUID's among them.                        *)
THEOREM LiveUpdatesTakeEffect == Spec => LiveRowsAreUpdated
<1> DEFINE Takes(c) ==
        (/\ pc[c] = "updates" /\ pc'[c] = "done" /\ ret'[c].err = "none"
         /\ call[c].id.uuid \in DOMAIN rows
         /\ ~rows[call[c].id.uuid].deleted) =>
            /\ call[c].id.uuid \in DOMAIN rows'
            /\ rows'[call[c].id.uuid].params = call[c].params
           Effective == \A c \in Caller : Takes(c)
<1>1. IInv /\ [Next]_vars => [Effective]_vars
  <2>1. ASSUME IInv, NEW c \in Caller, Step(c), NEW d \in Caller
        PROVE  Takes(d)
    <3> DEFINE uuid == call[d].id.uuid
    <3> SUFFICES ASSUME pc[d] = "updates", pc'[d] = "done", ret'[d].err = "none",
                        uuid \in DOMAIN rows, ~rows[uuid].deleted
                 PROVE  uuid \in DOMAIN rows' /\ rows'[uuid].params = call[d].params
      OBVIOUS
    <3>1. TypeOK /\ KeyInv /\ d = c
      BY <2>1, StepFrame DEF IInv
    <3>2. UpdateRsvp(c)
      BY <2>1, <3>1 DEF Step, BadUuid, BadParams, Starts, CreateRsvp, FindRsvpByUUID,
         UpdateRsvpLoad, DeleteRsvpLogicallyLoad, DeleteRsvpLogically, DeleteRsvpPhysically,
         ListRsvpsFind, ListRsvps, Flush
    <3>3. PICK struct \in rsvp[c], fails \in StatementFails(c) :
            LET changed == [struct EXCEPT !.params = call[c].params]
            IN IF fails
                 THEN Return(c, "database", {changed}) /\ NoWrite
                 ELSE /\ Write(c, SetParams(Matching(struct.uuid, FALSE), call[c].params))
                      /\ Return(c, "none", {changed})
      BY <3>2 DEF UpdateRsvp
    <3>4. Write(c, SetParams(Matching(struct.uuid, FALSE), call[c].params))
      <4>1. CASE fails
        <5>1. PICK structs : Return(c, "database", structs)
          BY <3>3, <4>1
        <5>2. ret'[c].err = "database"
          BY <3>1, <5>1, ReturnEffect
        <5>3. QED
          BY <3>1, <5>2
      <4>2. CASE ~fails
        BY <3>3, <4>2
      <4>3. QED
        BY <4>1, <4>2
    <3>5. uuid \in Matching(struct.uuid, FALSE)
      <4>1. uuid # NilUuid
        BY <3>1, QueriesAssumption DEF TypeOK, Uuids, NilUuid
      <4>2. struct.uuid = uuid
        BY <3>1, <3>3, <4>1 DEF KeyInv
      <4>3. QED
        BY <4>2 DEF Matching
    <3>6. rows'[uuid] = [rows[uuid] EXCEPT !.params = call[c].params] /\ uuid \in DOMAIN rows'
      BY <3>4, <3>5 DEF Write, SetParams
    <3>7. rows[uuid] \in Row
      BY <3>1 DEF TypeOK
    <3>8. QED
      BY <3>1, <3>6, <3>7 DEF Row
  <2> HIDE DEF Takes
  <2>2. QED
    BY <2>1 DEF Next
<1>2. Spec => [][Effective]_vars
  <2> HIDE DEF Effective
  <2>1. QED
    BY <1>1, Invariance, PTL DEF Spec
<1>3. QED
  BY <1>2 DEF LiveRowsAreUpdated

(* DeleteRsvpPhysically compares the text of the argument with the stored  *)
(* one: the calls whose argument can be equal to it, or does not parse.    *)
SpelledAsStored(k) == k.fn = "DeleteRsvpPhysically" => k.id.form # "other"

LEMMA GoneStays ==
    ASSUME TypeOK, NEW c \in Caller, Effect(c), call' = call, NEW d \in Caller, Gone(d)
    PROVE  Gone(d)'
<1>1. CASE rows' = rows
  BY <1>1 DEF Gone
<1>2. CASE Inserted(c)
  BY <1>2 DEF Inserted, KeptOutside, Fresh, Gone
<1>3. CASE Updated(c)
  BY <1>3 DEF Updated, KeptOutside, Gone
<1>4. CASE SoftDeleted(c)
  BY <1>4 DEF SoftDeleted, KeptOutside, Gone
<1>5. CASE Removed(c)
  BY <1>5 DEF Removed, KeptOutside, Gone
<1>6. QED
  BY <1>1, <1>2, <1>3, <1>4, <1>5 DEF Effect

LEMMA DeleteTakesEffect ==
    ASSUME \A k \in Calls : SpelledAsStored(k),
           IInv, NEW c \in Caller, Step(c), Deletes(c), pc'[c] = "done", ret'[c].err = "none"
    PROVE  Gone(c)'
<1> DEFINE uuid == call[c].id.uuid
<1>1. TypeOK /\ ControlInv /\ KeyInv /\ call' = call
  BY StepFrame DEF IInv
<1>2. SpelledAsStored(call[c])
  BY <1>1, CallType
<1>3. NilUuid \notin DOMAIN rows
  BY <1>1, QueriesAssumption DEF TypeOK, Uuids, NilUuid
<1>r. \A err, structs : Return(c, err, structs) => pc'[c] = "done" /\ ret'[c].err = err
  BY <1>1, ReturnEffect
<1>4. CASE BadUuid(c)
  <2>1. ret'[c].err = "bad UUID"
    BY <1>4, <1>r DEF BadUuid
  <2>2. QED
    BY <2>1
<1>5. CASE DeleteRsvpLogicallyLoad(c)
  <2>1. Return(c, "cannot find", {}) \/ Goto(c, "delete")
    BY <1>5 DEF DeleteRsvpLogicallyLoad, Load
  <2>2. pc'[c] = "delete" \/ ret'[c].err = "cannot find"
    BY <1>1, <2>1, ReturnEffect DEF Goto, TypeOK
  <2>3. QED
    BY <2>2
<1>6. CASE DeleteRsvpLogically(c)
  <2>1. PICK struct \in rsvp[c], fails \in StatementFails(c) :
          LET targets == Matching(struct.uuid, FALSE)
          IN IF fails \/ ~LimitSupported
               THEN Return(c, "database", {struct}) /\ NoWrite
               ELSE /\ IF targets = {} THEN NoWrite
                       ELSE \E u \in targets : Write(c, SetDeleted({u}))
                    /\ Return(c, "none", {[struct EXCEPT !.deleted = TRUE]})
    BY <1>6 DEF DeleteRsvpLogically
  <2>2. ~(fails \/ ~LimitSupported)
    <3>1. ASSUME fails \/ ~LimitSupported PROVE ret'[c].err = "database"
      BY <1>r, <2>1, <3>1
    <3>2. QED
      BY <3>1
  <2>3. call[c].fn = "DeleteRsvpLogically" /\ (uuid # NilUuid => struct.uuid = uuid)
    BY <1>1, <1>6 DEF DeleteRsvpLogically, ControlInv, KeyInv
  <2>4. CASE Matching(struct.uuid, FALSE) = {}
    BY <1>1, <1>3, <2>1, <2>2, <2>3, <2>4 DEF NoWrite, Matching, Gone
  <2>5. CASE Matching(struct.uuid, FALSE) # {}
    <3>1. PICK u \in Matching(struct.uuid, FALSE) : Write(c, SetDeleted({u}))
      BY <2>1, <2>2, <2>5
    <3>2. u \in DOMAIN rows /\ (uuid # NilUuid => u = uuid)
      BY <2>3 DEF Matching
    <3>3. DOMAIN rows' = DOMAIN rows /\ rows'[u] = SetDeleted({u})[u]
      BY <3>1, <3>2 DEF Write, SetDeleted
    <3>4. SetDeleted({u})[u].deleted
      BY <1>1, <3>2, NewRowsType, CallType
    <3>5. QED
      BY <1>1, <1>3, <2>3, <3>2, <3>3, <3>4 DEF Gone
  <2>6. QED
    BY <2>4, <2>5
<1>7. CASE DeleteRsvpPhysically(c)
  <2>1. call[c].id.form = "stored"
    BY <1>1, <1>2, <1>7, CallType, QueriesAssumption
    DEF DeleteRsvpPhysically, Starts, SpelledAsStored, Call, Id, Forms
  <2>2. uuid \notin DOMAIN rows'
    BY <1>1, <1>7, <2>1, ReturnEffect DEF DeleteRsvpPhysically, Restrict
  <2>3. QED
    BY <1>1, <2>2 DEF Gone
<1>8. QED
  BY <1>1, <1>4, <1>5, <1>6, <1>7
  DEF Deletes, ControlInv, Step, Starts, BadParams, CreateRsvp, FindRsvpByUUID, UpdateRsvpLoad,
      UpdateRsvp, ListRsvpsFind, ListRsvps, Flush

(* A deletion that has been reported stays true, whatever calls run        *)
(* beside it and after it.                                                 *)
THEOREM DeletionsStay ==
    ASSUME \A k \in Calls : SpelledAsStored(k)
    PROVE  Spec => []DeletionIsFinal
<1>1. Init => DeletionIsFinal
  BY DEF Init, DeletionIsFinal, Returned
<1>2. IInv /\ DeletionIsFinal /\ [Next]_vars => DeletionIsFinal'
  <2>1. ASSUME IInv, DeletionIsFinal, NEW c \in Caller, Step(c)
        PROVE  DeletionIsFinal'
    <3>1. /\ call' = call
          /\ \A d \in Caller \ {c} : pc'[d] = pc[d] /\ ret'[d] = ret[d]
      BY <2>1, StepFrame DEF IInv
    <3>2. Effect(c)
      BY <2>1, StepEffect DEF IInv
    <3>3. ASSUME NEW d \in Caller, Returned(d)', Deletes(d)', ret'[d].err = "none"
          PROVE  Gone(d)'
      <4>1. CASE d = c
        BY <2>1, <3>1, <3>3, <4>1, DeleteTakesEffect DEF Deletes, Returned
      <4>2. CASE d # c
        BY <2>1, <3>1, <3>2, <3>3, <4>2, GoneStays DEF IInv, DeletionIsFinal, Deletes, Returned
      <4>3. QED
        BY <4>1, <4>2
    <3>4. QED
      BY <3>3 DEF DeletionIsFinal
  <2>2. DeletionIsFinal /\ UNCHANGED vars => DeletionIsFinal'
    BY DEF DeletionIsFinal, Returned, Deletes, Gone, vars
  <2>3. QED
    BY <2>1, <2>2 DEF Next
<1>3. QED
  BY <1>1, <1>2, Invariance, PTL DEF Spec

-----------------------------------------------------------------------------
(* ListRsvps *)

(* No step takes a row out of a selection without a deletion.              *)
LEMMA SelectionGrows ==
    ASSUME TypeOK, ControlInv, NEW c \in Caller, Step(c), Effect(c), NoDeletion', NEW page
    PROVE  NoDeletion /\ Selected(page) \subseteq Selected(page)'
<1>1. call' = call /\ \A d \in Caller \ {c} : wrote'[d] = wrote[d]
  BY StepFrame
<1>2. pc[c] # "done"
  BY DEF Step, Starts, BadUuid, BadParams, CreateRsvp, FindRsvpByUUID, UpdateRsvpLoad, UpdateRsvp,
         DeleteRsvpLogicallyLoad, DeleteRsvpLogically, DeleteRsvpPhysically, ListRsvpsFind,
         ListRsvps, Flush
<1>3. NoDeletion
  BY <1>1, <1>2 DEF NoDeletion, Deletes, ControlInv
<1>4. CASE rows' = rows
  BY <1>3, <1>4 DEF Selected
<1>5. CASE Inserted(c)
  BY <1>3, <1>5 DEF Inserted, KeptOutside, Fresh, Selected
<1>6. CASE Updated(c)
  BY <1>3, <1>6 DEF Updated, KeptOutside, Selected
<1>7. CASE SoftDeleted(c)
  BY <1>1, <1>7 DEF SoftDeleted, NoDeletion, Deletes
<1>8. CASE Removed(c)
  <2>1. wrote'[c] = {}
    BY <1>1, <1>8 DEF Removed, NoDeletion, Deletes
  <2>2. QED
    BY <1>3, <1>8, <2>1 DEF Removed, KeptOutside, Selected
<1>9. QED
  BY <1>4, <1>5, <1>6, <1>7, <1>8 DEF Effect

LEMMA PageStep ==
    ASSUME IInv, PageInv, NEW c \in Caller, Step(c)
    PROVE  PageInv'
<1>1. TypeOK /\ ControlInv /\ Effect(c)
  BY StepEffect DEF IInv
<1>2. call' = call /\ \A d \in Caller \ {c} : pc'[d] = pc[d] /\ list'[d] = list[d]
  BY <1>1, StepFrame
<1>3. ASSUME NEW d \in Caller, pc'[d] = "count", NoDeletion'
      PROVE  list'[d] \subseteq Selected(call[d].page)'
  <2>1. NoDeletion /\ Selected(call[d].page) \subseteq Selected(call[d].page)'
    BY <1>1, <1>2, <1>3, SelectionGrows DEF Selected
  <2>2. CASE d # c
    BY <1>2, <1>3, <2>1, <2>2 DEF PageInv
  <2>3. CASE d = c
    <3>1. ListRsvpsFind(c)
      BY <1>1, <1>3, <2>3
      DEF TypeOK, Return, Goto, Step, BadUuid, BadParams, CreateRsvp, FindRsvpByUUID,
          UpdateRsvpLoad, UpdateRsvp, DeleteRsvpLogicallyLoad, Load, DeleteRsvpLogically,
          DeleteRsvpPhysically, ListRsvps, Flush
    <3>2. list'[c] = {} \/ list'[c] = PageOf(call[c].page)
      BY <1>1, <1>3, <2>3, <3>1 DEF ListRsvpsFind, TypeOK, Return, Goto
    <3>3. QED
      BY <2>1, <2>3, <3>2 DEF PageOf
  <2>4. QED
    BY <2>2, <2>3
<1>4. QED
  BY <1>2, <1>3 DEF PageInv

(* A page that claims to be the last one holds the whole selection, if     *)
(* nothing was deleted and no statement of ListRsvps fails (the error of   *)
(* its COUNT is dropped).                                                  *)
THEOREM PagesAreComplete ==
    ASSUME "ListRsvps" \notin Failing
    PROVE  Spec => NothingMissed
<1> DEFINE Complete ==
        \A c \in Caller :
            LET page == call[c].page IN
            /\ pc[c] = "count" /\ pc'[c] = "done"
            /\ page.limit > 0 /\ page.offset = 0
            /\ \A d \in Caller : Deletes(d) \/ call[d].fn = "Flush" => wrote[d] = {}
            => (ret'[c].hasMore \/ Selected(page) = ret'[c].list)
<1>1. Init => PageInv
  BY DEF Init, PageInv
<1>2. IInv /\ PageInv /\ [Next]_vars => PageInv'
  <2>1. PageInv /\ UNCHANGED vars => PageInv'
    BY DEF PageInv, NoDeletion, Deletes, Selected, vars
  <2>2. QED
    BY <2>1, PageStep DEF Next
<1>3. IInv /\ PageInv /\ [Next]_vars => [Complete]_vars
  <2>1. ASSUME IInv, PageInv, NEW e \in Caller, Step(e), NEW c \in Caller,
               pc[c] = "count", pc'[c] = "done", call[c].page.limit > 0,
               call[c].page.offset = 0, NoDeletion
        PROVE  ret'[c].hasMore \/ Selected(call[c].page) = ret'[c].list
    <3> DEFINE S == Selected(call[c].page)
    <3>1. e = c
      BY <2>1, StepFrame DEF IInv
    <3>2. ListRsvps(c)
      BY <2>1, <3>1
      DEF Step, Starts, BadUuid, BadParams, CreateRsvp, FindRsvpByUUID, UpdateRsvpLoad, UpdateRsvp,
          DeleteRsvpLogicallyLoad, DeleteRsvpLogically, DeleteRsvpPhysically, ListRsvpsFind, Flush
    <3>3. ~(\E fails \in StatementFails(c) : fails)
      BY <2>1 DEF IInv, ControlInv, StatementFails
    <3>4. /\ ret'[c].list = list[c]
          /\ ret'[c].hasMore \/ ~(0 + Cardinality(list[c]) < Cardinality(S))
      <4>1. PICK fails \in StatementFails(c) :
              LET size == IF fails \/ call[c].page.limit = 0 THEN 0 ELSE Cardinality(S)
              IN ret' = [ret EXCEPT ![c].list = list[c], ![c].size = size,
                           ![c].hasMore = call[c].page.offset + Cardinality(list[c]) < size]
        BY <3>2 DEF ListRsvps
      <4>2. ~(fails \/ call[c].page.limit = 0)
        BY <2>1, <3>3
      <4>3. ret[c] \in [err: Errors, rsvp: SUBSET Struct, list: SUBSET Uuids,
                        size: Nat, hasMore: BOOLEAN]
        BY <2>1 DEF IInv, TypeOK
      <4>4. ret' = [ret EXCEPT ![c].list = list[c], ![c].size = Cardinality(S),
                      ![c].hasMore = 0 + Cardinality(list[c]) < Cardinality(S)]
        BY <2>1, <4>1, <4>2
      <4>5. ret \in [Caller -> [err: Errors, rsvp: SUBSET Struct, list: SUBSET Uuids,
                               size: Nat, hasMore: BOOLEAN]]
        BY <2>1 DEF IInv, TypeOK
      <4>6. QED
        BY <4>3, <4>4, <4>5
    <3>5. list[c] \subseteq S /\ IsFiniteSet(S)
      BY <2>1, SelectedFinite DEF IInv, PageInv
    <3>6. /\ Cardinality(list[c]) \in Nat /\ Cardinality(S) \in Nat
          /\ Cardinality(list[c]) <= Cardinality(S)
          /\ Cardinality(S) = Cardinality(list[c]) => S = list[c]
      BY <3>5, FS_Subset, FS_CardinalityType
    <3>7. QED
      BY <3>4, <3>6
  <2>2. QED
    BY <2>1 DEF Next, NoDeletion
<1>4. QED
  BY <1>1, <1>2, <1>3, Invariance, PTL DEF Spec, NothingMissed
=============================================================================

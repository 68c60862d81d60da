------------------------- MODULE RsvpEndToEndProofs -------------------------
(***************************************************************************)
(* What the page tells the guest is true of the service, proved for any    *)
(* texts and any number of requests and edits.                             *)
(***************************************************************************)
EXTENDS RsvpEndToEnd, SequenceTheorems, TLAPS

-----------------------------------------------------------------------------
(* The inductive invariant *)

Requests == Seq([form: Form, answer: Answers])
Rows == [uuid: Request, by: Request, params: Params]

PageInv ==
    /\ PageTypeOK
    /\ requests \in Requests

ServiceType ==
    /\ rows \subseteq Rows
    /\ \A row \in rows : Sent(row.by)
    /\ outcome \in [Request -> [kind: {"open", "created", "declined"}, row: SUBSET Rows]]
    /\ reply \in [Request -> [kind: {"waiting", "created", "declined", "unknown"},
                              row: SUBSET Rows]]

(* What the service has done of a call, and what its caller was told.      *)
CallOf(i) ==
    /\ ~Sent(i) => outcome[i].kind = "open" /\ reply[i].kind = "waiting"
    /\ outcome[i].kind = "created" =>
         /\ Validate(call[i].params) = Valid
         /\ \E row \in Rows : outcome[i].row = {row} /\ row.params = call[i].params
    /\ reply[i].kind \in {"created", "declined"} => reply[i] = outcome[i]

ServiceInv == \A i \in Request : CallOf(i)

(* A sent form has passed the page's own checks, and an answer is still    *)
(* one that the service and the gateway may give.                          *)
SentInv ==
    \A i \in DOMAIN requests :
        /\ rsvpValidator(requests[i].form) = {}
        /\ ~Pending(i) => requests[i].answer \in Response(i)

(* What the page shows is the answer to one of its requests.               *)
ShownInv ==
    \/ rsvpResponse = NotAsked
    \/ \E i \in DOMAIN requests : rsvpResponse = requests[i].answer

(* A text that is not the initial one was edited, so its flag is up.       *)
Flagged(form) ==
    /\ form.names # Empty => "Names" \in display
    /\ form.email # NoAddress => "Email" \in display
    /\ form.childrenNameAge # 0 => "ChildrenNameAge" \in display
    /\ form.music # 0 => "Music" \in display

DisplayInv ==
    /\ Flagged(rsvp)
    /\ \A i \in DOMAIN requests : Flagged(requests[i].form)

IInv == /\ PageInv
        /\ ServiceType
        /\ ServiceInv
        /\ SentInv
        /\ ShownInv
        /\ DisplayInv

-----------------------------------------------------------------------------
(* The conversions *)

LEMMA EncoderType ==
    ASSUME NEW form \in Form
    PROVE  LET params == rsvpCreationRequestEncoder(form) IN
           /\ params \in Params
           /\ params.names = form.names.bytes
           /\ params.email = form.email.server
           /\ params.presence = form.presence
           /\ params.childrenNameAge = form.childrenNameAge
           /\ params.housing = form.housing
           /\ params.music = form.music
           /\ params.brunch = form.brunch
<1>1. /\ form.names \in Text /\ form.names.bytes \in Nat
      /\ form.email.server \in BOOLEAN
      /\ form.childrenNameAge \in Nat /\ form.music \in Nat
  BY FormAssumption DEF Form, Text, Address
<1>2. QED
  BY <1>1 DEF rsvpCreationRequestEncoder, Form, Params

(* A field that is not renamed comes back; the renamed one is empty.       *)
LEMMA DecoderType ==
    ASSUME NEW params \in Params
    PROVE  /\ rsvpInfoDecoder(params) \in Params
           /\ rsvpInfoDecoder(params).presence = params.presence
BY DEF rsvpInfoDecoder, OrigName, DefaultText, Params

LEMMA FormType ==
    /\ defaultRsvp \in Form
    /\ \A form \in Form :
         /\ \A t \in NamesTexts : [form EXCEPT !.names = t] \in Form
         /\ \A t \in EmailTexts : [form EXCEPT !.email = t] \in Form
         /\ \A t \in OtherTexts : [form EXCEPT !.childrenNameAge = t] \in Form
         /\ \A t \in OtherTexts : [form EXCEPT !.music = t] \in Form
         /\ \A t \in Tooglers : [form EXCEPT ![t] = ~@] \in Form
<1>1. defaultRsvp \in Form
  BY FormAssumption DEF defaultRsvp, Form
<1>2. ASSUME NEW form \in Form, NEW t \in Tooglers
      PROVE  [form EXCEPT ![t] = ~@] \in Form
  BY DEF Tooglers, Form
<1>3. QED
  BY <1>1, <1>2 DEF Form

LEMMA FieldType ==
    \A p : Validate(p) \in FieldNames \cup {Valid}
BY DEF Validate, FieldNames, Valid

LEMMA CallType ==
    ASSUME PageInv, NEW i \in Request
    PROVE  /\ call[i].params \in Params
           /\ Sent(i) => call[i].params = rsvpCreationRequestEncoder(requests[i].form)
           /\ Sent(i) => requests[i].form \in Form
<1>1. Sent(i) => requests[i].form \in Form
  BY DEF PageInv, PageTypeOK, Sent
<1>2. QED
  BY <1>1, FormType, EncoderType DEF call, Sent

(* What the service refuses a sent form for: a name that is too long in    *)
(* bytes, an address only the page takes, or one of the other texts.       *)
LEMMA RefusedField ==
    ASSUME NEW form \in Form, rsvpValidator(form) = {},
           NEW field, field = Validate(rsvpCreationRequestEncoder(form))
    PROVE  /\ field = "Names" => form.names.bytes > 255
           /\ Flagged(form) => field = Valid \/ field \in display
<1> DEFINE params == rsvpCreationRequestEncoder(form)
<1>1. /\ params.names = form.names.bytes /\ params.email = form.email.server
      /\ params.childrenNameAge = form.childrenNameAge /\ params.music = form.music
  BY EncoderType
<1>2. ~form.names.blank /\ 2 < form.names.chars /\ ~form.email.blank
  BY DEF rsvpValidator
<1>3. form.names \in [blank: BOOLEAN, chars: Nat, bytes: Nat] /\ form.names.chars <= form.names.bytes
  BY FormAssumption DEF Form, Text
<1>4. form.names.bytes > 2 /\ form.names.bytes \in Nat
  BY <1>2, <1>3
<1>5. form.names # Empty /\ form.email # NoAddress
  BY <1>2 DEF Empty, NoAddress
<1>6. form.childrenNameAge \in Nat /\ form.music \in Nat
  BY FormAssumption DEF Form
<1> HIDE DEF params
<1>7. field = Validate(params)
  BY DEF params
<1>8. QED
  BY <1>1, <1>4, <1>5, <1>6, <1>7 DEF Validate, Valid, Flagged

-----------------------------------------------------------------------------
(* What a step does to the requests *)

LEMMA SentRange ==
    ASSUME PageInv
    PROVE  /\ Len(requests) \in Nat
           /\ DOMAIN requests = 1 .. Len(requests)
           /\ DOMAIN requests \subseteq Request
           /\ \A i \in DOMAIN requests :
                requests[i] \in [form: Form, answer: Answers]
<1>1. requests \in Requests /\ Len(requests) <= MaxRequests /\ MaxRequests \in Nat
  BY FormAssumption DEF PageInv, PageTypeOK
<1>2. Len(requests) \in Nat /\ DOMAIN requests = 1 .. Len(requests)
  BY <1>1, LenProperties DEF Requests
<1>3. \A i \in DOMAIN requests : requests[i] \in [form: Form, answer: Answers]
  BY <1>1, <1>2, ElementOfSeq DEF Requests
<1>4. DOMAIN requests \subseteq Request
  BY <1>1, <1>2 DEF Request
<1>5. QED
  BY <1>2, <1>3, <1>4

Appended ==
    LET n == Len(requests) + 1 IN
    /\ n \in Request
    /\ rsvpValidator(rsvp) = {}
    /\ requests' \in Requests
    /\ Len(requests') = n
    /\ DOMAIN requests' = DOMAIN requests \cup {n}
    /\ n \notin DOMAIN requests
    /\ requests'[n] = [form |-> rsvp, answer |-> NotAsked]
    /\ \A i \in DOMAIN requests : requests'[i] = requests[i]

Answered(i, answer) ==
    /\ requests' \in Requests
    /\ Len(requests') = Len(requests)
    /\ DOMAIN requests' = DOMAIN requests
    /\ requests'[i] = [form |-> requests[i].form, answer |-> answer]
    /\ \A j \in DOMAIN requests \ {i} : requests'[j] = requests[j]

LEMMA SubmitEffect ==
    ASSUME PageInv, Submit
    PROVE  UNCHANGED requests \/ Appended
<1>1. CASE requests' = requests
  BY <1>1
<1>2. CASE requests' # requests
  <2> DEFINE new == [form |-> rsvp, answer |-> NotAsked]
             n == Len(requests) + 1
  <2>1. /\ rsvpValidator(rsvp) = {} /\ Len(requests) < MaxRequests
        /\ requests' = Append(requests, new)
    BY <1>2 DEF Submit
  <2>2. new \in [form: Form, answer: Answers]
    BY DEF PageInv, PageTypeOK, NotAsked, Answer, Answers, Valid
  <2>3. requests \in Requests /\ Len(requests) \in Nat /\ DOMAIN requests = 1 .. Len(requests)
    BY SentRange DEF PageInv
  <2>4. /\ requests' \in Requests /\ Len(requests') = n
        /\ requests'[n] = new /\ \A i \in 1 .. Len(requests) : requests'[i] = requests[i]
    BY <2>1, <2>2, <2>3, AppendProperties DEF Requests
  <2>5. DOMAIN requests' = 1 .. n
    BY <2>4, LenProperties DEF Requests
  <2>6. n \in Request
    BY <2>1, <2>3, FormAssumption DEF Request
  <2> HIDE DEF new
  <2>7. DOMAIN requests' = DOMAIN requests \cup {n} /\ n \notin DOMAIN requests
    BY <2>3, <2>5
  <2>8. requests'[n] = [form |-> rsvp, answer |-> NotAsked]
    BY <2>4 DEF new
  <2>9. QED
    BY <2>1, <2>3, <2>4, <2>6, <2>7, <2>8 DEF Appended
<1>3. QED
  BY <1>1, <1>2

LEMMA GuestEffect ==
    ASSUME PageInv, GuestNext
    PROVE  /\ UNCHANGED requests \/ (Appended /\ UNCHANGED rsvp)
           /\ UNCHANGED rsvpResponse
           /\ display \subseteq display'
<1>1. CASE Submit
  <2>1. display \subseteq display' /\ rsvp' = rsvp /\ rsvpResponse' = rsvpResponse
    BY <1>1 DEF Submit
  <2>2. QED
    BY <1>1, <2>1, SubmitEffect
<1>2. CASE ~Submit
  BY <1>2 DEF GuestNext, NamesChange, EmailChange, ChildrenNameAgeChange, MusicChange, Toogle, Edit
<1>3. QED
  BY <1>1, <1>2

LEMMA ArrivalEffect ==
    ASSUME PageInv, NEW i \in DOMAIN requests, NEW answer \in Answers, RsvpCreation(i, answer)
    PROVE  Answered(i, answer)
<1> DEFINE new == [form |-> requests[i].form, answer |-> answer]
<1>1. /\ requests \in Requests /\ i \in 1 .. Len(requests) /\ DOMAIN requests = 1 .. Len(requests)
      /\ requests[i] \in [form: Form, answer: Answers]
  BY SentRange DEF PageInv
<1>2. new \in [form: Form, answer: Answers]
  BY <1>1
<1>3. [requests[i] EXCEPT !.answer = answer] = new
  BY <1>1
<1>4. requests' = [requests EXCEPT ![i] = [requests[i] EXCEPT !.answer = answer]]
  BY DEF RsvpCreation
<1>5. requests' = [requests EXCEPT ![i] = new]
  BY <1>3, <1>4
<1> HIDE DEF new
<1>6. /\ requests' \in Requests /\ Len(requests') = Len(requests)
      /\ \A j \in 1 .. Len(requests) : requests'[j] = IF j = i THEN new ELSE requests[j]
  BY <1>1, <1>2, <1>5, ExceptSeq DEF Requests
<1>7. DOMAIN requests' = DOMAIN requests
  BY <1>5
<1>8. QED
  BY <1>1, <1>6, <1>7 DEF Answered, new

LEMMA ResponseType ==
    ASSUME PageInv, ServiceType, NEW i \in Request, CallOf(i)
    PROVE  Response(i) \subseteq Answers
<1> DEFINE info == {rsvpInfoDecoder(row.params) : row \in reply[i].row}
<1>1. reply[i].row \subseteq Rows
  BY DEF ServiceType
<1>2. info \subseteq Params
  BY <1>1, DecoderType DEF Rows
<1>3. Validate(call[i].params) \in FieldNames \cup {Valid}
  BY FieldType
<1> HIDE DEF info
<1>4. Response(i) \subseteq
        {Answer("Success", Valid, info)} \cup
        {Answer("BadStatus", f, {}) : f \in FieldNames \cup {Valid}} \cup
        {Answer(k, Valid, {}) : k \in {"NetworkError", "BadStatus", "BadPayload"}}
  <2>1. CASE reply[i].kind = "created"
    BY <2>1 DEF Response, info
  <2>2. CASE reply[i].kind = "declined"
    BY <1>3, <2>2 DEF Response
  <2>3. CASE reply[i].kind = "unknown"
    BY <2>3 DEF Response
  <2>4. CASE reply[i].kind = "waiting"
    BY <2>4 DEF Response
  <2>5. QED
    BY <2>1, <2>2, <2>3, <2>4 DEF ServiceType
<1>5. QED
  BY <1>2, <1>4 DEF Answer, Answers

-----------------------------------------------------------------------------
(* The steps of the service                                                *)

(* What was done of a call, and what its caller was told, is final.        *)
Final ==
    \A i \in Request : /\ outcome[i].kind # "open" => outcome'[i] = outcome[i]
                       /\ reply[i].kind # "waiting" => reply'[i] = reply[i]

LEMMA CallStable ==
    ASSUME UNCHANGED page
    PROVE  call' = call
BY DEF page, call

(* The two sides speak of the same checks.                                 *)
LEMMA SameValidate ==
    Service!Valid = Valid /\ \A p : Service!Validate(p) = Validate(p)
BY DEF Validate, Valid, Service!Validate, Service!Valid

LEMMA CreateStep ==
    ASSUME PageInv, ServiceType, ServiceInv, UNCHANGED page,
           NEW i \in Request, Sent(i), Service!Create(i)
    PROVE  ServiceType' /\ ServiceInv' /\ Final
<1>1. call' = call
  BY CallStable
<1>2. Validate(call[i].params) = Valid /\ outcome[i].kind = "open" /\ reply' = reply
  BY SameValidate DEF Service!Create
<1>3. PICK u \in Request :
        LET row == [uuid |-> u, by |-> i, params |-> call[i].params] IN
        /\ rows' = rows \cup {row}
        /\ outcome' = [outcome EXCEPT ![i] = [kind |-> "created", row |-> {row}]]
  BY DEF Service!Create
<1> DEFINE row == [uuid |-> u, by |-> i, params |-> call[i].params]
<1>4. row \in Rows /\ row.by = i /\ row.params = call[i].params
  BY CallType DEF Rows
<1>5. /\ rows' = rows \cup {row}
      /\ outcome' = [outcome EXCEPT ![i] = [kind |-> "created", row |-> {row}]]
  BY <1>3
<1> HIDE DEF row
<1>6. outcome'[i].kind = "created" /\ outcome'[i].row = {row}
  BY <1>5 DEF ServiceType
<1>7. \A j \in Request \ {i} : outcome'[j] = outcome[j]
  BY <1>5 DEF ServiceType
<1>8. \A j : Sent(j)' <=> Sent(j)
  BY DEF Sent, page
<1>9. ServiceType'
  <2>1. [kind |-> "created", row |-> {row}]
          \in [kind: {"open", "created", "declined"}, row: SUBSET Rows]
    BY <1>4
  <2>2. outcome' \in [Request -> [kind: {"open", "created", "declined"}, row: SUBSET Rows]]
    BY <1>5, <2>1 DEF ServiceType
  <2>3. rows' \subseteq Rows /\ \A r \in rows' : Sent(r.by)
    BY <1>4, <1>5 DEF ServiceType
  <2>4. QED
    BY <1>2, <1>8, <2>2, <2>3 DEF ServiceType
<1>10. ServiceInv'
  <2>1. SUFFICES ASSUME NEW j \in Request
                 PROVE  CallOf(j)'
    BY DEF ServiceInv
  <2>2. CallOf(j)
    BY DEF ServiceInv
  <2>3. CASE j = i
    <3>1. reply[i].kind \notin {"created", "declined"}
      BY <1>2, <2>2, <2>3 DEF CallOf, ServiceType
    <3>2. QED
      BY <1>1, <1>2, <1>4, <1>6, <1>8, <2>3, <3>1 DEF CallOf
  <2>4. CASE j # i
    BY <1>1, <1>2, <1>7, <1>8, <2>2, <2>4 DEF CallOf
  <2>5. QED
    BY <2>3, <2>4
<1>11. Final
  BY <1>2, <1>7 DEF Final
<1>12. QED
  BY <1>9, <1>10, <1>11

(* A call is closed without a row, or its caller learns something: what    *)
(* was done, or nothing.                                                   *)
Closes(i) ==
    \/ outcome[i].kind = "open" /\ outcome'[i] = Service!Nothing("declined")
    \/ outcome'[i] = outcome[i]

Learns(i) ==
    \/ /\ outcome[i].kind # "open" /\ reply[i].kind = "waiting"
       /\ reply'[i] = outcome[i]
    \/ reply[i].kind = "waiting" /\ reply'[i] = Service!Nothing("unknown")
    \/ reply'[i] = reply[i]

Spreads ==
    /\ rows' \subseteq rows
    /\ outcome' = [i \in Request |-> outcome'[i]]
    /\ reply' = [i \in Request |-> reply'[i]]
    /\ \A i \in Request : Closes(i) /\ Learns(i)
    /\ \A i \in Request : ~Sent(i) => outcome'[i] = outcome[i] /\ reply'[i] = reply[i]

LEMMA SpreadEffect ==
    ASSUME ServiceType,
           \/ Disturb
           \/ \E i \in Request : Sent(i) /\ (Service!Decline(i) \/ Service!Answer(i) \/ Service!Lose(i))
    PROVE  Spreads
<1>1. ASSUME NEW i \in Request, Sent(i), Service!Decline(i)
      PROVE  Spreads
  BY <1>1 DEF Service!Decline, Spreads, Closes, Learns, ServiceType
<1>2. ASSUME NEW i \in Request, Sent(i), Service!Answer(i)
      PROVE  Spreads
  BY <1>2 DEF Service!Answer, Spreads, Closes, Learns, ServiceType
<1>3. ASSUME NEW i \in Request, Sent(i), Service!Lose(i)
      PROVE  Spreads
  BY <1>3 DEF Service!Lose, Spreads, Closes, Learns, ServiceType
<1>4. ASSUME Service!Kill, Disturb
      PROVE  Spreads
  BY <1>4 DEF Disturb, Service!Kill, Spreads, Closes, Learns, Sent
<1>5. ASSUME Service!Erase, Disturb
      PROVE  Spreads
  BY <1>5 DEF Service!Erase, Spreads, Closes, Learns, ServiceType
<1>6. QED
  BY <1>1, <1>2, <1>3, <1>4, <1>5 DEF Disturb

LEMMA SpreadStep ==
    ASSUME PageInv, ServiceType, ServiceInv, UNCHANGED page, Spreads
    PROVE  ServiceType' /\ ServiceInv' /\ Final
<1>1. call' = call
  BY CallStable
<1>2. \A j : Sent(j)' <=> Sent(j)
  BY DEF Sent, page
<1>3. ASSUME NEW i \in Request
      PROVE  /\ outcome'[i] \in [kind: {"open", "created", "declined"}, row: SUBSET Rows]
             /\ reply'[i] \in [kind: {"waiting", "created", "declined", "unknown"}, row: SUBSET Rows]
             /\ CallOf(i)'
             /\ outcome[i].kind # "open" => outcome'[i] = outcome[i]
             /\ reply[i].kind # "waiting" => reply'[i] = reply[i]
  <2>1. /\ outcome[i] \in [kind: {"open", "created", "declined"}, row: SUBSET Rows]
        /\ reply[i] \in [kind: {"waiting", "created", "declined", "unknown"}, row: SUBSET Rows]
        /\ CallOf(i) /\ Closes(i) /\ Learns(i)
        /\ ~Sent(i) => outcome'[i] = outcome[i] /\ reply'[i] = reply[i]
    BY DEF ServiceType, ServiceInv, Spreads
  <2>2. /\ Service!Nothing("declined") \in [kind: {"open", "created", "declined"}, row: SUBSET Rows]
        /\ Service!Nothing("unknown")
             \in [kind: {"waiting", "created", "declined", "unknown"}, row: SUBSET Rows]
        /\ Service!Nothing("declined").kind = "declined"
        /\ Service!Nothing("unknown").kind = "unknown"
    BY DEF Service!Nothing
  <2>3. outcome[i].kind # "open" => outcome'[i] = outcome[i]
    BY <2>1 DEF Closes
  <2>4. reply[i].kind # "waiting" => reply'[i] = reply[i]
    BY <2>1 DEF Learns
  <2>5. outcome'[i] \in [kind: {"open", "created", "declined"}, row: SUBSET Rows]
    BY <2>1, <2>2 DEF Closes
  <2>6. reply'[i] \in [kind: {"waiting", "created", "declined", "unknown"}, row: SUBSET Rows]
    <3>1. CASE outcome[i].kind # "open" /\ reply'[i] = outcome[i]
      BY <2>1, <3>1
    <3>2. CASE ~(outcome[i].kind # "open" /\ reply'[i] = outcome[i])
      BY <2>1, <2>2, <3>2 DEF Learns
    <3>3. QED
      BY <3>1, <3>2
  <2>7. CallOf(i)'
    <3>1. ~Sent(i)' => outcome'[i].kind = "open" /\ reply'[i].kind = "waiting"
      BY <1>2, <2>1 DEF CallOf
    <3>2. outcome'[i].kind = "created" => outcome'[i] = outcome[i]
      BY <2>1, <2>2 DEF Closes
    <3>3. reply'[i].kind \in {"created", "declined"} => reply'[i] = outcome'[i]
      <4>1. CASE reply'[i] = reply[i]
        BY <2>1, <2>3, <4>1 DEF CallOf
      <4>2. CASE reply'[i] # reply[i]
        BY <2>1, <2>2, <2>3, <4>2 DEF Learns
      <4>3. QED
        BY <4>1, <4>2
    <3>4. QED
      BY <1>1, <2>1, <3>1, <3>2, <3>3 DEF CallOf
  <2>8. QED
    BY <2>3, <2>4, <2>5, <2>6, <2>7
<1>4. outcome' \in [Request -> [kind: {"open", "created", "declined"}, row: SUBSET Rows]]
  BY <1>3 DEF Spreads
<1>5. reply' \in [Request -> [kind: {"waiting", "created", "declined", "unknown"}, row: SUBSET Rows]]
  BY <1>3 DEF Spreads
<1>6. ServiceType'
  BY <1>2, <1>4, <1>5 DEF ServiceType, Spreads
<1>7. QED
  BY <1>3, <1>6 DEF ServiceInv, Final

(* The other conjuncts under a step of the service: an answer is given for *)
(* good, so what the page was told stays what it may have been told.       *)
LEMMA ServiceKeepsPage ==
    ASSUME IInv, UNCHANGED page, Final
    PROVE  PageInv' /\ SentInv' /\ ShownInv' /\ DisplayInv'
<1>1. call' = call
  BY CallStable
<1>2. /\ rsvp' = rsvp /\ rsvpResponse' = rsvpResponse /\ errors' = errors
      /\ display' = display /\ requests' = requests /\ edits' = edits
  BY DEF page
<1>3. ASSUME NEW i \in DOMAIN requests, ~Pending(i)
      PROVE  requests[i].answer \in Response(i)'
  <2>1. requests[i].answer \in Response(i) /\ i \in Request
    BY <1>3, SentRange DEF IInv, SentInv
  <2>2. reply[i].kind # "waiting"
    BY <2>1 DEF Response
  <2>3. reply'[i] = reply[i]
    BY <2>1, <2>2 DEF Final
  <2>4. Response(i)' = Response(i)
    BY <1>1, <2>3 DEF Response
  <2>5. QED
    BY <2>1, <2>4
<1>4. SentInv'
  BY <1>2, <1>3 DEF SentInv, IInv, Pending
<1>5. QED
  BY <1>2, <1>4 DEF IInv, PageInv, PageTypeOK, ShownInv, DisplayInv, Flagged

-----------------------------------------------------------------------------
(* The steps of the guest *)

(* A request that is sent is new to the service; the others are not        *)
(* touched.                                                                *)
LEMMA GuestCalls ==
    ASSUME IInv, UNCHANGED requests \/ Appended, UNCHANGED service, PageInv'
    PROVE  /\ ServiceType' /\ ServiceInv'
           /\ \A i \in DOMAIN requests : call'[i] = call[i] /\ Response(i)' = Response(i)
<1>1. rows' = rows /\ outcome' = outcome /\ reply' = reply
  BY DEF service
<1>2. \A i : Sent(i) => Sent(i)'
  BY DEF Appended, Sent
<1>3. \A i \in DOMAIN requests : i \in Request /\ i \in DOMAIN requests' /\ requests'[i] = requests[i]
  BY SentRange DEF IInv, Appended
<1>4. \A i \in DOMAIN requests : call'[i] = call[i]
  BY <1>3 DEF call
<1>5. \A i \in DOMAIN requests : Response(i)' = Response(i)
  BY <1>1, <1>4 DEF Response
<1>6. ServiceType'
  BY <1>1, <1>2 DEF IInv, ServiceType
<1>7. ASSUME NEW i \in Request
      PROVE  CallOf(i)'
  <2>1. CallOf(i)
    BY DEF IInv, ServiceInv
  <2>2. CASE Sent(i)
    BY <1>1, <1>2, <1>4, <2>1, <2>2 DEF CallOf, Sent
  <2>3. CASE ~Sent(i)
    BY <1>1, <2>1, <2>3 DEF CallOf
  <2>4. QED
    BY <2>2, <2>3
<1>8. QED
  BY <1>4, <1>5, <1>6, <1>7 DEF ServiceInv

(* The form and the flags: what differs from the initial text was edited.  *)
LEMMA EditStep ==
    ASSUME IInv, GuestNext, ~Submit
    PROVE  /\ rsvp' \in Form /\ errors' \subseteq Fields /\ edits' \in 0 .. MaxEdits
           /\ display' \subseteq FieldNames /\ display \subseteq display'
           /\ Flagged(rsvp)'
           /\ UNCHANGED <<requests, rsvpResponse>>
<1> USE DEF FieldNames, Fields
<1>1. /\ rsvp \in Form /\ errors \subseteq Fields /\ display \subseteq FieldNames
      /\ edits \in 0 .. MaxEdits /\ MaxEdits \in Nat /\ Flagged(rsvp)
  BY FormAssumption DEF IInv, PageInv, PageTypeOK, DisplayInv
<1>2. \A form : rsvpValidator(form) \subseteq Fields
  BY DEF rsvpValidator
<1>3. ASSUME NEW form \in Form, NEW flag \in FieldNames, Edit(form, flag),
             \/ flag = "Names" /\ form.email = rsvp.email
                /\ form.childrenNameAge = rsvp.childrenNameAge /\ form.music = rsvp.music
             \/ flag = "Email" /\ form.names = rsvp.names
                /\ form.childrenNameAge = rsvp.childrenNameAge /\ form.music = rsvp.music
             \/ flag = "ChildrenNameAge" /\ form.names = rsvp.names
                /\ form.email = rsvp.email /\ form.music = rsvp.music
             \/ flag = "Music" /\ form.names = rsvp.names
                /\ form.email = rsvp.email /\ form.childrenNameAge = rsvp.childrenNameAge
      PROVE  /\ rsvp' \in Form /\ errors' \subseteq Fields /\ edits' \in 0 .. MaxEdits
             /\ display' \subseteq FieldNames /\ display \subseteq display'
             /\ Flagged(rsvp)'
             /\ UNCHANGED <<requests, rsvpResponse>>
  <2>1. /\ rsvp' = form /\ edits' = edits + 1 /\ edits < MaxEdits
        /\ errors' = rsvpValidator(form) /\ display' = display \cup {flag}
        /\ UNCHANGED <<requests, rsvpResponse>>
    BY <1>3 DEF Edit
  <2>2. Flagged(rsvp)'
    BY <1>1, <1>3, <2>1 DEF Flagged
  <2>3. QED
    BY <1>1, <1>2, <2>1, <2>2
<1>4. CASE NamesChange
  <2>1. PICK t \in NamesTexts : Edit([rsvp EXCEPT !.names = t], "Names")
    BY <1>4 DEF NamesChange
  <2>2. [rsvp EXCEPT !.names = t] \in Form
    BY <1>1, FormType
  <2>3. QED
    BY <1>1, <1>3, <2>1, <2>2 DEF Form
<1>5. CASE EmailChange
  <2>1. PICK t \in EmailTexts : Edit([rsvp EXCEPT !.email = t], "Email")
    BY <1>5 DEF EmailChange
  <2>2. [rsvp EXCEPT !.email = t] \in Form
    BY <1>1, FormType
  <2>3. QED
    BY <1>1, <1>3, <2>1, <2>2 DEF Form
<1>6. CASE ChildrenNameAgeChange
  <2>1. PICK t \in OtherTexts : Edit([rsvp EXCEPT !.childrenNameAge = t], "ChildrenNameAge")
    BY <1>6 DEF ChildrenNameAgeChange
  <2>2. [rsvp EXCEPT !.childrenNameAge = t] \in Form
    BY <1>1, FormType
  <2>3. QED
    BY <1>1, <1>3, <2>1, <2>2 DEF Form
<1>7. CASE MusicChange
  <2>1. PICK t \in OtherTexts : Edit([rsvp EXCEPT !.music = t], "Music")
    BY <1>7 DEF MusicChange
  <2>2. [rsvp EXCEPT !.music = t] \in Form
    BY <1>1, FormType
  <2>3. QED
    BY <1>1, <1>3, <2>1, <2>2 DEF Form
<1>8. CASE Toogle
  <2>1. PICK t \in Tooglers : rsvp' = [rsvp EXCEPT ![t] = ~@]
    BY <1>8 DEF Toogle
  <2>2. rsvp' \in Form
    BY <1>1, <2>1, FormType
  <2>3. /\ edits' = edits + 1 /\ edits < MaxEdits /\ errors' = errors /\ display' = display
        /\ UNCHANGED <<requests, rsvpResponse>>
    BY <1>8 DEF Toogle
  <2>4. Flagged(rsvp)'
    BY <1>1, <2>1, <2>3 DEF Flagged, Tooglers, Form
  <2>5. QED
    BY <1>1, <2>2, <2>3, <2>4
<1>9. QED
  BY <1>4, <1>5, <1>6, <1>7, <1>8 DEF GuestNext

LEMMA SubmitStep ==
    ASSUME IInv, Submit
    PROVE  /\ PageInv' /\ DisplayInv'
           /\ UNCHANGED requests \/ Appended
           /\ rsvpResponse' = rsvpResponse
<1> USE DEF FieldNames, Fields
<1>1. PageInv /\ rsvp \in Form /\ Flagged(rsvp)
  BY DEF IInv, PageInv, PageTypeOK, DisplayInv
<1>2. UNCHANGED requests \/ Appended
  BY <1>1, SubmitEffect
<1>3. /\ rsvp' = rsvp /\ rsvpResponse' = rsvpResponse /\ edits' = edits
      /\ display \subseteq display' /\ display' \subseteq FieldNames
      /\ errors' \subseteq Fields
  BY <1>1 DEF Submit, PageInv, PageTypeOK, rsvpValidator
<1>4. requests' \in Requests /\ Len(requests') <= MaxRequests
  <2>1. CASE UNCHANGED requests
    BY <1>1, <2>1 DEF PageInv, PageTypeOK
  <2>2. CASE Appended
    BY <2>2, FormAssumption DEF Appended, Request
  <2>3. QED
    BY <1>2, <2>1, <2>2
<1>5. ASSUME NEW i \in DOMAIN requests'
      PROVE  /\ requests'[i].form \in Form /\ requests'[i].answer \in Answers
             /\ Flagged(requests[i].form)'
  <2>1. CASE i \in DOMAIN requests
    <3>1. requests'[i] = requests[i]
      BY <1>2, <2>1 DEF Appended
    <3>2. QED
      BY <1>3, <2>1, <3>1 DEF IInv, PageInv, PageTypeOK, DisplayInv, Flagged
  <2>2. CASE i \notin DOMAIN requests
    <3>1. requests'[i] = [form |-> rsvp, answer |-> NotAsked]
      BY <1>2, <1>5, <2>2 DEF Appended
    <3>2. NotAsked \in Answers
      BY DEF NotAsked, Answer, Answers, Valid
    <3>3. QED
      BY <1>1, <1>3, <3>1, <3>2 DEF Flagged
  <2>3. QED
    BY <2>1, <2>2
<1>6. PageInv'
  BY <1>1, <1>3, <1>4, <1>5 DEF PageInv, PageTypeOK
<1>7. DisplayInv'
  BY <1>1, <1>3, <1>5 DEF DisplayInv, Flagged
<1>8. QED
  BY <1>2, <1>3, <1>6, <1>7

LEMMA GuestStep ==
    ASSUME IInv, Guest
    PROVE  IInv'
<1>1. /\ PageInv' /\ DisplayInv'
      /\ UNCHANGED requests \/ Appended
      /\ rsvpResponse' = rsvpResponse
  <2>1. CASE Submit
    BY <2>1, SubmitStep
  <2>2. CASE ~Submit
    BY <2>2, EditStep DEF Guest, IInv, PageInv, PageTypeOK, DisplayInv, Flagged
  <2>3. QED
    BY <2>1, <2>2
<1>2. /\ ServiceType' /\ ServiceInv'
      /\ \A i \in DOMAIN requests : Response(i)' = Response(i)
  BY <1>1, GuestCalls DEF Guest
<1>3. \A i \in DOMAIN requests : i \in DOMAIN requests' /\ requests'[i] = requests[i]
  BY <1>1 DEF Appended
<1>4. SentInv'
  <2>1. SUFFICES ASSUME NEW i \in DOMAIN requests'
                 PROVE  /\ rsvpValidator(requests'[i].form) = {}
                        /\ ~Pending(i)' => requests'[i].answer \in Response(i)'
    BY DEF SentInv
  <2>2. CASE i \in DOMAIN requests
    BY <1>2, <1>3, <2>2 DEF IInv, SentInv, Pending
  <2>3. CASE i \notin DOMAIN requests
    BY <1>1, <2>1, <2>3 DEF Appended, Pending
  <2>4. QED
    BY <2>2, <2>3
<1>5. ShownInv'
  BY <1>1, <1>3 DEF IInv, ShownInv
<1>6. QED
  BY <1>1, <1>2, <1>4, <1>5 DEF IInv

-----------------------------------------------------------------------------
(* The end of a task *)

LEMMA ArrivalStep ==
    ASSUME IInv, NEW i \in Request, Arrives(i)
    PROVE  IInv'
<1>1. i \in DOMAIN requests /\ UNCHANGED service
  BY DEF Arrives, Sent
<1>2. PICK answer \in Response(i) : RsvpCreation(i, answer)
  BY DEF Arrives
<1>3. answer \in Answers
  BY ResponseType DEF IInv, ServiceInv
<1>4. Answered(i, answer)
  BY <1>1, <1>2, <1>3, ArrivalEffect DEF IInv
<1>5. /\ rsvp' = rsvp /\ display' = display /\ edits' = edits /\ rsvpResponse' = answer
      /\ errors' \subseteq Fields
  BY <1>2 DEF RsvpCreation, errorServerToErrors, Fields
<1>6. requests[i].form \in Form /\ \A j \in DOMAIN requests : requests'[j].form = requests[j].form
  BY <1>1, <1>4 DEF Answered, IInv, PageInv, PageTypeOK
<1>7. PageInv'
  <2>1. requests' \in Requests /\ Len(requests') <= MaxRequests
    BY <1>4 DEF Answered, IInv, PageInv, PageTypeOK
  <2>2. \A j \in DOMAIN requests' : requests'[j].form \in Form /\ requests'[j].answer \in Answers
    BY <1>3, <1>4, <1>6 DEF Answered, IInv, PageInv, PageTypeOK
  <2>3. QED
    BY <1>3, <1>5, <2>1, <2>2 DEF IInv, PageInv, PageTypeOK
<1>8. call' = call
  BY <1>4, <1>6 DEF call, Answered
<1>9. rows' = rows /\ outcome' = outcome /\ reply' = reply
  BY <1>1 DEF service
<1>10. DOMAIN requests' = DOMAIN requests
  BY <1>4 DEF Answered
<1>11. ServiceType' /\ ServiceInv'
  BY <1>8, <1>9, <1>10 DEF IInv, ServiceType, ServiceInv, CallOf, Sent
<1>12. \A j : Response(j)' = Response(j)
  BY <1>8, <1>9 DEF Response
<1>13. SentInv'
  <2>1. ASSUME NEW j \in DOMAIN requests
        PROVE  /\ rsvpValidator(requests'[j].form) = {}
               /\ ~Pending(j)' => requests'[j].answer \in Response(j)'
    <3>1. rsvpValidator(requests'[j].form) = {}
      BY <1>6 DEF IInv, SentInv
    <3>2. CASE j = i
      BY <1>2, <1>4, <1>12, <3>1, <3>2 DEF Answered
    <3>3. CASE j # i
      BY <1>4, <1>12, <3>1, <3>3 DEF IInv, SentInv, Pending, Answered
    <3>4. QED
      BY <3>2, <3>3
  <2>2. QED
    BY <1>10, <2>1 DEF SentInv
<1>14. ShownInv'
  BY <1>1, <1>4, <1>5, <1>10 DEF ShownInv, Answered
<1>15. DisplayInv'
  BY <1>5, <1>6, <1>10 DEF IInv, DisplayInv, Flagged
<1>16. QED
  BY <1>7, <1>11, <1>13, <1>14, <1>15 DEF IInv

-----------------------------------------------------------------------------
LEMMA Initially ==
    Init => IInv
<1> SUFFICES ASSUME Init PROVE IInv
  OBVIOUS
<1>1. /\ rsvp = defaultRsvp /\ rsvpResponse = NotAsked /\ errors = {} /\ display = {}
      /\ requests = <<>> /\ edits = 0 /\ rows = {}
      /\ outcome = [r \in Request |-> Service!Nothing("open")]
      /\ reply = [r \in Request |-> Service!Nothing("waiting")]
  BY DEF Init, PageInit, Service!Init
<1>2. NotAsked \in Answers
  BY DEF NotAsked, Answer, Answers, Valid
<1>3. PageInv
  BY <1>1, <1>2, FormType, FormAssumption DEF PageInv, PageTypeOK, Requests
<1>4. ServiceType
  BY <1>1 DEF ServiceType, Service!Nothing
<1>5. ServiceInv
  BY <1>1 DEF ServiceInv, CallOf, Service!Nothing
<1>6. Flagged(rsvp)
  BY <1>1 DEF Flagged, defaultRsvp
<1>7. QED
  BY <1>1, <1>3, <1>4, <1>5, <1>6 DEF IInv, SentInv, ShownInv, DisplayInv

LEMMA Step ==
    ASSUME IInv, [Next]_vars
    PROVE  IInv'
<1>1. CASE Guest
  BY <1>1, GuestStep
<1>2. ASSUME NEW i \in Request, Arrives(i)
      PROVE  IInv'
  BY <1>2, ArrivalStep
<1>3. ASSUME UNCHANGED page, ServiceType' /\ ServiceInv' /\ Final
      PROVE  IInv'
  BY <1>3, ServiceKeepsPage DEF IInv
<1>4. ASSUME NEW i \in Request, Serve(i)
      PROVE  IInv'
  <2>1. UNCHANGED page /\ Sent(i)
    BY <1>4 DEF Serve
  <2>2. CASE Service!Create(i)
    BY <1>3, <2>1, <2>2, CreateStep DEF IInv
  <2>3. CASE ~Service!Create(i)
    BY <1>3, <1>4, <2>1, <2>3, SpreadEffect, SpreadStep DEF Serve, IInv
  <2>4. QED
    BY <2>2, <2>3
<1>5. CASE Disturb
  BY <1>3, <1>5, SpreadEffect, SpreadStep DEF Disturb, IInv
<1>6. CASE UNCHANGED vars
  BY <1>3, <1>6 DEF vars, service, IInv, ServiceType, ServiceInv, CallOf, Final, page, call, Sent
<1>7. QED
  BY <1>1, <1>2, <1>4, <1>5, <1>6 DEF Next

LEMMA Invariance ==
    Spec => []IInv
BY Initially, Step, PTL DEF Spec

-----------------------------------------------------------------------------
(* The theorems *)

(* Page and service keep their types, and a row is of a request that this  *)
(* page has sent: the model type of main.elm and the rsvps table.          *)
THEOREM TypeCorrect ==
    Spec => []TypeOK
<1>1. IInv => TypeOK
  BY DEF IInv, PageInv, ServiceType, TypeOK, Rows, Sent
<1>2. QED
  BY <1>1, Invariance, PTL

(* The confirmation page tells the truth, whatever is typed, sent, lost or *)
(* killed meanwhile: update's RsvpCreation branch, rsvpInfoDecoder and     *)
(* viewConfirm.                                                            *)
THEOREM ConfirmationHolds ==
    Spec => []ConfirmationIsTrue
<1>1. ASSUME IInv, rsvpResponse.kind = "Success"
      PROVE  \E i \in DOMAIN requests : \E row \in outcome[i].row :
               /\ rsvpResponse.info = {rsvpInfoDecoder(row.params)}
               /\ viewConfirm.agenda = requests[i].form.presence
               /\ row.params = rsvpCreationRequestEncoder(requests[i].form)
  <2>1. rsvpResponse # NotAsked
    BY <1>1 DEF NotAsked, Answer
  <2>2. PICK i \in DOMAIN requests : rsvpResponse = requests[i].answer
    BY <1>1, <2>1 DEF IInv, ShownInv
  <2>3. i \in Request /\ requests[i].form \in Form
    BY <1>1, SentRange DEF IInv, PageInv, PageTypeOK
  <2>4. rsvpResponse \in Response(i)
    BY <1>1, <2>1, <2>2 DEF IInv, SentInv, Pending
  <2>5. /\ reply[i].kind = "created"
        /\ rsvpResponse = Answer("Success", Valid,
                                 {rsvpInfoDecoder(row.params) : row \in reply[i].row})
    BY <1>1, <2>4 DEF Response, Answer
  <2>6. CallOf(i)
    BY <1>1, <2>3 DEF IInv, ServiceInv
  <2>7. reply[i] = outcome[i] /\ outcome[i].kind = "created"
    BY <2>5, <2>6 DEF CallOf
  <2>8. PICK row \in Rows : outcome[i].row = {row} /\ row.params = call[i].params
    BY <2>6, <2>7 DEF CallOf
  <2>9. /\ row.params = rsvpCreationRequestEncoder(requests[i].form)
        /\ row.params \in Params
        /\ row.params.presence = requests[i].form.presence
    BY <1>1, <2>2, <2>3, <2>8, CallType, EncoderType DEF IInv, Sent
  <2>10. rsvpResponse.info = {rsvpInfoDecoder(row.params)}
    BY <2>5, <2>7, <2>8 DEF Answer
  <2>11. viewConfirm.agenda = requests[i].form.presence
    <3>1. rsvpInfoDecoder(row.params).presence = requests[i].form.presence
      BY <2>9, DecoderType
    <3>2. requests[i].form.presence \in BOOLEAN
      BY <2>3 DEF Form
    <3>3. viewConfirm.agenda = \E info \in {rsvpInfoDecoder(row.params)} : info.presence
      BY <2>10 DEF viewConfirm
    <3>4. QED
      BY <3>1, <3>2, <3>3
  <2>12. QED
    BY <2>8, <2>9, <2>10, <2>11
<1>2. IInv => ConfirmationIsTrue
  BY <1>1 DEF ConfirmationIsTrue
<1>3. QED
  BY <1>2, Invariance, PTL

(* What the page knows of a request that was refused for a field.          *)
LEMMA RefusedRequest ==
    ASSUME IInv, NEW i \in DOMAIN requests, NEW answer \in Response(i), answer.field # Valid
    PROVE  /\ answer.kind = "BadStatus"
           /\ answer.field = Validate(rsvpCreationRequestEncoder(requests[i].form))
           /\ outcome[i].kind = "declined"
<1>1. i \in Request /\ Sent(i)
  BY SentRange DEF IInv, Sent
<1>2. reply[i].kind = "declined" /\ answer.kind = "BadStatus"
      /\ answer.field = Validate(call[i].params)
  BY DEF Response, Answer
<1>3. outcome[i].kind = "declined"
  BY <1>1, <1>2 DEF IInv, ServiceInv, CallOf
<1>4. QED
  BY <1>1, <1>2, <1>3, CallType DEF IInv

(* A name the form takes is refused only as too long, and what is refused  *)
(* is not recorded: Validate behind rsvpValidator.                         *)
THEOREM NeverTooShort ==
    Spec => []NeverRefusedAsTooShort
<1>1. ASSUME IInv, NEW i \in DOMAIN requests
      PROVE  /\ requests[i].answer.field = "Names" => requests[i].form.names.bytes > 255
             /\ requests[i].answer.field # Valid => outcome[i].kind = "declined"
  <2>1. CASE Pending(i)
    BY <2>1 DEF Pending, NotAsked, Answer, Valid
  <2>2. CASE ~Pending(i)
    <3>1. requests[i].answer \in Response(i) /\ requests[i].form \in Form
          /\ rsvpValidator(requests[i].form) = {}
      BY <1>1, <2>2 DEF IInv, SentInv, PageInv, PageTypeOK
    <3>2. requests[i].answer.field = "Names" => requests[i].answer.field # Valid
      BY DEF Valid
    <3>3. QED
      BY <1>1, <3>1, <3>2, RefusedRequest, RefusedField
  <2>3. QED
    BY <2>1, <2>2
<1>2. IInv => NeverRefusedAsTooShort
  BY <1>1 DEF NeverRefusedAsTooShort
<1>3. QED
  BY <1>2, Invariance, PTL

(* The guest sees why a request was refused: errorServerToErrors and the   *)
(* flags of the inputs.                                                    *)
THEOREM RefusalsAreFlagged ==
    Spec => RefusalIsFlagged
<1>1. ASSUME IInv, Next, NEW i \in DOMAIN requests,
             Pending(i), ~Pending(i)', requests'[i].answer.field # Valid
      PROVE  requests'[i].answer.field \in errors' \cap display'
  <2>1. ~(UNCHANGED requests \/ Appended)
    BY <1>1 DEF Pending, Appended
  <2>2. PICK j \in Request : Arrives(j)
    <3>1. ~UNCHANGED page
      BY <2>1 DEF page
    <3>2. ~Guest
      <4>1. PageInv
        BY <1>1 DEF IInv
      <4>2. QED
        BY <2>1, <4>1, GuestEffect DEF Guest
    <3>3. QED
      BY <1>1, <3>1, <3>2 DEF Next, Disturb, Serve
  <2>3. PICK answer \in Response(j) : RsvpCreation(j, answer)
    BY <2>2 DEF Arrives
  <2>4. j \in DOMAIN requests /\ answer \in Answers
    BY <1>1, <2>2, <2>3, ResponseType DEF Arrives, Sent, IInv, ServiceInv
  <2>5. Answered(j, answer)
    BY <1>1, <2>3, <2>4, ArrivalEffect DEF IInv
  <2>6. i = j /\ requests'[i].answer = answer
    BY <1>1, <2>5 DEF Answered, Pending
  <2>7. /\ answer.kind = "BadStatus"
        /\ answer.field = Validate(rsvpCreationRequestEncoder(requests[j].form))
    BY <1>1, <2>3, <2>4, <2>6, RefusedRequest
  <2>8. requests[j].form \in Form /\ rsvpValidator(requests[j].form) = {} /\ Flagged(requests[j].form)
    BY <1>1, <2>4 DEF IInv, SentInv, PageInv, PageTypeOK, DisplayInv
  <2>9. answer.field \in display
    BY <1>1, <2>6, <2>7, <2>8, RefusedField
  <2>10. answer.field \in FieldNames
    BY <1>1, <2>6, <2>7, FieldType
  <2>11. display' = display /\ errors' = {f \in FieldNames : f = answer.field}
    BY <2>3, <2>7 DEF RsvpCreation, errorServerToErrors
  <2>12. QED
    BY <2>6, <2>9, <2>10, <2>11
<1>2. ASSUME IInv, [Next]_vars, NEW i \in DOMAIN requests,
             Pending(i), ~Pending(i)', requests'[i].answer.field # Valid
      PROVE  requests'[i].answer.field \in errors' \cap display'
  <2>1. ~UNCHANGED vars
    BY <1>2 DEF vars, page, Pending
  <2>2. QED
    BY <1>1, <1>2, <2>1
<1> DEFINE Told ==
             \A i \in DOMAIN requests :
                /\ Pending(i) /\ ~Pending(i)'
                /\ requests'[i].answer.field # Valid
                => requests'[i].answer.field \in errors' \cap display'
<1>3. IInv /\ [Next]_vars => Told
  BY <1>2
<1> HIDE DEF Told
<1>4. IInv /\ [Next]_vars => [Told]_vars
  BY <1>3
<1>5. Spec => [][Told]_vars
  BY <1>4, Invariance, PTL DEF Spec
<1>6. QED
  BY <1>5 DEF RefusalIsFlagged, Told
=============================================================================

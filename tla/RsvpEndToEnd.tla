---------------------------- MODULE RsvpEndToEnd ----------------------------
(***************************************************************************)
(* The form and the service behind it: RsvpForm composed with RsvpService, *)
(* the specification that WwwServer is proved to implement, through the    *)
(* REST gateway, which converts in both directions.                        *)
(*                                                                         *)
(* The gateway marshals with OrigName, so a row comes back with the field  *)
(* names of www.proto, and the generated Elm decoder, which looks for the  *)
(* camel-case names, takes a field it does not find for its default.       *)
(***************************************************************************)
EXTENDS RsvpForm

VARIABLES rows, outcome, reply      \* of RsvpService

service == <<rows, outcome, reply>>
vars == <<page, service>>

Request == 1 .. MaxRequests

(* The request the encoder writes, as the service reads it: a field that   *)
(* has its default is left out, and decoded as the same default.           *)
rsvpCreationRequestEncoder(form) == [form EXCEPT !.names = @.bytes, !.email = @.server]

Calls == [params: {rsvpCreationRequestEncoder(form) : form \in Form}]

(* What is asked of the service: fixed once the request is sent.           *)
call == [i \in Request |->
           [params |-> rsvpCreationRequestEncoder(
                          IF i \in DOMAIN requests THEN requests[i].form ELSE defaultRsvp)]]

Service == INSTANCE RsvpService WITH UUID <- Request, Permitted <- Calls

TypeOK ==
    /\ PageTypeOK
    /\ \A row \in rows : row.uuid \in Request /\ row.by \in DOMAIN requests /\ row.params \in Params
    /\ \A i \in Request : /\ outcome[i].kind \in {"open", "created", "declined"}
                          /\ reply[i].kind \in {"waiting", "created", "declined", "unknown"}

Init == PageInit /\ Service!Init

-----------------------------------------------------------------------------
(* The gateway *)

(* OrigName: the JSON name of a field is its name in www.proto.            *)
OrigName(field) == IF field = "childrenNameAge" THEN "children_name_age" ELSE field

(* The zero value of the only field that is renamed.                       *)
DefaultText == 0

(* Mutant of rsvpInfoDecoder: the answers are not found either.            *)
rsvpInfoDecoderOfTexts(params) ==
    [params EXCEPT !.childrenNameAge = DefaultText, !.presence = FALSE]

(* required: the value under the name the page looks for, or the default.  *)
rsvpInfoDecoder(params) ==
    [field \in DOMAIN params |->
        IF OrigName(field) = field THEN params[field] ELSE DefaultText]

(* What the page's task ends with.  A caller that was declined gets the    *)
(* status of the gRPC code, with the message in the body.  One that knows  *)
(* nothing has a broken connection, the gateway's own error for a call it  *)
(* lost (503, 504), or the page of a proxy.                                *)
Response(i) ==
    LET field == Validate(call[i].params) IN
    CASE reply[i].kind = "created" ->
            {Answer("Success", Valid, {rsvpInfoDecoder(row.params) : row \in reply[i].row})}
      [] reply[i].kind = "declined" -> {Answer("BadStatus", f, {}) : f \in {field, Valid}}
      [] reply[i].kind = "unknown" ->
            {Answer(k, Valid, {}) : k \in {"NetworkError", "BadStatus", "BadPayload"}}
      [] OTHER -> {}

-----------------------------------------------------------------------------
Sent(i) == i \in DOMAIN requests

Guest == GuestNext /\ UNCHANGED service

Arrives(i) ==
    /\ Sent(i)
    /\ \E answer \in Response(i) : RsvpCreation(i, answer)
    /\ UNCHANGED service

(* The steps of the service on a request that was sent.                    *)
Serve(i) ==
    /\ Sent(i)
    /\ UNCHANGED page
    /\ Service!Create(i) \/ Service!Decline(i) \/ Service!Answer(i) \/ Service!Lose(i)

(* The process is killed, or an operator flushes the table.                *)
Disturb ==
    /\ UNCHANGED page
    /\ Service!Kill \/ Service!Erase
    /\ \A i \in Request \ DOMAIN requests : outcome'[i] = outcome[i] /\ reply'[i] = reply[i]

Next == Guest \/ Disturb \/ \E i \in Request : Arrives(i) \/ Serve(i)

Spec == Init /\ [][Next]_vars

-----------------------------------------------------------------------------
(* Properties *)

(* The confirmation page speaks of a row that the service recorded, of one *)
(* of this page's requests, as the guest typed it when it was sent, and    *)
(* says what that row says of the guest's presence, although the form may  *)
(* have been changed, other requests sent, and a field lost in the JSON    *)
(* since.  update's RsvpCreation branch, rsvpInfoDecoder and viewConfirm.  *)
ConfirmationIsTrue ==
    rsvpResponse.kind = "Success" =>
        \E i \in DOMAIN requests : \E row \in outcome[i].row :
            /\ rsvpResponse.info = {rsvpInfoDecoder(row.params)}
            /\ viewConfirm.agenda = requests[i].form.presence
            /\ row.params = rsvpCreationRequestEncoder(requests[i].form)

(* A field the service refuses gets an error, and its flag lets the view   *)
(* show it: the patterns of errorServerToErrors follow the field names of  *)
(* Validate, and no text that can be refused is sent unless it was edited. *)
RefusalIsFlagged ==
    [][ \A i \in DOMAIN requests :
            /\ Pending(i) /\ ~Pending(i)'
            /\ requests'[i].answer.field # Valid
            => requests'[i].answer.field \in errors' \cap display' ]_vars

(* The form counts characters and the service bytes, yet a name that       *)
(* passes the form is never refused as too short, only as too long; and    *)
(* what is refused for a field has recorded no row and never will.         *)
NeverRefusedAsTooShort ==
    \A i \in DOMAIN requests :
        LET field == requests[i].answer.field IN
        /\ field = "Names" => requests[i].form.names.bytes > 255
        /\ field # Valid => outcome[i].kind = "declined"

(* What "Options.onClick Submit |> when (not isLoading)" is there for: the *)
(* guest does not send a second request while one is on its way.           *)
OneRequestAtATime ==
    \A i, j \in DOMAIN requests : Pending(i) /\ Pending(j) => i = j
=============================================================================

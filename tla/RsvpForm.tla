------------------------------ MODULE RsvpForm ------------------------------
(***************************************************************************)
(* The single-page form (ui/elm): its model, the messages of its update    *)
(* function, what its view lets the guest do, and the requests it has sent.*)
(*                                                                         *)
(* Elm runs update once per message.  What interleaves is what the guest   *)
(* does and the answers to the requests, each a task of its own.  Who      *)
(* answers is left open here: RsvpEndToEnd puts the service behind it.     *)
(*                                                                         *)
(* Elm's String.length counts UTF-16 units where Go's len counts bytes, so *)
(* a text is [blank, chars, bytes]; an email is what each of the two       *)
(* regular expressions says of it.                                         *)
(***************************************************************************)
EXTENDS RsvpParams, Sequences

CONSTANTS NamesTexts,    \* what the guest may type as names
          EmailTexts,    \* ... as email
          OtherTexts,    \* ... as children or music: lengths in bytes
          MaxRequests,   \* bound: requests the page sends
          MaxEdits       \* bound: messages of the inputs

Text == {t \in [blank: BOOLEAN, chars: Nat, bytes: Nat] : t.chars <= t.bytes}
Address == [blank: BOOLEAN, client: BOOLEAN, server: BOOLEAN]
Form == [names: NamesTexts, email: EmailTexts, presence: BOOLEAN,
         childrenNameAge: OtherTexts, housing: BOOLEAN, music: OtherTexts,
         brunch: BOOLEAN]

Empty == [blank |-> TRUE, chars |-> 0, bytes |-> 0]
NoAddress == [blank |-> TRUE, client |-> FALSE, server |-> FALSE]

ASSUME FormAssumption ==
    /\ \A t \in NamesTexts : t \in Text
    /\ Empty \in NamesTexts
    /\ EmailTexts \subseteq Address
    /\ NoAddress \in EmailTexts
    /\ OtherTexts \subseteq Nat
    /\ 0 \in OtherTexts
    /\ MaxRequests \in Nat
    /\ MaxEdits \in Nat

VARIABLES rsvp,         \* model.rsvp
          rsvpResponse, \* model.rsvpResponse
          errors,       \* model.errors: the fields that have one
          display,      \* the four displayXxxError flags that are True
          requests,     \* the requests sent, in order: [form, answer]
          edits         \* bound: edits so far

page == <<rsvp, rsvpResponse, errors, display, requests, edits>>

Fields == FieldNames \cup {"GlobalError"}
Tooglers == {"presence", "housing", "brunch"}

(* What a task ends with: the info of a row, or an Http.Error, BadStatus   *)
(* with the field its body names.                                          *)
Answers == [kind: {"NotAsked", "Success", "BadStatus", "NetworkError", "BadPayload"},
            field: FieldNames \cup {Valid}, info: SUBSET Params]
Answer(kind, field, info) == [kind |-> kind, field |-> field, info |-> info]
NotAsked == Answer("NotAsked", Valid, {})

(* A request whose task has not ended.                                     *)
Pending(i) == requests[i].answer = NotAsked

PageTypeOK ==
    /\ rsvp \in Form
    /\ rsvpResponse \in Answers
    /\ errors \subseteq Fields
    /\ display \subseteq FieldNames
    /\ Len(requests) <= MaxRequests
    /\ \A i \in DOMAIN requests :
         requests[i].form \in Form /\ requests[i].answer \in Answers
    /\ edits \in 0 .. MaxEdits

defaultRsvp == [names |-> Empty, email |-> NoAddress, presence |-> TRUE,
                childrenNameAge |-> 0, housing |-> TRUE, music |-> 0, brunch |-> TRUE]

PageInit ==
    /\ rsvp = defaultRsvp
    /\ rsvpResponse = NotAsked
    /\ errors = {}
    /\ display = {}
    /\ requests = <<>>
    /\ edits = 0

-----------------------------------------------------------------------------
(* Mutant of rsvpValidator: two characters will do.                        *)
rsvpValidatorShort(form) ==
    {f \in {"Names", "Email"} :
        \/ f = "Names" /\ (form.names.blank \/ ~(1 < form.names.chars))
        \/ f = "Email" /\ (form.email.blank \/ ~form.email.client)}

(* The form's own checks *)
rsvpValidator(form) ==
    {f \in {"Names", "Email"} :
        \/ f = "Names" /\ (form.names.blank \/ ~(2 < form.names.chars))
        \/ f = "Email" /\ (form.email.blank \/ ~form.email.client)}

(* view: the confirmation replaces the form, and viewGlobalError replaces  *)
(* the button; isLoading is never true, since nothing sets Loading.        *)
FormShown == rsvpResponse.kind # "Success"
ButtonShown == FormShown /\ "GlobalError" \notin errors

(* A text input: the field, every error anew, its flag.                    *)
Edit(form, flag) ==
    /\ FormShown
    /\ edits < MaxEdits
    /\ edits' = edits + 1
    /\ rsvp' = form
    /\ errors' = rsvpValidator(form)
    /\ display' = display \cup {flag}
    /\ UNCHANGED <<rsvpResponse, requests>>

NamesChange == \E t \in NamesTexts : Edit([rsvp EXCEPT !.names = t], "Names")
EmailChange == \E t \in EmailTexts : Edit([rsvp EXCEPT !.email = t], "Email")

(* Shown to guests who come: viewHere.                                     *)
ChildrenNameAgeChange ==
    /\ rsvp.presence
    /\ \E t \in OtherTexts : Edit([rsvp EXCEPT !.childrenNameAge = t], "ChildrenNameAge")
MusicChange ==
    /\ rsvp.presence
    /\ \E t \in OtherTexts : Edit([rsvp EXCEPT !.music = t], "Music")

(* A switch leaves the errors as they are.                                 *)
Toogle ==
    /\ FormShown
    /\ edits < MaxEdits
    /\ edits' = edits + 1
    /\ \E t \in Tooglers :
         /\ t \in {"housing", "brunch"} => rsvp.presence
         /\ rsvp' = [rsvp EXCEPT ![t] = ~@]
    /\ UNCHANGED <<rsvpResponse, errors, display, requests>>

(* A click on the button: a request with a copy of the form, while others  *)
(* may be on their way, or the errors the form finds itself.               *)
Submit ==
    /\ ButtonShown
    /\ IF rsvpValidator(rsvp) = {}
         THEN /\ Len(requests) < MaxRequests
              /\ requests' = Append(requests, [form |-> rsvp, answer |-> NotAsked])
              /\ UNCHANGED <<errors, display>>
         ELSE /\ errors' = rsvpValidator(rsvp)
              /\ display' = display \cup {"Names", "Email"}
              /\ UNCHANGED requests
    /\ UNCHANGED <<rsvp, rsvpResponse, edits>>

-----------------------------------------------------------------------------
(* Mutants of errorServerToErrors: two of the four patterns are missing;   *)
errorServerToErrorsOfTwo(answer) ==
    IF answer.kind = "BadStatus" THEN {"Names", "Email"} \cap {answer.field}
    ELSE {"GlobalError"}

(* the field is taken from the body without a match.                       *)
errorServerToErrorsUnmatched(answer) ==
    IF answer.kind = "BadStatus" THEN {answer.field} ELSE {"GlobalError"}

(* The fields a BadStatus body is found to name: one regular expression    *)
(* per field, and no error at all for a body that names none.              *)
errorServerToErrors(answer) ==
    IF answer.kind = "BadStatus"
      THEN {f \in FieldNames : f = answer.field}
      ELSE {"GlobalError"}

(* The task of request i ends: its answer replaces the last one.           *)
RsvpCreation(i, answer) ==
    /\ Pending(i)
    /\ requests' = [requests EXCEPT ![i].answer = answer]
    /\ rsvpResponse' = answer
    /\ errors' = IF answer.kind = "Success" THEN {} ELSE errorServerToErrors(answer)
    /\ UNCHANGED <<rsvp, display, edits>>

(* Mutant of viewConfirm: the switch of the form is looked at.             *)
viewConfirmOfForm == [agenda |-> rsvp.presence]

(* What the confirmation page says: the agenda, or the regrets.            *)
viewConfirm == [agenda |-> \E info \in rsvpResponse.info : info.presence]

(* What the guest does.                                                    *)
GuestNext ==
    \/ NamesChange \/ EmailChange \/ ChildrenNameAgeChange \/ MusicChange
    \/ Toogle \/ Submit
=============================================================================

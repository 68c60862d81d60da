----------------------------- MODULE RsvpParams -----------------------------
(***************************************************************************)
(* The parameters of an RSVP and the checks made on them.                  *)
(*                                                                         *)
(* A text is represented by its length in bytes, which is all that Go's    *)
(* len() sees of it; an email by whether the generated regular expression  *)
(* matches it.  The three answers are kept as they are, so that a swap of  *)
(* two of the seven positional parameters of CreateRsvp is visible.        *)
(*                                                                         *)
(* Two functions check the same lengths: the generated Validate (written   *)
(* as "> 2" and "< 256") and castRsvpParams of the models package (written *)
(* as "< 3" and "> 255"); only the first one looks at the email.           *)
(***************************************************************************)
EXTENDS Naturals

(* The fields of RsvpCreationRequest: www.proto, and the Rsvp struct.      *)
Params == [names: Nat, email: BOOLEAN, presence: BOOLEAN,
           childrenNameAge: Nat, housing: BOOLEAN, music: Nat,
           brunch: BOOLEAN]

(* What a check answers: the field its error names, or Valid.              *)
Valid == "none"
FieldNames == {"Names", "Email", "ChildrenNameAge", "Music"}

(* Mutant of Validate: an error that names no field of the message.        *)
ValidateMisnames(p) == IF p.names > 2 THEN Valid ELSE "Name"

(* RsvpCreationRequest.Validate, called by the validator interceptor and   *)
(* again by the handler: the first field that fails, in this order.        *)
Validate(p) ==
    IF ~(p.names > 2) \/ ~(p.names < 256) THEN "Names"
    ELSE IF ~p.email THEN "Email"
    ELSE IF ~(p.childrenNameAge < 256) THEN "ChildrenNameAge"
    ELSE IF ~(p.music < 256) THEN "Music"
    ELSE Valid

(* Mutant of castRsvpParams: "> 254".                                      *)
castRsvpParamsShort(p) == IF p.childrenNameAge > 254 THEN "ChildrenNameAge" ELSE Valid

(* castRsvpParams, called by CreateRsvp and by UpdateRsvp.                 *)
castRsvpParams(p) ==
    IF p.names < 3 \/ p.names > 255 THEN "Names"
    ELSE IF p.childrenNameAge > 255 THEN "ChildrenNameAge"
    ELSE IF p.music > 255 THEN "Music"
    ELSE Valid
=============================================================================

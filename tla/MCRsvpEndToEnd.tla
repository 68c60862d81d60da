--------------------------- MODULE MCRsvpEndToEnd ---------------------------
(* RsvpEndToEnd with texts on both sides of every check.                   *)
EXTENDS RsvpEndToEnd

T(chars, bytes) == [blank |-> FALSE, chars |-> chars, bytes |-> bytes]

(* Nothing, two letters, two accented ones (long enough in bytes only),    *)
(* three letters, and 128 accented letters (too long in bytes only).       *)
MCNames == {Empty, T(2, 2), T(2, 4), T(3, 3), T(128, 256)}

(* An address both expressions take, and one that only the form takes.     *)
MCEmails == {NoAddress, [blank |-> FALSE, client |-> TRUE, server |-> TRUE],
             [blank |-> FALSE, client |-> TRUE, server |-> FALSE]}

MCOthers == {0, 256}
=============================================================================

---------------------------- MODULE MCWwwServer -----------------------------
(* WwwServer on small instances: calls that cover every branch of the      *)
(* interceptors and of the handler, lengths at their bounds.               *)
EXTENDS WwwServer, TLC

P(names, email, music, presence) ==
    [names |-> names, email |-> email, presence |-> presence,
     childrenNameAge |-> 255, housing |-> ~presence, music |-> music,
     brunch |-> presence]

Creation(token, params) ==
    [method |-> "RsvpCreation", token |-> token, params |-> params]
Read(m, token) == [method |-> m, token |-> token, params |-> P(0, FALSE, 0, FALSE)]

(* Calls of a server that checks tokens.                                   *)
MCCalls ==
    {Creation("verified", P(3, TRUE, 255, TRUE)),
     Creation("verified", P(255, TRUE, 0, FALSE)),
     Creation("verified", P(2, TRUE, 0, TRUE)),
     Creation("verified", P(3, FALSE, 0, TRUE)),
     Creation("rejected", P(3, TRUE, 255, TRUE)),
     Creation("absent", P(3, TRUE, 255, TRUE)),
     Read("Version", "absent")}

(* Calls that reach the database, for runs with more of them at once.      *)
MCWriters == {Creation("absent", P(3, TRUE, 255, TRUE)),
              Creation("absent", P(255, TRUE, 0, FALSE))}

Symmetry == Permutations(Request) \cup Permutations(UUID) \cup Permutations(Handle)
=============================================================================

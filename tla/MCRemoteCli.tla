---------------------------- MODULE MCRemoteCli -----------------------------
(* RemoteCli with lines for every branch of Eval.  A second is 5 and a     *)
(* duration has 6 bits, so that 7 seconds are already too long.            *)
EXTENDS RemoteCli

P(names, presence) ==
    [names |-> names, email |-> TRUE, presence |-> presence, childrenNameAge |-> 0,
     housing |-> TRUE, music |-> 0, brunch |-> FALSE]

L(cmd, args, t, seconds, names) ==
    [cmd |-> cmd, args |-> args, token |-> t, seconds |-> seconds, params |-> P(names, TRUE)]

MCLines ==
    {L("rsvp_creation", "value", "absent", 0, 3), L("rsvp_creation", "value", "absent", 0, 2),
     L("rsvp_creation", "bad", "absent", 0, 3),
     L("version", "none", "absent", 0, 3), L("services_status", "none", "absent", 0, 3),
     L("jwt", "none", "absent", 0, 3), L("jwt", "empty", "absent", 0, 3),
     L("jwt", "value", "verified", 0, 3), L("jwt", "value", "rejected", 0, 3),
     L("default_timeout", "none", "absent", 0, 3), L("default_timeout", "empty", "absent", 0, 3),
     L("default_timeout", "bad", "absent", 0, 3), L("default_timeout", "value", "absent", 0, 3),
     L("default_timeout", "value", "absent", 2, 3), L("default_timeout", "value", "absent", 7, 3),
     L("print", "none", "absent", 0, 3), L("unknown", "none", "absent", 0, 3)}

MCCalls == {line \in MCLines : line.cmd \in {"version", "services_status", "rsvp_creation"}}

MCFlags ==
    {f \in [mode: {"cli", "console"}, tls: BOOLEAN, timeout: {0, 5}, token: {"absent", "verified"}] :
        f.tls => f.token = "verified" /\ f.timeout = 5}
=============================================================================

----------------------------- MODULE RemoteCli ------------------------------
(***************************************************************************)
(* The gRPC command line: the commands cli and console, the remoteCli they *)
(* share, and the calls it makes.                                          *)
(*                                                                         *)
(* cli evaluates one line and exits; console asks for the remote version,  *)
(* then reads lines until it is left.  A line is a setting (jwt,           *)
(* default_timeout), a call, or something that only prints.  The names of  *)
(* the commands are such that none is a prefix of another, so Eval, which  *)
(* ranges over a Go map in random order, has at most one match.            *)
(*                                                                         *)
(* A call that was sent lives on in the service when the client has given  *)
(* it up; the service is external and does what RsvpService allows, or     *)
(* never answers.                                                          *)
(***************************************************************************)
EXTENDS RsvpParams, Integers, Sequences, FiniteSetsExt

CONSTANTS StartFlags,  \* command lines: members of Flags
          Lines,       \* what may be typed: members of Line
          jwtEnabled,  \* does the service check tokens?
          Second,      \* time.Second, 10^9 in Go
          Width,       \* the width of a time.Duration, 64 in Go
          MaxLines     \* bound: lines that are evaluated

Tokens == {"absent", "rejected", "verified"}
Flags == [mode: {"cli", "console"}, tls: BOOLEAN, timeout: Int, token: Tokens]

(* A parsed line.  args: too few of them, an empty one (""), one that does *)
(* not parse, or a value: token, seconds or params, whichever it takes.    *)
Commands == {"rsvp_creation", "version", "services_status", "jwt",
             "default_timeout", "print", "unknown"}
Line == [cmd: Commands, args: {"none", "empty", "bad", "value"},
         token: Tokens, seconds: Int, params: Params]

ASSUME RemoteCliAssumption ==
    /\ StartFlags \subseteq Flags
    /\ \A line \in Lines : line \in Line
    /\ jwtEnabled \in BOOLEAN
    /\ Second \in Nat \ {0}
    /\ Width \in Nat \ {0}
    /\ 2^Width \in Nat \ {0}  \* so it is; the provers know no powers
    /\ MaxLines \in Nat

VARIABLES flags,
          pc,             \* where the command is
          cc,             \* the *grpc.ClientConn
          token,          \* the authorization metadata of c.ctx
          defaultTimeout, \* c.defaultTimeout, in seconds
          log,            \* the lines so far and what became of them
          code,           \* how the process ended
          service,        \* the calls, by line, that the service may still handle
          rows            \* the rows it has recorded

vars == <<flags, pc, cc, token, defaultTimeout, log, code, service, rows>>

-----------------------------------------------------------------------------
(* time.Duration(t) * time.Second, in Width bits.                          *)
Wrap(n) ==
    LET m == n % 2^Width IN IF m < 2^(Width - 1) THEN m ELSE m - 2^Width

NoDeadline == [limited |-> FALSE, duration |-> 0]

(* Mutant of GetTimeoutContext: the condition is the wrong way round.      *)
GetTimeoutContextNever(t) ==
    IF t > 0 THEN NoDeadline ELSE [limited |-> TRUE, duration |-> Wrap(t * Second)]

GetTimeoutContext(t) ==
    IF t > 0 THEN [limited |-> TRUE, duration |-> Wrap(t * Second)] ELSE NoDeadline

Entry == [line: Line, req: Params, sent: BOOLEAN, token: Tokens,
          deadline: [limited: BOOLEAN, duration: Int],
          result: {"running", "ok", "local", "failed", "panic"}]

TypeOK ==
    /\ flags \in StartFlags
    /\ pc \in {"start", "dial", "greet", "readline", "prompt", "calling", "exited"}
    /\ cc \in {"none", "open", "nil", "closed"}
    /\ token \in Tokens
    /\ defaultTimeout \in Int
    /\ Len(log) <= MaxLines /\ \A i \in DOMAIN log : log[i] \in Entry
    /\ code \in {"running", "success", "failure", "panic"}
    /\ service \subseteq DOMAIN log
    /\ \A row \in rows : row.line \in DOMAIN log /\ row.params \in Params

Init ==
    /\ flags \in StartFlags
    /\ pc = "start"
    /\ cc = "none"
    /\ token = flags.token
    /\ defaultTimeout = flags.timeout
    /\ log = <<>>
    /\ code = "running"
    /\ service = {}
    /\ rows = {}

-----------------------------------------------------------------------------
(* Start and end *)

(* log.Fatal, the end of main, a panic: the connection goes with them.     *)
Exit(how) ==
    /\ pc' = "exited"
    /\ code' = how
    /\ cc' = IF cc = "open" THEN "closed" ELSE cc

(* cli wants at least one argument.                                        *)
Start ==
    /\ pc = "start"
    /\ \/ pc' = "dial" /\ UNCHANGED <<cc, code>>
       \/ flags.mode = "cli" /\ Exit("failure")
    /\ UNCHANGED <<flags, token, defaultTimeout, log, service, rows>>

(* Dial does not wait for the connection.  With TLS the files may not be   *)
(* readable, and an error of Dial goes into a variable err of the inner    *)
(* block: it is lost, and the client is made with a nil connection.        *)
NewGomeetClient ==
    /\ pc = "dial"
    /\ \/ \E c \in {"open"} \cup (IF flags.tls THEN {"nil"} ELSE {}) :
            /\ cc' = c
            /\ pc' = IF flags.mode = "console" THEN "greet" ELSE "prompt"
            /\ UNCHANGED code
       \/ Exit("failure")
    /\ UNCHANGED <<flags, token, defaultTimeout, log, service, rows>>

(* readline.NewEx may not get a terminal.                                  *)
NewReadline ==
    /\ pc = "readline"
    /\ \/ pc' = "prompt" /\ UNCHANGED <<cc, code>>
       \/ Exit("failure")
    /\ UNCHANGED <<flags, token, defaultTimeout, log, service, rows>>

(* exit, end of input, an interrupt of an empty line.                      *)
Leave ==
    /\ pc = "prompt"
    /\ flags.mode = "console"
    /\ Exit("success")
    /\ UNCHANGED <<flags, token, defaultTimeout, log, service, rows>>

-----------------------------------------------------------------------------
(* Mutant of Printed: cli only warns of an error.                          *)
PrintedAsWarning(result) ==
    IF flags.mode = "cli"
      THEN Exit("success")
      ELSE pc' = (IF Len(log') = 1 THEN "readline" ELSE "prompt") /\ UNCHANGED <<cc, code>>

(* The result of a line is printed: cli exits with it, console goes on;    *)
(* the first entry of a console is its question for the remote version.    *)
Printed(result) ==
    IF flags.mode = "cli"
      THEN Exit(IF result = "ok" THEN "success" ELSE "failure")
      ELSE pc' = (IF Len(log') = 1 THEN "readline" ELSE "prompt") /\ UNCHANGED <<cc, code>>

NewEntry(line, sent, deadline, result) ==
    [line |-> line, req |-> line.params, sent |-> sent,
     token |-> token, deadline |-> deadline, result |-> result]

Reads == pc = "prompt" /\ Len(log) < MaxLines

(* A line that sends nothing.                                              *)
Done(line, result) ==
    /\ log' = Append(log, NewEntry(line, FALSE, NoDeadline, result))
    /\ Printed(result)
    /\ UNCHANGED <<flags, service, rows>>

(* A call with the token of the context; a deadline that has passed        *)
(* already ends it before it is sent.                                      *)
Call(entry) ==
    /\ IF cc = "nil"
         THEN /\ log' = Append(log, [entry EXCEPT !.sent = FALSE, !.result = "panic"])
              /\ Exit("panic")
              /\ UNCHANGED service
         ELSE IF entry.deadline.limited /\ entry.deadline.duration <= 0
         THEN /\ log' = Append(log, [entry EXCEPT !.sent = FALSE, !.result = "failed"])
              /\ Printed("failed")
              /\ UNCHANGED service
         ELSE /\ log' = Append(log, entry)
              /\ service' = service \cup {Len(log) + 1}
              /\ pc' = "calling"
              /\ UNCHANGED <<cc, code>>
    /\ UNCHANGED <<flags, token, defaultTimeout, rows>>

VersionLine ==
    [cmd |-> "version", args |-> "none", token |-> "absent", seconds |-> 0,
     params |-> [names |-> 0, email |-> FALSE, presence |-> FALSE, childrenNameAge |-> 0,
                 housing |-> FALSE, music |-> 0, brunch |-> FALSE]]

(* Mutant of RemoteVersion: the method was bound when the command started, *)
(* with a copy of the struct.                                              *)
RemoteVersionStale(line) ==
    Call([NewEntry(line, TRUE, NoDeadline, "running") EXCEPT !.token = flags.token])

(* RemoteVersion passes the context without a deadline.                    *)
RemoteVersion(line) == Call(NewEntry(line, TRUE, NoDeadline, "running"))

(* The console asks for the remote version before it shows its prompt.     *)
Greet ==
    /\ pc = "greet"
    /\ Len(log) < MaxLines
    /\ RemoteVersion(VersionLine)

cmdVersion(line) == Reads /\ line.cmd = "version" /\ RemoteVersion(line)

cmdServicesStatus(line) ==
    /\ Reads
    /\ line.cmd = "services_status"
    /\ Call(NewEntry(line, TRUE, GetTimeoutContext(defaultTimeout), "running"))

(* Mutant of cmdRsvpCreation: two arguments are taken for one another.     *)
cmdRsvpCreationSwapped(line) ==
    /\ Reads
    /\ line.cmd = "rsvp_creation"
    /\ line.args = "value"
    /\ Call([NewEntry(line, TRUE, GetTimeoutContext(defaultTimeout), "running")
               EXCEPT !.req.housing = line.params.brunch, !.req.brunch = line.params.housing])

(* Seven arguments, three of them booleans.  Validate has a pointer        *)
(* receiver and is looked for on the value, so the message is not checked  *)
(* here.                                                                   *)
cmdRsvpCreation(line) ==
    /\ Reads
    /\ line.cmd = "rsvp_creation"
    /\ IF line.args = "value"
         THEN Call(NewEntry(line, TRUE, GetTimeoutContext(defaultTimeout), "running"))
         ELSE Done(line, "local") /\ UNCHANGED <<token, defaultTimeout>>

(* Mutant of cmdJWT: the empty argument is stored like any other.          *)
cmdJWTKeepsEmpty(line) ==
    /\ Reads
    /\ line.cmd = "jwt"
    /\ token' = CASE line.args = "none" -> token
                  [] line.args = "empty" -> "empty"
                  [] OTHER -> line.token
    /\ Done(line, "ok")
    /\ UNCHANGED defaultTimeout

(* jwt sets or unsets the context, each time from an empty one; without a  *)
(* token there is no metadata to print and the line ends in an error, also *)
(* when unsetting the token was what it was for.                           *)
cmdJWT(line) ==
    /\ Reads
    /\ line.cmd = "jwt"
    /\ token' = CASE line.args = "none" -> token
                  [] line.args = "empty" -> "absent"
                  [] OTHER -> line.token
    /\ Done(line, IF token' = "absent" THEN "local" ELSE "ok")
    /\ UNCHANGED defaultTimeout

cmdDefaultTimeout(line) ==
    /\ Reads
    /\ line.cmd = "default_timeout"
    /\ LET wrong == line.args = "bad" \/ (line.args = "value" /\ line.seconds <= 0)
       IN /\ defaultTimeout' = CASE line.args = "empty" -> 0
                                 [] line.args = "value" /\ ~wrong -> line.seconds
                                 [] OTHER -> defaultTimeout
          /\ Done(line, IF wrong THEN "local" ELSE "ok")
    /\ UNCHANGED token

(* console_version, service_address, tls_config, help; or no command.      *)
cmdPrint(line) ==
    /\ Reads
    /\ line.cmd \in {"print", "unknown"}
    /\ Done(line, IF line.cmd = "print" THEN "ok" ELSE "local")
    /\ UNCHANGED <<token, defaultTimeout>>

-----------------------------------------------------------------------------
(* Calls on their way *)

(* The client of call i, if it still waits, gets a result.                 *)
Result(i, result) ==
    IF log[i].result = "running"
      THEN /\ log' = [log EXCEPT ![i].result = result]
           /\ Printed(result)
      ELSE UNCHANGED <<log, pc, cc, code>>

(* The service handles a call, whether or not its client still waits: it   *)
(* answers or records, or it refuses or fails.                             *)
ServiceHandles(i) ==
    LET creation == log[i].line.cmd = "rsvp_creation" IN
    /\ service' = service \ {i}
    /\ \/ /\ creation => /\ jwtEnabled => log[i].token = "verified"
                         /\ Validate(log[i].req) = Valid
          /\ rows' = rows \cup (IF creation THEN {[line |-> i, params |-> log[i].req]} ELSE {})
          /\ Result(i, "ok")
       \/ rows' = rows /\ Result(i, "failed")
    /\ UNCHANGED <<flags, token, defaultTimeout>>

(* No connection, or it breaks; the call may have reached the service.     *)
ConnectionFails(i) ==
    /\ log[i].result = "running"
    /\ Result(i, "failed")
    /\ service' \in {service, service \ {i}}
    /\ UNCHANGED <<flags, token, defaultTimeout, rows>>

DeadlinePasses(i) ==
    /\ log[i].result = "running"
    /\ log[i].deadline.limited
    /\ Result(i, "failed")
    /\ UNCHANGED <<flags, token, defaultTimeout, service, rows>>

-----------------------------------------------------------------------------
Eval(line) ==
    \/ cmdVersion(line) \/ cmdServicesStatus(line) \/ cmdRsvpCreation(line)
    \/ cmdJWT(line) \/ cmdDefaultTimeout(line) \/ cmdPrint(line)

Own == Start \/ NewGomeetClient \/ Greet \/ NewReadline

Next ==
    \/ Own
    \/ Leave
    \/ \E line \in Lines : Eval(line)
    \/ \E i \in service : ServiceHandles(i)
    \/ \E i \in DOMAIN log : ConnectionFails(i) \/ DeadlinePasses(i)

Spec == Init /\ [][Next]_vars

(* The command runs and timers fire; nothing is assumed of the user, the   *)
(* network or the service.                                                 *)
Expires == \E i \in DOMAIN log : DeadlinePasses(i)
FairSpec == Spec /\ WF_vars(Own) /\ WF_vars(Expires)

-----------------------------------------------------------------------------
(* Properties *)

(* The setting lines in front of line i, as a user would look them up.     *)
TokenFor(i) ==
    LET set == {j \in 1 .. i - 1 : log[j].line.cmd = "jwt" /\ log[j].line.args # "none"}
    IN IF set = {} THEN flags.token
       ELSE IF log[Max(set)].line.args = "empty" THEN "absent"
       ELSE log[Max(set)].line.token

TimeoutFor(i) ==
    LET set == {j \in 1 .. i - 1 : /\ log[j].line.cmd = "default_timeout"
                                   /\ log[j].line.args # "none"
                                   /\ log[j].result = "ok"}
    IN IF set = {} THEN flags.timeout
       ELSE IF log[Max(set)].line.args = "empty" THEN 0
       ELSE log[Max(set)].line.seconds

(* Every call that is sent carries the token and the deadline of the last  *)
(* lines that set them, or of the flags, although the methods of the       *)
(* actions map are bound to copies of the struct: GetActionsMap is         *)
(* evaluated for each line.  version has no deadline.                      *)
SettingsGovernCalls ==
    \A i \in DOMAIN log : log[i].sent =>
        /\ log[i].token = TokenFor(i)
        /\ log[i].line.cmd # "version" =>
             log[i].deadline = GetTimeoutContext(TimeoutFor(i))

(* A creation that printed a response has one row, of what was typed; one  *)
(* that ended in an error of the command line itself has none and never    *)
(* will.  After a failed call both are possible: the user must not take    *)
(* "service call fail" for "not recorded".  cmdRsvpCreation.               *)
ResultTellsTruth ==
    \A i \in DOMAIN log : log[i].line.cmd = "rsvp_creation" =>
        /\ log[i].result = "ok" =>
             {row.params : row \in {r \in rows : r.line = i}} = {log[i].line.params}
        /\ log[i].result \in {"local", "panic"} =>
             i \notin service /\ \A row \in rows : row.line # i

(* The exit status of cli is success exactly when its line succeeded, so a *)
(* script may rely on it; console ends with success unless it never got to *)
(* its prompt or panicked.  cli and console.                               *)
ExitTellsTruth ==
    pc = "exited" =>
        IF flags.mode = "cli"
          THEN code = "success" <=> (Len(log) = 1 /\ log[1].result = "ok")
          ELSE code = "success" => \A i \in DOMAIN log : log[i].result \notin {"running", "panic"}

Waits(i) == i \in DOMAIN log /\ log[i].result = "running" /\ TimeoutFor(i) > 0

(* With a timeout set a call to rsvp_creation or services_status returns,  *)
(* whatever the service does.                                              *)
DeadlinesEndCalls ==
    \A i \in 1 .. MaxLines :
        (Waits(i) /\ log[i].line.cmd # "version") ~> ~Waits(i)

(* "gRPC timeout in seconds" (console.go line 47): with a timeout set      *)
(* every call returns.                                                     *)
TimeoutEndsCalls == \A i \in 1 .. MaxLines : Waits(i) ~> ~Waits(i)
=============================================================================

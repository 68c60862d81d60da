--------------------------- MODULE RemoteCliProofs --------------------------
(***************************************************************************)
(* What governs a call of the command line, what its result says of the    *)
(* service and what the exit status says of it, proved for any lines, any  *)
(* number of them and any width of a duration.                             *)
(***************************************************************************)
EXTENDS RemoteCli, SequenceTheorems, TLAPS

-----------------------------------------------------------------------------
(* The inductive invariant *)

Indices == 1 .. Len(log)

LogType ==
    /\ flags \in StartFlags
    /\ pc \in {"start", "dial", "greet", "readline", "prompt", "calling", "exited"}
    /\ cc \in {"none", "open", "nil", "closed"}
    /\ token \in Tokens
    /\ defaultTimeout \in Int
    /\ log \in Seq(Entry)
    /\ Len(log) <= MaxLines
    /\ code \in {"running", "success", "failure", "panic"}
    /\ service \subseteq Indices
    /\ rows \subseteq [line: Indices, params: Params]

(* One call at a time: the last line is the only one that may be waiting.  *)
Waiting ==
    /\ pc = "calling" => Len(log) >= 1
    /\ \A i \in Indices : log[i].result = "running" <=> pc = "calling" /\ i = Len(log)
    /\ pc # "exited" => \A i \in Indices : log[i].result # "panic"

(* cli evaluates one line.                                                 *)
OneLine ==
    flags.mode = "cli" =>
        /\ pc \notin {"greet", "readline"}
        /\ pc \in {"start", "dial", "prompt"} => Len(log) = 0
        /\ pc = "calling" => Len(log) = 1

(* The lines that have set the token, or the timeout, in front of line i,  *)
(* and what they set it to.                                                *)
SetsToken(e) == e.line.cmd = "jwt" /\ e.line.args # "none"
TokenOf(e) == IF e.line.args = "empty" THEN "absent" ELSE e.line.token
TokenLines(i) == {j \in 1 .. i - 1 : SetsToken(log[j])}

SetsTimeout(e) ==
    e.line.cmd = "default_timeout" /\ e.line.args # "none" /\ e.result = "ok"
TimeoutOf(e) == IF e.line.args = "empty" THEN 0 ELSE e.line.seconds
TimeoutLines(i) == {j \in 1 .. i - 1 : SetsTimeout(log[j])}

HasLast(S) == S = {} \/ \E n \in S : \A m \in S : m <= n

(* The settings are what the lines so far, or the flags, have made them.   *)
Settings ==
    /\ token = TokenFor(Len(log) + 1)
    /\ defaultTimeout = TimeoutFor(Len(log) + 1)
    /\ \A i \in 1 .. Len(log) + 1 : HasLast(TokenLines(i)) /\ HasLast(TimeoutLines(i))

(* What is known of a line and what the service has of it.                 *)
Recorded ==
    /\ \A i \in Indices :
         /\ log[i].req = log[i].line.params
         /\ log[i].sent => log[i].result \notin {"local", "panic"}
         /\ log[i].sent => log[i].line.cmd # "default_timeout"
         /\ ~log[i].sent => log[i].result # "running"
         /\ log[i].line.cmd = "rsvp_creation" /\ log[i].result = "ok" =>
              \E row \in rows : row.line = i
    /\ \A i \in service : log[i].sent
    /\ \A row \in rows : log[row.line].sent /\ row.params = log[row.line].req

IInv == /\ LogType
        /\ Waiting
        /\ OneLine
        /\ ExitTellsTruth
        /\ Settings
        /\ SettingsGovernCalls
        /\ Recorded

-----------------------------------------------------------------------------
(* Facts about the log *)

LEMMA LastIsMax ==
    ASSUME NEW S \in SUBSET Int, NEW n \in S, \A m \in S : m <= n
    PROVE  Max(S) = n
<1>1. Max(S) \in S /\ \A m \in S : Max(S) >= m
  <2> DEFINE P(m) == \A k \in S : m >= k
  <2>1. P(n)
    OBVIOUS
  <2> HIDE DEF P
  <2>2. (CHOOSE m \in S : P(m)) \in S /\ P(CHOOSE m \in S : P(m))
    BY <2>1
  <2>3. QED
    BY <2>2 DEF Max, P
<1>2. Max(S) \in Int /\ Max(S) >= n /\ n >= Max(S)
  BY <1>1
<1>3. QED
  BY <1>2

LEMMA MaxOfLines ==
    ASSUME NEW n \in Int, NEW S \in SUBSET (1 .. n), HasLast(S), S # {}
    PROVE  Max(S) \in 1 .. n
<1>1. PICK m \in S : \A k \in S : k <= m
  BY DEF HasLast
<1>2. QED
  BY <1>1, LastIsMax

LEMMA SettingsAre ==
    /\ \A i \in Nat : TokenFor(i) = IF TokenLines(i) = {} THEN flags.token
                                     ELSE TokenOf(log[Max(TokenLines(i))])
    /\ \A i \in Nat : TimeoutFor(i) = IF TimeoutLines(i) = {} THEN flags.timeout
                                       ELSE TimeoutOf(log[Max(TimeoutLines(i))])
BY DEF TokenFor, TimeoutFor, TokenLines, TimeoutLines, SetsToken, SetsTimeout, TokenOf, TimeoutOf

LEMMA DeadlineType ==
    ASSUME NEW t \in Int
    PROVE  GetTimeoutContext(t) \in [limited: BOOLEAN, duration: Int]
<1>1. \A n \in Int : Wrap(n) \in Int
  <2>1. \A n \in Int : n % 2^Width \in Int /\ (n % 2^Width) - 2^Width \in Int
    BY RemoteCliAssumption
  <2>2. QED
    BY <2>1 DEF Wrap
<1>2. t * Second \in Int
  BY RemoteCliAssumption
<1>3. QED
  BY <1>1, <1>2 DEF GetTimeoutContext, NoDeadline

(* A line keeps its settings while the lines in front of it do.            *)
LEMMA SettingsKept ==
    ASSUME NEW i \in Nat, flags' = flags,
           \A j \in 1 .. i - 1 : /\ log'[j].line = log[j].line
                                 /\ SetsTimeout(log[j])' <=> SetsTimeout(log[j]),
           HasLast(TokenLines(i)), HasLast(TimeoutLines(i))
    PROVE  /\ TokenLines(i)' = TokenLines(i)
           /\ TimeoutLines(i)' = TimeoutLines(i)
           /\ TokenFor(i)' = TokenFor(i)
           /\ TimeoutFor(i)' = TimeoutFor(i)
<1>1. TokenLines(i)' = TokenLines(i)
  BY DEF TokenLines, SetsToken
<1>2. TimeoutLines(i)' = TimeoutLines(i)
  BY DEF TimeoutLines
<1>3. TokenLines(i) # {} => Max(TokenLines(i)) \in 1 .. i - 1
  <2>1. TokenLines(i) \in SUBSET (1 .. i - 1)
    BY DEF TokenLines
  <2>2. QED
    BY <2>1, MaxOfLines
<1>4. TimeoutLines(i) # {} => Max(TimeoutLines(i)) \in 1 .. i - 1
  <2>1. TimeoutLines(i) \in SUBSET (1 .. i - 1)
    BY DEF TimeoutLines
  <2>2. QED
    BY <2>1, MaxOfLines
<1>5. TokenFor(i)' = TokenFor(i)
  <2>1. TokenFor(i)' = IF TokenLines(i) = {} THEN flags.token
                       ELSE TokenOf(log'[Max(TokenLines(i))])
    BY <1>1, SettingsAre DEF TokenFor, TokenLines, SetsToken, TokenOf
  <2>2. QED
    BY <1>3, <2>1, SettingsAre DEF TokenOf
<1>6. TimeoutFor(i)' = TimeoutFor(i)
  <2>1. TimeoutFor(i)' = IF TimeoutLines(i) = {} THEN flags.timeout
                         ELSE TimeoutOf(log'[Max(TimeoutLines(i))])
    BY <1>2, SettingsAre DEF TimeoutFor, TimeoutLines, SetsTimeout, TimeoutOf
  <2>2. QED
    BY <1>4, <2>1, SettingsAre DEF TimeoutOf
<1>7. QED
  BY <1>1, <1>2, <1>5, <1>6

-----------------------------------------------------------------------------
(* What a line does *)

(* A line is evaluated and leaves entry e.                                 *)
Appended(e) ==
    /\ pc \in {"greet", "prompt"}
    /\ Len(log) < MaxLines
    /\ e \in Entry
    /\ e.req = e.line.params
    /\ e.token = token
    /\ IF e.sent
         THEN /\ e.line.cmd \in {"version", "services_status", "rsvp_creation"}
              /\ e.line.cmd # "version" => e.deadline = GetTimeoutContext(defaultTimeout)
              /\ e.result = "running"
              /\ service' = service \cup {Len(log) + 1}
              /\ pc' = "calling"
              /\ UNCHANGED <<cc, code>>
         ELSE /\ e.result \in {"ok", "local", "failed", "panic"}
              /\ e.line.cmd = "rsvp_creation" => e.result # "ok"
              /\ service' = service
              /\ IF e.result = "panic" THEN Exit("panic") ELSE Printed(e.result)
    /\ log' = Append(log, e)
    /\ flags' = flags
    /\ rows' = rows
    /\ token' = IF SetsToken(e) THEN TokenOf(e) ELSE token
    /\ defaultTimeout' = IF SetsTimeout(e) THEN TimeoutOf(e) ELSE defaultTimeout

LEMMA CallAppends ==
    ASSUME LogType, pc \in {"greet", "prompt"}, Len(log) < MaxLines,
           NEW line \in Line, NEW deadline \in [limited: BOOLEAN, duration: Int],
           line.cmd \in {"version", "services_status", "rsvp_creation"},
           line.cmd # "version" => deadline = GetTimeoutContext(defaultTimeout),
           Call(NewEntry(line, TRUE, deadline, "running"))
    PROVE  \E e : Appended(e)
<1> DEFINE e == NewEntry(line, TRUE, deadline, "running")
<1>1. /\ e \in Entry /\ e.req = e.line.params /\ e.line = line /\ e.token = token
      /\ e.sent /\ e.result = "running" /\ e.deadline = deadline
  BY DEF NewEntry, Entry, Line, LogType
<1>2. /\ ~SetsToken([e EXCEPT !.sent = FALSE, !.result = "panic"])
      /\ ~SetsTimeout([e EXCEPT !.sent = FALSE, !.result = "panic"])
      /\ ~SetsToken([e EXCEPT !.sent = FALSE, !.result = "failed"])
      /\ ~SetsTimeout([e EXCEPT !.sent = FALSE, !.result = "failed"])
      /\ ~SetsToken(e) /\ ~SetsTimeout(e)
  BY DEF NewEntry, SetsToken, SetsTimeout
<1> HIDE DEF e
<1>3. \A r \in {"panic", "failed"} :
        LET u == [e EXCEPT !.sent = FALSE, !.result = r] IN
        /\ u \in Entry /\ u.req = u.line.params /\ u.line = line /\ u.token = token
        /\ ~u.sent /\ u.result = r
  BY <1>1 DEF Entry
<1>4. Call(e)
  BY DEF e
<1>5. CASE cc = "nil"
  <2>1. Appended([e EXCEPT !.sent = FALSE, !.result = "panic"])
    BY <1>2, <1>3, <1>4, <1>5 DEF Call, Appended
  <2>2. QED
    BY <2>1
<1>6. CASE cc # "nil" /\ e.deadline.limited /\ e.deadline.duration <= 0
  <2>1. Appended([e EXCEPT !.sent = FALSE, !.result = "failed"])
    BY <1>2, <1>3, <1>4, <1>6 DEF Call, Appended
  <2>2. QED
    BY <2>1
<1>7. CASE cc # "nil" /\ ~(e.deadline.limited /\ e.deadline.duration <= 0)
  <2>1. Appended(e)
    BY <1>1, <1>2, <1>4, <1>7 DEF Call, Appended
  <2>2. QED
    BY <2>1
<1>8. QED
  BY <1>5, <1>6, <1>7

LEMMA DoneAppends ==
    ASSUME LogType, Reads, NEW line \in Line, NEW result \in {"ok", "local"},
           line.cmd = "rsvp_creation" => result # "ok",
           Done(line, result),
           LET e == NewEntry(line, FALSE, NoDeadline, result) IN
           /\ token' = IF SetsToken(e) THEN TokenOf(e) ELSE token
           /\ defaultTimeout' = IF SetsTimeout(e) THEN TimeoutOf(e) ELSE defaultTimeout
    PROVE  \E e : Appended(e)
<1> DEFINE e == NewEntry(line, FALSE, NoDeadline, result)
<1>1. /\ e \in Entry /\ e.req = e.line.params /\ e.line = line /\ e.token = token
      /\ ~e.sent /\ e.result = result
  BY DEF NewEntry, NoDeadline, Entry, Line, LogType
<1>2. /\ log' = Append(log, e) /\ Printed(result)
      /\ UNCHANGED <<flags, service, rows>>
  BY DEF Done
<1> HIDE DEF e
<1>3. Appended(e)
  <2>1. /\ token' = IF SetsToken(e) THEN TokenOf(e) ELSE token
        /\ defaultTimeout' = IF SetsTimeout(e) THEN TimeoutOf(e) ELSE defaultTimeout
    BY DEF e
  <2>2. QED
    BY <1>1, <1>2, <2>1 DEF Reads, Appended
<1>4. QED
  BY <1>3

LEMMA VersionLineType == VersionLine \in Line
BY DEF VersionLine, Line, Commands, Tokens, Params

LEMMA GreetAppends ==
    ASSUME LogType, Greet
    PROVE  \E e : Appended(e)
<1>1. NoDeadline \in [limited: BOOLEAN, duration: Int]
  BY DEF NoDeadline
<1>2. VersionLine.cmd = "version"
  BY DEF VersionLine
<1>3. Call(NewEntry(VersionLine, TRUE, NoDeadline, "running"))
  BY DEF Greet, RemoteVersion
<1>4. QED
  BY <1>1, <1>2, <1>3, VersionLineType, CallAppends DEF Greet

LEMMA EvalAppends ==
    ASSUME LogType, NEW line \in Lines, Eval(line)
    PROVE  \E e : Appended(e)
<1>1. line \in Line /\ line.args \in {"none", "empty", "bad", "value"}
  BY RemoteCliAssumption DEF Line
<1>2. /\ NoDeadline \in [limited: BOOLEAN, duration: Int]
      /\ GetTimeoutContext(defaultTimeout) \in [limited: BOOLEAN, duration: Int]
  BY DeadlineType DEF NoDeadline, LogType
<1>3. Reads
  BY DEF Eval, cmdVersion, cmdServicesStatus, cmdRsvpCreation, cmdJWT, cmdDefaultTimeout, cmdPrint
<1>4. \A result : LET e == NewEntry(line, FALSE, NoDeadline, result) IN
                  e.line = line /\ e.result = result
  BY DEF NewEntry
<1>5. CASE cmdVersion(line)
  BY <1>1, <1>2, <1>3, <1>5, CallAppends DEF cmdVersion, RemoteVersion, Reads
<1>6. CASE cmdServicesStatus(line)
  BY <1>1, <1>2, <1>3, <1>6, CallAppends DEF cmdServicesStatus, Reads
<1>7. CASE cmdRsvpCreation(line) /\ line.args = "value"
  BY <1>1, <1>2, <1>3, <1>7, CallAppends DEF cmdRsvpCreation, Reads
<1>8. CASE cmdRsvpCreation(line) /\ line.args # "value"
  <2>1. /\ line.cmd = "rsvp_creation" /\ Done(line, "local")
        /\ UNCHANGED <<token, defaultTimeout>>
    BY <1>8 DEF cmdRsvpCreation
  <2>2. QED
    BY <1>1, <1>3, <1>4, <2>1, DoneAppends DEF SetsToken, SetsTimeout
<1>9. CASE cmdJWT(line)
  <2> DEFINE result == IF token' = "absent" THEN "local" ELSE "ok"
  <2>1. line.cmd = "jwt" /\ Done(line, result) /\ defaultTimeout' = defaultTimeout
    BY <1>9 DEF cmdJWT
  <2>2. token' = CASE line.args = "none" -> token
                   [] line.args = "empty" -> "absent"
                   [] OTHER -> line.token
    BY <1>9 DEF cmdJWT
  <2>3. result \in {"ok", "local"}
    OBVIOUS
  <2> HIDE DEF result
  <2>4. LET e == NewEntry(line, FALSE, NoDeadline, result) IN
        /\ token' = IF SetsToken(e) THEN TokenOf(e) ELSE token
        /\ ~SetsTimeout(e)
    BY <1>1, <1>4, <2>1, <2>2 DEF SetsToken, SetsTimeout, TokenOf
  <2>5. QED
    BY <1>1, <1>3, <2>1, <2>3, <2>4, DoneAppends
<1>10. CASE cmdDefaultTimeout(line)
  <2> DEFINE wrong == line.args = "bad" \/ (line.args = "value" /\ line.seconds <= 0)
             result == IF wrong THEN "local" ELSE "ok"
  <2>1. line.cmd = "default_timeout" /\ Done(line, result) /\ token' = token
    BY <1>10 DEF cmdDefaultTimeout
  <2>2. defaultTimeout' = CASE line.args = "empty" -> 0
                            [] line.args = "value" /\ ~wrong -> line.seconds
                            [] OTHER -> defaultTimeout
    BY <1>10 DEF cmdDefaultTimeout
  <2>3. result \in {"ok", "local"}
    OBVIOUS
  <2>4. (result = "ok" /\ line.args # "none") <=>
        (line.args = "empty" \/ (line.args = "value" /\ ~wrong))
    BY <1>1
  <2> HIDE DEF result, wrong
  <2>5. LET e == NewEntry(line, FALSE, NoDeadline, result) IN
        /\ defaultTimeout' = IF SetsTimeout(e) THEN TimeoutOf(e) ELSE defaultTimeout
        /\ ~SetsToken(e)
    BY <1>1, <1>4, <2>1, <2>2, <2>4 DEF SetsToken, SetsTimeout, TimeoutOf
  <2>6. QED
    BY <1>1, <1>3, <2>1, <2>3, <2>5, DoneAppends
<1>11. CASE cmdPrint(line)
  <2>1. /\ line.cmd \in {"print", "unknown"}
        /\ Done(line, IF line.cmd = "print" THEN "ok" ELSE "local")
        /\ UNCHANGED <<token, defaultTimeout>>
    BY <1>11 DEF cmdPrint
  <2>2. QED
    BY <1>1, <1>3, <1>4, <2>1, DoneAppends DEF SetsToken, SetsTimeout
<1>12. QED
  BY <1>5, <1>6, <1>7, <1>8, <1>9, <1>10, <1>11 DEF Eval

-----------------------------------------------------------------------------
(* Every step keeps the invariant *)

(* A line that sets nothing leaves the settings; one that does is the last *)
(* of those that have.                                                     *)
LEMMA NextSettings ==
    ASSUME NEW n \in Nat, log \in Seq(Entry), Len(log) = n, Settings,
           NEW e, Appended(e),
           TokenLines(n + 1)' = TokenLines(n + 1),
           TimeoutLines(n + 1)' = TimeoutLines(n + 1),
           TokenFor(n + 1)' = TokenFor(n + 1),
           TimeoutFor(n + 1)' = TimeoutFor(n + 1)
    PROVE  /\ token' = TokenFor(n + 2)'
           /\ defaultTimeout' = TimeoutFor(n + 2)'
           /\ HasLast(TokenLines(n + 2))' /\ HasLast(TimeoutLines(n + 2))'
<1> DEFINE S == TokenLines(n + 1)
           T == TimeoutLines(n + 1)
<1>1. log'[n + 1] = e /\ flags' = flags
  BY AppendProperties DEF Appended
<1>2. /\ token = TokenFor(n + 1) /\ defaultTimeout = TimeoutFor(n + 1)
      /\ HasLast(S) /\ HasLast(T)
  BY DEF Settings
<1>3. /\ \A m \in S : m \in 1 .. n
      /\ \A m \in T : m \in 1 .. n
  BY DEF TokenLines, TimeoutLines
<1>4. 1 .. n + 1 = (1 .. n) \cup {n + 1} /\ n + 1 \notin 1 .. n
  OBVIOUS
<1>5. TokenLines(n + 2)' = IF SetsToken(e) THEN S \cup {n + 1} ELSE S
  <2>1. S = {j \in 1 .. n : SetsToken(log'[j])}
    BY DEF TokenLines, SetsToken
  <2>2. TokenLines(n + 2)' = {j \in 1 .. n + 1 : SetsToken(log'[j])}
    BY DEF TokenLines, SetsToken
  <2>3. QED
    BY <1>1, <1>4, <2>1, <2>2
<1>6. TimeoutLines(n + 2)' = IF SetsTimeout(e) THEN T \cup {n + 1} ELSE T
  <2>1. T = {j \in 1 .. n : SetsTimeout(log'[j])}
    BY DEF TimeoutLines, SetsTimeout
  <2>2. TimeoutLines(n + 2)' = {j \in 1 .. n + 1 : SetsTimeout(log'[j])}
    BY DEF TimeoutLines, SetsTimeout
  <2>3. QED
    BY <1>1, <1>4, <2>1, <2>2
<1>7. /\ TokenFor(n + 1)' = IF S = {} THEN flags.token ELSE TokenOf(log'[Max(S)])
      /\ TokenFor(n + 2)' = IF TokenLines(n + 2)' = {} THEN flags.token
                            ELSE TokenOf(log'[Max(TokenLines(n + 2)')])
      /\ TimeoutFor(n + 1)' = IF T = {} THEN flags.timeout ELSE TimeoutOf(log'[Max(T)])
      /\ TimeoutFor(n + 2)' = IF TimeoutLines(n + 2)' = {} THEN flags.timeout
                              ELSE TimeoutOf(log'[Max(TimeoutLines(n + 2)')])
  <2>1. (\A i \in Nat : TokenFor(i) = IF TokenLines(i) = {} THEN flags.token
                                      ELSE TokenOf(log[Max(TokenLines(i))]))'
    BY SettingsAre, PTL
  <2>2. (\A i \in Nat : TimeoutFor(i) = IF TimeoutLines(i) = {} THEN flags.timeout
                                        ELSE TimeoutOf(log[Max(TimeoutLines(i))]))'
    BY SettingsAre, PTL
  <2>3. n + 1 \in Nat /\ n + 2 \in Nat
    OBVIOUS
  <2>4. QED
    BY <1>1, <2>1, <2>2, <2>3
<1> HIDE DEF S, T
<1>8. ASSUME NEW U \in SUBSET (1 .. n)
      PROVE  Max(U \cup {n + 1}) = n + 1 /\ HasLast(U \cup {n + 1})
  <2>1. U \cup {n + 1} \in SUBSET Int /\ n + 1 \in U \cup {n + 1}
        /\ \A m \in U \cup {n + 1} : m <= n + 1
    OBVIOUS
  <2>2. QED
    BY <2>1, LastIsMax DEF HasLast
<1>9. token' = TokenFor(n + 2)' /\ HasLast(TokenLines(n + 2)')
  <2>1. CASE SetsToken(e)
    BY <1>1, <1>3, <1>5, <1>7, <1>8, <2>1 DEF Appended
  <2>2. CASE ~SetsToken(e)
    BY <1>2, <1>5, <1>7, <2>2 DEF Appended, S
  <2>3. QED
    BY <2>1, <2>2
<1>10. defaultTimeout' = TimeoutFor(n + 2)' /\ HasLast(TimeoutLines(n + 2)')
  <2>1. CASE SetsTimeout(e)
    BY <1>1, <1>3, <1>6, <1>7, <1>8, <2>1 DEF Appended
  <2>2. CASE ~SetsTimeout(e)
    BY <1>2, <1>6, <1>7, <2>2 DEF Appended, T
  <2>3. QED
    BY <2>1, <2>2
<1>11. QED
  BY <1>9, <1>10 DEF HasLast

LEMMA AppendKept ==
    ASSUME IInv, NEW e, Appended(e)
    PROVE  IInv'
<1> DEFINE n == Len(log)
<1>1. n \in Nat /\ log \in Seq(Entry) /\ e \in Entry
  BY DEF IInv, LogType, Appended
<1>2. /\ log' \in Seq(Entry) /\ Len(log') = n + 1
      /\ \A i \in 1 .. n : log'[i] = log[i]
      /\ log'[n + 1] = e
      /\ Indices = 1 .. n /\ Indices' = 1 .. n + 1
      /\ DOMAIN log = 1 .. n /\ DOMAIN log' = 1 .. n + 1
      /\ \A i \in 1 .. n + 1 : i \in 1 .. n \/ i = n + 1
  BY <1>1, AppendProperties, LenProperties DEF Appended, Indices
<1> HIDE DEF n
<1>3. /\ flags' = flags /\ rows' = rows
      /\ flags.mode = "cli" => n = 0
      /\ \A i \in 1 .. n : log[i].result \notin {"running", "panic"}
  BY <1>2 DEF IInv, OneLine, Waiting, Appended, n
<1>4. \/ /\ e.sent /\ e.result = "running" /\ pc' = "calling"
         /\ cc' = cc /\ code' = code
         /\ service' = service \cup {n + 1}
      \/ /\ ~e.sent /\ e.result = "panic" /\ service' = service
         /\ Exit("panic")
      \/ /\ ~e.sent /\ e.result \in {"ok", "local", "failed"} /\ service' = service
         /\ flags.mode = "cli" /\ Exit(IF e.result = "ok" THEN "success" ELSE "failure")
      \/ /\ ~e.sent /\ e.result \in {"ok", "local", "failed"} /\ service' = service
         /\ flags.mode # "cli" /\ pc' \in {"readline", "prompt"}
         /\ cc' = cc /\ code' = code
  BY DEF Appended, Printed, n
<1>5. LogType'
  <2>1. /\ pc' \in {"readline", "prompt", "calling", "exited"}
        /\ cc' \in {"none", "open", "nil", "closed"}
        /\ code' \in {"running", "success", "failure", "panic"}
    BY <1>4 DEF Exit, IInv, LogType
  <2>2. service' \subseteq 1 .. n + 1 /\ rows' \subseteq [line: 1 .. n + 1, params: Params]
    <3>1. service \subseteq 1 .. n /\ rows \subseteq [line: 1 .. n, params: Params]
      BY <1>2 DEF IInv, LogType
    <3>2. 1 .. n \subseteq 1 .. n + 1 /\ n + 1 \in 1 .. n + 1
      BY <1>1
    <3>3. service' \subseteq 1 .. n + 1
      BY <1>4, <3>1, <3>2
    <3>4. rows' \subseteq [line: 1 .. n + 1, params: Params]
      BY <1>3, <3>1, <3>2
    <3>5. QED
      BY <3>3, <3>4
  <2>3. token' \in Tokens /\ defaultTimeout' \in Int
    BY <1>1 DEF Appended, TokenOf, TimeoutOf, Entry, Line, Tokens, IInv, LogType
  <2>4. Len(log') <= MaxLines
    BY <1>1, <1>2, RemoteCliAssumption DEF Appended, n
  <2>5. QED
    BY <1>2, <1>3, <2>1, <2>2, <2>3, <2>4 DEF IInv, LogType
<1>6. Waiting'
  BY <1>1, <1>2, <1>3, <1>4 DEF Waiting, Exit
<1>7. OneLine'
  BY <1>1, <1>2, <1>3, <1>4 DEF OneLine, Exit
<1>8. ExitTellsTruth'
  BY <1>1, <1>2, <1>3, <1>4 DEF ExitTellsTruth, Exit
<1>9. /\ \A i \in 1 .. n + 1 :
           /\ TokenLines(i)' = TokenLines(i) /\ TimeoutLines(i)' = TimeoutLines(i)
           /\ TokenFor(i)' = TokenFor(i) /\ TimeoutFor(i)' = TimeoutFor(i)
  <2> SUFFICES ASSUME NEW i \in 1 .. n + 1
               PROVE  /\ TokenLines(i)' = TokenLines(i)
                      /\ TimeoutLines(i)' = TimeoutLines(i)
                      /\ TokenFor(i)' = TokenFor(i)
                      /\ TimeoutFor(i)' = TimeoutFor(i)
    OBVIOUS
  <2>1. i \in Nat /\ \A j \in 1 .. i - 1 : j \in 1 .. n
    BY <1>1
  <2>2. \A j \in 1 .. i - 1 : /\ log'[j].line = log[j].line
                              /\ SetsTimeout(log[j])' <=> SetsTimeout(log[j])
    BY <1>2, <2>1 DEF SetsTimeout
  <2>3. HasLast(TokenLines(i)) /\ HasLast(TimeoutLines(i))
    BY DEF IInv, Settings, n
  <2>4. QED
    BY <1>3, <2>1, <2>2, <2>3, SettingsKept
<1>10. Settings'
  <2>1. Len(log) = n /\ log \in Seq(Entry) /\ Settings
    BY DEF IInv, LogType, n
  <2>2. PICK k \in Nat : k = n
    BY <1>1 DEF n
  <2>3. /\ TokenLines(k + 1)' = TokenLines(k + 1) /\ TimeoutLines(k + 1)' = TimeoutLines(k + 1)
        /\ TokenFor(k + 1)' = TokenFor(k + 1) /\ TimeoutFor(k + 1)' = TimeoutFor(k + 1)
    BY <1>9, <2>2
  <2>4. /\ token' = TokenFor(k + 2)' /\ defaultTimeout' = TimeoutFor(k + 2)'
        /\ HasLast(TokenLines(k + 2))' /\ HasLast(TimeoutLines(k + 2))'
    BY <1>1, <2>1, <2>2, <2>3, NextSettings
  <2>5. \A i \in 1 .. k + 1 : HasLast(TokenLines(i))' /\ HasLast(TimeoutLines(i))'
    BY <1>9, <2>1, <2>2 DEF Settings, HasLast
  <2>6. Len(log') + 1 = k + 2 /\ \A i \in 1 .. k + 2 : i \in 1 .. k + 1 \/ i = k + 2
    BY <1>2, <2>2
  <2>7. QED
    BY <2>4, <2>5, <2>6 DEF Settings
<1>11. SettingsGovernCalls'
  <2>1. \A i \in 1 .. n + 1 : log'[i].sent =>
          /\ log'[i].token = TokenFor(i)
          /\ log'[i].line.cmd # "version" =>
               log'[i].deadline = GetTimeoutContext(TimeoutFor(i))
    BY <1>2 DEF IInv, SettingsGovernCalls, Settings, Appended, n
  <2>2. QED
    BY <1>2, <1>9, <2>1 DEF SettingsGovernCalls, GetTimeoutContext
<1>12. Recorded'
  <2>1. /\ service \subseteq 1 .. n
        /\ \A row \in rows : row.line \in 1 .. n
    BY <1>2 DEF IInv, LogType
  <2>2. \A i \in 1 .. n + 1 :
          /\ log'[i].req = log'[i].line.params
          /\ log'[i].sent => log'[i].result \notin {"local", "panic"}
          /\ log'[i].sent => log'[i].line.cmd # "default_timeout"
          /\ ~log'[i].sent => log'[i].result # "running"
          /\ log'[i].line.cmd = "rsvp_creation" /\ log'[i].result = "ok" =>
               \E row \in rows : row.line = i
    <3>1. CASE e.sent
      BY <1>2, <3>1 DEF Recorded, Appended, IInv
    <3>2. CASE ~e.sent
      BY <1>2, <3>2 DEF Recorded, Appended, IInv
    <3>3. QED
      BY <3>1, <3>2
  <2>3. \A i \in service' : log'[i].sent
    BY <1>2, <1>4, <2>1 DEF Recorded, IInv
  <2>4. \A row \in rows : log'[row.line].sent /\ row.params = log'[row.line].req
    BY <1>2, <2>1 DEF Recorded, IInv
  <2>5. QED
    BY <1>2, <1>3, <2>2, <2>3, <2>4 DEF Recorded
<1>13. QED
  BY <1>5, <1>6, <1>7, <1>8, <1>10, <1>11, <1>12 DEF IInv

(* A sent call is handled, or its client gives it up, with result r.       *)
Handled(i, r) ==
    /\ i \in Indices
    /\ log[i].sent
    /\ r \in {"ok", "failed"}
    /\ Result(i, r)
    /\ service' \subseteq service
    /\ rows' \in {rows, rows \cup {[line |-> i, params |-> log[i].req]}}
    /\ log[i].line.cmd = "rsvp_creation" /\ r = "ok" =>
         rows' = rows \cup {[line |-> i, params |-> log[i].req]}
    /\ UNCHANGED <<flags, token, defaultTimeout>>

LEMMA CallsAreHandled ==
    ASSUME IInv,
           \/ \E i \in service : ServiceHandles(i)
           \/ \E i \in DOMAIN log : ConnectionFails(i) \/ DeadlinePasses(i)
    PROVE  \E i, r : Handled(i, r)
<1>1. DOMAIN log = Indices /\ service \subseteq Indices
  BY LenProperties DEF IInv, LogType, Indices
<1>2. \A i \in Indices : log[i].result = "running" => log[i].sent
  BY DEF IInv, Recorded
<1>3. ASSUME NEW i \in service, ServiceHandles(i)
      PROVE  \E r : Handled(i, r)
  <2>1. i \in Indices /\ log[i].sent /\ service' \subseteq service
    BY <1>1, <1>3 DEF IInv, Recorded, ServiceHandles
  <2>2. CASE rows' = rows /\ Result(i, "failed")
    BY <1>3, <2>1, <2>2 DEF ServiceHandles, Handled
  <2>3. CASE ~(rows' = rows /\ Result(i, "failed"))
    <3>1. /\ rows' = rows \cup (IF log[i].line.cmd = "rsvp_creation"
                                  THEN {[line |-> i, params |-> log[i].req]} ELSE {})
          /\ Result(i, "ok")
          /\ UNCHANGED <<flags, token, defaultTimeout>>
      BY <1>3, <2>3 DEF ServiceHandles
    <3>2. Handled(i, "ok")
      BY <2>1, <3>1 DEF Handled
    <3>3. QED
      BY <3>2
  <2>4. QED
    BY <2>2, <2>3
<1>4. ASSUME NEW i \in DOMAIN log, ConnectionFails(i) \/ DeadlinePasses(i)
      PROVE  Handled(i, "failed")
  BY <1>1, <1>2, <1>4 DEF ConnectionFails, DeadlinePasses, Handled
<1>5. QED
  BY <1>3, <1>4

LEMMA HandlingKept ==
    ASSUME IInv, NEW i, NEW r, Handled(i, r)
    PROVE  IInv'
<1> DEFINE n == Len(log)
<1>1. /\ n \in Nat /\ log \in Seq(Entry) /\ i \in 1 .. n /\ log[i] \in Entry
      /\ DOMAIN log = 1 .. n /\ Indices = 1 .. n
  BY ElementOfSeq, LenProperties DEF IInv, LogType, Indices, Handled
<1>2. /\ r \in {"ok", "failed"} /\ log[i].sent
      /\ UNCHANGED <<flags, token, defaultTimeout>>
  BY DEF Handled
<1>3. log[i].result = "running" => pc = "calling" /\ i = n
  BY <1>1 DEF IInv, Waiting, n
<1>4. /\ log' = IF log[i].result = "running" THEN [log EXCEPT ![i].result = r] ELSE log
      /\ log' \in Seq(Entry) /\ Len(log') = n
      /\ Indices' = 1 .. n /\ DOMAIN log' = 1 .. n
  <2>1. CASE log[i].result = "running"
    <3>1. log' = [log EXCEPT ![i] = [log[i] EXCEPT !.result = r]]
      BY <2>1 DEF Handled, Result
    <3>2. [log[i] EXCEPT !.result = r] \in Entry
      BY <1>1, <1>2 DEF Entry
    <3>3. log' \in Seq(Entry) /\ Len(log') = n
      BY <1>1, <3>1, <3>2, ExceptSeq
    <3>4. QED
      BY <2>1, <3>1, <3>3, LenProperties DEF Indices
  <2>2. CASE log[i].result # "running"
    BY <1>1, <2>2 DEF Handled, Result, Indices
  <2>3. QED
    BY <2>1, <2>2
<1>5. \A j \in 1 .. n :
        /\ log'[j].line = log[j].line /\ log'[j].req = log[j].req
        /\ log'[j].sent = log[j].sent /\ log'[j].token = log[j].token
        /\ log'[j].deadline = log[j].deadline
        /\ log'[j].result = IF j = i /\ log[i].result = "running" THEN r ELSE log[j].result
  <2>1. log[i] \in Entry /\ \A j \in 1 .. n : log[j] \in Entry
    BY <1>1, ElementOfSeq
  <2>2. CASE log[i].result = "running"
    BY <1>1, <1>4, <2>1, <2>2 DEF Entry
  <2>3. CASE log[i].result # "running"
    BY <1>4, <2>3
  <2>4. QED
    BY <2>2, <2>3
<1> HIDE DEF n
<1>6. \/ /\ log[i].result # "running"
         /\ UNCHANGED <<log, pc, cc, code>>
      \/ /\ log[i].result = "running" /\ pc = "calling" /\ i = n
         /\ flags.mode = "cli" /\ Exit(IF r = "ok" THEN "success" ELSE "failure")
      \/ /\ log[i].result = "running" /\ pc = "calling" /\ i = n
         /\ flags.mode # "cli" /\ pc' \in {"readline", "prompt"}
         /\ cc' = cc /\ code' = code
  BY <1>3 DEF Handled, Result, Printed
<1>7. LogType'
  <2>1. /\ pc' \in {"start", "dial", "greet", "readline", "prompt", "calling", "exited"}
        /\ cc' \in {"none", "open", "nil", "closed"}
        /\ code' \in {"running", "success", "failure", "panic"}
    BY <1>6 DEF Exit, IInv, LogType
  <2>2. service' \subseteq 1 .. n
    BY <1>1 DEF Handled, IInv, LogType
  <2>3. rows' \subseteq [line: 1 .. n, params: Params]
    <3>1. [line |-> i, params |-> log[i].req] \in [line: 1 .. n, params: Params]
      BY <1>1 DEF Entry
    <3>2. rows \subseteq [line: 1 .. n, params: Params]
      BY <1>1 DEF IInv, LogType
    <3>3. QED
      BY <3>1, <3>2 DEF Handled
  <2>4. Len(log') <= MaxLines
    BY <1>4 DEF IInv, LogType, n
  <2>5. QED
    BY <1>2, <1>4, <2>1, <2>2, <2>3, <2>4 DEF IInv, LogType
<1>8. Waiting'
  BY <1>1, <1>2, <1>4, <1>5, <1>6 DEF IInv, Waiting, Exit, n
<1>9. OneLine'
  BY <1>1, <1>2, <1>4, <1>5, <1>6 DEF IInv, OneLine, Exit, n
<1>10. ExitTellsTruth'
  BY <1>1, <1>2, <1>4, <1>5, <1>6 DEF IInv, OneLine, ExitTellsTruth, Exit, n
<1>11. \A k \in 1 .. n + 1 :
         /\ TokenLines(k)' = TokenLines(k) /\ TimeoutLines(k)' = TimeoutLines(k)
         /\ TokenFor(k)' = TokenFor(k) /\ TimeoutFor(k)' = TimeoutFor(k)
  <2> SUFFICES ASSUME NEW k \in 1 .. n + 1
               PROVE  /\ TokenLines(k)' = TokenLines(k)
                      /\ TimeoutLines(k)' = TimeoutLines(k)
                      /\ TokenFor(k)' = TokenFor(k)
                      /\ TimeoutFor(k)' = TimeoutFor(k)
    OBVIOUS
  <2>1. k \in Nat /\ \A j \in 1 .. k - 1 : j \in 1 .. n
    BY <1>1
  <2>2. log[i].line.cmd # "default_timeout"
    BY <1>1, <1>2 DEF IInv, Recorded
  <2>3. \A j \in 1 .. k - 1 : /\ log'[j].line = log[j].line
                              /\ SetsTimeout(log[j])' <=> SetsTimeout(log[j])
    BY <1>5, <2>1, <2>2 DEF SetsTimeout
  <2>4. HasLast(TokenLines(k)) /\ HasLast(TimeoutLines(k))
    BY DEF IInv, Settings, n
  <2>5. QED
    BY <1>2, <2>1, <2>3, <2>4, SettingsKept
<1>12. Settings'
  <2>1. PICK k \in Nat : k = n
    BY <1>1
  <2>2. k + 1 \in 1 .. n + 1
    BY <2>1
  <2>3. token = TokenFor(k + 1) /\ defaultTimeout = TimeoutFor(k + 1)
    BY <2>1 DEF IInv, Settings, n
  <2>4. token' = TokenFor(k + 1)' /\ defaultTimeout' = TimeoutFor(k + 1)'
    BY <1>2, <1>11, <2>2, <2>3
  <2>5. \A j \in 1 .. k + 1 : HasLast(TokenLines(j))' /\ HasLast(TimeoutLines(j))'
    BY <1>11, <2>1 DEF IInv, Settings, HasLast, n
  <2>6. QED
    BY <1>4, <2>1, <2>4, <2>5 DEF Settings
<1>13. SettingsGovernCalls'
  BY <1>1, <1>4, <1>5, <1>11 DEF IInv, SettingsGovernCalls, GetTimeoutContext
<1>14. Recorded'
  <2>1. /\ service \subseteq 1 .. n /\ service' \subseteq service
        /\ \A row \in rows : row.line \in 1 .. n
    BY <1>1 DEF Handled, IInv, LogType
  <2>2. /\ rows' \in {rows, rows \cup {[line |-> i, params |-> log[i].req]}}
        /\ log[i].line.cmd = "rsvp_creation" /\ r = "ok" => \E row \in rows' : row.line = i
    <3>1. [line |-> i, params |-> log[i].req].line = i
      OBVIOUS
    <3> DEFINE new == [line |-> i, params |-> log[i].req]
    <3> HIDE DEF new
    <3>2. /\ rows' \in {rows, rows \cup {new}}
          /\ log[i].line.cmd = "rsvp_creation" /\ r = "ok" => rows' = rows \cup {new}
      BY DEF Handled, new
    <3>3. new.line = i
      BY <3>1 DEF new
    <3>4. QED
      BY <3>2, <3>3 DEF new
  <2>3. \A j \in 1 .. n :
          /\ log'[j].req = log'[j].line.params
          /\ log'[j].sent => log'[j].result \notin {"local", "panic"}
          /\ log'[j].sent => log'[j].line.cmd # "default_timeout"
          /\ ~log'[j].sent => log'[j].result # "running"
    BY <1>1, <1>2, <1>5 DEF IInv, Recorded
  <2>4. \A j \in 1 .. n : log'[j].line.cmd = "rsvp_creation" /\ log'[j].result = "ok" =>
                            \E row \in rows' : row.line = j
    BY <1>1, <1>5, <2>2 DEF IInv, Recorded
  <2>5. \A j \in service' : log'[j].sent
    BY <1>5, <2>1 DEF IInv, Recorded
  <2>6. \A row \in rows' : log'[row.line].sent /\ row.params = log'[row.line].req
    BY <1>1, <1>2, <1>5, <2>1, <2>2 DEF IInv, Recorded
  <2>7. QED
    BY <1>4, <2>3, <2>4, <2>5, <2>6 DEF Recorded
<1>15. QED
  BY <1>7, <1>8, <1>9, <1>10, <1>12, <1>13, <1>14 DEF IInv

LEMMA QuietKept ==
    ASSUME IInv, UNCHANGED <<flags, token, defaultTimeout, log, service, rows>>,
           pc' \in {"dial", "greet", "readline", "prompt", "exited"},
           pc \in {"start", "dial", "readline", "prompt"},
           cc' \in {"none", "open", "nil", "closed"},
           \/ pc' # "exited" /\ code' = code
           \/ pc' = "exited" /\ code' = "failure"
           \/ pc' = "exited" /\ code' = "success" /\ flags.mode # "cli",
           flags.mode = "cli" => \/ pc' \in {"dial", "prompt"} /\ pc \in {"start", "dial"}
                                 \/ pc' = "exited" /\ pc \in {"start", "dial"}
    PROVE  IInv'
<1>1. LogType'
  BY DEF IInv, LogType, Indices
<1>2. Waiting' /\ OneLine'
  BY DEF IInv, Waiting, OneLine, Indices
<1>3. DOMAIN log = Indices
  BY LenProperties DEF IInv, LogType, Indices
<1>4. ExitTellsTruth'
  BY <1>3 DEF IInv, Waiting, OneLine, ExitTellsTruth
<1>5. Settings'
  BY DEF IInv, Settings, HasLast, TokenLines, TimeoutLines, TokenFor, TimeoutFor
<1>6. SettingsGovernCalls'
  <2>1. \A i : TokenFor(i)' = TokenFor(i) /\ TimeoutFor(i)' = TimeoutFor(i)
    BY DEF TokenFor, TimeoutFor
  <2>2. QED
    BY <2>1 DEF IInv, SettingsGovernCalls, GetTimeoutContext
<1>7. Recorded'
  BY DEF IInv, Recorded, Indices
<1>8. QED
  BY <1>1, <1>2, <1>4, <1>5, <1>6, <1>7 DEF IInv

LEMMA InitHolds == Init => IInv
<1> SUFFICES ASSUME Init PROVE IInv
  OBVIOUS
<1>1. Len(log) = 0 /\ log \in Seq(Entry) /\ DOMAIN log = {} /\ Indices = {}
  BY DEF Init, Indices
<1>2. LogType
  BY <1>1, RemoteCliAssumption DEF Init, LogType, Flags
<1>3. TokenLines(1) = {} /\ TimeoutLines(1) = {}
  BY DEF TokenLines, TimeoutLines
<1>4. Settings
  <2>1. TokenFor(1) = flags.token /\ TimeoutFor(1) = flags.timeout
    BY <1>3, SettingsAre
  <2>2. \A i \in 1 .. 0 + 1 : i = 1
    OBVIOUS
  <2>3. QED
    BY <1>1, <1>3, <2>1, <2>2 DEF Init, Settings, HasLast
<1>5. QED
  BY <1>1, <1>2, <1>4
     DEF Init, IInv, Waiting, OneLine, ExitTellsTruth, SettingsGovernCalls, Recorded

LEMMA NextHolds == IInv /\ [Next]_vars => IInv'
<1> SUFFICES ASSUME IInv, [Next]_vars PROVE IInv'
  OBVIOUS
<1>1. flags.mode \in {"cli", "console"}
  BY RemoteCliAssumption DEF IInv, LogType, Flags
<1>2. CASE Start
  BY <1>2, QuietKept DEF Start, Exit, IInv, LogType
<1>3. CASE NewGomeetClient
  BY <1>1, <1>3, QuietKept DEF NewGomeetClient, Exit, IInv, LogType
<1>4. CASE NewReadline
  BY <1>4, QuietKept DEF NewReadline, Exit, IInv, LogType, OneLine
<1>5. CASE Leave
  BY <1>5, QuietKept DEF Leave, Exit, IInv, LogType
<1>6. CASE Greet \/ \E line \in Lines : Eval(line)
  <2>1. \E e : Appended(e)
    BY <1>6, GreetAppends, EvalAppends DEF IInv
  <2>2. QED
    BY <2>1, AppendKept
<1>7. CASE \/ \E i \in service : ServiceHandles(i)
           \/ \E i \in DOMAIN log : ConnectionFails(i) \/ DeadlinePasses(i)
  BY <1>7, CallsAreHandled, HandlingKept
<1>8. CASE UNCHANGED vars
  <2>1. LogType' /\ Waiting' /\ OneLine' /\ Recorded'
    BY <1>8 DEF vars, IInv, LogType, Waiting, OneLine, Recorded, Indices
  <2>2. ExitTellsTruth' /\ SettingsGovernCalls'
    <3>1. \A i : TokenFor(i)' = TokenFor(i) /\ TimeoutFor(i)' = TimeoutFor(i)
      BY <1>8 DEF vars, TokenFor, TimeoutFor
    <3>2. QED
      BY <1>8, <3>1 DEF vars, IInv, ExitTellsTruth, SettingsGovernCalls, GetTimeoutContext
  <2>3. Settings'
    BY <1>8 DEF vars, IInv, Settings, HasLast, TokenLines, TimeoutLines, TokenFor, TimeoutFor
  <2>4. QED
    BY <2>1, <2>2, <2>3 DEF IInv
<1>9. QED
  BY <1>2, <1>3, <1>4, <1>5, <1>6, <1>7, <1>8 DEF Next, Own

LEMMA Invariance == Spec => []IInv
BY InitHolds, NextHolds, PTL DEF Spec

-----------------------------------------------------------------------------
(* The results *)

(* The log, the settings, the connection and what the service has of the   *)
(* calls keep their types: setting lines never leave a token or a timeout  *)
(* that is not one, and the service only knows lines that were read.       *)
THEOREM TypeCorrect == Spec => []TypeOK
<1>1. IInv => TypeOK
  <2> SUFFICES ASSUME IInv PROVE TypeOK
    OBVIOUS
  <2>1. DOMAIN log = Indices /\ \A i \in Indices : log[i] \in Entry
    BY ElementOfSeq, LenProperties DEF IInv, LogType, Indices
  <2>2. QED
    BY <2>1 DEF IInv, LogType, TypeOK
<1>2. QED
  BY <1>1, Invariance, PTL

(* Every call carries the token and the deadline of the last lines that    *)
(* set them, or of the flags: jwt, default_timeout, GetActionsMap and      *)
(* GetTimeoutContext, for any sequence of lines.                           *)
THEOREM SettingsAreCurrent == Spec => []SettingsGovernCalls
<1>1. IInv => SettingsGovernCalls
  BY DEF IInv
<1>2. QED
  BY <1>1, Invariance, PTL

(* A creation that printed a response has exactly the row that was typed,  *)
(* and one that ended in the command line has none: cmdRsvpCreation,       *)
(* whatever the connection does and however late the service answers.      *)
THEOREM ResultsTellTruth == Spec => []ResultTellsTruth
<1>1. IInv => ResultTellsTruth
  <2> SUFFICES ASSUME IInv, NEW i \in DOMAIN log, log[i].line.cmd = "rsvp_creation"
               PROVE  /\ log[i].result = "ok" =>
                           {row.params : row \in {r \in rows : r.line = i}} = {log[i].line.params}
                      /\ log[i].result \in {"local", "panic"} =>
                           i \notin service /\ \A row \in rows : row.line # i
    BY DEF ResultTellsTruth
  <2>1. i \in Indices
    BY LenProperties DEF IInv, LogType, Indices
  <2>2. ASSUME log[i].result = "ok"
        PROVE  {row.params : row \in {r \in rows : r.line = i}} = {log[i].line.params}
    <3>1. PICK row \in rows : row.line = i
      BY <2>1, <2>2 DEF IInv, Recorded
    <3>2. \A r \in rows : r.line = i => r.params = log[i].line.params
      BY <2>1 DEF IInv, Recorded
    <3>3. QED
      BY <3>1, <3>2
  <2>3. QED
    BY <2>1, <2>2 DEF IInv, Recorded
<1>2. QED
  BY <1>1, Invariance, PTL

(* The exit status of cli is success exactly when its one line was: Fatal, *)
(* the panic of a nil connection and the end of main.                      *)
THEOREM ExitsTellTruth == Spec => []ExitTellsTruth
<1>1. IInv => ExitTellsTruth
  BY DEF IInv
<1>2. QED
  BY <1>1, Invariance, PTL
=============================================================================

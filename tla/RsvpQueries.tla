---------------------------- MODULE RsvpQueries -----------------------------
(***************************************************************************)
(* The query functions of the models package, called concurrently on one   *)
(* table.  Each call is a sequence of SQL statements, every statement is   *)
(* atomic, nothing holds the statements of one call together: UpdateRsvp   *)
(* and DeleteRsvpLogically read a row before they write it, ListRsvps      *)
(* reads a page before it counts.                                          *)
(*                                                                         *)
(* gorm and SQLite are modelled by the statements they issue: a struct     *)
(* whose primary key is the nil UUID adds no condition on the key, an      *)
(* update or delete that is not Unscoped only sees rows that are not soft- *)
(* deleted, RecordNotFound is true of an empty answer and of no other      *)
(* error, and "LIMIT 1" on an UPDATE or a DELETE is a syntax error unless  *)
(* SQLite was compiled with SQLITE_ENABLE_UPDATE_DELETE_LIMIT, which the   *)
(* vendored go-sqlite3 is not.                                             *)
(***************************************************************************)
EXTENDS RsvpParams, FiniteSets, FiniteSetsExt, Functions

CONSTANTS Caller,         \* each makes one call
          MaxUuid,        \* bound: the uuids that are drawn are 1 .. MaxUuid
          Calls,          \* the calls they may make
          InitialRows,    \* the tables the calls may start from
          LimitSupported, \* does SQLite take UPDATE ... LIMIT?
          Failing         \* the functions whose statements may fail

(* uuids in the order of their text form; 0 is the nil UUID, which parses  *)
(* but which uuid.New() never draws.                                       *)
NilUuid == 0
Uuids == 1 .. MaxUuid

(* How the argument sUuid is spelled: as it is stored, in another form     *)
(* that uuid.Parse takes too (upper case, urn:uuid:), or not a UUID.       *)
Forms == {"stored", "other", "malformed"}
Id == [uuid: {NilUuid} \cup Uuids, form: Forms]
Page == [offset: Nat, limit: Nat, excludeSoftDeleted: BOOLEAN, softDeletedOnly: BOOLEAN]

ByUuid == {"FindRsvpByUUID", "UpdateRsvp", "DeleteRsvpLogically", "DeleteRsvpPhysically"}
Call == [fn: ByUuid \cup {"CreateRsvp", "ListRsvps", "Flush"},
         id: Id, params: Params, page: Page]

Row == [params: Params, deleted: BOOLEAN]
Struct == [uuid: {NilUuid} \cup Uuids, params: Params, deleted: BOOLEAN]

ASSUME QueriesAssumption ==
    /\ MaxUuid \in Nat
    /\ Calls \subseteq Call
    /\ \A table \in InitialRows :
         DOMAIN table \subseteq Uuids /\ table \in [DOMAIN table -> Row]
    /\ LimitSupported \in BOOLEAN
    /\ Failing \subseteq {"CreateRsvp", "ListRsvps", "Flush"} \cup ByUuid

VARIABLES call,   \* what each caller calls
          pc,     \* "call", the second statement's name, or "done"
          rsvp,   \* the local variable rsvp: {} or one struct
          list,   \* the local variable rsvps: the uuids of the page
          ret,    \* what was returned
          rows,   \* the table: uuid -> row
          wrote   \* history: the uuids whose row the call changed

vars == <<call, pc, rsvp, list, ret, rows, wrote>>

Errors == {"none", "bad UUID", "invalid field", "cannot find", "flags", "database"}

NoReturn == [err |-> "none", rsvp |-> {}, list |-> {}, size |-> 0, hasMore |-> FALSE]

TypeOK ==
    /\ call \in [Caller -> Calls]
    /\ pc \in [Caller -> {"call", "updates", "delete", "count", "done"}]
    /\ rsvp \in [Caller -> SUBSET Struct]
    /\ list \in [Caller -> SUBSET Uuids]
    /\ ret \in [Caller -> [err: Errors, rsvp: SUBSET Struct, list: SUBSET Uuids,
                           size: Nat, hasMore: BOOLEAN]]
    /\ DOMAIN rows \subseteq Uuids
    /\ rows \in [DOMAIN rows -> Row]
    /\ wrote \in [Caller -> SUBSET Uuids]

Init ==
    /\ call \in [Caller -> Calls]
    /\ pc = [c \in Caller |-> "call"]
    /\ rsvp = [c \in Caller |-> {}]
    /\ list = [c \in Caller |-> {}]
    /\ ret = [c \in Caller |-> NoReturn]
    /\ rows \in InitialRows
    /\ wrote = [c \in Caller |-> {}]

-----------------------------------------------------------------------------
(* Statements *)

(* What a struct with this primary key selects; Unscoped looks at          *)
(* soft-deleted rows too.                                                  *)
Matching(uuid, unscoped) ==
    {u \in DOMAIN rows : (uuid = NilUuid \/ u = uuid) /\ (unscoped \/ ~rows[u].deleted)}

StructOf(u) == [uuid |-> u, params |-> rows[u].params, deleted |-> rows[u].deleted]

(* The zero value of the other fields, when nothing was scanned.           *)
ZeroParams == [names |-> 0, email |-> FALSE, presence |-> FALSE, childrenNameAge |-> 0,
               housing |-> FALSE, music |-> 0, brunch |-> FALSE]
Unscanned(uuid) == [uuid |-> uuid, params |-> ZeroParams, deleted |-> FALSE]

(* First on a struct with this key: ordered by primary key, LIMIT 1.       *)
First(uuid, unscoped, fails) ==
    IF fails THEN Unscanned(uuid) ELSE StructOf(Min(Matching(uuid, unscoped)))
RecordNotFound(uuid, unscoped, fails) == ~fails /\ Matching(uuid, unscoped) = {}

(* An UPDATE by call c: the rows in the domain of new become those of new. *)
Write(c, new) ==
    /\ rows' = [u \in DOMAIN rows |-> IF u \in DOMAIN new THEN new[u] ELSE rows[u]]
    /\ wrote' = [wrote EXCEPT ![c] = @ \cup DOMAIN new]

SetParams(S, params) == [u \in S |-> [rows[u] EXCEPT !.params = params]]
SetDeleted(S) == [u \in S |-> [rows[u] EXCEPT !.deleted = TRUE]]

NoWrite == UNCHANGED <<rows, wrote>>

(* Does the statement fail: a busy or unreadable file.                     *)
StatementFails(c) == IF call[c].fn \in Failing THEN BOOLEAN ELSE {FALSE}

Goto(c, p) == pc' = [pc EXCEPT ![c] = p]
Return(c, err, structs) ==
    /\ ret' = [ret EXCEPT ![c] = [NoReturn EXCEPT !.err = err, !.rsvp = structs]]
    /\ Goto(c, "done")

Starts(c, fn) == pc[c] = "call" /\ call[c].fn = fn

(* The early returns: uuid.Parse, then castRsvpParams where it is called.  *)
BadUuid(c) ==
    /\ pc[c] = "call"
    /\ call[c].fn \in ByUuid
    /\ call[c].id.form = "malformed"
    /\ Return(c, "bad UUID", {})
    /\ NoWrite
    /\ UNCHANGED <<call, rsvp, list>>

BadParams(c) ==
    /\ \/ Starts(c, "CreateRsvp")
       \/ Starts(c, "UpdateRsvp") /\ call[c].id.form # "malformed"
    /\ castRsvpParams(call[c].params) # Valid
    /\ Return(c, "invalid field", {})
    /\ NoWrite
    /\ UNCHANGED <<call, rsvp, list>>

-----------------------------------------------------------------------------
(* Mutant of Fresh: BeforeCreate is not called.                            *)
FreshIsNil == {NilUuid}

(* What uuid.New() may draw: nothing that was drawn before, or that a      *)
(* caller could have named before it was drawn.                            *)
Fresh == Uuids \ (DOMAIN rows \cup (UNION {wrote[c] : c \in Caller})
                              \cup {call[c].id.uuid : c \in Caller})

(* CreateRsvp: one INSERT, under a uuid drawn by BeforeCreate.             *)
CreateRsvp(c) ==
    /\ Starts(c, "CreateRsvp")
    /\ castRsvpParams(call[c].params) = Valid
    /\ \E u \in Fresh, fails \in StatementFails(c) :
         LET row == [params |-> call[c].params, deleted |-> FALSE]
             struct == [uuid |-> u, params |-> call[c].params, deleted |-> FALSE]
         IN IF fails
              THEN Return(c, "database", {struct}) /\ NoWrite
              ELSE /\ rows' = [v \in DOMAIN rows \cup {u} |->
                                  IF v = u THEN row ELSE rows[v]]
                   /\ wrote' = [wrote EXCEPT ![c] = {u}]
                   /\ Return(c, "none", {struct})
    /\ UNCHANGED <<call, rsvp, list>>

(* FindRsvpByUUID: one SELECT; an error that is not "record not found"     *)
(* passes for success.                                                     *)
FindRsvpByUUID(c) ==
    LET uuid == call[c].id.uuid IN
    /\ Starts(c, "FindRsvpByUUID")
    /\ call[c].id.form # "malformed"
    /\ \E fails \in StatementFails(c) :
         IF RecordNotFound(uuid, TRUE, fails)
           THEN Return(c, "cannot find", {})
           ELSE Return(c, "none", {First(uuid, TRUE, fails)})
    /\ NoWrite
    /\ UNCHANGED <<call, rsvp, list>>

(* The SELECT in front of a write.                                         *)
Load(c, unscoped, next) ==
    LET uuid == call[c].id.uuid IN
    /\ call[c].id.form # "malformed"
    /\ \E fails \in StatementFails(c) :
         IF RecordNotFound(uuid, unscoped, fails)
           THEN Return(c, "cannot find", {}) /\ UNCHANGED rsvp
           ELSE /\ rsvp' = [rsvp EXCEPT ![c] = {First(uuid, unscoped, fails)}]
                /\ Goto(c, next)
                /\ UNCHANGED ret
    /\ NoWrite
    /\ UNCHANGED <<call, list>>

(* UpdateRsvp: an unscoped First, then a scoped UPDATE.  Updates sets the  *)
(* fields of the struct whether or not the statement matches a row.        *)
UpdateRsvpLoad(c) ==
    /\ Starts(c, "UpdateRsvp")
    /\ castRsvpParams(call[c].params) = Valid
    /\ Load(c, TRUE, "updates")

(* Mutants of UpdateRsvp: a Model without the loaded struct, an UPDATE     *)
(* that is unscoped too, an error that is found after the UPDATE.          *)
UpdateAnyKey(c) ==
    /\ pc[c] = "updates"
    /\ Write(c, SetParams(Matching(NilUuid, FALSE), call[c].params))
    /\ Return(c, "none", rsvp[c])
    /\ UNCHANGED <<call, rsvp, list>>

UpdateUnscoped(c) ==
    /\ pc[c] = "updates"
    /\ \E struct \in rsvp[c] :
         /\ Write(c, SetParams(Matching(struct.uuid, TRUE), call[c].params))
         /\ Return(c, "none", {struct})
    /\ UNCHANGED <<call, rsvp, list>>

UpdateThenFails(c) ==
    /\ pc[c] = "updates"
    /\ \E struct \in rsvp[c] :
         /\ Write(c, SetParams(Matching(struct.uuid, FALSE), call[c].params))
         /\ Return(c, "database", {struct})
    /\ UNCHANGED <<call, rsvp, list>>

UpdateRsvp(c) ==
    /\ pc[c] = "updates"
    /\ \E struct \in rsvp[c], fails \in StatementFails(c) :
         LET changed == [struct EXCEPT !.params = call[c].params]
         IN IF fails
              THEN Return(c, "database", {changed}) /\ NoWrite
              ELSE /\ Write(c, SetParams(Matching(struct.uuid, FALSE), call[c].params))
                   /\ Return(c, "none", {changed})
    /\ UNCHANGED <<call, rsvp, list>>

(* DeleteRsvpLogically: a scoped First, then UPDATE ... LIMIT 1.           *)
DeleteRsvpLogicallyLoad(c) ==
    /\ Starts(c, "DeleteRsvpLogically")
    /\ Load(c, FALSE, "delete")

(* Mutant of DeleteRsvpLogically: the error of Delete is not looked at.    *)
DeleteIgnoresError(c) ==
    /\ pc[c] = "delete"
    /\ \E struct \in rsvp[c], fails \in StatementFails(c) :
         /\ IF fails THEN NoWrite
            ELSE Write(c, SetDeleted(Matching(struct.uuid, FALSE)))
         /\ Return(c, "none", {[struct EXCEPT !.deleted = TRUE]})
    /\ UNCHANGED <<call, rsvp, list>>

DeleteRsvpLogically(c) ==
    /\ pc[c] = "delete"
    /\ \E struct \in rsvp[c], fails \in StatementFails(c) :
         LET targets == Matching(struct.uuid, FALSE)
         IN IF fails \/ ~LimitSupported
              THEN Return(c, "database", {struct}) /\ NoWrite
              ELSE /\ IF targets = {} THEN NoWrite
                      ELSE \E u \in targets : Write(c, SetDeleted({u}))
                   /\ Return(c, "none", {[struct EXCEPT !.deleted = TRUE]})
    /\ UNCHANGED <<call, rsvp, list>>

(* DeleteRsvpPhysically: DELETE ... LIMIT 1 with the argument as it was    *)
(* spelled; stored uuids are in one spelling.                              *)
DeleteRsvpPhysically(c) ==
    /\ Starts(c, "DeleteRsvpPhysically")
    /\ call[c].id.form # "malformed"
    /\ \E fails \in StatementFails(c) :
         LET targets == {u \in DOMAIN rows : u = call[c].id.uuid /\ call[c].id.form = "stored"}
         IN IF fails \/ ~LimitSupported
              THEN Return(c, "database", {}) /\ NoWrite
              ELSE /\ rows' = Restrict(rows, DOMAIN rows \ targets)
                   /\ wrote' = [wrote EXCEPT ![c] = targets]
                   /\ Return(c, "none", {})
    /\ UNCHANGED <<call, rsvp, list>>

-----------------------------------------------------------------------------
(* ListRsvps *)

Selected(page) ==
    {u \in DOMAIN rows : /\ page.excludeSoftDeleted => ~rows[u].deleted
                         /\ page.softDeletedOnly => rows[u].deleted}

(* LIMIT and OFFSET over the rows in the order of their uuids.             *)
PageOf(page) ==
    {u \in Selected(page) :
        Cardinality({v \in Selected(page) : v < u})
            \in page.offset .. page.offset + page.limit - 1}

ListRsvpsFind(c) ==
    LET page == call[c].page IN
    /\ Starts(c, "ListRsvps")
    /\ IF page.excludeSoftDeleted /\ page.softDeletedOnly
         THEN Return(c, "flags", {}) /\ UNCHANGED list
         ELSE /\ \E fails \in StatementFails(c) :
                   /\ list' = [list EXCEPT ![c] = IF fails THEN {} ELSE PageOf(page)]
                   /\ ret' = [ret EXCEPT ![c].err = IF fails THEN "database" ELSE "none"]
              /\ Goto(c, "count")
    /\ NoWrite
    /\ UNCHANGED <<call, rsvp>>

(* Mutant of ListRsvps: hasMore is off by one.                             *)
ListEndsEarly(c) ==
    LET page == call[c].page
        size == IF page.limit = 0 THEN 0 ELSE Cardinality(Selected(page))
    IN /\ pc[c] = "count"
       /\ ret' = [ret EXCEPT ![c].list = list[c], ![c].size = size,
                             ![c].hasMore = page.offset + Cardinality(list[c]) + 1 < size]
       /\ Goto(c, "done")
       /\ NoWrite
       /\ UNCHANGED <<call, rsvp, list>>

(* Count keeps the LIMIT, so with LIMIT 0 it has no row to scan, and its   *)
(* error is dropped: in both cases the size stays 0.                       *)
ListRsvps(c) ==
    LET page == call[c].page IN
    /\ pc[c] = "count"
    /\ \E fails \in StatementFails(c) :
         LET size == IF fails \/ page.limit = 0 THEN 0 ELSE Cardinality(Selected(page))
         IN ret' = [ret EXCEPT ![c].list = list[c], ![c].size = size,
                               ![c].hasMore = page.offset + Cardinality(list[c]) < size]
    /\ Goto(c, "done")
    /\ NoWrite
    /\ UNCHANGED <<call, rsvp, list>>

(* Flush: DELETE FROM rsvps, from the migrate command.                     *)
Flush(c) ==
    /\ Starts(c, "Flush")
    /\ \E fails \in StatementFails(c) :
         IF fails THEN Return(c, "database", {}) /\ NoWrite
         ELSE /\ rows' = Restrict(rows, {})
              /\ wrote' = [wrote EXCEPT ![c] = DOMAIN rows]
              /\ Return(c, "none", {})
    /\ UNCHANGED <<call, rsvp, list>>

Step(c) ==
    \/ BadUuid(c) \/ BadParams(c) \/ CreateRsvp(c) \/ FindRsvpByUUID(c)
    \/ UpdateRsvpLoad(c) \/ UpdateRsvp(c)
    \/ DeleteRsvpLogicallyLoad(c) \/ DeleteRsvpLogically(c)
    \/ DeleteRsvpPhysically(c)
    \/ ListRsvpsFind(c) \/ ListRsvps(c) \/ Flush(c)

Next == \E c \in Caller : Step(c)

Spec == Init /\ [][Next]_vars

-----------------------------------------------------------------------------
(* Properties *)

Returned(c) == pc[c] = "done"
Deletes(c) == call[c].fn \in {"DeleteRsvpLogically", "DeleteRsvpPhysically"}

(* The row a delete names is out of reach: removed, or soft-deleted when   *)
(* that is what was asked.                                                 *)
Gone(c) ==
    LET uuid == call[c].id.uuid
    IN \/ uuid \notin DOMAIN rows
       \/ call[c].fn = "DeleteRsvpLogically" /\ rows[uuid].deleted

(* A call by UUID touches no row but the one it names, although the key of *)
(* the statement comes from the struct an earlier statement filled.        *)
(* "with the specified UUID": lines 56, 108, 148 and 175.                  *)
OnlyTheNamedRow ==
    \A c \in Caller :
        call[c].fn \in ByUuid => wrote[c] \subseteq {call[c].id.uuid}

(* A call that returns an error has changed nothing, whichever of its two  *)
(* statements failed.  The error returns of every function.                *)
ErrorMeansUntouched ==
    \A c \in Caller : ret[c].err # "none" => wrote[c] = {}

(* A soft-deleted row is final: a concurrent UpdateRsvp that loaded the    *)
(* row before it was deleted neither changes nor revives it; it can only   *)
(* be removed.  Line 143 is scoped where line 139 is not.                  *)
DeletedRowsAreFinal ==
    [][ \A u \in DOMAIN rows \cap DOMAIN rows' :
            rows[u].deleted => rows'[u] = rows[u] ]_vars

(* A delete that returned no error stays true, whatever the others do      *)
(* afterwards.  DeleteRsvpLogically and DeleteRsvpPhysically.              *)
DeletionIsFinal ==
    \A c \in Caller : Returned(c) /\ Deletes(c) /\ ret[c].err = "none" => Gone(c)

(* UpdateRsvp "updates the existing rsvp with the specified UUID": after a *)
(* call that returned no error that row has the new values, until a later  *)
(* statement.                                                              *)
UpdateTakesEffect ==
    [][ \A c \in Caller :
            (pc[c] = "updates" /\ pc'[c] = "done" /\ ret'[c].err = "none") =>
                /\ call[c].id.uuid \in DOMAIN rows'
                /\ rows'[call[c].id.uuid].params = call[c].params ]_vars

(* A first page with hasMore = FALSE is the whole selection, also when     *)
(* rows are inserted or changed between its SELECT and its COUNT, as long  *)
(* as none was deleted before the COUNT.  ListRsvps lines 95 to 103.       *)
NothingMissed ==
    [][ \A c \in Caller :
            LET page == call[c].page IN
            /\ pc[c] = "count" /\ pc'[c] = "done"
            /\ page.limit > 0 /\ page.offset = 0
            /\ \A d \in Caller : Deletes(d) \/ call[d].fn = "Flush" => wrote[d] = {}
            => (ret'[c].hasMore \/ Selected(page) = ret'[c].list) ]_vars
=============================================================================

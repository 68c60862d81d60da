--------------------------- MODULE MCRsvpQueries ----------------------------
(* RsvpQueries on small tables: calls that cover every branch of the query *)
(* functions, tables of at most two rows, live and soft-deleted.           *)
EXTENDS RsvpQueries, TLC

P(n) == [names |-> n, email |-> TRUE, presence |-> TRUE, childrenNameAge |-> 0,
         housing |-> TRUE, music |-> 0, brunch |-> FALSE]
Whole == [offset |-> 0, limit |-> 0, excludeSoftDeleted |-> FALSE, softDeletedOnly |-> FALSE]

On(fn, uuid, form, n) ==
    [fn |-> fn, id |-> [uuid |-> uuid, form |-> form], params |-> P(n), page |-> Whole]
Listing(offset, limit, exclude, only) ==
    [fn |-> "ListRsvps", id |-> [uuid |-> NilUuid, form |-> "malformed"], params |-> P(0),
     page |-> [offset |-> offset, limit |-> limit,
               excludeSoftDeleted |-> exclude, softDeletedOnly |-> only]]

Live(n) == [params |-> P(n), deleted |-> FALSE]
Dead(n) == [params |-> P(n), deleted |-> TRUE]

MCTables == {<<>>, <<Live(3)>>, <<Live(3), Dead(4)>>, <<Dead(3), Live(4)>>, <<Live(3), Live(4)>>}

(* Writers, with one row they all fight for and one that is nobody's.      *)
MCWriters ==
    {On("CreateRsvp", NilUuid, "malformed", 5), On("CreateRsvp", NilUuid, "malformed", 2),
     On("UpdateRsvp", 1, "stored", 5), On("UpdateRsvp", 1, "other", 255),
     On("UpdateRsvp", 1, "stored", 256), On("UpdateRsvp", 1, "malformed", 5),
     On("UpdateRsvp", 2, "stored", 6),
     On("DeleteRsvpLogically", 1, "stored", 0), On("DeleteRsvpPhysically", 1, "stored", 0),
     On("FindRsvpByUUID", 1, "other", 0), On("Flush", NilUuid, "malformed", 0)}

(* First and further pages of live rows, of soft-deleted ones, of both.    *)
MCCalls ==
    MCWriters \cup {Listing(0, 1, TRUE, FALSE), Listing(0, 2, FALSE, FALSE),
                    Listing(1, 1, FALSE, FALSE), Listing(0, 1, FALSE, TRUE),
                    Listing(0, 1, TRUE, TRUE)}

(* Every statement but those of ListRsvps, which drops the error of COUNT. *)
MCFailing == ByUuid \cup {"CreateRsvp", "Flush"}

(* Updates of a row that may be soft-deleted, and of the nil UUID, which   *)
(* uuid.Parse takes.                                                       *)
MCUpdate == {On("UpdateRsvp", 1, "stored", 5), On("UpdateRsvp", NilUuid, "stored", 5)}

Symmetry == Permutations(Caller)
=============================================================================

------------------------------- MODULE Comments -------------------------------
(***************************************************************************)
(* The comment threads of one entity (comments/service.py).  A reply is    *)
(* counted in its parent's row; a deleted comment stays as a row and is    *)
(* listed while its count says that it has replies.  A request loads the   *)
(* comment it is about in one statement and changes rows in later ones.    *)
(***************************************************************************)
EXTENDS Integers, FiniteSets

CONSTANTS
    Writers,      \* concurrent requests
    MaxComments   \* bound: comments ever written

ASSUME BoundAssumption == MaxComments \in Nat

VARIABLES
    made,      \* the comments have the ids 1 .. made
    parent,    \* Comment.parent_id, 0 for none
    deleted,   \* the comments with is_deleted
    replies,   \* Comment.reply_count
    loaded     \* the comment each request has loaded, and what for

commentVars == <<made, parent, deleted, replies, loaded>>
-----------------------------------------------------------------------------
Ids == 1 .. MaxComments
Posted == 1 .. made
Live == Posted \ deleted
NothingLoaded == [op |-> "none", on |-> 0]

CommentsInit ==
    /\ made = 0
    /\ parent = [c \in Ids |-> 0]
    /\ deleted = {}
    /\ replies = [c \in Ids |-> 0]
    /\ loaded = [h \in Writers |-> NothingLoaded]
-----------------------------------------------------------------------------
\* The new comment's row; parent_id p is 0 for a top-level comment.
Insert(p) ==
    /\ made < MaxComments
    /\ made' = made + 1
    /\ parent' = [parent EXCEPT ![made'] = p]

Post ==
    /\ Insert(0)
    /\ UNCHANGED <<deleted, replies, loaded>>

\* A reply and a deletion load the comment; a deleted one is refused.
Load(h, op, c) ==
    /\ loaded[h] = NothingLoaded
    /\ c \in Live
    /\ loaded' = [loaded EXCEPT ![h] = [op |-> op, on |-> c]]
    /\ UNCHANGED <<made, parent, deleted, replies>>

Done(h) == loaded' = [loaded EXCEPT ![h] = NothingLoaded]

\* create_comment with a parent: the count is raised, the row inserted.
Reply(h) ==
    LET c == loaded[h].on IN
    /\ loaded[h].op = "reply"
    /\ Insert(c)
    /\ replies' = [replies EXCEPT ![c] = @ + 1]
    /\ Done(h)
    /\ UNCHANGED deleted

\* Mutant: the count is left as it is.
LowerNot(p) == replies' = replies
\* func.greatest(reply_count - 1, 0).
Lower(p) == replies' = [replies EXCEPT ![p] = IF @ = 0 THEN 0 ELSE @ - 1]

\* delete_comment: a soft delete, and the parent's count is lowered.
Delete(h) ==
    LET c == loaded[h].on IN
    /\ loaded[h].op = "delete"
    /\ deleted' = deleted \cup {c}
    /\ IF parent[c] = 0 THEN UNCHANGED replies ELSE Lower(parent[c])
    /\ Done(h)
    /\ UNCHANGED <<made, parent>>

CommentsNext ==
    \/ Post
    \/ \E h \in Writers :
          \/ \E op \in {"reply", "delete"}, c \in Ids : Load(h, op, c)
          \/ Reply(h) \/ Delete(h)

CommentsSpec == CommentsInit /\ [][CommentsNext]_commentVars
-----------------------------------------------------------------------------
LiveReplies(c) == {d \in Live : parent[d] = c}

\* models.py:52, reply_count is the number of a comment's replies, kept up as they
\* are written and deleted.
CountIsExact == \A c \in Posted : replies[c] = Cardinality(LiveReplies(c))

\* A deleted comment is not listed for the sake of replies it does not have: the
\* count never exceeds the replies that are there, however requests overlap.
CountNeverOver == \A c \in Posted : replies[c] <= Cardinality(LiveReplies(c))
=============================================================================

-------------------------------- MODULE Feed --------------------------------
(***************************************************************************)
(* 06-social-feed: ranking.ts caches a user's posts by falling score, and  *)
(* GET /feed of endpoints.ts pages through that cache with the score of    *)
(* the last post shown as the cursor.  One user, whose posts are numbered  *)
(* in the order in which they are ranked; scores change with every ranking.*)
(***************************************************************************)
EXTENDS Arrays

CONSTANTS Posts, Score, TopN, PageSize

FeedAssumption ==
    /\ Posts \in Nat /\ TopN \in Nat \ {0}
    /\ Score \subseteq Nat /\ Score # {} /\ IsFiniteSet(Score) /\ PageSize \subseteq Nat \ {0}

VARIABLES
    feed,     \* the cache: posts and scores
    cursor,   \* the client's next cursor; above every score at first
    hasMore,
    fresh,    \* history: whether the ranking is still that of the first page
    seen,     \* history: if so, the posts shown to the client since then
    breaks    \* history: and the cursors of those pages

feedVars == <<feed, cursor, hasMore, fresh, seen, breaks>>

Post == 1..Posts
Top == 1 + CHOOSE n \in Score : \A s \in Score : s <= n

TypeOK ==
    /\ feed \in Seq([id : Post, score : Score]) /\ Len(feed) <= TopN
    /\ cursor \in Score \cup {Top} /\ {hasMore, fresh} \subseteq BOOLEAN
    /\ seen \in Seq(Post) /\ breaks \subseteq Score

Init ==
    /\ feed = <<>>
    /\ cursor = Top /\ hasMore = TRUE /\ seen = <<>> /\ breaks = {} /\ fresh = TRUE

-----------------------------------------------------------------------------
(* Plausible slips in the code, used to show that the properties bite. *)
AtCursorToo(p) == p.score <= cursor

FirstOf(s, n) == SubSeq(s, 1, IF n < Len(s) THEN n ELSE Len(s))

(* The posts with their scores, by falling score. *)
Ranked(score) ==
    SortedBy([i \in Post |-> [id |-> i, score |-> score[i]]], [i \in Post |-> -score[i]])

rankAndCacheFeed(score) ==
    /\ feed' = FirstOf(Ranked(score), TopN)
    /\ fresh' = (hasMore /\ cursor = Top) /\ seen' = <<>> /\ breaks' = {}
    /\ UNCHANGED <<cursor, hasMore>>

BeyondCursor(p) == p.score < cursor
Beyond == {i \in DOMAIN feed : BeyondCursor(feed[i])}
GetFeed(limit) ==
    LET page == FirstOf(Filtered(feed, Beyond), limit)
        last == page[Len(page)].score
    IN /\ hasMore
       /\ hasMore' = (Len(page) = limit)
       /\ cursor' = IF page = <<>> THEN cursor ELSE last
       /\ IF fresh THEN /\ seen' = seen \o [i \in DOMAIN page |-> page[i].id]
                        /\ breaks' = IF page = <<>> THEN breaks ELSE breaks \cup {last}
                   ELSE UNCHANGED <<seen, breaks>>
       /\ UNCHANGED <<feed, fresh>>

(* The client asks for its first page again. *)
StartOver ==
    /\ cursor' = Top /\ hasMore' = TRUE /\ seen' = <<>> /\ breaks' = {} /\ fresh' = TRUE
    /\ UNCHANGED feed

Next ==
    \/ \E score \in [Post -> Score] : rankAndCacheFeed(score)
    \/ \E limit \in PageSize : GetFeed(limit)
    \/ StartOver

-----------------------------------------------------------------------------
(* A client that pages through one ranking sees no post twice, sees them by *)
(* falling score, and misses none that it has passed, except posts with the *)
(* very score at which a page ended; when there is no more, it has passed   *)
(* them all.                                                                *)
ScoreOf(id) == {p.score : p \in {feed[i] : i \in {j \in DOMAIN feed : feed[j].id = id}}}
PagesComplete == fresh =>
    /\ \A i, j \in DOMAIN seen : i < j =>
          /\ seen[i] # seen[j]
          /\ \A s \in ScoreOf(seen[i]), t \in ScoreOf(seen[j]) : s >= t
    /\ \A i \in DOMAIN feed : cursor <= feed[i].score \/ ~hasMore =>
          feed[i].score \in breaks \/ \E j \in DOMAIN seen : seen[j] = feed[i].id
=============================================================================

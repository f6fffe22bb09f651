-------------------------- MODULE RssBuilderProofs --------------------------
(***************************************************************************)
(* For any handlers and any number of edits: as long as no edit was missed *)
(* (and no feeds were published out of order), a stale feed is marked, and *)
(* what is given is as fresh as when it was asked for.  The theorems are   *)
(* silent from the moment an edit is missed to the next full rebuild.      *)
(*                                                                         *)
(* The strengthening follows a rebuild: what it has read is as new as the  *)
(* edits marked so far, an edit it has not read has still to be marked, and*)
(* once it has published the feed is no older than what it read.           *)
(***************************************************************************)
EXTENDS RssBuilder, TLAPS

NothingAhead ==
  /\ marked <= database /\ mXml <= database
  /\ \A b \in Builders : queried[b] <= database /\ asked[b] <= marked

UnreadIsUnmarked ==
  \A b \in Builders :
    Rebuilding(b) /\ queried[b] < database /\ ~missed => \E e \in Editors : rpc[e] = "written"

ReadWhatIsMarked ==
  \A b \in Builders :
    Rebuilding(b) => asked[b] <= queried[b] /\ (~missed => marked <= queried[b])

PublishedStays ==
  /\ \A b \in Builders : rpc[b] = "clear" /\ ~missed => queried[b] <= mXml
  /\ ~mDirty /\ ~missed => marked <= mXml

RssInv ==
  /\ RssTypeOK /\ NothingAhead /\ UnreadIsUnmarked /\ ReadWhatIsMarked /\ PublishedStays
  /\ StaleIsMarked /\ FeedIsFresh

-----------------------------------------------------------------------------
LEMMA RssInitInv == RssInit => RssInv
<1> SUFFICES ASSUME RssInit PROVE RssInv
  OBVIOUS
<1>1. RssTypeOK
  <2>1. mDirty \in BOOLEAN /\ missed \in BOOLEAN
    BY Zenon DEF RssInit
  <2>2. 0 \in 0 .. MaxVersion
    BY RssAssumption
  <2>3. database = 0 /\ mXml = 0 /\ marked = 0
    BY DEF RssInit
  <2>4. /\ rpc \in [Editors \cup Builders ->
                     {"idle", "written", "query", "publish", "clear", "give"}]
        /\ queried \in [Builders -> 0 .. MaxVersion] /\ asked \in [Builders -> 0 .. MaxVersion]
    BY <2>2 DEF RssInit
  <2> QED
    BY ONLY <2>1, <2>2, <2>3, <2>4, Zenon DEF RssTypeOK
<1>2. \A b \in Builders : rpc[b] = "idle" /\ queried[b] = 0 /\ asked[b] = 0
  BY DEF RssInit
<1>3. NothingAhead /\ UnreadIsUnmarked /\ ReadWhatIsMarked
  BY <1>2 DEF RssInit, NothingAhead, UnreadIsUnmarked, ReadWhatIsMarked, Rebuilding
<1>4. PublishedStays /\ StaleIsMarked /\ FeedIsFresh
  BY <1>2 DEF RssInit, PublishedStays, StaleIsMarked, FeedIsFresh
<1> QED
  BY <1>1, <1>3, <1>4 DEF RssInv

\* An edit is written: it has still to be marked.
LEMMA WriteInv ==
  ASSUME RssInv, NEW e \in Editors, Write(e) PROVE RssInv'
<1>1. RssTypeOK'
  BY RssAssumption DEF RssInv, RssTypeOK, Write, Move
<1>2. rpc'[e] = "written" /\ \A b \in Builders : rpc'[b] = rpc[b]
  BY RssAssumption DEF RssInv, RssTypeOK, Write, Move
<1>3. NothingAhead'
  BY RssAssumption DEF RssInv, RssTypeOK, NothingAhead, Write
<1>4. UnreadIsUnmarked' /\ StaleIsMarked'
  BY <1>2 DEF UnreadIsUnmarked, StaleIsMarked
<1>5. ReadWhatIsMarked' /\ PublishedStays' /\ FeedIsFresh'
  BY <1>2 DEF RssInv, ReadWhatIsMarked, PublishedStays, FeedIsFresh, Rebuilding, Write
<1> QED
  BY <1>1, <1>3, <1>4, <1>5 DEF RssInv

\* An edit of a category: a rebuild that has still to read is due, or missed.
LEMMA EditCategoryInv ==
  ASSUME RssInv, NEW e \in Editors, EditCategory(e) PROVE RssInv'
<1>1. missed' \in BOOLEAN /\ (~missed' => ~missed /\ mDirty /\ \A b \in Builders : ~Rebuilding(b))
  BY Zenon DEF RssInv, RssTypeOK, EditCategory
<1>2. RssTypeOK'
  <2>1. database' \in 0 .. MaxVersion
    BY RssAssumption DEF RssInv, RssTypeOK, EditCategory
  <2> QED
    BY <2>1, <1>1, Zenon DEF RssInv, RssTypeOK, EditCategory
<1>3. NothingAhead'
  BY RssAssumption DEF RssInv, RssTypeOK, NothingAhead, EditCategory
<1>4. UnreadIsUnmarked' /\ StaleIsMarked'
  BY <1>1, Zenon DEF UnreadIsUnmarked, StaleIsMarked, Rebuilding, EditCategory
<1>5. ReadWhatIsMarked' /\ PublishedStays' /\ FeedIsFresh'
  BY <1>1 DEF RssInv, ReadWhatIsMarked, PublishedStays, FeedIsFresh, Rebuilding, EditCategory
<1> QED
  BY <1>2, <1>3, <1>4, <1>5 DEF RssInv

\* An edit is marked: either every rebuild on its way has read it, or missed.
LEMMA SetDirtyInv ==
  ASSUME RssInv, NEW e \in Editors, SetDirty(e) PROVE RssInv'
<1>1. RssTypeOK'
  BY RssAssumption DEF RssInv, RssTypeOK, SetDirty, Move, Dirty
<1>2. \A b \in Builders : rpc'[b] = rpc[b]
  BY RssAssumption DEF RssInv, RssTypeOK, SetDirty, Move
<1>3. ~missed' => ~missed /\ \A b \in Builders : Rebuilding(b) => queried[b] >= database
  <2>1. ~missed' => ~missed /\ Behind = {}
    BY Zenon DEF SetDirty
  <2>2. Behind = {} => \A b \in Builders : Rebuilding(b) => ~(queried[b] < database)
    BY DEF Behind, Rebuilding
  <2>3. \A b \in Builders : queried[b] \in Int /\ database \in Int
    BY DEF RssInv, RssTypeOK
  <2>4. \A b \in Builders : ~(queried[b] < database) => queried[b] >= database
    BY <2>3
  <2> QED
    BY <2>1, <2>2, <2>4, Zenon
<1>4. marked' \in {marked, database}
  BY DEF SetDirty
<1>5. NothingAhead'
  BY <1>4, RssAssumption DEF RssInv, RssTypeOK, NothingAhead, SetDirty
<1>6. UnreadIsUnmarked' /\ StaleIsMarked'
  BY <1>2, <1>3 DEF UnreadIsUnmarked, StaleIsMarked, SetDirty, Dirty, Rebuilding, RssInv, RssTypeOK
<1>7. ReadWhatIsMarked'
  BY <1>2, <1>3, <1>4 DEF RssInv, RssTypeOK, ReadWhatIsMarked, Rebuilding, SetDirty
<1>8. PublishedStays' /\ FeedIsFresh'
  BY <1>2, <1>3 DEF RssInv, PublishedStays, FeedIsFresh, SetDirty, Dirty
<1> QED
  BY <1>1, <1>5, <1>6, <1>7, <1>8 DEF RssInv

\* The feed is asked for: it is marked, or as new as the edits that are.
LEMMA TestDirtyInv ==
  ASSUME RssInv, NEW b \in Builders, TestDirty(b) PROVE RssInv'
<1>1. RssTypeOK'
  BY RssAssumption DEF RssInv, RssTypeOK, TestDirty, Move
<1>2. \A h \in Editors \cup Builders : h # b => rpc'[h] = rpc[h]
  BY DEF RssInv, RssTypeOK, TestDirty, Move
<1>3. rpc[b] = "idle" /\ rpc'[b] \in {"query", "give"} /\ (rpc'[b] = "give" => ~mDirty)
  BY DEF RssInv, RssTypeOK, TestDirty, Move
<1>4. asked'[b] = marked /\ \A c \in Builders : c # b => asked'[c] = asked[c]
  BY DEF RssInv, RssTypeOK, TestDirty
<1>5. NothingAhead'
  BY <1>4, RssAssumption DEF RssInv, RssTypeOK, NothingAhead, TestDirty
<1>6. UnreadIsUnmarked' /\ StaleIsMarked'
  BY <1>2, <1>3, RssAssumption DEF RssInv, UnreadIsUnmarked, StaleIsMarked, TestDirty, Rebuilding
<1>7. ReadWhatIsMarked' /\ PublishedStays'
  BY <1>2, <1>3, <1>4 DEF RssInv, ReadWhatIsMarked, PublishedStays, Rebuilding, TestDirty
<1>8. FeedIsFresh'
  BY <1>2, <1>3, <1>4 DEF RssInv, FeedIsFresh, PublishedStays, TestDirty
<1> QED
  BY <1>1, <1>5, <1>6, <1>7, <1>8 DEF RssInv

\* The rebuild reads all that is written.
LEMMA QueryInv ==
  ASSUME RssInv, NEW b \in Builders, Query(b) PROVE RssInv'
<1>1. RssTypeOK'
  BY RssAssumption DEF RssInv, RssTypeOK, Query, Move
<1>2. \A h \in Editors \cup Builders : h # b => rpc'[h] = rpc[h]
  BY DEF RssInv, RssTypeOK, Query, Move
<1>3. rpc[b] = "query" /\ rpc'[b] = "publish"
  BY DEF RssInv, RssTypeOK, Query, Move
<1>4. queried'[b] = database /\ \A c \in Builders : c # b => queried'[c] = queried[c]
  BY DEF RssInv, RssTypeOK, Query
<1>5. NothingAhead'
  BY <1>4, RssAssumption DEF RssInv, RssTypeOK, NothingAhead, Query
<1>6. UnreadIsUnmarked'
  BY <1>2, <1>3, <1>4, RssAssumption DEF RssInv, RssTypeOK, UnreadIsUnmarked, Query, Rebuilding
<1>7. StaleIsMarked'
  BY <1>2, <1>3, <1>4, RssAssumption DEF RssInv, RssTypeOK, StaleIsMarked, Query
<1>8. ReadWhatIsMarked' /\ PublishedStays' /\ FeedIsFresh'
  BY <1>2, <1>3, <1>4, RssAssumption
  DEF RssInv, RssTypeOK, ReadWhatIsMarked, PublishedStays, FeedIsFresh, NothingAhead,
      Rebuilding, Query
<1> QED
  BY <1>1, <1>5, <1>6, <1>7, <1>8 DEF RssInv

\* The feed only becomes older when rebuilds publish out of order; a rebuild that has
\* read everything, with none behind, makes up for what was missed.
LEMMA PublishInv ==
  ASSUME RssInv, NEW b \in Builders, Publish(b) PROVE RssInv'
<1>1. RssTypeOK'
  <2>1. mDirty' \in BOOLEAN /\ missed' \in BOOLEAN
    BY Zenon DEF RssInv, RssTypeOK, Publish
  <2>2. mXml' \in 0 .. MaxVersion
    BY DEF RssInv, RssTypeOK, Publish, Feed
  <2>3. rpc' \in [Editors \cup Builders ->
                 {"idle", "written", "query", "publish", "clear", "give"}]
    BY DEF RssInv, RssTypeOK, Publish, Move
  <2> QED
    BY <2>1, <2>2, <2>3, Zenon DEF RssInv, RssTypeOK, Publish
<1>2. \A h \in Editors \cup Builders : h # b => rpc'[h] = rpc[h]
  BY DEF RssInv, RssTypeOK, Publish, Move
<1>3. rpc[b] = "publish" /\ rpc'[b] = "clear"
  BY DEF RssInv, RssTypeOK, Publish, Move
<1>4. mXml' = queried[b]
  BY DEF Publish, Feed
<1>5. NothingAhead'
  BY <1>4 DEF RssInv, NothingAhead, Publish
<1>6. \A c \in Builders : c # b => Rebuilding(c)' = Rebuilding(c)
  BY <1>2 DEF Rebuilding
<1>7. CASE Behind = {}
  <2>1. \A c \in Builders : Rebuilding(c) => queried[c] = database
    BY <1>7, RssAssumption DEF Behind, RssInv, RssTypeOK, NothingAhead
  <2>2. mXml' = database' /\ database' = database
    BY <2>1, <1>3, <1>4 DEF Publish, Rebuilding
  <2>3. \A c \in Builders : Rebuilding(c)' => queried'[c] = database
    BY <2>1, <1>3, <1>6 DEF Publish, Rebuilding
  <2>4. StaleIsMarked' /\ UnreadIsUnmarked'
    BY <2>2, <2>3, RssAssumption DEF StaleIsMarked, UnreadIsUnmarked, RssInv, RssTypeOK
  <2>5. ReadWhatIsMarked' /\ PublishedStays' /\ FeedIsFresh'
    BY <2>2, <2>3, <1>5, RssAssumption
    DEF ReadWhatIsMarked, PublishedStays, FeedIsFresh, NothingAhead, Rebuilding, RssInv,
        RssTypeOK, Publish
  <2> QED
    BY <1>1, <1>5, <2>4, <2>5 DEF RssInv
<1>8. CASE Behind # {}
  <2>1. ~missed' => ~missed /\ mXml <= mXml'
    <3>1. ~missed' => ~missed /\ ~(queried[b] < mXml)
      BY <1>8, Zenon DEF Publish
    <3>2. queried[b] \in Int /\ mXml \in Int
      BY RssAssumption DEF RssInv, RssTypeOK
    <3>3. ~(queried[b] < mXml) => mXml <= queried[b]
      BY <3>2
    <3> QED
      BY <3>1, <3>3, <1>4, Zenon
  <2>2. UnreadIsUnmarked'
    BY <1>2, <1>3, <2>1, RssAssumption DEF RssInv, UnreadIsUnmarked, Publish, Rebuilding
  <2>3. StaleIsMarked'
    BY <1>2, <1>3, <1>4, <2>1, RssAssumption
    DEF RssInv, RssTypeOK, StaleIsMarked, UnreadIsUnmarked, Publish, Rebuilding
  <2>4. ReadWhatIsMarked'
    BY <1>2, <1>3, <2>1 DEF RssInv, ReadWhatIsMarked, Publish, Rebuilding
  <2>5. PublishedStays' /\ FeedIsFresh'
    BY <1>1, <1>2, <1>3, <1>4, <2>1, RssAssumption
    DEF RssInv, RssTypeOK, PublishedStays, FeedIsFresh, Publish
  <2> QED
    BY <1>1, <1>5, <2>2, <2>3, <2>4, <2>5 DEF RssInv
<1> QED
  BY <1>7, <1>8

\* The flag is cleared: what is in place is as new as what was read.
LEMMA ClearDirtyInv ==
  ASSUME RssInv, NEW b \in Builders, ClearDirty(b) PROVE RssInv'
<1>1. RssTypeOK'
  <2>1. mDirty' \in BOOLEAN /\ missed' \in BOOLEAN
    BY Zenon DEF RssInv, RssTypeOK, ClearDirty
  <2>2. rpc' \in [Editors \cup Builders ->
                 {"idle", "written", "query", "publish", "clear", "give"}]
    BY DEF RssInv, RssTypeOK, ClearDirty, Move
  <2>3. queried' \in [Builders -> 0 .. MaxVersion]
    <3>1. 0 \in 0 .. MaxVersion
      BY RssAssumption
    <3>2. queried \in [Builders -> 0 .. MaxVersion] /\ queried' = [queried EXCEPT ![b] = 0]
      BY Zenon DEF RssInv, RssTypeOK, ClearDirty
    <3> QED
      BY ONLY <3>1, <3>2
  <2> QED
    BY <2>1, <2>2, <2>3, Zenon DEF RssInv, RssTypeOK, ClearDirty
<1>2. \A h \in Editors \cup Builders : h # b => rpc'[h] = rpc[h]
  BY DEF RssInv, RssTypeOK, ClearDirty, Move
<1>3. rpc[b] = "clear" /\ rpc'[b] = "give"
  BY DEF RssInv, RssTypeOK, ClearDirty, Move
<1>4. queried'[b] = 0 /\ \A c \in Builders : c # b => queried'[c] = queried[c]
  BY DEF RssInv, RssTypeOK, ClearDirty
<1>5. ~missed => queried[b] <= mXml /\ marked <= queried[b] /\ asked[b] <= queried[b]
  BY <1>3 DEF RssInv, PublishedStays, ReadWhatIsMarked, Rebuilding
<1>6. NothingAhead'
  BY <1>4, RssAssumption DEF RssInv, RssTypeOK, NothingAhead, ClearDirty
<1>7. UnreadIsUnmarked'
  BY <1>2, <1>3, <1>4, RssAssumption DEF RssInv, UnreadIsUnmarked, ClearDirty, Rebuilding
<1>8. StaleIsMarked'
  <2> SUFFICES ASSUME mXml < database, ~missed
               PROVE  \E e \in Editors : rpc'[e] = "written"
    BY DEF StaleIsMarked, ClearDirty
  <2>1. queried[b] < database
    BY <1>5, RssAssumption DEF RssInv, RssTypeOK
  <2> QED
    BY <2>1, <1>2, <1>3, RssAssumption DEF RssInv, UnreadIsUnmarked, Rebuilding
<1>9. ReadWhatIsMarked'
  BY <1>2, <1>3, <1>4 DEF RssInv, ReadWhatIsMarked, ClearDirty, Rebuilding
<1>10. PublishedStays' /\ FeedIsFresh'
  BY <1>1, <1>2, <1>3, <1>4, <1>5, RssAssumption
  DEF RssInv, RssTypeOK, PublishedStays, FeedIsFresh, ClearDirty
<1> QED
  BY <1>1, <1>6, <1>7, <1>8, <1>9, <1>10 DEF RssInv

LEMMA GiveInv ==
  ASSUME RssInv, NEW b \in Builders, Give(b) PROVE RssInv'
<1>1. RssTypeOK'
  BY RssAssumption DEF RssInv, RssTypeOK, Give, Move
<1>2. \A h \in Editors \cup Builders : h # b => rpc'[h] = rpc[h]
  BY DEF RssInv, RssTypeOK, Give, Move
<1>3. rpc[b] = "give" /\ rpc'[b] = "idle"
  BY DEF RssInv, RssTypeOK, Give, Move
<1>4. asked'[b] = 0 /\ \A c \in Builders : c # b => asked'[c] = asked[c]
  BY DEF RssInv, RssTypeOK, Give
<1>5. NothingAhead'
  BY <1>4, RssAssumption DEF RssInv, RssTypeOK, NothingAhead, Give
<1>6. UnreadIsUnmarked' /\ StaleIsMarked'
  BY <1>2, <1>3, RssAssumption DEF RssInv, UnreadIsUnmarked, StaleIsMarked, Give, Rebuilding
<1>7. ReadWhatIsMarked' /\ PublishedStays' /\ FeedIsFresh'
  BY <1>2, <1>3, <1>4
  DEF RssInv, ReadWhatIsMarked, PublishedStays, FeedIsFresh, Rebuilding, Give
<1> QED
  BY <1>1, <1>5, <1>6, <1>7 DEF RssInv

-----------------------------------------------------------------------------
\* The invariant holds in every behaviour of the feed.
THEOREM RssInvariant == RssSpec => []RssInv
<1>1. RssInv /\ [RssNext]_rssVars => RssInv'
  <2> SUFFICES ASSUME RssInv, [RssNext]_rssVars PROVE RssInv'
    OBVIOUS
  <2>1. CASE UNCHANGED rssVars
    BY <2>1 DEF rssVars, RssInv, RssTypeOK, NothingAhead, UnreadIsUnmarked, ReadWhatIsMarked,
                PublishedStays, StaleIsMarked, FeedIsFresh, Rebuilding
  <2>2. CASE RssNext
    BY <2>2, WriteInv, SetDirtyInv, EditCategoryInv, TestDirtyInv, QueryInv, PublishInv, ClearDirtyInv, GiveInv
    DEF RssNext
  <2> QED
    BY <2>1, <2>2
<1> QED
  BY <1>1, RssInitInv, PTL DEF RssSpec

\* StaleIsMarked: as long as no edit was missed (~missed), a feed older than the database
\* is marked, or about to be.  The feed of this code goes stale in no other way than the
\* three that set missed.
THEOREM RssStaleIsMarked == RssSpec => []StaleIsMarked
BY RssInvariant, PTL DEF RssInv

\* FeedIsFresh: as long as no edit was missed (~missed), getRssXml gives what was marked
\* when it was asked, or newer.
THEOREM RssFeedIsFresh == RssSpec => []FeedIsFresh
BY RssInvariant, PTL DEF RssInv
=============================================================================

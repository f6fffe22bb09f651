----------------------------- MODULE RssBuilder -----------------------------
(***************************************************************************)
(* The cached RSS feed.  Handlers that edit posts write the database and    *)
(* then set the dirty flag, those that edit categories only write; handlers *)
(* that serve the feed rebuild it if the flag is set.  Only the flag is     *)
(* atomic.  A version stands for what the feed shows of the database.       *)
(***************************************************************************)
EXTENDS Integers

CONSTANTS Editors, Builders,  \* sub-loops, by what they are handling
          MaxVersion          \* bound: so many edits

ASSUME RssAssumption == MaxVersion \in Nat /\ Editors \cap Builders = {}

VARIABLES
  database,      \* version of the posts and the names of their categories
  mXml, mDirty,  \* version of the feed; the flag
  rpc, queried,  \* step of each handler; the version its rebuild has read
  missed,        \* history: an edit was lost, and no rebuild since has read everything
  marked, asked  \* history: the edits that are marked, now and when a builder asked

rssVars == <<database, mXml, mDirty, rpc, queried, missed, marked, asked>>

RssInit ==
  /\ database = 0
  /\ mXml = 0
  /\ mDirty = FALSE
  /\ rpc = [h \in Editors \cup Builders |-> "idle"]
  /\ queried = [b \in Builders |-> 0]
  /\ missed = FALSE
  /\ marked = 0
  /\ asked = [b \in Builders |-> 0]

Move(h, from, to) ==
  /\ rpc[h] = from
  /\ rpc' = [rpc EXCEPT ![h] = to]

-----------------------------------------------------------------------------
(* postOrModifyBlog, deleteBlog; postOrModifyCategory, deleteCategory *)

Write(e) ==
  /\ database < MaxVersion
  /\ Move(e, "idle", "written")
  /\ database' = database + 1
  /\ UNCHANGED <<mXml, mDirty, queried, missed, marked, asked>>

Rebuilding(b) == rpc[b] \in {"publish", "clear"}

\* The feed names the category of a post, but an edit of a category is not marked: it
\* is shown only if a rebuild is due anyway.
EditCategory(e) ==
  /\ database < MaxVersion
  /\ rpc[e] = "idle"
  /\ database' = database + 1
  /\ missed' = (missed \/ ~mDirty \/ \E b \in Builders : Rebuilding(b))
  /\ UNCHANGED <<mXml, mDirty, rpc, queried, marked, asked>>

\* Builders that have read an older version and have yet to clear the flag.
Behind == {b \in Builders : Rebuilding(b) /\ queried[b] < database}

\* Wrong on purpose: an edit forgets to mark the feed.
DirtyForgotten == mDirty

Dirty == TRUE

SetDirty(e) ==
  /\ Move(e, "written", "idle")
  /\ mDirty' = Dirty
  /\ missed' = (missed \/ Behind # {})
  /\ marked' = IF \A f \in Editors \ {e} : rpc[f] = "idle" THEN database ELSE marked
  /\ UNCHANGED <<database, mXml, queried, asked>>

-----------------------------------------------------------------------------
(* getRssXml *)

TestDirty(b) ==
  /\ Move(b, "idle", IF mDirty THEN "query" ELSE "give")
  /\ asked' = [asked EXCEPT ![b] = marked]
  /\ UNCHANGED <<database, mXml, mDirty, queried, missed, marked>>

\* rebuild
Query(b) ==
  /\ Move(b, "query", "publish")
  /\ queried' = [queried EXCEPT ![b] = database]
  /\ UNCHANGED <<database, mXml, mDirty, missed, marked, asked>>

\* Wrong on purpose: the new feed is not put in place.
FeedKept(b) == mXml

Feed(b) == queried[b]

\* Of two rebuilds the one that read first may publish last.
Publish(b) ==
  /\ Move(b, "publish", "clear")
  /\ mXml' = Feed(b)
  /\ missed' = (Behind # {} /\ (missed \/ queried[b] < mXml))
  /\ UNCHANGED <<database, mDirty, queried, marked, asked>>

ClearDirty(b) ==
  /\ Move(b, "clear", "give")
  /\ mDirty' = FALSE
  /\ queried' = [queried EXCEPT ![b] = 0]
  /\ UNCHANGED <<database, mXml, missed, marked, asked>>

Give(b) ==
  /\ Move(b, "give", "idle")
  /\ asked' = [asked EXCEPT ![b] = 0]
  /\ UNCHANGED <<database, mXml, mDirty, queried, missed, marked>>

RssNext ==
  \/ \E e \in Editors : Write(e) \/ SetDirty(e) \/ EditCategory(e)
  \/ \E b \in Builders : TestDirty(b) \/ Query(b) \/ Publish(b) \/ ClearDirty(b) \/ Give(b)

RssSpec == RssInit /\ [][RssNext]_rssVars

-----------------------------------------------------------------------------
RssTypeOK ==
  /\ database \in 0 .. MaxVersion /\ mXml \in 0 .. MaxVersion
  /\ mDirty \in BOOLEAN /\ missed \in BOOLEAN
  /\ rpc \in [Editors \cup Builders -> {"idle", "written", "query", "publish", "clear", "give"}]
  /\ queried \in [Builders -> 0 .. MaxVersion]
  /\ marked \in 0 .. MaxVersion
  /\ asked \in [Builders -> 0 .. MaxVersion]

\* As long as no edit was missed, a feed older than the database is marked, is about to
\* be, or is about to be replaced.  This excludes what really goes wrong in this code,
\* until a rebuild has read everything again: an edit marked while a rebuild that had
\* read before it was on its way, an edit of a category when no rebuild was due, and
\* rebuilds published out of order.  What it shows is that nothing else does.
StaleIsMarked ==
  (mXml < database /\ ~missed) =>
    \/ mDirty
    \/ \E e \in Editors : rpc[e] = "written"
    \/ \E b \in Builders : rpc[b] = "publish" /\ queried[b] > mXml

\* "Returns cached RSS XML; rebuilds first if dirty": as long as no edit was missed,
\* what is given is no older than the edits that were marked when it was asked for.
\* The same three cases are excluded.
FeedIsFresh ==
  \A b \in Builders : rpc[b] = "give" /\ ~missed => mXml >= asked[b]
=============================================================================

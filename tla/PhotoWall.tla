----------------------------- MODULE PhotoWall ------------------------------
(***************************************************************************)
(* The photo wall: handlers that insert, change and delete photos, and the  *)
(* pool that fetches each new image and stores its dimensions.  The         *)
(* dimensions of an image are named by its url.  The database outlives the  *)
(* process; at its start the server submits every photo that has none.      *)
(***************************************************************************)
EXTENDS ThreadPool, FiniteSets, FiniteSetsExt

CONSTANTS Handlers, Urls,
          NoUrl,     \* the empty url, and no dimensions
          MaxPhoto,  \* bound: ids are 1 .. MaxPhoto
          MaxPosts, MaxJobs, MaxDeaths  \* bounds: so often in a behaviour

Photos == 1 .. MaxPhoto
NoPhoto == 0
Links == Urls \cup {NoUrl}

ASSUME PhotoAssumption ==
  /\ {MaxPhoto, MaxPosts, MaxJobs, MaxDeaths} \subseteq Nat
  /\ NoUrl \notin Urls /\ "none" \notin Links /\ "deleted" \notin Links
  /\ Jobs = [n : 1 .. MaxJobs, photo : Photos, url : Links]

VARIABLES
  url, dims,          \* the Photos table: "none" before, "deleted" after its row
  hpc, hphoto, hurl, refreshId,  \* PostPhoto of each handler
  posts, jobs, deaths,           \* counted for the bounds; jobs numbers the tasks
  down,               \* the process does not run
  missing,            \* photos its start has yet to submit
  excused             \* history: photos whose dimensions may rightly be old

handlerVars == <<hpc, hphoto, hurl, refreshId>>
photoVars == <<poolVars, url, dims, handlerVars, posts, jobs, deaths, down, missing, excused>>

PhotoInit ==
  /\ PoolInit
  /\ url = [p \in Photos |-> "none"]
  /\ dims = [p \in Photos |-> NoUrl]
  /\ hpc = [h \in Handlers |-> "idle"]
  /\ hphoto = [h \in Handlers |-> NoPhoto]
  /\ hurl = [h \in Handlers |-> NoUrl]
  /\ refreshId = [h \in Handlers |-> NoPhoto]
  /\ posts = 0 /\ jobs = 0 /\ deaths = 0
  /\ down = FALSE
  /\ missing = {}
  /\ excused = {}

Exists(p) == p \in Photos /\ url[p] \in Links

\* A post or a job is on its way for the photo.
InFlight(p) ==
  \/ p \in missing
  \/ \E j \in Queued \cup Running : j.photo = p
  \/ \E h \in Handlers : hpc[h] # "idle" /\ p \in {hphoto[h], refreshId[h]}

-----------------------------------------------------------------------------
(* PostPhoto *)

\* unnoticed: the url will change without anybody having seen it.
Begin(h, pc, p, u, refresh, unnoticed) ==
  /\ hpc[h] = "idle" /\ ~down /\ destructor = "none" /\ missing = {}
  /\ posts < MaxPosts
  /\ posts' = posts + 1
  /\ hpc' = [hpc EXCEPT ![h] = pc]
  /\ hphoto' = [hphoto EXCEPT ![h] = p]
  /\ hurl' = [hurl EXCEPT ![h] = u]
  /\ refreshId' = [refreshId EXCEPT ![h] = refresh]
  /\ excused' = IF InFlight(p) \/ unnoticed THEN excused \cup {p} ELSE excused
  /\ UNCHANGED <<poolVars, dims, jobs, deaths, down, missing>>

\* What the handler forgets when it is done.
Done(h) ==
  /\ hpc' = [hpc EXCEPT ![h] = "idle"]
  /\ hphoto' = [hphoto EXCEPT ![h] = NoPhoto]
  /\ hurl' = [hurl EXCEPT ![h] = NoUrl]
  /\ refreshId' = [refreshId EXCEPT ![h] = NoPhoto]

InsertPhoto(h, u) ==
  \E p \in Photos :
    /\ url[p] = "none" /\ \A q \in Photos : url[q] = "none" => p <= q
    /\ Begin(h, "readBack", p, u, NoPhoto, FALSE)
    /\ url' = [url EXCEPT ![p] = u]

\* QueryPhotoByAlbumAndUrl: the newest of those with this url, or the query fails.
ReadBack(h) ==
  LET found == {p \in Photos : url[p] = hurl[h]} IN
  \E newest \in {NoPhoto} \cup (IF found = {} THEN {} ELSE {Max(found)}) :
    /\ hpc[h] = "readBack"
    /\ excused' = IF newest = hphoto[h] THEN excused ELSE excused \cup {newest, hphoto[h]}
    /\ IF newest = NoPhoto
       THEN Done(h)
       ELSE /\ refreshId' = [refreshId EXCEPT ![h] = newest]
            /\ hpc' = [hpc EXCEPT ![h] = "submit"]
            /\ UNCHANGED <<hphoto, hurl>>
    /\ UNCHANGED <<poolVars, url, dims, posts, jobs, deaths, down, missing>>

\* Wrong on purpose: only photos without dimensions are measured.
ChangedUnmeasured(p, u) == dims[p] = NoUrl

Changed(p, u) == url[p] # u

\* QueryPhotoById, which may fail: then a change of the url goes unnoticed.
QueryPhoto(h, p, u) ==
  LET changed == Exists(p) /\ Changed(p, u) IN
  /\ \/ Begin(h, "update", p, u, IF changed THEN p ELSE NoPhoto, FALSE)
     \/ Begin(h, "update", p, u, NoPhoto, changed)
  /\ UNCHANGED url

UpdatePhoto(h) ==
  /\ hpc[h] = "update"
  /\ url' = IF Exists(hphoto[h]) THEN [url EXCEPT ![hphoto[h]] = hurl[h]] ELSE url
  /\ IF refreshId[h] = NoPhoto
     THEN Done(h)
     ELSE hpc' = [hpc EXCEPT ![h] = "submit"] /\ UNCHANGED <<hphoto, hurl, refreshId>>
  /\ UNCHANGED <<poolVars, dims, posts, jobs, deaths, down, missing, excused>>

\* The update fails: the handler answers with the error.
UpdateFails(h) ==
  /\ hpc[h] = "update"
  /\ Done(h)
  /\ UNCHANGED <<poolVars, url, dims, posts, jobs, deaths, down, missing, excused>>

NewJob(p, u) ==
  /\ jobs < MaxJobs
  /\ jobs' = jobs + 1
  /\ Push([n |-> jobs + 1, photo |-> p, url |-> u])

\* A photo without a url has no image to measure: it keeps the dimensions it has.
Submit(h) ==
  /\ hpc[h] = "submit"
  /\ IF hurl[h] = NoUrl THEN UNCHANGED <<poolVars, jobs>> ELSE NewJob(refreshId[h], hurl[h])
  /\ Done(h)
  /\ UNCHANGED <<url, dims, posts, deaths, down, missing, excused>>

DeletePhoto(p) ==
  /\ ~down /\ destructor = "none" /\ missing = {} /\ Exists(p)
  /\ posts < MaxPosts /\ posts' = posts + 1
  /\ url' = [url EXCEPT ![p] = "deleted"]
  /\ UNCHANGED <<poolVars, dims, handlerVars, jobs, deaths, down, missing, excused>>

-----------------------------------------------------------------------------
(* The pool *)

\* readImageDims may fail, and does for an empty url; UpdatePhotoDims looks at
\* nothing but the id, and needs the database, which is deleted before the pool is
\* stopped.
RunJob(w) ==
  LET j == task[w] IN
  /\ Finish(w)
  /\ \/ /\ destructor = "none" /\ j.url # NoUrl
        /\ dims' = IF Exists(j.photo) THEN [dims EXCEPT ![j.photo] = j.url] ELSE dims
        /\ UNCHANGED excused
     \/ /\ excused' = IF j.url = NoUrl THEN excused ELSE excused \cup {j.photo}
        /\ UNCHANGED dims
  /\ UNCHANGED <<url, handlerVars, posts, jobs, deaths, down, missing>>

PoolStep(A) == A /\ UNCHANGED <<url, dims, handlerVars, posts, jobs, deaths, down, missing, excused>>

\* ~Server has waited for the handlers; the pool is a static of the process.
Exit ==
  /\ ~down /\ missing = {}
  /\ \A h \in Handlers : hpc[h] = "idle"
  /\ PoolStep(Stop)

-----------------------------------------------------------------------------
(* The process ends, at once or after its exit, and is started again. *)

EndProcess ==
  /\ ~down /\ deaths < MaxDeaths
  /\ Die
  /\ down' = TRUE
  /\ missing' = {}
  /\ deaths' = deaths + 1
  /\ excused' = excused \cup {p \in Photos : InFlight(p)}
  /\ hpc' = [h \in Handlers |-> "idle"]
  /\ hphoto' = [h \in Handlers |-> NoPhoto]
  /\ hurl' = [h \in Handlers |-> NoUrl]
  /\ refreshId' = [h \in Handlers |-> NoPhoto]
  /\ UNCHANGED <<url, dims, posts, jobs>>

\* QueryPhotosMissingDims
MissingDims == {p \in Photos : Exists(p) /\ dims[p] = NoUrl}

Restart ==
  /\ down /\ down' = FALSE
  /\ missing' = MissingDims
  /\ excused' = excused \ MissingDims
  /\ UNCHANGED <<poolVars, url, dims, handlerVars, posts, jobs, deaths>>

\* Server::Server submits them before the server runs.
Backfill(p) ==
  /\ p \in missing
  /\ missing' = missing \ {p}
  /\ NewJob(p, url[p])
  /\ UNCHANGED <<url, dims, handlerVars, posts, deaths, down, excused>>

-----------------------------------------------------------------------------
HandlerStep(h) == ReadBack(h) \/ UpdatePhoto(h) \/ UpdateFails(h) \/ Submit(h)

WorkerStep(w) == PoolStep(Wait(w)) \/ PoolStep(Take(w)) \/ RunJob(w) \/ PoolStep(Return(w))

PhotoNext ==
  \/ \E h \in Handlers, u \in Links :
       InsertPhoto(h, u) \/ (\E p \in Photos : QueryPhoto(h, p, u))
  \/ \E h \in Handlers : HandlerStep(h)
  \/ \E p \in Photos : DeletePhoto(p)
  \/ ~down /\ \E w \in Workers : WorkerStep(w)
  \/ \E w \in Workers : PoolStep(WakeUp(w))
  \/ PoolStep(NotifyOne)
  \/ Exit \/ PoolStep(NotifyAll) \/ PoolStep(Join)
  \/ EndProcess \/ Restart \/ (\E p \in Photos : Backfill(p))

PhotoSpec == PhotoInit /\ [][PhotoNext]_photoVars

-----------------------------------------------------------------------------
\* The dimensions of a photo with a url are those of its image when nothing is on its
\* way for it.  Excused until a restart finds them missing are photos for which
\* readImageDims failed; a query failed, by which PostPhoto looks for the new row or
\* for the old url; two posts or jobs of the photo overlapped, inserts of one url
\* included, of which both read the newest row back; or the process ended in between.
DimsFollowUrl ==
  \A p \in Photos :
    (~down /\ url[p] \in Urls /\ ~InFlight(p) /\ p \notin excused) => dims[p] = url[p]

\* A job that was submitted is run, or lost with the process.
JobsEnd ==
  \A n \in 1 .. MaxJobs :
    (\E j \in Queued \cup Running : j.n = n) ~> ~(\E j \in Queued \cup Running : j.n = n)
=============================================================================

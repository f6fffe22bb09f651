----------------------------- MODULE MCServices -----------------------------
(* What the threads of the server share and none of which calls another: the  *)
(* login with its sessions, the feed, the photos with their pool, and the     *)
(* lock of a concurrent map.                                                  *)
EXTENDS AdminLogin, RssBuilder, PhotoWall, FConcurrentMap

VARIABLE service

serviceVars == <<loginVars, rssVars, photoVars, mapVars, service>>

MCJobs == [n : 1 .. MaxJobs, photo : Photos, url : Links]

ServicesInit ==
  /\ LoginInit /\ RssInit /\ PhotoInit /\ MapInit
  /\ service \in {"login", "rss", "photos", "map"}

ServicesNext ==
  \/ service = "login"  /\ LoginNext /\ UNCHANGED <<rssVars, photoVars, mapVars, service>>
  \/ service = "rss"    /\ RssNext   /\ UNCHANGED <<loginVars, photoVars, mapVars, service>>
  \/ service = "photos" /\ PhotoNext /\ UNCHANGED <<loginVars, rssVars, mapVars, service>>
  \/ service = "map"    /\ MapNext   /\ UNCHANGED <<loginVars, rssVars, photoVars, service>>
  \* The photos may rest: nobody has to post.
  \/ service = "photos" /\ UNCHANGED serviceVars

\* The main thread ticks every twenty seconds; requests to log in owe nothing.
LoginFairness == WF_loginVars(service = "login" /\ Sweep)

\* Threads that have something to do run, and the system starts the server again;
\* nobody has to post.
PhotoFairness ==
  LET on == service = "photos" IN
  /\ \A h \in Handlers : WF_photoVars(on /\ HandlerStep(h))
  /\ \A w \in Workers : WF_photoVars(on /\ ~down /\ WorkerStep(w))
  /\ WF_photoVars(on /\ PoolStep(NotifyOne)) /\ WF_photoVars(on /\ PoolStep(NotifyAll))
  /\ WF_photoVars(on /\ Restart) /\ \A p \in Photos : WF_photoVars(on /\ Backfill(p))

\* Every thread in an operation on the map runs, and the operation ends.  Nothing
\* more is asked of the mutexes: a thread may be passed over whenever it finds one
\* taken.
MapFairness == \A t \in Threads : WF_mapVars(service = "map" /\ Proceed(t))

ServicesSpec ==
  /\ ServicesInit /\ [][ServicesNext]_serviceVars
  /\ LoginFairness /\ PhotoFairness /\ MapFairness
=============================================================================

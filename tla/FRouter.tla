------------------------------- MODULE FRouter -------------------------------
(***************************************************************************)
(* The router of FeiLib (FRouter.cpp): sub-loop threads route requests,    *)
(* the application's main thread sweeps idle entries out of the route      *)
(* caches every quarter of an hour, and administrators register and        *)
(* unregister controllers while the server runs.  A controller that is     *)
(* registered again is the same object.                                    *)
(*                                                                         *)
(* One request method: the queues and the caches of the others are         *)
(* separate and alike.  An operation on a concurrent map is one step; the  *)
(* traversal in route() is many, and keeps erasing out meanwhile (see      *)
(* ReadersWriter).  What a pattern matches is a parameter.                 *)
(***************************************************************************)
EXTENDS Integers, FiniteSets

CONSTANTS Routers,      \* threads that call route()
          Admins,       \* threads that register and unregister controllers
          Controllers,
          Patterns,     \* path patterns, each with its controller function
          None,         \* an empty RouteResult, a local that is not in use
          Owner,        \* the controller of each pattern
          Shape,        \* what calcPathPatternPriority reads of each pattern
          Paths,
          Matches       \* the paths that each pattern matches

MaxPathLengthMatcherSupport == 1024

ASSUME NoneAssumption == None \notin Patterns \cup Paths \cup Controllers
ASSUME OwnerAssumption == Owner \in [Patterns -> Controllers]
ASSUME MatchesAssumption == Matches \in [Patterns -> SUBSET Paths]
ASSUME ShapeAssumption ==
  Shape \in [Patterns -> [len : 0 .. MaxPathLengthMatcherSupport,
                          undecided : Nat, wildCards : Nat, variables : Nat]]

VARIABLES
  controllerMap,  \* mControllerMap
  orderQueue,     \* mControllerOrderQueue: patterns with their priorities
  cached,         \* mRouteCaches: the pattern cached for each path
  stale,          \* paths whose entry was not used for CACHE_CLEAR_CACHE_UNUSED_TIME
  isHandleRoute,
  isHandleUnreg,
  rpc,            \* program point of each router
  rpath,          \* the path it was asked for
  rlast,          \* the priority its traversal has reached
  rres,           \* its result
  apc,            \* program point of each administrator
  actl,           \* the controller it works on
  atodo,          \* patterns it has to insert, or priorities it has to erase
  aprio,          \* the entry it is about to insert
  spc,            \* program point of the sweep
  since,          \* entries stored or used since the sweep read the clock
  toErase,        \* entries the sweep found overdue
  raced           \* history: routes or caches saw a table that was changing

routerVars == <<rpc, rpath, rlast, rres>>
adminVars  == <<apc, actl, atodo, aprio>>
sweepVars  == <<spc, since, toErase>>
cacheVars  == <<cached, stale>>
flags      == <<isHandleRoute, isHandleUnreg>>
vars == <<controllerMap, orderQueue, cacheVars, flags, routerVars, adminVars,
          sweepVars, raced>>

Begin == -1   \* a traversal that has not started

-----------------------------------------------------------------------------
Init ==
  /\ controllerMap = {} /\ orderQueue = {}
  /\ cached = [p \in Paths |-> None] /\ stale = {}
  /\ isHandleRoute = FALSE /\ isHandleUnreg = FALSE
  /\ rpc = [r \in Routers |-> "idle"]
  /\ rpath = [r \in Routers |-> None]
  /\ rlast = [r \in Routers |-> Begin]
  /\ rres = [r \in Routers |-> None]
  /\ apc = [a \in Admins |-> "idle"]
  /\ actl = [a \in Admins |-> None]
  /\ atodo = [a \in Admins |-> {}]
  /\ aprio = [a \in Admins |-> None]
  /\ spc = "idle" /\ since = {} /\ toErase = {}
  /\ raced = FALSE

-----------------------------------------------------------------------------
(* The route cache. *)

Used(p) ==
  /\ stale' = stale \ {p}
  /\ since' = IF spc = "clock" THEN since \cup {p} ELSE since

\* An entry goes, and what was known of its age.
Drop(P) ==
  /\ cached' = [p \in Paths |-> IF p \in P THEN None ELSE cached[p]]
  /\ stale' = stale \ P

\* putCache: insert leaves an entry that is already there.
PutCache(p, pat) ==
  IF cached[p] = None
  THEN cached' = [cached EXCEPT ![p] = pat] /\ Used(p)
  ELSE UNCHANGED <<cacheVars, since>>

\* Time passes without a use of the entry.  One that comes of age after the
\* sweep read the clock is left for the next sweep.
GrowStale(p) ==
  /\ cached[p] # None /\ p \notin stale /\ spc # "clock"
  /\ stale' = stale \cup {p}
  /\ UNCHANGED <<controllerMap, orderQueue, cached, flags, routerVars,
                 adminVars, sweepVars>>

-----------------------------------------------------------------------------
(* route() *)

RGo(r, from, to) ==
  /\ rpc[r] = from
  /\ rpc' = [rpc EXCEPT ![r] = to]

Route(r, p) ==
  /\ RGo(r, "idle", "gate")
  /\ rpath' = [rpath EXCEPT ![r] = p]
  /\ UNCHANGED <<controllerMap, orderQueue, cacheVars, flags, rlast, rres, adminVars,
                 sweepVars>>

\* The spin on isHandleUnreg ends.
PassGate(r) ==
  /\ RGo(r, "gate", "enter")
  /\ ~isHandleUnreg
  /\ UNCHANGED <<controllerMap, orderQueue, cacheVars, flags, rpath, rlast, rres,
                 adminVars, sweepVars>>

EnterRoute(r) ==
  /\ RGo(r, "enter", "lookup")
  /\ isHandleRoute' = TRUE
  /\ UNCHANGED <<controllerMap, orderQueue, cacheVars, isHandleUnreg, rpath, rlast,
                 rres, adminVars, sweepVars>>

\* getRouteInCache: the first find.
FindInCache(r) ==
  /\ RGo(r, "lookup", IF cached[rpath[r]] = None THEN "search" ELSE "hit")
  /\ UNCHANGED <<controllerMap, orderQueue, cacheVars, flags, rpath, rlast, rres,
                 adminVars, sweepVars>>

\* getRouteInCache: findAndModifyLocked, whose result is not looked at.
TakeFromCache(r) ==
  LET p == rpath[r] IN
  /\ RGo(r, "hit", "leave")
  /\ IF cached[p] # None THEN Used(p) ELSE UNCHANGED <<stale, since>>
  /\ rres' = [rres EXCEPT ![r] = cached[p]]
  /\ UNCHANGED <<controllerMap, orderQueue, cached, flags, rpath, rlast, adminVars,
                 spc, toErase>>

\* The entries a traversal has not reached; the comparison of the map puts
\* the greatest priority first.
Ahead(r) == {e \in orderQueue : rlast[r] = Begin \/ e.priority < rlast[r]}

\* Wrong on purpose: the smallest priority first.
FirstAscending(S) == CHOOSE e \in S : \A d \in S : e.priority <= d.priority

First(S) == CHOOSE e \in S : \A d \in S : e.priority >= d.priority

\* The map has no further entry, or the path matches the next one.
EndOfTraversal(r) ==
  /\ RGo(r, "search", "leave")
  /\ Ahead(r) = {}
  /\ UNCHANGED <<rlast, rres>>

MatchNext(r) ==
  LET e == First(Ahead(r)) IN
  /\ RGo(r, "search", "found")
  /\ Ahead(r) # {} /\ rpath[r] \in Matches[e.pattern]
  /\ rres' = [rres EXCEPT ![r] = e.pattern]
  /\ UNCHANGED rlast

\* Wrong on purpose: the traversal does not move on.
SkipNextAgain(r) ==
  /\ RGo(r, "search", "search")
  /\ Ahead(r) # {} /\ rpath[r] \notin Matches[First(Ahead(r)).pattern]
  /\ UNCHANGED <<rlast, rres>>

SkipNext(r) ==
  LET e == First(Ahead(r)) IN
  /\ RGo(r, "search", "search")
  /\ Ahead(r) # {} /\ rpath[r] \notin Matches[e.pattern]
  /\ rlast' = [rlast EXCEPT ![r] = e.priority]
  /\ UNCHANGED rres

\* One step of the traversal.
Visit(r) ==
  /\ EndOfTraversal(r) \/ MatchNext(r) \/ SkipNext(r)
  /\ UNCHANGED <<controllerMap, orderQueue, cacheVars, flags, rpath, adminVars, sweepVars>>

PutFound(r) ==
  /\ RGo(r, "found", "leave")
  /\ PutCache(rpath[r], rres[r])
  /\ UNCHANGED <<controllerMap, orderQueue, flags, rpath, rlast, rres, adminVars,
                 spc, toErase>>

ForgetRoute(r) ==
  /\ rpath' = [rpath EXCEPT ![r] = None]
  /\ rlast' = [rlast EXCEPT ![r] = Begin]
  /\ rres' = [rres EXCEPT ![r] = None]

\* Wrong on purpose: the flag is cleared only when there is a result.
LeaveRouteIfFound(r) ==
  /\ RGo(r, "leave", "idle")
  /\ isHandleRoute' = (isHandleRoute /\ rres[r] = None)
  /\ ForgetRoute(r)
  /\ UNCHANGED <<controllerMap, orderQueue, cacheVars, isHandleUnreg, adminVars,
                 sweepVars>>

\* The destructor of __DoHandle, and the return.
LeaveRoute(r) ==
  /\ RGo(r, "leave", "idle")
  /\ isHandleRoute' = FALSE
  /\ ForgetRoute(r)
  /\ UNCHANGED <<controllerMap, orderQueue, cacheVars, isHandleUnreg, adminVars,
                 sweepVars>>

-----------------------------------------------------------------------------
(* Registering a controller: regController, then regControllerFunc for each  *)
(* of its patterns.                                                          *)

AGo(a, from, to) ==
  /\ apc[a] = from
  /\ apc' = [apc EXCEPT ![a] = to]

AEnd(a, from) ==
  /\ AGo(a, from, "idle")
  /\ actl' = [actl EXCEPT ![a] = None]
  /\ atodo' = [atodo EXCEPT ![a] = {}]
  /\ aprio' = [aprio EXCEPT ![a] = None]

RegController(a, c) ==
  /\ AGo(a, "idle", "regFind")
  /\ actl' = [actl EXCEPT ![a] = c]
  /\ UNCHANGED <<controllerMap, orderQueue, cacheVars, flags, routerVars, atodo,
                 aprio, sweepVars>>

\* A name that is taken is an exception.
RegFind(a) ==
  /\ IF actl[a] \in controllerMap
     THEN AEnd(a, "regFind")
     ELSE AGo(a, "regFind", "regInsert") /\ UNCHANGED <<actl, atodo, aprio>>
  /\ UNCHANGED <<controllerMap, orderQueue, cacheVars, flags, routerVars, sweepVars>>

RegInsert(a) ==
  /\ AGo(a, "regInsert", "regFunc")
  /\ controllerMap' = controllerMap \cup {actl[a]}
  /\ atodo' = [atodo EXCEPT ![a] = {pat \in Patterns : Owner[pat] = actl[a]}]
  /\ UNCHANGED <<orderQueue, cacheVars, flags, routerVars, actl, aprio, sweepVars>>

\* Wrong on purpose: the priority is not counted from a base.
PatternPriorityNoBase(pat) ==
  100 * Shape[pat].undecided
    + 10000 * (Shape[pat].wildCards + Shape[pat].variables) - Shape[pat].len

\* calcPathPatternPriority
PatternPriority(pat) ==
  MaxPathLengthMatcherSupport - Shape[pat].len + 100 * Shape[pat].undecided
    + 10000 * (Shape[pat].wildCards + Shape[pat].variables)

\* Wrong on purpose: an equal priority is not moved.
FreePriorityTaken(pat) == PatternPriority(pat)

\* The first free priority from the pattern's own on; the queue cannot take more
\* of them than it has entries.
FreePriority(pat) ==
  LET first == PatternPriority(pat)
      taken == {e.priority : e \in orderQueue}
  IN  CHOOSE n \in first .. first + Cardinality(orderQueue) :
        n \notin taken /\ first .. n - 1 \subseteq taken

\* regControllerFunc up to the insertion; without the controller, an exception.
RegFunc(a) ==
  \/ /\ AEnd(a, "regFunc")
     /\ atodo[a] = {} \/ actl[a] \notin controllerMap
     /\ UNCHANGED <<controllerMap, orderQueue, cacheVars, flags, routerVars, sweepVars>>
  \/ \E pat \in atodo[a] :
       /\ AGo(a, "regFunc", "regPut")
       /\ actl[a] \in controllerMap
       /\ atodo' = [atodo EXCEPT ![a] = @ \ {pat}]
       /\ aprio' = [aprio EXCEPT ![a] = [pattern |-> pat, priority |-> FreePriority(pat)]]
       /\ UNCHANGED <<controllerMap, orderQueue, cacheVars, flags, routerVars, actl,
                      sweepVars>>

\* insert() keeps an entry that is already there.
RegPut(a) ==
  /\ AGo(a, "regPut", "regFunc")
  /\ orderQueue' = IF \E e \in orderQueue : e.priority = aprio[a].priority
                   THEN orderQueue
                   ELSE orderQueue \cup {aprio[a]}
  /\ aprio' = [aprio EXCEPT ![a] = None]
  /\ UNCHANGED <<controllerMap, cacheVars, flags, routerVars, actl, atodo, sweepVars>>

-----------------------------------------------------------------------------
(* unregController() *)

UnregController(a, c) ==
  /\ AGo(a, "idle", "waitUnreg")
  /\ actl' = [actl EXCEPT ![a] = c]
  /\ UNCHANGED <<controllerMap, orderQueue, cacheVars, flags, routerVars, atodo,
                 aprio, sweepVars>>

WaitUnreg(a) ==
  /\ AGo(a, "waitUnreg", "setUnreg")
  /\ ~isHandleUnreg
  /\ UNCHANGED <<controllerMap, orderQueue, cacheVars, flags, routerVars, actl,
                 atodo, aprio, sweepVars>>

SetUnreg(a) ==
  /\ AGo(a, "setUnreg", "waitRoute")
  /\ isHandleUnreg' = TRUE
  /\ UNCHANGED <<controllerMap, orderQueue, cacheVars, isHandleRoute, routerVars,
                 actl, atodo, aprio, sweepVars>>

WaitRoute(a) ==
  /\ AGo(a, "waitRoute", "clear")
  /\ ~isHandleRoute
  /\ UNCHANGED <<controllerMap, orderQueue, cacheVars, flags, routerVars, actl,
                 atodo, aprio, sweepVars>>

\* Wrong on purpose: the cache is kept.
ClearCacheForgotten(a) ==
  /\ AGo(a, "clear", "erase")
  /\ UNCHANGED <<controllerMap, orderQueue, cacheVars, flags, routerVars, actl,
                 atodo, aprio, sweepVars>>

ClearCache(a) ==
  /\ AGo(a, "clear", "erase")
  /\ Drop(Paths)
  /\ UNCHANGED <<controllerMap, orderQueue, flags, routerVars, actl, atodo, aprio,
                 sweepVars>>

\* Find the controller and erase it; without it, return.
EraseController(a) ==
  /\ IF actl[a] \in controllerMap
     THEN AGo(a, "erase", "collect") ELSE AGo(a, "erase", "unset")
  /\ controllerMap' = controllerMap \ {actl[a]}
  /\ UNCHANGED <<orderQueue, cacheVars, flags, routerVars, actl, atodo, aprio,
                 sweepVars>>

CollectPatterns(a) ==
  /\ AGo(a, "collect", "erasePatterns")
  /\ atodo' = [atodo EXCEPT ![a] =
                 {e.priority : e \in {d \in orderQueue : Owner[d.pattern] = actl[a]}}]
  /\ UNCHANGED <<controllerMap, orderQueue, cacheVars, flags, routerVars, actl,
                 aprio, sweepVars>>

\* erase() is alone in the map: no traversal is under way.
Traversing == {r \in Routers : rpc[r] \in {"search", "found"}}

ErasePattern(a) ==
  \/ \E k \in atodo[a] :
       /\ AGo(a, "erasePatterns", "erasePatterns")
       /\ Traversing = {}
       /\ orderQueue' = {e \in orderQueue : e.priority # k}
       /\ atodo' = [atodo EXCEPT ![a] = @ \ {k}]
       /\ UNCHANGED <<controllerMap, cacheVars, flags, routerVars, actl, aprio, sweepVars>>
  \/ /\ AGo(a, "erasePatterns", "unset")
     /\ atodo[a] = {}
     /\ UNCHANGED <<controllerMap, orderQueue, cacheVars, flags, routerVars, actl,
                    atodo, aprio, sweepVars>>

UnsetUnreg(a) ==
  /\ AEnd(a, "unset")
  /\ isHandleUnreg' = FALSE
  /\ UNCHANGED <<controllerMap, orderQueue, cacheVars, isHandleRoute, routerVars, sweepVars>>

-----------------------------------------------------------------------------
(* checkRouteCache(), every quarter of an hour: checkCacheOverdue. *)

SweepClock ==
  /\ spc = "idle" /\ spc' = "clock"
  /\ since' = {}
  /\ UNCHANGED <<controllerMap, orderQueue, cacheVars, flags, routerVars, adminVars,
                 toErase>>

\* The age is an unsigned difference: an entry used after the clock was read
\* has an immense age, unless the clock has not moved on.
SweepCollect ==
  /\ spc = "clock" /\ spc' = "erase"
  /\ \E N \in SUBSET since :
       toErase' = {p \in stale \cup N : cached[p] # None}
  /\ since' = {}
  /\ UNCHANGED <<controllerMap, orderQueue, cacheVars, flags, routerVars, adminVars>>

SweepErase ==
  /\ spc = "erase"
  /\ \/ \E p \in toErase : Drop({p}) /\ toErase' = toErase \ {p} /\ UNCHANGED spc
     \/ toErase = {} /\ spc' = "idle" /\ UNCHANGED <<cacheVars, toErase>>
  /\ UNCHANGED <<controllerMap, orderQueue, flags, routerVars, adminVars, since>>

-----------------------------------------------------------------------------
RouterStep(r) ==
  \/ PassGate(r) \/ EnterRoute(r) \/ FindInCache(r) \/ TakeFromCache(r)
  \/ Visit(r) \/ PutFound(r) \/ LeaveRoute(r)

AdminStep(a) ==
  \/ RegFind(a) \/ RegInsert(a) \/ RegFunc(a) \/ RegPut(a)
  \/ WaitUnreg(a) \/ SetUnreg(a) \/ WaitRoute(a) \/ ClearCache(a)
  \/ EraseController(a) \/ CollectPatterns(a) \/ ErasePattern(a) \/ UnsetUnreg(a)

\* History: an administrator changes what a route in its section reads, or adds
\* a pattern that a cache already filled knows nothing of.
Routing == {r \in Routers : rpc[r] \in {"lookup", "hit", "search", "found", "leave"}}
Overlap ==
  \E a \in Admins :
    \/ apc[a] \in {"clear", "erase", "collect", "erasePatterns"} /\ Routing # {}
    \/ apc[a] = "regPut" /\ (Routing # {} \/ \E p \in Paths : cached[p] # None)

Next ==
  /\ \/ \E r \in Routers : RouterStep(r) \/ \E p \in Paths : Route(r, p)
     \/ \E a \in Admins : \/ AdminStep(a)
                          \/ \E c \in Controllers :
                               RegController(a, c) \/ UnregController(a, c)
     \/ \E p \in Paths : GrowStale(p)
     \/ SweepClock \/ SweepCollect \/ SweepErase
  /\ raced' = (raced \/ Overlap')

Spec == Init /\ [][Next]_vars

\* Threads run.  Nobody has to route, register, unregister or sweep; a sweep
\* that has begun goes on.
FairSpec ==
  /\ Spec
  /\ \A r \in Routers : WF_vars(RouterStep(r) /\ Next)
  /\ \A a \in Admins : WF_vars(AdminStep(a) /\ Next)
  /\ WF_vars((SweepCollect \/ SweepErase) /\ Next)

-----------------------------------------------------------------------------
Entries == [pattern : Patterns, priority : Nat]

\* Types: in particular calcPathPatternPriority never wraps below zero.
TypeOK ==
  /\ controllerMap \subseteq Controllers
  /\ orderQueue \subseteq Entries
  /\ cached \in [Paths -> Patterns \cup {None}]
  /\ stale \subseteq Paths /\ since \subseteq Paths /\ toErase \subseteq Paths
  /\ {isHandleRoute, isHandleUnreg, raced} \subseteq BOOLEAN
  /\ rpc \in [Routers -> {"idle", "gate", "enter", "lookup", "hit", "search",
                          "found", "leave"}]
  /\ rpath \in [Routers -> Paths \cup {None}]
  /\ rlast \in [Routers -> Nat \cup {Begin}]
  /\ rres \in [Routers -> Patterns \cup {None}]
  /\ apc \in [Admins -> {"idle", "regFind", "regInsert", "regFunc", "regPut",
                         "waitUnreg", "setUnreg", "waitRoute", "clear", "erase",
                         "collect", "erasePatterns", "unset"}]
  /\ actl \in [Admins -> Controllers \cup {None}]
  /\ \A a \in Admins : atodo[a] \subseteq Patterns \/ atodo[a] \subseteq Nat
  /\ \A a \in Admins : aprio[a] = None \/ aprio[a] \in Entries
  /\ spc \in {"idle", "clock", "erase"}

\* While no administrator is at work, the queue holds the patterns of the
\* registered controllers, all of them and no others: no pattern is lost to
\* another one of equal priority, none outlives its controller (one
\* administrator at a time).
QueueComplete ==
  (\A a \in Admins : apc[a] = "idle")
    => {e.pattern : e \in orderQueue} = {pat \in Patterns : Owner[pat] \in controllerMap}

\* The entries of the queue that match a path, and the one that wins.
MatchesOf(p) == {e \in orderQueue : p \in Matches[e.pattern]}
Wins(pat, p) ==
  \E e \in MatchesOf(p) : e.pattern = pat /\ \A d \in MatchesOf(p) : d.priority <= e.priority

\* Unless the table was changed under a route or under a filled cache, a cached
\* route is the pattern of the greatest priority that matches: putCache and
\* clearCache keep the cache in step with the queue, whatever the sweep does.
CacheAgrees ==
  ~raced /\ (\A a \in Admins : apc[a] \notin {"erase", "collect", "erasePatterns"})
    => \A p \in Paths : cached[p] # None => Wins(cached[p], p)

\* On the same condition, what route() returns, from the cache or from the
\* queue, is the pattern of the greatest priority that matches the path.
ResultIsBest ==
  ~raced => \A r \in Routers :
    rpc[r] = "leave" /\ rres[r] # None => Wins(rres[r], rpath[r])

\* route() returns once it is past the gate, and unregController() returns:
\* no new route passes the gate while it waits for those inside, and the
\* traversals that hold back its erasures end.
RouteReturns == \A r \in Routers : rpc[r] \notin {"idle", "gate"} ~> rpc[r] = "idle"
UnregReturns == \A a \in Admins : apc[a] = "waitRoute" ~> apc[a] = "idle"

\* What the guide says of the public routes: a path of a registered pattern is
\* answered by its controller.  The sweep may take the cached entry between
\* the two lookups of getRouteInCache, and then the route is empty.
RegisteredIsRouted ==
  ~raced => \A r \in Routers :
    rpc[r] = "leave" /\ rres[r] = None => MatchesOf(rpath[r]) = {}
=============================================================================

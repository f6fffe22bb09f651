---------------------------- MODULE FRouterProofs ----------------------------
(***************************************************************************)
(* For any threads, controllers, patterns and paths: while no table was    *)
(* changed under a route or under a filled cache, what the cache holds and *)
(* what route() returns is the pattern of the greatest priority.           *)
(*                                                                         *)
(* The strengthening follows a traversal: entries it has passed do not     *)
(* match the path, so the first one that does wins; and while a controller *)
(* is erased the caches are empty, for nobody routes.                      *)
(*                                                                         *)
(* Of the table: with one administrator at a time, what is missing from the*)
(* queue is what that one has still to insert, and the priorities it is to *)
(* erase are those of the controller it unregisters.                       *)
(*                                                                         *)
(* A path that a registered pattern matches is lost to the sweep only: a   *)
(* route has found what it will take, or has passed every entry.           *)
(*                                                                         *)
(* That a queue has a first entry, and a free priority is found, is shown  *)
(* by the smallest counterexample.                                         *)
(***************************************************************************)
EXTENDS FRouter, FiniteSetTheorems, WellFoundedInduction, TLAPS

Distinct == \A d, e \in orderQueue : d.priority = e.priority => d = e

QueueInv ==
  /\ controllerMap \subseteq Controllers
  /\ orderQueue \subseteq Entries /\ IsFiniteSet(orderQueue) /\ Distinct

CacheTypes ==
  /\ cached \in [Paths -> Patterns \cup {None}]
  /\ stale \subseteq Paths /\ since \subseteq Paths /\ toErase \subseteq Paths
  /\ spc \in {"idle", "clock", "erase"}

RouterInv ==
  /\ rpc \in [Routers -> {"idle", "gate", "enter", "lookup", "hit", "search", "found", "leave"}]
  /\ rpath \in [Routers -> Paths \cup {None}]
  /\ rlast \in [Routers -> Nat \cup {Begin}]
  /\ rres \in [Routers -> Patterns \cup {None}]
  /\ \A r \in Routers :
       /\ rpc[r] # "idle" => rpath[r] \in Paths
       /\ rpc[r] \in {"idle", "gate", "enter", "lookup", "hit"} => rlast[r] = Begin
       /\ rpc[r] \notin {"found", "leave"} => rres[r] = None
       /\ rpc[r] = "found" => rres[r] \in Patterns

AdminStages == {"idle", "regFind", "regInsert", "regFunc", "regPut", "waitUnreg", "setUnreg",
                "waitRoute", "clear", "erase", "collect", "erasePatterns", "unset"}

AdminInv ==
  /\ apc \in [Admins -> AdminStages]
  /\ actl \in [Admins -> Controllers \cup {None}]
  /\ atodo \in [Admins -> (SUBSET Patterns) \cup (SUBSET Nat)]
  /\ aprio \in [Admins -> Entries \cup {None}]
  /\ \A a \in Admins :
       /\ apc[a] # "idle" => actl[a] \in Controllers
       /\ apc[a] \in {"regFunc", "regPut"} => atodo[a] \subseteq Patterns
       /\ apc[a] = "regPut" => aprio[a] \in Entries

FlagTypes ==
  /\ isHandleRoute \in BOOLEAN /\ isHandleUnreg \in BOOLEAN /\ raced \in BOOLEAN

\* What Wins says of a queue Q.
Best(Q, pat, p) ==
  \E e \in Q : /\ e.pattern = pat /\ p \in Matches[e.pattern]
              /\ \A d \in Q : p \in Matches[d.pattern] => d.priority <= e.priority

\* What a router knows of the queue.
RouteAgrees(r) ==
  /\ rpc[r] = "search" =>
       \A e \in orderQueue :
         rlast[r] # Begin /\ e.priority >= rlast[r] => rpath[r] \notin Matches[e.pattern]
  /\ rpc[r] \in {"found", "leave"} /\ rres[r] # None => Best(orderQueue, rres[r], rpath[r])

Erasing == \E a \in Admins : apc[a] \in {"erase", "collect", "erasePatterns"}

Agree ==
  /\ \A p \in Paths : cached[p] # None => Best(orderQueue, cached[p], p)
  /\ Erasing => \A p \in Paths : cached[p] = None
  /\ \A r \in Routers : RouteAgrees(r)

Types == QueueInv /\ CacheTypes /\ RouterInv /\ AdminInv

-----------------------------------------------------------------------------
(* Sets of numbers *)

LEMMA Least ==
  ASSUME NEW T \in SUBSET Nat, T # {}
  PROVE  \E x \in T : \A y \in T : x <= y
<1> DEFINE R == OpToRel(<, Nat)
<1>1. IsWellFoundedOn(R, Nat)
  BY NatLessThanWellFounded
<1>2. \A x, y \in Nat : x < y => <<x, y>> \in R
  BY DEF OpToRel
<1> HIDE DEF R
<1>3. PICK x \in T : \A y \in T : ~(<<y, x>> \in R)
  BY <1>1, WFMin
<1>4. \A y \in T : ~(y < x)
  BY <1>2, <1>3
<1>5. \A y \in T : y \in Nat /\ x \in Nat
  OBVIOUS
<1>6. \A y \in T : x <= y
  BY ONLY <1>4, <1>5
<1> QED
  BY <1>6

\* A finite set of entries has one of the greatest priority: the smallest set without
\* one would have one when an entry is left out.
HasFirst(S) == \E e \in S : \A d \in S : e.priority >= d.priority

LEMMA GreatestExists ==
  ASSUME NEW Q \in SUBSET Entries, IsFiniteSet(Q), Q # {}
  PROVE  HasFirst(Q)
<1> DEFINE Without == {S \in SUBSET Q : S # {} /\ ~HasFirst(S)}
           Sizes == {Cardinality(S) : S \in Without}
<1> SUFFICES ASSUME ~HasFirst(Q) PROVE FALSE
  OBVIOUS
<1>1. \A S \in SUBSET Q : IsFiniteSet(S) /\ Cardinality(S) \in Nat
  BY FS_Subset, FS_CardinalityType
<1>2. Sizes \in SUBSET Nat /\ Sizes # {}
  BY <1>1
<1>3. PICK n \in Sizes : \A m \in Sizes : n <= m
  BY <1>2, Least
<1>4. PICK S \in Without : n = Cardinality(S)
  BY <1>3
<1>5. PICK e \in S : TRUE
  BY <1>4
<1>6. Cardinality(S \ {e}) = n - 1 /\ S \ {e} \in SUBSET Q
  BY <1>1, <1>4, <1>5, FS_RemoveElement
<1>7. n \in Nat
  BY <1>2, <1>3
<1>8. S \ {e} \notin Without
  BY <1>3, <1>6, <1>7
<1>9. e \in Entries /\ \A d \in S : d.priority \in Nat
  BY <1>4, <1>5 DEF Entries
<1>10. CASE S \ {e} = {}
  BY <1>4, <1>5, <1>9, <1>10 DEF HasFirst
<1>11. CASE HasFirst(S \ {e})
  <2>1. PICK f \in S \ {e} : \A d \in S \ {e} : f.priority >= d.priority
    BY <1>11 DEF HasFirst
  <2>0. e \in S /\ f \in S /\ e.priority \in Nat /\ f.priority \in Nat
    BY <1>5, <1>9, <2>1, Zenon
  <2>2. CASE e.priority >= f.priority
    <3>1. \A d \in S : e.priority >= d.priority
      BY <1>9, <2>0, <2>1, <2>2
    <3> QED
      BY <2>0, <3>1, <1>4, Zenon DEF HasFirst
  <2>3. CASE f.priority >= e.priority
    <3>1. \A d \in S : f.priority >= d.priority
      BY <1>9, <2>0, <2>1, <2>3
    <3> QED
      BY <2>0, <3>1, <1>4, Zenon DEF HasFirst
  <2> QED
    BY <2>0, <2>2, <2>3
<1> QED
  BY <1>6, <1>8, <1>10, <1>11

LEMMA FirstIsGreatest ==
  ASSUME NEW S \in SUBSET Entries, IsFiniteSet(S), S # {}
  PROVE  First(S) \in S /\ \A d \in S : First(S).priority >= d.priority
BY GreatestExists DEF HasFirst, First

LEMMA PriorityIsNat ==
  ASSUME NEW pat \in Patterns PROVE PatternPriority(pat) \in Nat
<1> DEFINE l == Shape[pat].len
           u == Shape[pat].undecided
           w == Shape[pat].wildCards
           v == Shape[pat].variables
<1>1. l \in 0 .. 1024 /\ u \in Nat /\ w \in Nat /\ v \in Nat
  BY ShapeAssumption DEF MaxPathLengthMatcherSupport
<1>2. PatternPriority(pat) = 1024 - l + 100 * u + 10000 * (w + v)
  BY DEF PatternPriority, MaxPathLengthMatcherSupport
<1> HIDE DEF l, u, w, v
<1> QED
  BY <1>1, <1>2, SMT

\* An interval of so many numbers and one.
LEMMA IntervalSize ==
  ASSUME NEW a \in Nat, NEW k \in Nat
  PROVE  IsFiniteSet(a .. a + k) /\ Cardinality(a .. a + k) = k + 1
<1>1. a \in Int /\ a + k \in Int /\ ~(a > a + k) /\ a + k - a + 1 = k + 1
  OBVIOUS
<1>2. IsFiniteSet(a .. a + k) /\ Cardinality(a .. a + k) = a + k - a + 1
  BY <1>1, FS_Interval
<1> QED
  BY <1>1, <1>2

\* The queue cannot take as many priorities as there are from first on.
LEMMA FreePriorityIsFree ==
  ASSUME QueueInv, NEW pat \in Patterns
  PROVE  /\ FreePriority(pat) \in Nat
         /\ \A e \in orderQueue : e.priority # FreePriority(pat)
<1> DEFINE first == PatternPriority(pat)
           n == Cardinality(orderQueue)
           taken == {e.priority : e \in orderQueue}
           f == [e \in orderQueue |-> e.priority]
           Free == {i \in first .. first + n : i \notin taken}
<1>1. first \in Nat /\ n \in Nat
  BY PriorityIsNat, FS_CardinalityType DEF QueueInv
<1>2. f \in Surjection(orderQueue, taken)
  BY DEF Surjection
<1>3. IsFiniteSet(taken) /\ Cardinality(taken) <= n
  <2>1. IsFiniteSet(orderQueue)
    BY DEF QueueInv
  <2> HIDE DEF taken, f
  <2> QED
    BY <1>2, <2>1, FS_Surjection
<1>4. IsFiniteSet(first .. first + n) /\ Cardinality(first .. first + n) = n + 1
  BY <1>1, IntervalSize
<1>5. Free # {}
  <2> SUFFICES ASSUME first .. first + n \subseteq taken PROVE FALSE
    OBVIOUS
  <2>1. Cardinality(first .. first + n) <= Cardinality(taken)
    BY <1>3, FS_Subset
  <2>2. Cardinality(taken) \in Nat
    BY <1>3, FS_CardinalityType
  <2> QED
    BY <1>1, <1>3, <1>4, <2>1, <2>2
<1>6. Free \in SUBSET Nat
  BY <1>1
<1>7. PICK i \in Free : \A j \in Free : i <= j
  BY <1>5, <1>6, Least
<1>8. i \in first .. first + n /\ i \notin taken /\ first .. i - 1 \subseteq taken
  BY <1>1, <1>7
<1> HIDE DEF first, n, taken
<1>9. (CHOOSE k \in first .. first + n : k \notin taken /\ first .. k - 1 \subseteq taken)
        \in {k \in first .. first + n : k \notin taken}
  BY <1>8
<1>10. FreePriority(pat) \in first .. first + n /\ FreePriority(pat) \notin taken
  BY <1>9 DEF FreePriority, first, n, taken
<1>11. \A e \in orderQueue : e.priority # FreePriority(pat)
  BY <1>10 DEF taken
<1> QED
  BY <1>1, <1>10, <1>11

-----------------------------------------------------------------------------
(* Init *)

LEMMA RouterInitInv == Init => Types /\ FlagTypes /\ ~Overlap /\ Agree
<1> SUFFICES ASSUME Init PROVE Types /\ FlagTypes /\ ~Overlap /\ Agree
  OBVIOUS
<1>1. QueueInv
  BY FS_EmptySet DEF Init, QueueInv, Distinct
<1>2. CacheTypes
  BY DEF Init, CacheTypes
<1>3. RouterInv
  BY DEF Init, RouterInv
<1>4. AdminInv
  BY DEF Init, AdminInv, AdminStages
<1>5. FlagTypes
  BY Zenon DEF Init, FlagTypes
<1>6. \A a \in Admins : apc[a] = "idle"
  BY DEF Init
<1>7. ~Overlap
  BY <1>6 DEF Overlap
<1>8. Agree
  BY <1>6 DEF Init, Agree, Erasing, RouteAgrees
<1> QED
  BY <1>1, <1>2, <1>3, <1>4, <1>5, <1>7, <1>8 DEF Types

-----------------------------------------------------------------------------
(* What each kind of step leaves alone *)

LEMMA RouterFrame ==
  ASSUME NEW r \in Routers, RouterStep(r) \/ \E p \in Paths : Route(r, p)
  PROVE  UNCHANGED <<controllerMap, orderQueue, adminVars, spc, toErase>>
BY DEF RouterStep, Route, PassGate, EnterRoute, FindInCache, TakeFromCache, Visit, PutFound,
       LeaveRoute, sweepVars

LEMMA SweepFrame ==
  ASSUME SweepClock \/ SweepCollect \/ SweepErase \/ \E p \in Paths : GrowStale(p)
  PROVE  UNCHANGED <<controllerMap, orderQueue, flags, routerVars, adminVars>>
BY DEF SweepClock, SweepCollect, SweepErase, GrowStale

\* An administrator's step, by what it changes.
AdminPlain(a) ==
  \/ RegFind(a) \/ RegFunc(a) \/ WaitUnreg(a) \/ SetUnreg(a) \/ WaitRoute(a)
  \/ CollectPatterns(a) \/ UnsetUnreg(a)
  \/ \E c \in Controllers : RegController(a, c) \/ UnregController(a, c)

LEMMA AdminFrame ==
  ASSUME NEW a \in Admins, \/ AdminStep(a)
                           \/ \E c \in Controllers : RegController(a, c) \/ UnregController(a, c)
  PROVE  UNCHANGED <<routerVars, sweepVars>>
BY DEF AdminStep, RegFind, RegInsert, RegFunc, RegPut, WaitUnreg, SetUnreg, WaitRoute, ClearCache,
       EraseController, CollectPatterns, ErasePattern, UnsetUnreg, RegController, UnregController

LEMMA AdminPlainFrame ==
  ASSUME NEW a \in Admins, AdminPlain(a)
  PROVE  UNCHANGED <<controllerMap, orderQueue, cacheVars>>
BY DEF AdminPlain, RegFind, RegFunc, WaitUnreg, SetUnreg, WaitRoute, CollectPatterns, UnsetUnreg,
       RegController, UnregController

-----------------------------------------------------------------------------
(* Types of the caches *)

LEMMA CacheFrame ==
  ASSUME CacheTypes, UNCHANGED <<cacheVars, sweepVars>> PROVE CacheTypes'
BY DEF CacheTypes, cacheVars, sweepVars

LEMMA SweepCache ==
  ASSUME CacheTypes, SweepClock \/ SweepCollect \/ SweepErase \/ \E p \in Paths : GrowStale(p)
  PROVE  /\ CacheTypes'
         /\ \A p \in Paths : cached'[p] \in {cached[p], None}
<1>1. CASE SweepClock
  BY <1>1 DEF SweepClock, CacheTypes, cacheVars
<1>2. CASE SweepCollect
  BY <1>2 DEF SweepCollect, CacheTypes, cacheVars
<1>3. CASE SweepErase
  BY <1>3 DEF SweepErase, Drop, CacheTypes, cacheVars
<1>4. CASE \E p \in Paths : GrowStale(p)
  BY <1>4 DEF GrowStale, CacheTypes, sweepVars
<1> QED
  BY <1>1, <1>2, <1>3, <1>4

LEMMA RouterCache ==
  ASSUME CacheTypes, RouterInv, NEW r \in Routers,
         RouterStep(r) \/ \E p \in Paths : Route(r, p)
  PROVE  CacheTypes'
<1>1. CASE TakeFromCache(r)
  <2>1. rpath[r] \in Paths
    BY <1>1 DEF TakeFromCache, RGo, RouterInv
  <2> QED
    BY <1>1, <2>1 DEF TakeFromCache, Used, CacheTypes
<1>2. CASE PutFound(r)
  <2>1. rpath[r] \in Paths /\ rres[r] \in Patterns
    BY <1>2 DEF PutFound, RGo, RouterInv
  <2> QED
    BY <1>2, <2>1 DEF PutFound, PutCache, Used, CacheTypes, cacheVars
<1>3. CASE PassGate(r) \/ EnterRoute(r) \/ FindInCache(r) \/ Visit(r) \/ LeaveRoute(r)
           \/ \E p \in Paths : Route(r, p)
  BY <1>3, CacheFrame DEF PassGate, EnterRoute, FindInCache, Visit, LeaveRoute, Route
<1> QED
  BY <1>1, <1>2, <1>3 DEF RouterStep

-----------------------------------------------------------------------------
(* A router *)

\* The entries ahead of a traversal are entries of a finite queue.
LEMMA AheadHasFirst ==
  ASSUME QueueInv, NEW r \in Routers, Ahead(r) # {}
  PROVE  /\ First(Ahead(r)) \in orderQueue /\ First(Ahead(r)) \in Ahead(r)
         /\ First(Ahead(r)).pattern \in Patterns /\ First(Ahead(r)).priority \in Nat
         /\ \A d \in Ahead(r) : First(Ahead(r)).priority >= d.priority
<1>1. Ahead(r) \in SUBSET orderQueue
  BY DEF Ahead
<1>2. Ahead(r) \in SUBSET Entries /\ IsFiniteSet(Ahead(r))
  BY <1>1, FS_Subset DEF QueueInv
<1>3. First(Ahead(r)) \in Ahead(r) /\ \A d \in Ahead(r) : First(Ahead(r)).priority >= d.priority
  BY <1>2, FirstIsGreatest
<1> QED
  BY <1>1, <1>2, <1>3 DEF Entries

LEMMA RouterTypes ==
  ASSUME QueueInv, CacheTypes, RouterInv, NEW r \in Routers,
         RouterStep(r) \/ \E p \in Paths : Route(r, p)
  PROVE  RouterInv'
<1> USE DEF RGo
<1>1. CASE \E p \in Paths : Route(r, p)
  BY <1>1 DEF Route, RouterInv
<1>2. CASE PassGate(r)
  BY <1>2 DEF PassGate, RouterInv
<1>3. CASE EnterRoute(r)
  BY <1>3 DEF EnterRoute, RouterInv
<1>4. CASE FindInCache(r)
  BY <1>4 DEF FindInCache, RouterInv
<1>5. CASE TakeFromCache(r)
  <2>1. rpath[r] \in Paths
    BY <1>5 DEF TakeFromCache, RouterInv
  <2>2. cached[rpath[r]] \in Patterns \cup {None}
    BY <2>1 DEF CacheTypes
  <2> QED
    BY <1>5, <2>2 DEF TakeFromCache, RouterInv
<1>6. CASE EndOfTraversal(r) /\ UNCHANGED rpath
  BY <1>6 DEF EndOfTraversal, RouterInv
<1>7. CASE MatchNext(r) /\ UNCHANGED rpath
  <2>1. First(Ahead(r)).pattern \in Patterns
    BY <1>7, AheadHasFirst DEF MatchNext
  <2> QED
    BY <1>7, <2>1 DEF MatchNext, RouterInv
<1>8. CASE SkipNext(r) /\ UNCHANGED rpath
  <2>1. First(Ahead(r)).priority \in Nat
    BY <1>8, AheadHasFirst DEF SkipNext
  <2> QED
    BY <1>8, <2>1 DEF SkipNext, RouterInv
<1>9. CASE PutFound(r)
  BY <1>9 DEF PutFound, RouterInv
<1>10. CASE LeaveRoute(r)
  BY <1>10 DEF LeaveRoute, ForgetRoute, RouterInv
<1> QED
  BY <1>1, <1>2, <1>3, <1>4, <1>5, <1>6, <1>7, <1>8, <1>9, <1>10 DEF RouterStep, Visit

\* The first entry ahead that matches wins: those behind do not match.
LEMMA MatchWins ==
  ASSUME QueueInv, RouterInv, NEW r \in Routers, rpc[r] = "search", RouteAgrees(r),
         Ahead(r) # {}, rpath[r] \in Matches[First(Ahead(r)).pattern]
  PROVE  Best(orderQueue, First(Ahead(r)).pattern, rpath[r])
<1> DEFINE e == First(Ahead(r))
<1>1. /\ e \in orderQueue /\ e.priority \in Nat /\ e \in MatchesOf(rpath[r])
      /\ \A d \in Ahead(r) : e.priority >= d.priority
  BY AheadHasFirst DEF MatchesOf
<1>2. \A d \in MatchesOf(rpath[r]) : d \in Ahead(r) /\ d.priority \in Nat
  <2> SUFFICES ASSUME NEW d \in MatchesOf(rpath[r]) PROVE d \in Ahead(r) /\ d.priority \in Nat
    OBVIOUS
  <2>1. d \in orderQueue /\ rpath[r] \in Matches[d.pattern]
    BY DEF MatchesOf
  <2>2. d.priority \in Nat
    BY <2>1 DEF QueueInv, Entries
  <2>3. CASE rlast[r] = Begin
    BY <2>1, <2>2, <2>3 DEF Ahead
  <2>4. CASE rlast[r] # Begin
    <3>1. rlast[r] \in Nat
      BY <2>4 DEF RouterInv
    <3>2. ~(d.priority >= rlast[r])
      BY <2>1, <2>4 DEF RouteAgrees
    <3> QED
      BY <2>1, <2>2, <3>1, <3>2 DEF Ahead
  <2> QED
    BY <2>3, <2>4
<1> HIDE DEF e
<1>3. \A d \in MatchesOf(rpath[r]) : d.priority <= e.priority
  BY <1>1, <1>2
<1> QED
  BY <1>1, <1>3 DEF Best, MatchesOf, e

\* An entry that is passed does not match, and neither does any before it.
LEMMA SkipAgrees ==
  ASSUME QueueInv, RouterInv, NEW r \in Routers, rpc[r] = "search", RouteAgrees(r),
         Ahead(r) # {}, rpath[r] \notin Matches[First(Ahead(r)).pattern],
         NEW e \in orderQueue, e.priority >= First(Ahead(r)).priority
  PROVE  rpath[r] \notin Matches[e.pattern]
<1> DEFINE f == First(Ahead(r))
<1>1. /\ f \in orderQueue /\ f.priority \in Nat
      /\ \A d \in Ahead(r) : f.priority >= d.priority
  BY AheadHasFirst
<1>2. e.priority \in Nat
  BY DEF QueueInv, Entries
<1>3. CASE e \in Ahead(r)
  <2>1. e.priority = f.priority
    BY <1>1, <1>2, <1>3
  <2>2. e = f
    BY <1>1, <2>1 DEF QueueInv, Distinct
  <2> QED
    BY <2>2
<1>4. CASE e \notin Ahead(r)
  <2>1. rlast[r] # Begin /\ rlast[r] \in Nat /\ ~(e.priority < rlast[r])
    BY <1>4 DEF Ahead, RouterInv
  <2>2. e.priority >= rlast[r]
    BY <1>2, <2>1
  <2> QED
    BY <2>1, <2>2 DEF RouteAgrees
<1> QED
  BY <1>3, <1>4

\* A route keeps what is known of the caches and of the other routes.
LEMMA RouterAgree ==
  ASSUME Types, Agree, ~Overlap, NEW r \in Routers,
         RouterStep(r) \/ \E p \in Paths : Route(r, p)
  PROVE  Agree'
<1> USE DEF RGo
<1>1. UNCHANGED <<orderQueue, apc>>
  BY RouterFrame DEF adminVars
<1>2. \A s \in Routers : s # r => rpc'[s] = rpc[s] /\ rpath'[s] = rpath[s] /\ rlast'[s] = rlast[s]
                                  /\ rres'[s] = rres[s]
  BY DEF RouterStep, Route, PassGate, EnterRoute, FindInCache, TakeFromCache, Visit, EndOfTraversal,
         MatchNext, SkipNext, PutFound, LeaveRoute, ForgetRoute, Types, RouterInv
<1>3. \A s \in Routers : s # r => RouteAgrees(s)'
  BY <1>1, <1>2 DEF Agree, RouteAgrees
<1>4. \/ cached' = cached
      \/ /\ rpc[r] = "found" /\ rpath[r] \in Paths
         /\ cached' = [cached EXCEPT ![rpath[r]] = rres[r]]
  BY DEF RouterStep, Route, PassGate, EnterRoute, FindInCache, TakeFromCache, Visit, PutFound, PutCache,
         LeaveRoute, cacheVars, Types, RouterInv
<1>5. \A p \in Paths : cached'[p] # None => Best(orderQueue, cached'[p], p)
  <2>1. CASE cached' = cached
    BY <1>1, <2>1 DEF Agree
  <2>2. CASE /\ rpc[r] = "found" /\ rpath[r] \in Paths
             /\ cached' = [cached EXCEPT ![rpath[r]] = rres[r]]
    <3>1. Best(orderQueue, rres[r], rpath[r])
      BY <2>2, NoneAssumption DEF Agree, RouteAgrees, Types, RouterInv
    <3>2. \A p \in Paths : IF p = rpath[r] THEN cached'[p] = rres[r] ELSE cached'[p] = cached[p]
      BY <2>2 DEF Types, CacheTypes
    <3> QED
      BY <1>1, <3>1, <3>2 DEF Agree
  <2> QED
    BY <1>4, <2>1, <2>2
<1>6. Erasing' => \A p \in Paths : cached'[p] = None
  <2> SUFFICES ASSUME Erasing PROVE \A p \in Paths : cached'[p] = None
    BY <1>1 DEF Erasing
  <2>1. Routing = {}
    BY DEF Erasing, Overlap
  <2>2. rpc[r] # "found"
    BY <2>1 DEF Routing
  <2> QED
    BY <1>4, <2>2 DEF Agree
<1>7. RouteAgrees(r)'
  <2>1. CASE rpc'[r] \notin {"search", "found", "leave"}
    BY <2>1 DEF RouteAgrees
  <2>2. CASE FindInCache(r)
    BY <2>2 DEF FindInCache, RouteAgrees, Types, RouterInv
  <2>3. CASE TakeFromCache(r)
    <3>1. rpath[r] \in Paths /\ rpath' = rpath /\ rpc'[r] = "leave" /\ rres'[r] = cached[rpath[r]]
      BY <2>3 DEF TakeFromCache, Types, RouterInv
    <3> QED
      BY <1>1, <3>1 DEF RouteAgrees, Agree
  <2>4. CASE EndOfTraversal(r)
    <3>1. rpc'[r] = "leave" /\ rres'[r] = None
      BY <2>4 DEF EndOfTraversal, Types, RouterInv
    <3> QED
      BY <3>1 DEF RouteAgrees
  <2>5. CASE MatchNext(r) /\ UNCHANGED rpath
    <3>1. rpc[r] = "search" /\ rpc'[r] = "found" /\ rres'[r] = First(Ahead(r)).pattern
          /\ Ahead(r) # {} /\ rpath[r] \in Matches[First(Ahead(r)).pattern]
      BY <2>5 DEF MatchNext, Types, RouterInv
    <3>2. Best(orderQueue, rres'[r], rpath'[r])
      BY <2>5, <3>1, MatchWins DEF Types, Agree
    <3> QED
      BY <1>1, <3>1, <3>2 DEF RouteAgrees
  <2>6. CASE SkipNext(r) /\ UNCHANGED rpath
    <3>1. rpc[r] = "search" /\ rpc'[r] = "search" /\ rlast'[r] = First(Ahead(r)).priority
          /\ Ahead(r) # {} /\ rpath[r] \notin Matches[First(Ahead(r)).pattern]
      BY <2>6 DEF SkipNext, Types, RouterInv
    <3>2. \A e \in orderQueue : e.priority >= First(Ahead(r)).priority => rpath[r] \notin Matches[e.pattern]
      BY <3>1, SkipAgrees DEF Types, Agree
    <3> QED
      BY <1>1, <2>6, <3>1, <3>2 DEF RouteAgrees
  <2>7. CASE PutFound(r)
    <3>1. rpc[r] = "found" /\ rpc'[r] = "leave" /\ rres' = rres /\ rpath' = rpath
      BY <2>7 DEF PutFound, Types, RouterInv
    <3> QED
      BY <1>1, <3>1 DEF RouteAgrees, Agree
  <2>8. CASE (\E p \in Paths : Route(r, p)) \/ PassGate(r) \/ EnterRoute(r) \/ LeaveRoute(r)
    <3>1. rpc'[r] \in {"gate", "enter", "lookup", "idle"}
      BY <2>8 DEF Route, PassGate, EnterRoute, LeaveRoute, Types, RouterInv
    <3> QED
      BY <2>1, <3>1
  <2> QED
    BY <2>2, <2>3, <2>4, <2>5, <2>6, <2>7, <2>8 DEF RouterStep, Visit
<1> QED
  BY <1>1, <1>3, <1>5, <1>6, <1>7 DEF Agree

-----------------------------------------------------------------------------
(* An administrator *)

LEMMA AdminTypes ==
  ASSUME Types, NEW a \in Admins,
         AdminStep(a) \/ \E c \in Controllers : RegController(a, c) \/ UnregController(a, c)
  PROVE  AdminInv'
<1> USE DEF AGo, AEnd, Types
<1>1. CASE \E c \in Controllers : RegController(a, c) \/ UnregController(a, c)
  BY <1>1 DEF RegController, UnregController, AdminInv, AdminStages
<1>2. CASE RegFind(a)
  BY <1>2 DEF RegFind, AdminInv, AdminStages
<1>3. CASE RegInsert(a)
  BY <1>3 DEF RegInsert, AdminInv, AdminStages
<1>4. CASE RegFunc(a)
  <2>1. CASE AEnd(a, "regFunc")
    BY <2>1 DEF AdminInv, AdminStages
  <2>2. ASSUME NEW pat \in atodo[a],
               AGo(a, "regFunc", "regPut"), actl' = actl,
               atodo' = [atodo EXCEPT ![a] = atodo[a] \ {pat}],
               aprio' = [aprio EXCEPT ![a] = [pattern |-> pat, priority |-> FreePriority(pat)]]
        PROVE  AdminInv'
    <3>1. atodo[a] \subseteq Patterns
      BY <2>2 DEF AdminInv
    <3>2. [pattern |-> pat, priority |-> FreePriority(pat)] \in Entries
      BY <3>1, FreePriorityIsFree DEF Entries
    <3>3. atodo[a] \ {pat} \subseteq Patterns
      BY <3>1
    <3> DEFINE entry == [pattern |-> pat, priority |-> FreePriority(pat)]
    <3>4. atodo' \in [Admins -> (SUBSET Patterns) \cup (SUBSET Nat)]
      BY <2>2, <3>3 DEF AdminInv
    <3>5. aprio' = [aprio EXCEPT ![a] = entry] /\ entry \in Entries
      BY <2>2, <3>2
    <3> HIDE DEF entry
    <3>6. aprio' \in [Admins -> Entries \cup {None}]
      BY <3>5 DEF AdminInv
    <3>7. \A b \in Admins : apc'[b] \in {"regFunc", "regPut"} => atodo'[b] \subseteq Patterns
      BY <2>2, <3>3 DEF AdminInv, AGo
    <3>8. \A b \in Admins : apc'[b] = "regPut" => aprio'[b] \in Entries
      BY <2>2, <3>5 DEF AdminInv, AGo
    <3>9. /\ apc' \in [Admins -> AdminStages] /\ actl' = actl
          /\ \A b \in Admins : apc'[b] # "idle" => actl[b] \in Controllers
      BY <2>2 DEF AdminInv, AGo, AdminStages
    <3> QED
      BY <3>4, <3>6, <3>7, <3>8, <3>9 DEF AdminInv, AdminStages
  <2> QED
    BY <1>4, <2>1, <2>2 DEF RegFunc
<1>5. CASE RegPut(a)
  BY <1>5 DEF RegPut, AdminInv, AdminStages
<1>6. CASE WaitUnreg(a) \/ SetUnreg(a) \/ WaitRoute(a) \/ ClearCache(a) \/ EraseController(a)
  BY <1>6 DEF WaitUnreg, SetUnreg, WaitRoute, ClearCache, EraseController, AdminInv, AdminStages
<1>7. CASE CollectPatterns(a)
  <2>1. {e.priority : e \in {d \in orderQueue : Owner[d.pattern] = actl[a]}} \subseteq Nat
    BY DEF QueueInv, Entries
  <2> DEFINE found == {e.priority : e \in {d \in orderQueue : Owner[d.pattern] = actl[a]}}
  <2>2. atodo' = [atodo EXCEPT ![a] = found] /\ AGo(a, "collect", "erasePatterns")
        /\ UNCHANGED <<actl, aprio>>
    BY <1>7 DEF CollectPatterns
  <2>3. found \in (SUBSET Patterns) \cup (SUBSET Nat)
    BY <2>1
  <2> HIDE DEF found
  <2> QED
    BY <2>2, <2>3 DEF AdminInv, AdminStages
<1>8. CASE ErasePattern(a)
  <2>1. CASE AGo(a, "erasePatterns", "unset") /\ UNCHANGED <<actl, atodo, aprio>>
    BY <2>1 DEF AdminInv, AdminStages
  <2>2. ASSUME NEW k \in atodo[a],
               AGo(a, "erasePatterns", "erasePatterns"), UNCHANGED <<actl, aprio>>,
               atodo' = [atodo EXCEPT ![a] = atodo[a] \ {k}]
        PROVE  AdminInv'
    <3>1. atodo[a] \ {k} \in (SUBSET Patterns) \cup (SUBSET Nat)
      BY DEF AdminInv
    <3> QED
      BY <2>2, <3>1 DEF AdminInv
  <2> QED
    BY <1>8, <2>1, <2>2 DEF ErasePattern
<1>9. CASE UnsetUnreg(a)
  BY <1>9 DEF UnsetUnreg, AdminInv, AdminStages
<1> QED
  BY <1>1, <1>2, <1>3, <1>4, <1>5, <1>6, <1>7, <1>8, <1>9 DEF AdminStep

\* Priorities stay distinct: insert() leaves an entry that is there.
LEMMA AdminQueue ==
  ASSUME Types, NEW a \in Admins,
         AdminStep(a) \/ \E c \in Controllers : RegController(a, c) \/ UnregController(a, c)
  PROVE  QueueInv' /\ CacheTypes'
<1> USE DEF AGo, Types
<1>1. CASE AdminPlain(a)
  BY <1>1, AdminPlainFrame, AdminFrame, CacheFrame DEF QueueInv, Distinct
<1>2. CASE RegInsert(a)
  <2>1. actl[a] \in Controllers
    BY <1>2 DEF RegInsert, AdminInv
  <2> QED
    BY <1>2, <2>1, CacheFrame DEF RegInsert, QueueInv, Distinct
<1>3. CASE EraseController(a)
  BY <1>3, CacheFrame DEF EraseController, QueueInv, Distinct
<1>4. CASE ClearCache(a)
  BY <1>4 DEF ClearCache, Drop, QueueInv, Distinct, CacheTypes, sweepVars
<1>5. CASE RegPut(a)
  <2>1. aprio[a] \in Entries /\ UNCHANGED <<controllerMap, cacheVars, sweepVars>>
    BY <1>5 DEF RegPut, AdminInv
  <2>2. CASE orderQueue' = orderQueue
    BY <2>1, <2>2, CacheFrame DEF QueueInv, Distinct
  <2>3. CASE /\ orderQueue' = orderQueue \cup {aprio[a]}
             /\ \A e \in orderQueue : e.priority # aprio[a].priority
    <3>1. IsFiniteSet(orderQueue')
      BY <2>3, FS_AddElement DEF QueueInv
    <3> QED
      BY <2>1, <2>3, <3>1, CacheFrame DEF QueueInv, Distinct
  <2> QED
    BY <1>5, <2>2, <2>3 DEF RegPut
<1>6. CASE ErasePattern(a)
  <2>1. UNCHANGED <<controllerMap, cacheVars, sweepVars>> /\ orderQueue' \in SUBSET orderQueue
    BY <1>6 DEF ErasePattern
  <2>2. IsFiniteSet(orderQueue')
    BY <2>1, FS_Subset DEF QueueInv
  <2> QED
    BY <2>1, <2>2, CacheFrame DEF QueueInv, Distinct
<1> QED
  BY <1>1, <1>2, <1>3, <1>4, <1>5, <1>6 DEF AdminStep, AdminPlain

\* Unless it overlaps with a route or a filled cache, an administrator's step keeps
\* what is known of them.
LEMMA AdminAgree ==
  ASSUME Types, Agree, ~Overlap, NEW a \in Admins,
         AdminStep(a) \/ \E c \in Controllers : RegController(a, c) \/ UnregController(a, c)
  PROVE  Agree'
<1> USE DEF AGo, AEnd
<1>1. UNCHANGED <<rpc, rpath, rlast, rres>>
  BY AdminFrame DEF routerVars
<1>2. CASE (AdminPlain(a) \/ RegInsert(a) \/ EraseController(a))
  <2>1. UNCHANGED <<orderQueue, cached>>
    BY <1>2, AdminPlainFrame DEF RegInsert, EraseController, cacheVars
  <2>2. Erasing' => Erasing
    <3>1. \A b \in Admins : b # a => apc'[b] = apc[b]
      BY <1>2 DEF AdminPlain, RegFind, RegFunc, WaitUnreg, SetUnreg, WaitRoute, CollectPatterns,
                  UnsetUnreg, RegController, UnregController, RegInsert, EraseController, Types,
                  AdminInv
    <3>2. apc'[a] \in {"erase", "collect", "erasePatterns"} => apc[a] \in {"erase", "collect"}
      BY <1>2 DEF AdminPlain, RegFind, RegFunc, WaitUnreg, SetUnreg, WaitRoute, CollectPatterns,
                  UnsetUnreg, RegController, UnregController, RegInsert, EraseController, Types,
                  AdminInv
    <3> QED
      BY <3>1, <3>2 DEF Erasing
  <2> QED
    BY <1>1, <2>1, <2>2 DEF Agree, RouteAgrees
<1>3. CASE ClearCache(a)
  <2>1. orderQueue' = orderQueue /\ \A p \in Paths : cached'[p] = None
    BY <1>3 DEF ClearCache, Drop
  <2> QED
    BY <1>1, <2>1 DEF Agree, RouteAgrees
<1>4. CASE RegPut(a) \/ ErasePattern(a)
  <2>1. apc[a] \in {"regPut", "erasePatterns"} /\ UNCHANGED cached
    BY <1>4 DEF RegPut, ErasePattern, cacheVars
  <2>2. Routing = {} /\ \A p \in Paths : cached[p] = None
    BY <2>1 DEF Overlap, Agree, Erasing
  <2>3. \A r \in Routers : rpc[r] \notin {"search", "found", "leave"}
    BY <2>2 DEF Routing
  <2> QED
    BY <1>1, <2>1, <2>2, <2>3 DEF Agree, RouteAgrees
<1> QED
  BY <1>2, <1>3, <1>4 DEF AdminStep, AdminPlain

\* The sweep takes entries from the caches.
LEMMA SweepAgree ==
  ASSUME Types, Agree, SweepClock \/ SweepCollect \/ SweepErase \/ \E p \in Paths : GrowStale(p)
  PROVE  Agree'
<1>1. UNCHANGED <<orderQueue, rpc, rpath, rlast, rres, apc>>
  BY SweepFrame DEF routerVars, adminVars
<1>2. \A p \in Paths : cached'[p] \in {cached[p], None}
  BY SweepCache DEF Types
<1> QED
  BY <1>1, <1>2 DEF Agree, RouteAgrees, Erasing

-----------------------------------------------------------------------------
StepOf ==
  \/ \E r \in Routers : RouterStep(r) \/ \E p \in Paths : Route(r, p)
  \/ \E a \in Admins : \/ AdminStep(a)
                       \/ \E c \in Controllers : RegController(a, c) \/ UnregController(a, c)
  \/ SweepClock \/ SweepCollect \/ SweepErase \/ \E p \in Paths : GrowStale(p)

LEMMA TypesStep ==
  ASSUME Types, StepOf PROVE Types'
<1>1. ASSUME NEW r \in Routers, RouterStep(r) \/ \E p \in Paths : Route(r, p) PROVE Types'
  <2>1. RouterInv' /\ CacheTypes'
    BY <1>1, RouterTypes, RouterCache DEF Types
  <2>2. QueueInv' /\ AdminInv'
    BY <1>1, RouterFrame DEF Types, QueueInv, Distinct, AdminInv, adminVars
  <2> QED
    BY <2>1, <2>2 DEF Types
<1>2. ASSUME NEW a \in Admins,
             AdminStep(a) \/ \E c \in Controllers : RegController(a, c) \/ UnregController(a, c)
      PROVE  Types'
  <2>1. AdminInv' /\ QueueInv' /\ CacheTypes'
    BY <1>2, AdminTypes, AdminQueue
  <2>2. RouterInv'
    BY <1>2, AdminFrame DEF Types, RouterInv, routerVars
  <2> QED
    BY <2>1, <2>2 DEF Types
<1>3. CASE SweepClock \/ SweepCollect \/ SweepErase \/ \E p \in Paths : GrowStale(p)
  <2>1. CacheTypes'
    BY <1>3, SweepCache DEF Types
  <2>2. QueueInv' /\ AdminInv' /\ RouterInv'
    BY <1>3, SweepFrame DEF Types, QueueInv, Distinct, AdminInv, adminVars, RouterInv, routerVars
  <2> QED
    BY <2>1, <2>2 DEF Types
<1> QED
  BY <1>1, <1>2, <1>3 DEF StepOf

LEMMA AgreeStep ==
  ASSUME Types, Agree, ~Overlap, StepOf PROVE Agree'
BY RouterAgree, AdminAgree, SweepAgree DEF StepOf

LEMMA FlagStep ==
  ASSUME FlagTypes, Next PROVE FlagTypes'
<1>1. raced' \in BOOLEAN
  BY Zenon DEF Next
<1>2. isHandleRoute' \in {isHandleRoute, TRUE, FALSE} /\ isHandleUnreg' \in {isHandleUnreg, TRUE, FALSE}
  <2>1. ASSUME NEW r \in Routers, RouterStep(r) \/ \E p \in Paths : Route(r, p)
        PROVE  isHandleRoute' \in {isHandleRoute, TRUE, FALSE} /\ isHandleUnreg' = isHandleUnreg
    BY <2>1 DEF RouterStep, Route, PassGate, EnterRoute, FindInCache, TakeFromCache, Visit, PutFound,
                LeaveRoute, flags
  <2>2. ASSUME NEW a \in Admins,
               AdminStep(a) \/ \E c \in Controllers : RegController(a, c) \/ UnregController(a, c)
        PROVE  isHandleRoute' = isHandleRoute /\ isHandleUnreg' \in {isHandleUnreg, TRUE, FALSE}
    BY <2>2 DEF AdminStep, RegFind, RegInsert, RegFunc, RegPut, WaitUnreg, SetUnreg, WaitRoute, ClearCache,
                EraseController, CollectPatterns, ErasePattern, UnsetUnreg, RegController,
                UnregController, flags
  <2>3. CASE SweepClock \/ SweepCollect \/ SweepErase \/ \E p \in Paths : GrowStale(p)
    BY <2>3, SweepFrame DEF flags
  <2> QED
    BY <2>1, <2>2, <2>3 DEF Next
<1> QED
  BY <1>1, <1>2, Zenon DEF FlagTypes

RouterIInv == Types /\ FlagTypes /\ (~raced => ~Overlap /\ Agree)

LEMMA RouterInvariant == Spec => []RouterIInv
<1>1. Init => RouterIInv
  BY RouterInitInv, Zenon DEF RouterIInv
<1>2. RouterIInv /\ [Next]_vars => RouterIInv'
  <2> SUFFICES ASSUME RouterIInv, [Next]_vars PROVE RouterIInv'
    OBVIOUS
  <2>1. CASE UNCHANGED vars
    <3>1. Types'
      BY <2>1 DEF RouterIInv, Types, QueueInv, Distinct, CacheTypes, RouterInv, AdminInv, vars,
                  routerVars, adminVars, sweepVars, cacheVars
    <3>2. (~Overlap => ~Overlap') /\ (Agree => Agree')
      BY <2>1 DEF Overlap, Routing, Agree, Erasing, RouteAgrees, vars, routerVars, adminVars, cacheVars
    <3>3. FlagTypes' /\ raced' = raced
      BY <2>1 DEF RouterIInv, FlagTypes, vars, flags
    <3> QED
      BY <3>1, <3>2, <3>3, Zenon DEF RouterIInv
  <2>2. CASE Next
    <3>1. StepOf
      BY <2>2 DEF Next, StepOf
    <3>2. Types'
      BY <3>1, TypesStep DEF RouterIInv
    <3>3. FlagTypes'
      BY <2>2, FlagStep DEF RouterIInv
    <3>4. ~raced' => ~raced /\ ~Overlap'
      BY <2>2, Zenon DEF Next
    <3>5. ~raced => Agree'
      <4>1. ~raced => Types /\ Agree /\ ~Overlap
        BY Zenon DEF RouterIInv
      <4>2. Types /\ Agree /\ ~Overlap => Agree'
        BY <3>1, AgreeStep
      <4> QED
        BY <4>1, <4>2, Zenon
    <3> QED
      BY <3>2, <3>3, <3>4, <3>5, Zenon DEF RouterIInv
  <2> QED
    BY <2>1, <2>2
<1> QED
  BY <1>1, <1>2, PTL DEF Spec

-----------------------------------------------------------------------------
\* The types of the router; a priority is never below zero.
THEOREM RouterTypeOK == Spec => []TypeOK
<1>1. RouterIInv => TypeOK
  <2> SUFFICES ASSUME RouterIInv PROVE TypeOK
    OBVIOUS
  <2>1. {isHandleRoute, isHandleUnreg, raced} \subseteq BOOLEAN
    BY Zenon DEF RouterIInv, FlagTypes
  <2>2. \A a \in Admins : atodo[a] \subseteq Patterns \/ atodo[a] \subseteq Nat
    <3>1. atodo \in [Admins -> (SUBSET Patterns) \cup (SUBSET Nat)]
      BY Zenon DEF RouterIInv, Types, AdminInv
    <3> QED
      BY <3>1
  <2>3. \A a \in Admins : aprio[a] = None \/ aprio[a] \in Entries
    <3>1. aprio \in [Admins -> Entries \cup {None}]
      BY Zenon DEF RouterIInv, Types, AdminInv
    <3> QED
      BY <3>1
  <2>4. /\ controllerMap \subseteq Controllers /\ orderQueue \subseteq Entries
        /\ cached \in [Paths -> Patterns \cup {None}]
        /\ stale \subseteq Paths /\ since \subseteq Paths /\ toErase \subseteq Paths
        /\ spc \in {"idle", "clock", "erase"}
    BY Zenon DEF RouterIInv, Types, QueueInv, CacheTypes
  <2>5. /\ rpc \in [Routers -> {"idle", "gate", "enter", "lookup", "hit", "search",
                                "found", "leave"}]
        /\ rpath \in [Routers -> Paths \cup {None}]
        /\ rlast \in [Routers -> Nat \cup {Begin}]
        /\ rres \in [Routers -> Patterns \cup {None}]
    BY Zenon DEF RouterIInv, Types, RouterInv
  <2>6. apc \in [Admins -> AdminStages] /\ actl \in [Admins -> Controllers \cup {None}]
    BY Zenon DEF RouterIInv, Types, AdminInv
  <2> QED
    BY <2>1, <2>2, <2>3, <2>4, <2>5, <2>6, Zenon DEF TypeOK, AdminStages
<1> QED
  BY <1>1, RouterInvariant, PTL

LEMMA BestWins ==
  ASSUME NEW pat, NEW p, Best(orderQueue, pat, p) PROVE Wins(pat, p)
BY DEF Best, Wins, MatchesOf

\* CacheAgrees: a cached route is the pattern of the greatest priority that matches.
THEOREM RouterCacheAgrees == Spec => []CacheAgrees
<1>1. RouterIInv => CacheAgrees
  <2> SUFFICES ASSUME RouterIInv, ~raced, NEW p \in Paths, cached[p] # None
               PROVE  Wins(cached[p], p)
    BY DEF CacheAgrees
  <2>1. Agree
    BY Zenon DEF RouterIInv
  <2> QED
    BY <2>1, BestWins DEF Agree
<1> QED
  BY <1>1, RouterInvariant, PTL

\* ResultIsBest: so is what route() returns.
THEOREM RouterResultIsBest == Spec => []ResultIsBest
<1>1. RouterIInv => ResultIsBest
  <2> SUFFICES ASSUME RouterIInv, ~raced, NEW r \in Routers, rpc[r] = "leave", rres[r] # None
               PROVE  Wins(rres[r], rpath[r])
    BY DEF ResultIsBest
  <2>1. Agree
    BY Zenon DEF RouterIInv
  <2> QED
    BY <2>1, BestWins DEF Agree, RouteAgrees
<1> QED
  BY <1>1, RouterInvariant, PTL

-----------------------------------------------------------------------------
(* What a route may lose to the sweep *)

\* checkCacheOverdue leaves alone what a route is between its two lookups for.
SweepSparesHits ==
  SweepErase => \A r \in Routers : rpc[r] = "hit" => cached'[rpath[r]] = cached[rpath[r]]

\* A route that has found a cached entry will take it, and one that leaves
\* with nothing has nothing that matches.
FindsAll ==
  \A r \in Routers :
    /\ rpc[r] = "hit" => cached[rpath[r]] # None
    /\ rpc[r] = "leave" /\ rres[r] = None => MatchesOf(rpath[r]) = {}

\* At the end of a traversal every entry has been passed, and none matched.
LEMMA NothingAhead ==
  ASSUME QueueInv, RouterInv, NEW r \in Routers, rpc[r] = "search", RouteAgrees(r), Ahead(r) = {}
  PROVE  MatchesOf(rpath[r]) = {}
<1> SUFFICES ASSUME NEW e \in orderQueue PROVE rpath[r] \notin Matches[e.pattern]
  BY DEF MatchesOf
<1>1. rlast[r] # Begin /\ ~(e.priority < rlast[r])
  BY DEF Ahead
<1>2. e.priority \in Nat /\ rlast[r] \in Nat
  BY <1>1 DEF QueueInv, Entries, RouterInv
<1>3. e.priority >= rlast[r]
  BY <1>1, <1>2
<1> QED
  BY <1>1, <1>3 DEF RouteAgrees

LEMMA RouterFinds ==
  ASSUME Types, Agree, FindsAll, NEW r \in Routers,
         RouterStep(r) \/ \E p \in Paths : Route(r, p)
  PROVE  FindsAll'
<1> USE DEF RGo
<1>1. orderQueue' = orderQueue
  BY RouterFrame
<1>2. \A s \in Routers : s # r => rpc'[s] = rpc[s] /\ rpath'[s] = rpath[s] /\ rres'[s] = rres[s]
  BY DEF RouterStep, Route, PassGate, EnterRoute, FindInCache, TakeFromCache, Visit, EndOfTraversal,
         MatchNext, SkipNext, PutFound, LeaveRoute, ForgetRoute, Types, RouterInv
<1>3. \A p \in Paths : cached[p] # None => cached'[p] # None
  <2>1. cached' = cached \/ \E p \in Paths : cached[p] = None /\ cached' = [cached EXCEPT ![p] = rres[r]]
    BY DEF RouterStep, Route, PassGate, EnterRoute, FindInCache, TakeFromCache, Visit, PutFound,
           PutCache, LeaveRoute, cacheVars, Types, RouterInv
  <2> QED
    BY <2>1 DEF Types, CacheTypes
<1>4. \A s \in Routers : rpc[s] = "hit" => rpath[s] \in Paths
  BY DEF Types, RouterInv
<1>5. ASSUME NEW s \in Routers, s # r
      PROVE  /\ rpc'[s] = "hit" => cached'[rpath'[s]] # None
             /\ rpc'[s] = "leave" /\ rres'[s] = None => MatchesOf(rpath'[s]) = {}
  BY <1>1, <1>2, <1>3, <1>4, <1>5 DEF FindsAll, MatchesOf
<1>6. /\ rpc'[r] = "hit" => cached'[rpath'[r]] # None
      /\ rpc'[r] = "leave" /\ rres'[r] = None => MatchesOf(rpath'[r]) = {}
  <2>1. CASE rpc'[r] \notin {"hit", "leave"}
    BY <2>1
  <2>2. CASE FindInCache(r)
    BY <2>2 DEF FindInCache, cacheVars, Types, RouterInv
  <2>3. CASE TakeFromCache(r)
    BY <2>3 DEF TakeFromCache, FindsAll, Types, RouterInv
  <2>4. CASE EndOfTraversal(r) /\ UNCHANGED rpath
    <3>1. rpc[r] = "search" /\ Ahead(r) = {} /\ rpc'[r] = "leave"
      BY <2>4 DEF EndOfTraversal, Types, RouterInv
    <3>2. MatchesOf(rpath[r]) = {}
      BY <3>1, NothingAhead DEF Types, Agree
    <3> QED
      BY <1>1, <2>4, <3>1, <3>2 DEF MatchesOf
  <2>5. CASE PutFound(r)
    <3>1. rpc'[r] = "leave" /\ rres'[r] \in Patterns
      BY <2>5 DEF PutFound, Types, RouterInv
    <3> QED
      BY <3>1, NoneAssumption
  <2>6. CASE (\E p \in Paths : Route(r, p)) \/ PassGate(r) \/ EnterRoute(r) \/ MatchNext(r)
             \/ SkipNext(r) \/ LeaveRoute(r)
    <3>1. rpc'[r] \in {"gate", "enter", "lookup", "found", "search", "idle"}
      BY <2>6 DEF Route, PassGate, EnterRoute, MatchNext, SkipNext, LeaveRoute, Types, RouterInv
    <3> QED
      BY <2>1, <3>1
  <2> QED
    BY <2>2, <2>3, <2>4, <2>5, <2>6 DEF RouterStep, Visit
<1> QED
  BY <1>1, <1>5, <1>6 DEF FindsAll, MatchesOf

\* Nobody routes while an administrator empties the caches or changes the queue.
LEMMA AdminFinds ==
  ASSUME Types, FindsAll, ~Overlap, NEW a \in Admins,
         AdminStep(a) \/ \E c \in Controllers : RegController(a, c) \/ UnregController(a, c)
  PROVE  FindsAll'
<1>1. UNCHANGED <<rpc, rpath, rres>>
  BY AdminFrame DEF routerVars
<1>2. CASE AdminPlain(a) \/ RegInsert(a) \/ EraseController(a)
  <2>1. UNCHANGED <<orderQueue, cached>>
    BY <1>2, AdminPlainFrame DEF RegInsert, EraseController, cacheVars
  <2> QED
    BY <1>1, <2>1 DEF FindsAll, MatchesOf
<1>3. CASE ClearCache(a) \/ RegPut(a) \/ ErasePattern(a)
  <2>1. apc[a] \in {"clear", "regPut", "erasePatterns"}
    BY <1>3 DEF AGo, ClearCache, RegPut, ErasePattern
  <2>2. Routing = {}
    BY <2>1 DEF Overlap
  <2>3. \A r \in Routers : rpc[r] \notin {"hit", "leave"}
    BY <2>2 DEF Routing
  <2> QED
    BY <1>1, <2>3 DEF FindsAll
<1> QED
  BY <1>2, <1>3 DEF AdminStep, AdminPlain

LEMMA SweepFinds ==
  ASSUME Types, FindsAll, SweepSparesHits,
         SweepClock \/ SweepCollect \/ SweepErase \/ \E p \in Paths : GrowStale(p)
  PROVE  FindsAll'
<1>1. UNCHANGED <<orderQueue, rpc, rpath, rres>>
  BY SweepFrame DEF routerVars
<1>2. \A r \in Routers : rpc[r] = "hit" => cached'[rpath[r]] = cached[rpath[r]]
  BY DEF SweepSparesHits, SweepClock, SweepCollect, GrowStale, cacheVars
<1> QED
  BY <1>1, <1>2 DEF FindsAll, MatchesOf

\* RegisteredIsRouted, which is not so: the sweep that takes an entry between the two
\* lookups of getRouteInCache is the only reason.  Without it, a path that a
\* registered pattern matches is never answered with nothing.
THEOREM RouterLosesToSweepOnly == Spec /\ [][SweepSparesHits]_vars => []RegisteredIsRouted
<1> DEFINE FInv == RouterIInv /\ (~raced => FindsAll)
<1>1. Init => FInv
  <2> SUFFICES ASSUME Init PROVE FInv
    OBVIOUS
  <2>1. RouterIInv
    BY RouterInitInv, Zenon DEF RouterIInv
  <2>2. FindsAll
    BY DEF Init, FindsAll
  <2> QED
    BY <2>1, <2>2, Zenon
<1>2. FInv /\ RouterIInv' /\ [Next]_vars /\ [SweepSparesHits]_vars => FInv'
  <2> SUFFICES ASSUME FInv, RouterIInv', [Next]_vars, [SweepSparesHits]_vars PROVE FInv'
    OBVIOUS
  <2>1. CASE UNCHANGED vars
    <3>1. FindsAll => FindsAll'
      BY <2>1 DEF FindsAll, MatchesOf, vars, routerVars, cacheVars
    <3>2. raced' = raced
      BY <2>1 DEF vars
    <3> QED
      BY <3>1, <3>2, Zenon
  <2>2. CASE Next /\ SweepSparesHits
    <3>1. StepOf
      BY <2>2 DEF Next, StepOf
    <3>2. ~raced' => ~raced
      BY <2>2, Zenon DEF Next
    <3>3. ~raced => Types /\ Agree /\ ~Overlap /\ FindsAll
      BY Zenon DEF RouterIInv
    <3>4. Types /\ Agree /\ ~Overlap /\ FindsAll => FindsAll'
      BY <2>2, <3>1, RouterFinds, AdminFinds, SweepFinds DEF StepOf
    <3> QED
      BY <3>2, <3>3, <3>4, Zenon
  <2> QED
    BY <2>1, <2>2
<1>3. FInv => RegisteredIsRouted
  BY Zenon DEF FindsAll, RegisteredIsRouted
<1> HIDE DEF FInv
<1> QED
  BY <1>1, <1>2, <1>3, RouterInvariant, PTL DEF Spec

-----------------------------------------------------------------------------
(* The table while one administrator works *)

InQueue == {e.pattern : e \in orderQueue}
PatternsOf(C) == {pat \in Patterns : Owner[pat] \in C}

\* An administrator who is here has left the table as it should be.
Settled == {"idle", "regFind", "regInsert", "waitUnreg", "setUnreg", "waitRoute", "clear", "erase",
            "unset"}

\* The patterns of its controller that an administrator has still to insert.
Missing(a) == atodo[a] \cup (IF apc[a] = "regPut" THEN {aprio[a].pattern} ELSE {})

Registering(a) ==
  /\ actl[a] \in controllerMap
  /\ InQueue = PatternsOf(controllerMap) \ Missing(a)
  /\ Missing(a) \subseteq PatternsOf({actl[a]})
  /\ apc[a] = "regPut" => /\ aprio[a].pattern \notin atodo[a]
                          /\ \A e \in orderQueue : e.priority # aprio[a].priority

Unregistering(a) ==
  /\ actl[a] \notin controllerMap
  /\ PatternsOf(controllerMap) \subseteq InQueue
  /\ InQueue \subseteq PatternsOf(controllerMap \cup {actl[a]})
  /\ apc[a] = "erasePatterns" =>
       \A e \in orderQueue : e.priority \in atodo[a] <=> Owner[e.pattern] = actl[a]

TableInv ==
  /\ (\A a \in Admins : apc[a] \in Settled) => InQueue = PatternsOf(controllerMap)
  /\ \A a \in Admins :
       /\ apc[a] = "regInsert" => actl[a] \notin controllerMap
       /\ apc[a] \in {"regFunc", "regPut"} => Registering(a)
       /\ apc[a] \in {"collect", "erasePatterns"} => Unregistering(a)

\* Nothing is registered yet.
LEMMA TableInit == Init => TableInv
<1> SUFFICES ASSUME Init PROVE TableInv
  OBVIOUS
<1>1. controllerMap = {} /\ orderQueue = {} /\ \A a \in Admins : apc[a] = "idle"
  BY DEF Init
<1>2. InQueue = PatternsOf(controllerMap)
  BY <1>1 DEF InQueue, PatternsOf
<1> QED
  BY <1>1, <1>2 DEF TableInv

\* A step that touches neither the table nor an administrator.
LEMMA TableFrame ==
  ASSUME TableInv, UNCHANGED <<controllerMap, orderQueue, adminVars>>
  PROVE  TableInv'
BY DEF TableInv, Registering, Unregistering, Missing, InQueue, adminVars

\* What there is to show for the one administrator.
LEMMA TableOfOne ==
  ASSUME NEW a \in Admins, \A b \in Admins : b = a,
         apc'[a] \in Settled => InQueue' = PatternsOf(controllerMap'),
         apc'[a] = "regInsert" => actl'[a] \notin controllerMap',
         apc'[a] \in {"regFunc", "regPut"} => Registering(a)',
         apc'[a] \in {"collect", "erasePatterns"} => Unregistering(a)'
  PROVE  TableInv'
BY DEF TableInv

\* Registering: what is not inserted yet is the controller's own, and missing.
LEMMA TableReg ==
  ASSUME Types, TableInv, NEW a \in Admins, \A b \in Admins : b = a,
         RegFind(a) \/ RegInsert(a) \/ RegFunc(a) \/ RegPut(a)
  PROVE  TableInv'
<1> USE DEF AGo, Settled
<1>0. /\ apc \in [Admins -> AdminStages] /\ actl \in [Admins -> Controllers \cup {None}]
      /\ atodo \in [Admins -> (SUBSET Patterns) \cup (SUBSET Nat)]
      /\ aprio \in [Admins -> Entries \cup {None}]
      /\ apc[a] \in {"regFunc", "regPut"} => atodo[a] \subseteq Patterns
      /\ apc[a] = "regPut" => aprio[a] \in Entries
      /\ apc[a] # "idle" => actl[a] \in Controllers
  BY DEF Types, AdminInv
<1>1. CASE RegFind(a)
  <2>1. /\ UNCHANGED <<controllerMap, orderQueue>> /\ apc[a] = "regFind"
        /\ \/ apc'[a] = "idle"
           \/ apc'[a] = "regInsert" /\ actl' = actl /\ actl[a] \notin controllerMap
    BY <1>0, <1>1 DEF RegFind, AEnd
  <2>2. InQueue' = PatternsOf(controllerMap')
    BY <2>1 DEF TableInv, InQueue
  <2> QED
    BY <2>1, <2>2, TableOfOne
<1>2. CASE RegInsert(a)
  <2>1. /\ UNCHANGED <<orderQueue, actl>> /\ apc[a] = "regInsert" /\ apc'[a] = "regFunc"
        /\ controllerMap' = controllerMap \cup {actl[a]} /\ atodo'[a] = PatternsOf({actl[a]})
    BY <1>0, <1>2 DEF RegInsert, PatternsOf
  <2>2. InQueue = PatternsOf(controllerMap) /\ actl[a] \notin controllerMap /\ InQueue' = InQueue
    BY <2>1 DEF TableInv, InQueue
  <2>3. Missing(a)' = PatternsOf({actl[a]})
    BY <2>1 DEF Missing
  <2>4. PatternsOf(controllerMap) = PatternsOf(controllerMap') \ PatternsOf({actl[a]})
    BY <2>1, <2>2 DEF PatternsOf
  <2>5. Registering(a)'
    BY <2>1, <2>2, <2>3, <2>4 DEF Registering
  <2> QED
    BY <2>1, <2>5, TableOfOne
<1>3. CASE RegFunc(a)
  <2>1. /\ apc[a] = "regFunc" /\ UNCHANGED <<controllerMap, orderQueue>> /\ InQueue' = InQueue
    BY <1>3 DEF RegFunc, AEnd, InQueue
  <2>2. Registering(a) /\ Missing(a) = atodo[a]
    BY <2>1 DEF TableInv, Missing
  <2>3. CASE AEnd(a, "regFunc") /\ (atodo[a] = {} \/ actl[a] \notin controllerMap)
    <3>1. atodo[a] = {} /\ apc'[a] = "idle"
      BY <1>0, <2>2, <2>3 DEF Registering, AEnd
    <3>2. InQueue' = PatternsOf(controllerMap')
      BY <2>1, <2>2, <3>1 DEF Registering
    <3> QED
      BY <3>1, <3>2, TableOfOne
  <2>4. ASSUME NEW pat \in atodo[a], AGo(a, "regFunc", "regPut"), actl' = actl,
               atodo' = [atodo EXCEPT ![a] = atodo[a] \ {pat}],
               aprio' = [aprio EXCEPT ![a] = [pattern |-> pat, priority |-> FreePriority(pat)]]
        PROVE  TableInv'
    <3>1. apc'[a] = "regPut" /\ atodo'[a] = atodo[a] \ {pat}
      BY <1>0, <2>4
    <3>2. aprio'[a].pattern = pat /\ aprio'[a].priority = FreePriority(pat)
      BY <1>0, <2>4
    <3>3. pat \in Patterns
      BY <1>0, <2>1
    <3>4. \A e \in orderQueue : e.priority # FreePriority(pat)
      BY <3>3, FreePriorityIsFree DEF Types
    <3>5. Missing(a)' = Missing(a)
      BY <2>2, <3>1, <3>2 DEF Missing
    <3>6. Registering(a)'
      BY <2>1, <2>2, <2>4, <3>1, <3>2, <3>4, <3>5 DEF Registering
    <3> QED
      BY <3>1, <3>6, TableOfOne
  <2> QED
    BY <1>3, <2>3, <2>4 DEF RegFunc
<1>4. CASE RegPut(a)
  <2>1. /\ apc[a] = "regPut" /\ apc'[a] = "regFunc" /\ UNCHANGED <<controllerMap, actl, atodo>>
    BY <1>0, <1>4 DEF RegPut
  <2>2. Registering(a) /\ Missing(a) = atodo[a] \cup {aprio[a].pattern} /\ Missing(a)' = atodo[a]
    BY <2>1 DEF TableInv, Missing
  <2>3. orderQueue' = orderQueue \cup {aprio[a]}
    BY <1>4, <2>1, <2>2 DEF RegPut, Registering
  <2>4. InQueue' = InQueue \cup {aprio[a].pattern}
    BY <2>3 DEF InQueue
  <2>5. aprio[a].pattern \notin atodo[a] /\ aprio[a].pattern \in PatternsOf(controllerMap)
    BY <2>1, <2>2 DEF Registering, PatternsOf
  <2>6. InQueue' = PatternsOf(controllerMap') \ Missing(a)'
    BY <2>1, <2>2, <2>4, <2>5 DEF Registering
  <2>7. Registering(a)'
    BY <2>1, <2>2, <2>6 DEF Registering
  <2> QED
    BY <2>1, <2>7, TableOfOne
<1> QED
  BY <1>1, <1>2, <1>3, <1>4

\* Unregistering: the priorities that are collected are those of the controller's
\* entries, and of no others.
LEMMA TableUnreg ==
  ASSUME Types, TableInv, NEW a \in Admins, \A b \in Admins : b = a,
         EraseController(a) \/ CollectPatterns(a) \/ ErasePattern(a)
  PROVE  TableInv'
<1> USE DEF AGo, Settled
<1>0. /\ apc \in [Admins -> AdminStages] /\ actl \in [Admins -> Controllers \cup {None}]
      /\ atodo \in [Admins -> (SUBSET Patterns) \cup (SUBSET Nat)]
      /\ Distinct /\ \A e \in orderQueue : e.pattern \in Patterns
  BY DEF Types, AdminInv, QueueInv, Entries
<1>1. CASE EraseController(a)
  <2>1. /\ UNCHANGED <<orderQueue, actl>> /\ apc[a] = "erase"
        /\ controllerMap' = controllerMap \ {actl[a]} /\ InQueue' = InQueue
        /\ apc'[a] = IF actl[a] \in controllerMap THEN "collect" ELSE "unset"
    BY <1>0, <1>1 DEF EraseController, InQueue
  <2>2. InQueue = PatternsOf(controllerMap)
    BY <2>1 DEF TableInv
  <2>3. CASE actl[a] \in controllerMap
    <3>1. PatternsOf(controllerMap') \subseteq InQueue
          /\ InQueue = PatternsOf(controllerMap' \cup {actl[a]})
      BY <2>1, <2>2, <2>3 DEF PatternsOf
    <3>2. Unregistering(a)'
      BY <2>1, <2>3, <3>1 DEF Unregistering
    <3> QED
      BY <2>1, <2>3, <3>2, TableOfOne
  <2>4. CASE actl[a] \notin controllerMap
    <3>1. controllerMap' = controllerMap
      BY <2>1, <2>4
    <3> QED
      BY <2>1, <2>2, <2>4, <3>1, TableOfOne
  <2> QED
    BY <2>3, <2>4
<1>2. CASE CollectPatterns(a)
  <2>1. /\ UNCHANGED <<controllerMap, orderQueue, actl>> /\ apc[a] = "collect"
        /\ apc'[a] = "erasePatterns" /\ InQueue' = InQueue
        /\ atodo'[a] = {e.priority : e \in {d \in orderQueue : Owner[d.pattern] = actl[a]}}
    BY <1>0, <1>2 DEF CollectPatterns, InQueue
  <2>2. Unregistering(a)
    BY <2>1 DEF TableInv
  <2>3. \A e \in orderQueue : e.priority \in atodo'[a] <=> Owner[e.pattern] = actl[a]
    BY <1>0, <2>1 DEF Distinct
  <2>4. Unregistering(a)'
    BY <2>1, <2>2, <2>3 DEF Unregistering
  <2> QED
    BY <2>1, <2>4, TableOfOne
<1>3. CASE ErasePattern(a)
  <2>1. apc[a] = "erasePatterns" /\ UNCHANGED <<controllerMap, actl>>
    BY <1>3 DEF ErasePattern
  <2>2. /\ actl[a] \notin controllerMap
        /\ PatternsOf(controllerMap) \subseteq InQueue
        /\ InQueue \subseteq PatternsOf(controllerMap \cup {actl[a]})
        /\ \A e \in orderQueue : e.priority \in atodo[a] <=> Owner[e.pattern] = actl[a]
    BY <2>1 DEF TableInv, Unregistering
  <2>3. ASSUME NEW k \in atodo[a], AGo(a, "erasePatterns", "erasePatterns"),
               orderQueue' = {e \in orderQueue : e.priority # k},
               atodo' = [atodo EXCEPT ![a] = atodo[a] \ {k}]
        PROVE  TableInv'
    <3>1. apc'[a] = "erasePatterns" /\ atodo'[a] = atodo[a] \ {k}
      BY <1>0, <2>3
    <3>2. PatternsOf(controllerMap) \subseteq InQueue'
      <4> SUFFICES ASSUME NEW pat \in PatternsOf(controllerMap) PROVE pat \in InQueue'
        OBVIOUS
      <4>1. PICK e \in orderQueue : e.pattern = pat
        BY <2>2 DEF InQueue
      <4>2. Owner[e.pattern] # actl[a]
        BY <2>2, <4>1 DEF PatternsOf
      <4>3. e.priority # k
        BY <2>2, <4>2
      <4> QED
        BY <2>3, <4>1, <4>3 DEF InQueue
    <3>3. InQueue' \subseteq InQueue
      BY <2>3 DEF InQueue
    <3>4. \A e \in orderQueue' : e.priority \in atodo'[a] <=> Owner[e.pattern] = actl[a]
      BY <2>2, <2>3, <3>1
    <3>5. Unregistering(a)'
      BY <2>1, <2>2, <3>2, <3>3, <3>4 DEF Unregistering
    <3> QED
      BY <3>1, <3>5, TableOfOne
  <2>4. CASE AGo(a, "erasePatterns", "unset") /\ atodo[a] = {} /\ UNCHANGED orderQueue
    <3>1. apc'[a] = "unset" /\ InQueue' = InQueue
      BY <1>0, <2>4 DEF InQueue
    <3>2. InQueue \subseteq PatternsOf(controllerMap)
      <4> SUFFICES ASSUME NEW e \in orderQueue PROVE e.pattern \in PatternsOf(controllerMap)
        BY DEF InQueue
      <4>1. Owner[e.pattern] # actl[a]
        BY <2>2, <2>4
      <4>2. e.pattern \in PatternsOf(controllerMap \cup {actl[a]})
        BY <2>2 DEF InQueue
      <4> QED
        BY <4>1, <4>2 DEF PatternsOf
    <3>3. InQueue' = PatternsOf(controllerMap')
      BY <2>1, <2>2, <3>1, <3>2
    <3> QED
      BY <3>1, <3>3, TableOfOne
  <2> QED
    BY <1>3, <2>3, <2>4 DEF ErasePattern
<1> QED
  BY <1>1, <1>2, <1>3

\* The other steps of an administrator leave the table as it should be.
LEMMA TableRest ==
  ASSUME Types, TableInv, NEW a \in Admins, \A b \in Admins : b = a,
         \/ WaitUnreg(a) \/ SetUnreg(a) \/ WaitRoute(a) \/ ClearCache(a) \/ UnsetUnreg(a)
         \/ \E c \in Controllers : RegController(a, c) \/ UnregController(a, c)
  PROVE  TableInv'
<1>1. /\ apc[a] \in Settled /\ apc'[a] \in Settled \ {"regInsert"}
      /\ UNCHANGED <<controllerMap, orderQueue>>
  BY DEF WaitUnreg, SetUnreg, WaitRoute, ClearCache, UnsetUnreg, RegController, UnregController, AGo,
         AEnd, Settled, Types, AdminInv
<1>2. InQueue' = PatternsOf(controllerMap')
  BY <1>1 DEF TableInv, InQueue
<1> QED
  BY <1>1, <1>2, TableOfOne DEF Settled

\* Every step keeps the table.
LEMMA TableStep ==
  ASSUME \A a, b \in Admins : a = b, Types, TableInv, [Next]_vars
  PROVE  TableInv'
<1>1. ASSUME NEW r \in Routers, RouterStep(r) \/ \E p \in Paths : Route(r, p)
      PROVE  TableInv'
  BY <1>1, RouterFrame, TableFrame
<1>2. ASSUME NEW a \in Admins,
             AdminStep(a) \/ \E c \in Controllers : RegController(a, c) \/ UnregController(a, c)
      PROVE  TableInv'
  BY <1>2, TableReg, TableUnreg, TableRest DEF AdminStep
<1>3. CASE SweepClock \/ SweepCollect \/ SweepErase \/ \E p \in Paths : GrowStale(p)
  BY <1>3, SweepFrame, TableFrame
<1>4. CASE UNCHANGED vars
  BY <1>4, TableFrame DEF vars
<1> QED
  BY <1>1, <1>2, <1>3, <1>4 DEF Next

\* QueueComplete, for one administrator at a time: the queue holds the patterns of
\* the registered controllers, all of them and no others.  Two administrators may take
\* the same free priority, and the second insert() drops its pattern.
THEOREM RouterQueueComplete == (\A a, b \in Admins : a = b) => (Spec => []QueueComplete)
<1> SUFFICES ASSUME \A a, b \in Admins : a = b PROVE Spec => []QueueComplete
  OBVIOUS
<1>1. RouterIInv => Types
  BY Zenon DEF RouterIInv
<1>2. Types /\ TableInv /\ [Next]_vars => TableInv'
  BY TableStep
<1>3. TableInv => QueueComplete
  BY DEF TableInv, QueueComplete, Settled, InQueue, PatternsOf
<1> QED
  BY <1>1, <1>2, <1>3, TableInit, RouterInvariant, PTL DEF Spec
=============================================================================

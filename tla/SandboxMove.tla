---------------------------- MODULE SandboxMove ----------------------------
(***************************************************************************)
(* One scope's computer and its moves from one backend to another          *)
(* (sandbox-migration-runner.ts), while turns are sent to the computer by  *)
(* the routers of several processes, each with a cache of the route        *)
(* (sandbox-routing.ts).  The content of a home is the number of the last  *)
(* write in it.  A route read from the map and its place in the cache are  *)
(* one step: a read takes no time next to the cache's 15 seconds.          *)
(***************************************************************************)
EXTENDS Naturals

CONSTANTS Backends, Default, \* the backends, and the one of a scope without a route
          Jobs,              \* turns, and the background work they leave
          Routers,           \* processes that send turns to the computer
          Movers,            \* calls of migrateScope
          NoMover, NoRoute,
          MaxSaves,          \* bound on the writes
          MaxMoveFaults      \* bound on statements that throw and on deaths

ASSUME MoveAssumption ==
    /\ Default \in Backends /\ NoRoute \notin Backends /\ NoMover \notin Movers
    /\ MaxSaves \in Nat /\ MaxMoveFaults \in Nat

VARIABLES route,        \* the backend the map names
          routeCache,   \* what each router has cached of it
          home,         \* the content of the home on each backend
          work,         \* each job: where it is at, its backend, and whether no move came between
          mover,        \* each call of migrateScope
          moveLock,     \* who holds the lock sandbox-migration:<scope>
          saves,        \* writes so far
          kept,         \* the last write of a job with no move under way
          astray,       \* a move broke off in its wait, and a router has the route of before
          built,        \* the backends constructed in each process
          moveFaults

moveVars == <<route, routeCache, home, work, mover, moveLock, saves, kept, astray, built, moveFaults>>

IdleMover == [at |-> "idle", from |-> NoRoute, to |-> NoRoute, since |-> 0, copy |-> 0, again |-> FALSE]

MoveInit ==
    /\ route = Default /\ routeCache = [r \in Routers |-> NoRoute]
    /\ home = [b \in Backends |-> 0] /\ saves = 0 /\ kept = 0
    /\ work = [j \in Jobs |-> [at |-> "new", on |-> NoRoute, sure |-> FALSE]]
    /\ mover = [m \in Movers |-> IdleMover]
    /\ moveLock = NoMover /\ astray = FALSE /\ moveFaults = 0
    /\ built \in [Routers \cup Movers -> {B \in SUBSET Backends : Default \in B}]

Underway == \E m \in Movers : mover[m].at \notin {"idle", "checks", "over"}
-----------------------------------------------------------------------------
(* Turns.                                                                  *)

\* routeFor: the route in the cache, or the map's.
Routed(r) == IF routeCache[r] = NoRoute THEN route ELSE routeCache[r]

\* pick: a process that has not the backend falls back on the default one, which all have.
Picked(r) == IF Routed(r) \in built[r] THEN Routed(r) ELSE Default

\* A turn is sent to the computer.  It is sure to be in the right place when no move is
\* under way or has left routes behind, and its process has the backend it is sent to.
JobStarts(j, r) ==
    /\ work[j].at = "new"
    /\ routeCache' = [routeCache EXCEPT ![r] = Routed(r)]
    /\ work' = [work EXCEPT ![j] = [at |-> "turn", on |-> Picked(r),
                                    sure |-> ~Underway /\ ~astray /\ Routed(r) \in built[r]]]
    /\ UNCHANGED <<route, home, mover, moveLock, saves, kept, astray, built, moveFaults>>

\* A job keeps the handle it was given, and with it the backend.
JobWrites(j) ==
    /\ work[j].at \in {"turn", "background"} /\ saves < MaxSaves
    /\ saves' = saves + 1
    /\ home' = [home EXCEPT ![work[j].on] = saves + 1]
    /\ kept' = IF work[j].sure THEN saves + 1 ELSE kept
    /\ UNCHANGED <<route, routeCache, work, mover, moveLock, astray, built, moveFaults>>

\* A turn ends, and may leave a process behind.
JobEnds(j) ==
    /\ work[j].at \in {"turn", "background"}
    /\ \E s \in {"over"} \cup (IF work[j].at = "turn" THEN {"background"} ELSE {}) :
         work' = [work EXCEPT ![j].at = s]
    /\ UNCHANGED <<route, routeCache, home, mover, moveLock, saves, kept, astray, built, moveFaults>>

\* A router has a route cached that is not the map's.
Behind(caches, b) == \E r \in Routers : caches[r] \notin {NoRoute, b}

\* ROUTE_CACHE_TTL_MS have gone by since the router read the map.
CacheLapses(r) ==
    /\ routeCache[r] # NoRoute
    /\ routeCache' = [routeCache EXCEPT ![r] = NoRoute]
    /\ astray' = (astray /\ Behind(routeCache', route))
    /\ UNCHANGED <<route, home, work, mover, moveLock, saves, kept, built, moveFaults>>
-----------------------------------------------------------------------------
(* migrateScope, under the scope's lock.                                   *)

MoverAt(m, s) == mover' = [mover EXCEPT ![m].at = s]

\* A scope that is on the backend already is refused, and one that is on a backend, or is
\* to go to one, that the process has not.
MoveEnters(m, to) ==
    /\ mover[m].at = "idle" /\ moveLock = NoMover /\ to # route /\ {route, to} \subseteq built[m]
    /\ moveLock' = m
    /\ mover' = [mover EXCEPT ![m] = [IdleMover EXCEPT !.at = "checks", !.from = route, !.to = to]]
    /\ UNCHANGED <<route, routeCache, home, work, saves, kept, astray, built, moveFaults>>

\* hasLiveWork: processes in the background, not turns.
HasLiveWork == \E j \in Jobs : work[j].at = "background"

MoveRefused(m) ==
    /\ mover[m].at = "checks" /\ HasLiveWork
    /\ MoverAt(m, "over") /\ moveLock' = NoMover
    /\ UNCHANGED <<route, routeCache, home, work, saves, kept, astray, built, moveFaults>>

\* No work is left in the background: the computers are provisioned, and nobody looks again.
MoveChecked(m) ==
    /\ mover[m].at = "checks" /\ ~HasLiveWork
    /\ MoverAt(m, "provisions")
    /\ work' = [j \in Jobs |-> IF work[j].at = "turn" THEN [work[j] EXCEPT !.sure = FALSE] ELSE work[j]]
    /\ UNCHANGED <<route, routeCache, home, moveLock, saves, kept, astray, built, moveFaults>>

\* The time is taken, from which a change of the old home will be looked for.
MoveSetsOut(m) ==
    /\ mover[m].at = "provisions"
    /\ mover' = [mover EXCEPT ![m].at = "packs", ![m].since = home[mover[m].from]]
    /\ UNCHANGED <<route, routeCache, home, work, moveLock, saves, kept, astray, built, moveFaults>>

MovePacks(m) ==
    /\ mover[m].at = "packs"
    /\ mover' = [mover EXCEPT ![m].at = "extracts", ![m].copy = home[mover[m].from]]
    /\ UNCHANGED <<route, routeCache, home, work, moveLock, saves, kept, astray, built, moveFaults>>

\* The archive is verified and laid over what the new home has.
MoveExtracts(m) ==
    /\ mover[m].at = "extracts"
    /\ home' = [home EXCEPT ![mover[m].to] = mover[m].copy]
    /\ MoverAt(m, "flips")
    /\ UNCHANGED <<route, routeCache, work, moveLock, saves, kept, astray, built, moveFaults>>

MoveFlips(m) ==
    /\ mover[m].at = "flips"
    /\ route' = mover[m].to
    /\ IF mover[m].again THEN MoverAt(m, "over") /\ moveLock' = NoMover
                         ELSE MoverAt(m, "waits") /\ UNCHANGED moveLock
    /\ UNCHANGED <<routeCache, home, work, saves, kept, astray, built, moveFaults>>

\* Mutated form: the move does not wait for the caches.
SettledAtOnce(m) == TRUE

\* settleMs are as long as a cached route lives: what was cached before the route changed
\* has lapsed.
Settled(m) == \A r \in Routers : routeCache[r] \in {NoRoute, mover[m].to}

MoveSettles(m) ==
    /\ mover[m].at = "waits" /\ Settled(m)
    /\ MoverAt(m, "looks") /\ astray' = FALSE
    /\ UNCHANGED <<route, routeCache, home, work, moveLock, saves, kept, built, moveFaults>>

\* When the old home has changed since the move set out it is copied once more.
MoveLooks(m) ==
    /\ mover[m].at = "looks"
    /\ IF home[mover[m].from] # mover[m].since
       THEN mover' = [mover EXCEPT ![m].at = "packs", ![m].again = TRUE] /\ UNCHANGED moveLock
       ELSE MoverAt(m, "over") /\ moveLock' = NoMover
    /\ UNCHANGED <<route, routeCache, home, work, saves, kept, astray, built, moveFaults>>

\* A statement throws, or the process dies and its lock's connection with it.  The
\* put of the route may have got through all the same.
MoveBreaks(m) ==
    /\ mover[m].at \notin {"idle", "over"} /\ moveFaults < MaxMoveFaults
    /\ moveFaults' = moveFaults + 1 /\ moveLock' = NoMover /\ MoverAt(m, "over")
    /\ route' \in {route} \cup (IF mover[m].at = "flips" THEN {mover[m].to} ELSE {})
    /\ astray' = ((astray \/ route' # route \/ mover[m].at = "waits") /\ Behind(routeCache, route'))
    /\ UNCHANGED <<routeCache, home, work, saves, kept, built>>
-----------------------------------------------------------------------------
MoveNext ==
    \/ \E j \in Jobs : JobWrites(j) \/ JobEnds(j) \/ \E r \in Routers : JobStarts(j, r)
    \/ \E r \in Routers : CacheLapses(r)
    \/ \E m \in Movers :
         \/ \E to \in Backends : MoveEnters(m, to)
         \/ MoveRefused(m) \/ MoveChecked(m) \/ MoveSetsOut(m) \/ MovePacks(m)
         \/ MoveExtracts(m) \/ MoveFlips(m)
         \/ MoveSettles(m) \/ MoveLooks(m) \/ MoveBreaks(m)

MoveSpec == MoveInit /\ [][MoveNext]_moveVars
-----------------------------------------------------------------------------
MoveTypeOK ==
    /\ route \in Backends /\ routeCache \in [Routers -> Backends \cup {NoRoute}]
    /\ home \in [Backends -> 0 .. MaxSaves] /\ {saves, kept} \subseteq 0 .. MaxSaves
    /\ work \in [Jobs -> [at : {"new", "turn", "background", "over"},
                          on : Backends \cup {NoRoute}, sure : BOOLEAN]]
    /\ mover \in [Movers -> [at : {"idle", "checks", "provisions", "packs", "extracts", "flips",
                                   "waits", "looks", "over"},
                             from : Backends \cup {NoRoute}, to : Backends \cup {NoRoute},
                             since : 0 .. MaxSaves, copy : 0 .. MaxSaves, again : BOOLEAN]]
    /\ moveLock \in Movers \cup {NoMover} /\ astray \in BOOLEAN
    /\ built \in [Routers \cup Movers -> SUBSET Backends] /\ moveFaults \in 0 .. MaxMoveFaults

\* Work that no move came between meets on one computer: a turn, and a process it left,
\* is on the computer the route names, whatever the routers have cached, and finds there
\* what the work of that kind before it wrote.  It is work started with no move under way,
\* in a process that has the backend it is sent to.  Earlier moves may have broken off
\* anywhere; only for as long as a router still has the route of before a move that broke
\* off in its wait, at most the 15 seconds a route is cached, the code promises nothing.
WorkMeets ==
    \A j \in Jobs : work[j].sure /\ work[j].at \in {"turn", "background"} =>
        work[j].on = route /\ home[route] >= kept
=============================================================================

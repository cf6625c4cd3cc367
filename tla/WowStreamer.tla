---------------------------- MODULE WowStreamer ----------------------------
(***************************************************************************)
(* Terrain streaming: WowMap (shared/game/world/wow_map.gd) on the main    *)
(* thread asks WowStreamer (extension/src/wow_streamer.cpp) for the tiles  *)
(* around the focus, worker threads build them, and poll() hands them      *)
(* back.  A building or a doodad whose placement several tiles list is     *)
(* built once, by the tile that claims its unique id first, and is freed   *)
(* when the last tile that lists it is unloaded: refs counts those tiles   *)
(* under the streamer's mutex.  A change of map starts a new generation,   *)
(* and what the workers still build for an older one is thrown away.       *)
(*                                                                         *)
(* One step is one critical section of the mutex, or what the main thread  *)
(* does between two of them.                                               *)
(*                                                                         *)
(* A definition marked "Mistake:" is a slip the next one must not make: no *)
(* action uses it, and the runs show that a property would catch it.       *)
(***************************************************************************)
EXTENDS Integers, FiniteSets

CONSTANTS
    Maps,         \* map names
    Tiles,        \* tile coordinates, pairs <<x, y>>
    Centers,      \* the tiles the focus may stand on
    Radius,       \* WowMap.radius
    MapTiles,     \* get_map_info(): the tiles each map has
    Uids,         \* placement unique ids
    Wmos,         \* those of buildings; the others are doodads
    Placements,   \* the unique ids each tile of each map lists
    BadTiles,     \* tiles <<map, tile>> whose ADT does not load
    BadWmos,      \* buildings whose WMO does not load
    MaxGen        \* bound: generations, that is maps entered

None == "none"

ASSUME ConstantsAssumption ==
    /\ Tiles \subseteq Int \X Int /\ IsFiniteSet(Tiles)
    /\ Centers \subseteq Int \X Int /\ Radius \in Nat
    /\ MapTiles \in [Maps -> SUBSET Tiles]
    /\ Wmos \subseteq Uids /\ BadWmos \subseteq Wmos
    /\ Placements \in [Maps -> [Tiles -> SUBSET Uids]]
    /\ None \notin Maps
    /\ MaxGen \in Nat \ {0}

VARIABLES
    generation, refs,     \* the streamer's, guarded by its mutex
    jobs,                 \* requests in the pool and in results
    map, existing, tiles, loading,            \* WowMap's: map_name,
    tilePlacements, placementNodes,           \* _existing, _tiles, ...
    main, todo,           \* where the main thread is, tiles left to unload
    focus                 \* the tile under the focus

streamer == <<generation, refs>>
wowMap   == <<map, existing, tiles, loading, tilePlacements, placementNodes>>
mainVars == <<main, todo>>
vars == <<streamer, jobs, wowMap, mainVars, focus>>

Gens == 1 .. MaxGen

\* A request: what work() has left to look at, the ids it has pushed to
\* tile_refs, and those of the buildings in its result.
Job ==
    [map : Maps, tile : Tiles, gen : Gens, left : SUBSET Uids,
     refs : SUBSET Uids, built : SUBSET Uids, done : BOOLEAN]

\* tiles[t] is the map the node of tile t was loaded from, and
\* placementNodes[u] the generation that built u, 0 while it does not stand.
TypeOK ==
    /\ generation \in Gens /\ refs \in [Uids -> Nat]
    /\ jobs \subseteq Job
    /\ map \in Maps /\ existing \subseteq Tiles
    /\ tiles \in [Tiles -> Maps \cup {None}]
    /\ loading \subseteq Tiles
    /\ tilePlacements \in [Tiles -> SUBSET Uids]
    /\ placementNodes \in [Uids -> 0 .. MaxGen]
    /\ main \in {"idle", "unload", "reset", "closing", "gone"}
    /\ todo \subseteq Tiles
    /\ focus \in Centers

Shown == {t \in Tiles : tiles[t] # None}

Current == {j \in jobs : j.gen = generation}

\* maxi(abs(dx), abs(dy)) <= r
Within(c, r) ==
    {t \in Tiles : t[1] - c[1] \in -r .. r /\ t[2] - c[2] \in -r .. r}

\* _ready() has run: the first map is reset to.
Init ==
    /\ generation = 1 /\ refs = [u \in Uids |-> 0]
    /\ jobs = {}
    /\ map \in Maps /\ existing = MapTiles[map]
    /\ tiles = [t \in Tiles |-> None] /\ loading = {}
    /\ tilePlacements = [t \in Tiles |-> {}]
    /\ placementNodes = [u \in Uids |-> 0]
    /\ main = "idle" /\ todo = {}
    /\ focus \in Centers

(***************************************************************************)
(* The workers: work() claims the placements of its tile one by one.       *)
(***************************************************************************)

\* Mistake: what a worker still builds is not standing yet.
FirstClaimStanding(u) == placementNodes[u] = 0

\* claim() is true for the first tile that counts itself.
FirstClaim(u) == refs[u] = 0

\* Mistake: only the tile that builds it is counted.
CountedFirst(u) == IF refs[u] = 0 THEN 1 ELSE refs[u]

\* A placement is counted for the tile whether the tile builds it or not.
Counted(u) == refs[u] + 1

Claim(j, u) ==
    /\ j \in jobs /\ u \in j.left
    /\ LET counts == j.gen = generation
           builds == counts /\ FirstClaim(u) /\ u \in Wmos \ BadWmos
       IN  /\ refs' = IF counts THEN [refs EXCEPT ![u] = Counted(u)]
                                ELSE refs
           /\ jobs' = (jobs \ {j}) \cup
                  {[j EXCEPT !.left = @ \ {u},
                             !.refs = @ \cup {u},
                             !.built = IF builds THEN @ \cup {u} ELSE @]}
    /\ UNCHANGED <<generation, wowMap, mainVars, focus>>

\* The result joins results under the mutex.
Finish(j) ==
    /\ j \in jobs /\ j.left = {} /\ ~j.done
    /\ jobs' = (jobs \ {j}) \cup {[j EXCEPT !.done = TRUE]}
    /\ UNCHANGED <<streamer, wowMap, mainVars, focus>>

(***************************************************************************)
(* The main thread: _process().                                            *)
(***************************************************************************)

\* Mistake: results of an earlier map are returned too.
ReadyAnyGen == {j \in jobs : j.done}

\* What poll() returns; it frees the other results.
Ready == {j \in jobs : j.done /\ j.gen = generation}

Loads(j) == <<j.map, j.tile>> \notin BadTiles
Loaded   == {j \in Ready : Loads(j)}

Request(t) ==
    [map |-> map, tile |-> t, gen |-> generation, refs |-> {}, built |-> {},
     left |-> IF <<map, t>> \in BadTiles THEN {} ELSE Placements[map][t],
     done |-> FALSE]

\* Attaches every result, requests the tiles around the focus that are
\* missing, and picks the tiles to unload, one tile of slack beyond the
\* radius.  A tile that did not load is not asked for again.
Frame ==
    /\ main = "idle"
    /\ LET came == {j.tile : j \in Loaded}
           busy == loading \ {j.tile : j \in Ready}
           ask  == (existing' \cap Within(focus, Radius))
                       \ (Shown \cup came \cup busy)
       IN  /\ existing' = existing \ {j.tile : j \in Ready \ Loaded}
           /\ tiles' = [t \in Tiles |->
                  IF t \in came
                  THEN (CHOOSE j \in Loaded : j.tile = t).map ELSE tiles[t]]
           /\ tilePlacements' = [t \in Tiles |->
                  IF t \in came
                  THEN (CHOOSE j \in Loaded : j.tile = t).refs
                  ELSE tilePlacements[t]]
           /\ placementNodes' = [u \in Uids |->
                  IF \E j \in Loaded : u \in j.built
                  THEN generation ELSE placementNodes[u]]
           /\ loading' = busy \cup ask
           /\ jobs' = {j \in jobs : ~j.done} \cup {Request(t) : t \in ask}
           /\ todo' = (Shown \cup came) \ Within(focus, Radius + 1)
    /\ main' = "unload"
    /\ UNCHANGED <<streamer, map, focus>>

FrameDone ==
    /\ main = "unload" /\ todo = {}
    /\ main' = "idle"
    /\ UNCHANGED <<streamer, jobs, wowMap, todo, focus>>

\* Mistake: one tile gives back two counts.
ReleasedTwice(ids) ==
    [u \in Uids |-> IF u \in ids /\ refs[u] > 0 THEN refs[u] - 2
                                                ELSE refs[u]]

\* release() gives back one count of each id and returns those that reach 0.
Released(ids) ==
    [u \in Uids |-> IF u \in ids /\ refs[u] > 0 THEN refs[u] - 1
                                                ELSE refs[u]]

\* Mistakes: what other tiles list goes too, or what no tile lists stays.
UnreferencedAll(ids)  == ids
UnreferencedNone(ids) == {}

Unreferenced(ids) == {u \in ids : refs[u] = 1}

\* _unload(): the tile's node goes, and the buildings nobody lists any more.
Unload(t) ==
    /\ main \in {"unload", "reset"} /\ t \in todo
    /\ LET ids == tilePlacements[t]
       IN  /\ refs' = Released(ids)
           /\ placementNodes' = [u \in Uids |->
                  IF u \in Unreferenced(ids) THEN 0 ELSE placementNodes[u]]
    /\ tiles' = [tiles EXCEPT ![t] = None]
    /\ tilePlacements' = [tilePlacements EXCEPT ![t] = {}]
    /\ todo' = todo \ {t}
    /\ UNCHANGED <<generation, jobs, map, existing, loading, main, focus>>

(***************************************************************************)
(* Entering a map: the setter of map_name calls _reset(), which unloads    *)
(* every tile and then resets the streamer.  The nodes in _placement_nodes *)
(* are left to _unload().                                                  *)
(***************************************************************************)
SetMap(m) ==
    /\ main = "idle" /\ generation < MaxGen
    /\ map' = m
    /\ todo' = Shown /\ main' = "reset"
    /\ UNCHANGED <<streamer, jobs, existing, tiles, loading, tilePlacements,
                   placementNodes, focus>>

\* Mistake: the new map waits for the results of the old one.
LoadingKept == loading

LoadingForgotten == {}

Reset ==
    /\ main = "reset" /\ todo = {}
    /\ generation' = generation + 1 /\ refs' = [u \in Uids |-> 0]
    /\ loading' = LoadingForgotten
    /\ existing' = MapTiles[map]
    /\ main' = "idle"
    /\ UNCHANGED <<jobs, map, tiles, tilePlacements, placementNodes, todo,
                   focus>>

MoveFocus(c) ==
    /\ main = "idle"
    /\ focus' = c
    /\ UNCHANGED <<streamer, jobs, wowMap, mainVars>>

\* Leaving the world frees the map with all its nodes; ~WowStreamer() waits
\* for its tasks and frees what they built.
Destroy ==
    /\ main = "idle"
    /\ main' = "closing"
    /\ UNCHANGED <<streamer, jobs, wowMap, todo, focus>>

Destroyed ==
    /\ main = "closing"
    /\ \A j \in jobs : j.done
    /\ jobs' = {} /\ refs' = [u \in Uids |-> 0]
    /\ tiles' = [t \in Tiles |-> None] /\ loading' = {}
    /\ tilePlacements' = [t \in Tiles |-> {}]
    /\ placementNodes' = [u \in Uids |-> 0]
    /\ main' = "gone"
    /\ UNCHANGED <<generation, map, existing, todo, focus>>

Work == \E j \in jobs : Finish(j) \/ \E u \in j.left : Claim(j, u)

Main ==
    \/ Frame
    \/ FrameDone
    \/ \E t \in todo : Unload(t)
    \/ \E m \in Maps : SetMap(m)
    \/ Reset
    \/ \E c \in Centers : MoveFocus(c)
    \/ Destroy
    \/ Destroyed

Next == Work \/ Main

Spec == Init /\ [][Next]_vars

(***************************************************************************)
(* The engine runs _process() every frame and the pool runs every task it  *)
(* was given; nothing makes the player move, change map or leave.          *)
(***************************************************************************)
WorkOn(t, g) ==
    \E j \in jobs :
        /\ j.tile = t /\ j.gen = g
        /\ Finish(j) \/ \E u \in j.left : Claim(j, u)

Fairness ==
    /\ WF_vars(Frame) /\ WF_vars(FrameDone) /\ WF_vars(Reset)
    /\ WF_vars(\E t \in todo : Unload(t))
    /\ \A t \in Tiles, g \in Gens : WF_vars(WorkOn(t, g))

FairSpec == Spec /\ Fairness

(***************************************************************************)
(* Properties.                                                             *)
(***************************************************************************)

\* refs[u] is the number of tiles that list u, counting those attached and
\* those that a worker of this generation has counted already: a tile that is
\* loaded, unloaded or dropped leaves no count behind.
HolderTiles(u) ==
    {t \in Shown : u \in tilePlacements[t]}
        \cup {j.tile : j \in {k \in Current : u \in k.refs}}

RefsCounted ==
    \A u \in Uids : refs[u] = Cardinality(HolderTiles(u))

\* A building is built once: no two tiles under way build it, and none does
\* while it stands.
BuiltOnce ==
    \A j \in Current : \A u \in j.built :
        /\ placementNodes[u] # generation
        /\ \A k \in Current : u \in k.built => k = j

\* A building stands only while a tile lists it.
NodesReferenced ==
    \A u \in Uids : placementNodes[u] = generation => refs[u] > 0

\* Once nothing is loading, every building that the loaded tiles list stands,
\* whichever of them built it and in whatever order they came and went.
IdleComplete ==
    loading = {} /\ main # "reset" =>
        \A t \in Shown : \A u \in tilePlacements[t] \cap (Wmos \ BadWmos) :
            placementNodes[u] = generation

\* What is attached was loaded for the map that is shown, whatever the
\* workers were still building when the map changed.
TilesOfMap ==
    main # "reset" => \A t \in Shown : tiles[t] = map

\* An existing tile around the focus comes, or turns out not to load, unless
\* the player moves away or leaves.
Settles ==
    \A t \in Tiles :
        t \in existing \cap Within(focus, Radius) ~>
            \/ t \in Shown
            \/ t \notin existing \cap Within(focus, Radius)
            \/ main \in {"closing", "gone"}

\* When the player may stand on a tile, its buildings are there to stand on
\* (is_ground_ready(), begin_transfer()).
GroundReady ==
    main = "idle" =>
        \A t \in Shown : \A u \in Placements[map][t] \cap (Wmos \ BadWmos) :
            placementNodes[u] # 0

\* After a change of map nothing of the map before it is left standing.
OldMapGone ==
    main = "idle" => \A u \in Uids : placementNodes[u] \in {0, generation}

=============================================================================

------------------------- MODULE WowStreamerProofs -------------------------
(***************************************************************************)
(* What TLAPS proves of WowStreamer for every set of maps, tiles and       *)
(* placements, every radius and any number of changes of map.              *)
(***************************************************************************)
EXTENDS WowStreamer, FiniteSetTheorems, TLAPS

Good == Wmos \ BadWmos

\* A request: what it has counted it no longer has to look at, what it built
\* it has counted, and one whose tile does not load counts nothing.
JobsOK ==
    \A j \in jobs :
        /\ j.gen <= generation
        /\ j.left \cap j.refs = {}
        /\ j.done => j.left = {}
        /\ j.built \subseteq j.refs \cap Good
        /\ ~Loads(j) => j.left = {} /\ j.refs = {}
        /\ j.gen = generation /\ main # "reset" => j.map = map

\* A tile is loading or shown, never both, and never requested twice.
OnePerTile ==
    /\ \A j, k \in Current : j.tile = k.tile => j = k
    /\ \A j \in Current : tiles[j.tile] = None
    /\ loading = {j.tile : j \in Current}

TilesOK ==
    /\ TilesOfMap
    /\ \A t \in Tiles : tiles[t] = None => tilePlacements[t] = {}
    /\ todo \subseteq Shown
    /\ main \notin {"unload", "reset"} => todo = {}
    /\ main = "reset" => todo = Shown /\ generation < MaxGen

\* A building that some tile lists stands, or is being built.
Accounted ==
    \A u \in Good : refs[u] > 0 =>
        \/ placementNodes[u] = generation
        \/ \E j \in Current : u \in j.built

NodesOK == \A u \in Uids : placementNodes[u] <= generation

IInv ==
    /\ TypeOK
    /\ JobsOK
    /\ OnePerTile
    /\ TilesOK
    /\ RefsCounted
    /\ BuiltOnce
    /\ NodesReferenced
    /\ Accounted
    /\ NodesOK

-----------------------------------------------------------------------------
(***************************************************************************)
(* Counting the tiles that list a placement.                               *)
(***************************************************************************)

LEMMA HoldersFinite ==
    ASSUME TypeOK, NEW u \in Uids
    PROVE  /\ HolderTiles(u) \subseteq Tiles
           /\ IsFiniteSet(HolderTiles(u))
           /\ Cardinality(HolderTiles(u)) \in Nat
<1>1. HolderTiles(u) \subseteq Tiles
  BY DEF TypeOK, HolderTiles, Shown, Current, Job
<1>2. IsFiniteSet(HolderTiles(u))
  BY <1>1, FS_Subset, ConstantsAssumption
<1> QED BY <1>1, <1>2, FS_CardinalityType

\* A placement is counted exactly while some tile lists it.
LEMMA CountedIffListed ==
    ASSUME IInv, NEW u \in Uids
    PROVE  refs[u] > 0 <=> HolderTiles(u) # {}
BY HoldersFinite, FS_EmptySet DEF IInv, RefsCounted

LEMMA JobTypes ==
    ASSUME TypeOK, NEW j \in jobs
    PROVE  /\ j.map \in Maps /\ j.tile \in Tiles /\ j.gen \in Gens
           /\ j.left \subseteq Uids /\ j.refs \subseteq Uids
           /\ j.built \subseteq Uids /\ j.done \in BOOLEAN
BY DEF TypeOK, Job

LEMMA InitInv == Init => IInv
<1> SUFFICES ASSUME Init PROVE IInv
  OBVIOUS
<1> USE DEF Init
<1>1. TypeOK
  BY ConstantsAssumption DEF TypeOK, Gens
<1>2. JobsOK /\ OnePerTile /\ BuiltOnce
  BY DEF JobsOK, OnePerTile, BuiltOnce, Current
<1>3. TilesOK
  BY ConstantsAssumption DEF TilesOK, TilesOfMap, Shown
<1>4. RefsCounted
  <2> SUFFICES ASSUME NEW u \in Uids PROVE refs[u] = Cardinality(HolderTiles(u))
    BY DEF RefsCounted
  <2>1. HolderTiles(u) = {}
    BY DEF HolderTiles, Shown, Current
  <2> QED BY <2>1, FS_EmptySet
<1>5. NodesReferenced /\ Accounted /\ NodesOK
  BY ConstantsAssumption DEF NodesReferenced, Accounted, NodesOK, Good
<1> QED BY <1>1, <1>2, <1>3, <1>4, <1>5 DEF IInv

-----------------------------------------------------------------------------
(***************************************************************************)
(* The workers.                                                            *)
(***************************************************************************)

LEMMA ClaimInv ==
    ASSUME IInv, NEW j, NEW u, Claim(j, u) PROVE IInv'
<1> USE DEF IInv
<1> DEFINE counts == j.gen = generation
           builds == counts /\ FirstClaim(u) /\ u \in Good
           k == [j EXCEPT !.left = @ \ {u},
                          !.refs = @ \cup {u},
                          !.built = IF builds THEN @ \cup {u} ELSE @]
<1>1. /\ j \in jobs /\ u \in j.left /\ u \in Uids /\ j \in Job
      /\ jobs' = (jobs \ {j}) \cup {k}
      /\ refs' = IF counts THEN [refs EXCEPT ![u] = refs[u] + 1] ELSE refs
      /\ UNCHANGED <<generation, wowMap, mainVars, focus>>
  BY JobTypes DEF Claim, TypeOK, Good, Counted
<1>2. /\ k.map = j.map /\ k.tile = j.tile /\ k.gen = j.gen
      /\ k.done = j.done
      /\ k.left = j.left \ {u} /\ k.refs = j.refs \cup {u}
      /\ k.built = IF builds THEN j.built \cup {u} ELSE j.built
  BY <1>1 DEF Job
<1>3. k \in Job
  BY <1>1, <1>2, JobTypes DEF Job
<1> HIDE DEF k
<1>4. u \notin j.refs /\ ~j.done /\ Loads(j)
  BY <1>1 DEF JobsOK
<1>5. TypeOK'
  <2>1. refs' \in [Uids -> Nat]
    BY <1>1 DEF TypeOK
  <2> QED BY <1>1, <1>3, <2>1 DEF TypeOK, wowMap, mainVars
<1>6. JobsOK'
  BY <1>1, <1>2, <1>4 DEF JobsOK, Loads, wowMap, mainVars
<1>7. OnePerTile'
  BY <1>1, <1>2 DEF OnePerTile, Current, wowMap
<1>8. TilesOK'
  BY <1>1 DEF TilesOK, TilesOfMap, Shown, wowMap, mainVars
<1>9. ASSUME NEW v \in Uids
      PROVE  HolderTiles(v)' = IF counts /\ v = u
                               THEN HolderTiles(v) \cup {j.tile}
                               ELSE HolderTiles(v)
  BY <1>1, <1>2 DEF HolderTiles, Current, Shown, wowMap
<1>10. counts => j.tile \notin HolderTiles(u)
  BY <1>1, <1>4 DEF HolderTiles, OnePerTile, Current, Shown
<1>11. RefsCounted'
  <2> SUFFICES ASSUME NEW v \in Uids
               PROVE  refs'[v] = Cardinality(HolderTiles(v)')
    BY DEF RefsCounted
  <2>1. CASE counts /\ v = u
    <3>1. Cardinality(HolderTiles(u) \cup {j.tile})
              = Cardinality(HolderTiles(u)) + 1
      BY <1>1, <1>10, <2>1, HoldersFinite, FS_AddElement
    <3>2. refs'[v] = refs[v] + 1 /\ refs[v] = Cardinality(HolderTiles(v))
      BY <1>1, <2>1 DEF RefsCounted, TypeOK
    <3> QED BY <1>9, <2>1, <3>1, <3>2
  <2>2. CASE ~(counts /\ v = u)
    BY <1>1, <1>9, <2>2 DEF RefsCounted, TypeOK
  <2> QED BY <2>1, <2>2
<1>12. builds => /\ placementNodes[u] # generation
                 /\ \A i \in Current : u \notin i.built
  <2> SUFFICES ASSUME builds PROVE /\ placementNodes[u] # generation
                                   /\ \A i \in Current : u \notin i.built
    OBVIOUS
  <2>1. refs[u] = 0 /\ HolderTiles(u) = {}
    BY <1>1, CountedIffListed DEF FirstClaim
  <2>2. \A i \in Current : u \notin i.refs
    BY <2>1 DEF HolderTiles
  <2> QED BY <1>1, <2>1, <2>2 DEF NodesReferenced, JobsOK, Current
<1>13. BuiltOnce'
  BY <1>1, <1>2, <1>12 DEF BuiltOnce, Current, wowMap
<1>14. NodesReferenced' /\ NodesOK'
  BY <1>1 DEF NodesReferenced, NodesOK, TypeOK, wowMap
<1>15. Accounted'
  BY <1>1, <1>2 DEF Accounted, Current, TypeOK, FirstClaim, Good, wowMap
<1> QED BY <1>5, <1>6, <1>7, <1>8, <1>11, <1>13, <1>14, <1>15

LEMMA FinishInv ==
    ASSUME IInv, NEW j, Finish(j) PROVE IInv'
<1> USE DEF IInv
<1> DEFINE k == [j EXCEPT !.done = TRUE]
<1>1. /\ j \in jobs /\ j.left = {} /\ j \in Job
      /\ jobs' = (jobs \ {j}) \cup {k}
      /\ UNCHANGED <<streamer, wowMap, mainVars, focus>>
  BY DEF Finish, TypeOK
<1>2. /\ k.map = j.map /\ k.tile = j.tile /\ k.gen = j.gen
      /\ k.left = j.left /\ k.refs = j.refs /\ k.built = j.built
      /\ k \in Job
  BY <1>1 DEF Job
<1> HIDE DEF k
<1>3. TypeOK'
  BY <1>1, <1>2 DEF TypeOK, streamer, wowMap, mainVars
<1>4. JobsOK' /\ OnePerTile' /\ TilesOK'
  BY <1>1, <1>2 DEF JobsOK, OnePerTile, TilesOK, TilesOfMap, Current, Shown,
     Loads, streamer, wowMap, mainVars
<1>5. \A v : HolderTiles(v)' = HolderTiles(v)
  BY <1>1, <1>2 DEF HolderTiles, Current, Shown, streamer, wowMap
<1>6. RefsCounted'
  BY <1>1, <1>5 DEF RefsCounted, streamer
<1>7. BuiltOnce' /\ NodesReferenced' /\ NodesOK'
  BY <1>1, <1>2 DEF BuiltOnce, NodesReferenced, NodesOK, Current, streamer,
     wowMap
<1>8. Accounted'
  BY <1>1, <1>2 DEF Accounted, Current, streamer, wowMap
<1> QED BY <1>3, <1>4, <1>6, <1>7, <1>8

-----------------------------------------------------------------------------
(***************************************************************************)
(* The main thread.                                                        *)
(***************************************************************************)

\* Nothing but where the main thread is, or the focus, changes.
LEMMA MoveOnInv ==
    ASSUME IInv, UNCHANGED <<streamer, jobs, wowMap>>,
           main' \in {"idle", "unload", "closing"}, todo' = {},
           focus' \in Centers, main # "reset"
    PROVE  IInv'
<1> USE DEF IInv, streamer, wowMap
<1>1. TypeOK'
  BY DEF TypeOK
<1>2. JobsOK' /\ OnePerTile' /\ TilesOK'
  BY DEF JobsOK, OnePerTile, TilesOK, TilesOfMap, Current, Shown, Loads
<1>3. RefsCounted' /\ BuiltOnce' /\ NodesReferenced' /\ Accounted' /\ NodesOK'
  BY DEF RefsCounted, HolderTiles, BuiltOnce, NodesReferenced, Accounted,
     NodesOK, Current, Shown
<1> QED BY <1>1, <1>2, <1>3

LEMMA FrameDoneInv ==
    ASSUME IInv, FrameDone PROVE IInv'
BY MoveOnInv DEF FrameDone, IInv, TypeOK

LEMMA MoveFocusInv ==
    ASSUME IInv, NEW c \in Centers, MoveFocus(c) PROVE IInv'
BY MoveOnInv DEF MoveFocus, IInv, TilesOK, mainVars

LEMMA DestroyInv ==
    ASSUME IInv, Destroy PROVE IInv'
BY MoveOnInv DEF Destroy, IInv, TypeOK, TilesOK

LEMMA SetMapInv ==
    ASSUME IInv, NEW m \in Maps, SetMap(m) PROVE IInv'
<1> USE DEF IInv, SetMap, streamer
<1>1. TypeOK'
  BY DEF TypeOK, Shown
<1>2. JobsOK' /\ OnePerTile' /\ TilesOK'
  BY DEF JobsOK, OnePerTile, TilesOK, TilesOfMap, Current, Shown, Loads
<1>3. RefsCounted' /\ BuiltOnce' /\ NodesReferenced' /\ Accounted' /\ NodesOK'
  BY DEF RefsCounted, HolderTiles, BuiltOnce, NodesReferenced, Accounted,
     NodesOK, Current, Shown
<1> QED BY <1>1, <1>2, <1>3

\* What an older generation asked for is not current any more.
LEMMA ResetInv ==
    ASSUME IInv, Reset PROVE IInv'
<1> USE DEF IInv, Reset
<1>1. /\ main = "reset" /\ todo = {} /\ todo' = {} /\ main' = "idle"
      /\ generation' = generation + 1 /\ generation \in Gens
      /\ refs' = [u \in Uids |-> 0] /\ loading' = {} /\ jobs' = jobs
      /\ existing' = MapTiles[map] /\ map \in Maps
      /\ UNCHANGED <<map, tiles, tilePlacements, placementNodes, focus>>
  BY DEF TypeOK, LoadingForgotten
<1>2. Current' = {}
  BY <1>1, JobTypes DEF Current, JobsOK, Gens
<1>3. Shown' = {}
  BY <1>1 DEF TilesOK, Shown
<1>4. TypeOK'
  BY <1>1, ConstantsAssumption DEF TypeOK, TilesOK, Gens
<1>5. JobsOK'
  <2>1. ASSUME NEW j \in jobs
        PROVE  j.gen <= generation' /\ j.gen # generation'
    BY <1>1, JobTypes, ConstantsAssumption DEF JobsOK, Gens
  <2> QED BY <1>1, <2>1 DEF JobsOK, Loads
<1>6. OnePerTile' /\ TilesOK' /\ BuiltOnce'
  BY <1>1, <1>2, <1>3 DEF OnePerTile, TilesOK, TilesOfMap, BuiltOnce
<1>7. RefsCounted'
  <2> SUFFICES ASSUME NEW u \in Uids
               PROVE  refs'[u] = Cardinality(HolderTiles(u)')
    BY DEF RefsCounted
  <2>1. HolderTiles(u)' = {}
    BY <1>2, <1>3 DEF HolderTiles
  <2> QED BY <1>1, <2>1, FS_EmptySet
<1>8. NodesReferenced' /\ NodesOK'
  BY <1>1 DEF NodesReferenced, NodesOK, TypeOK, Gens
<1>9. Accounted'
  BY <1>1, ConstantsAssumption DEF Accounted, Good
<1> QED BY <1>4, <1>5, <1>6, <1>7, <1>8, <1>9

LEMMA DestroyedInv ==
    ASSUME IInv, Destroyed PROVE IInv'
<1> USE DEF IInv, Destroyed
<1>1. TypeOK'
  BY ConstantsAssumption DEF TypeOK, TilesOK
<1>2. JobsOK' /\ OnePerTile' /\ BuiltOnce'
  BY DEF JobsOK, OnePerTile, BuiltOnce, Current
<1>3. TilesOK'
  BY DEF TilesOK, TilesOfMap, Shown
<1>4. RefsCounted'
  <2> SUFFICES ASSUME NEW u \in Uids
               PROVE  refs'[u] = Cardinality(HolderTiles(u)')
    BY DEF RefsCounted
  <2>1. HolderTiles(u)' = {}
    BY DEF HolderTiles, Shown, Current
  <2> QED BY <2>1, FS_EmptySet
<1>5. NodesReferenced' /\ NodesOK'
  BY DEF NodesReferenced, NodesOK, TypeOK, Gens
<1>6. Accounted'
  BY ConstantsAssumption DEF Accounted, Good
<1> QED BY <1>1, <1>2, <1>3, <1>4, <1>5, <1>6

LEMMA UnloadInv ==
    ASSUME IInv, NEW t, Unload(t) PROVE IInv'
<1> USE DEF IInv
<1> DEFINE ids == tilePlacements[t]
<1>1. /\ main \in {"unload", "reset"} /\ t \in todo
      /\ t \in Shown /\ t \in Tiles /\ ids \subseteq Uids
      /\ refs' = [u \in Uids |-> IF u \in ids /\ refs[u] > 0
                                 THEN refs[u] - 1 ELSE refs[u]]
      /\ placementNodes' = [u \in Uids |->
             IF u \in ids /\ refs[u] = 1 THEN 0 ELSE placementNodes[u]]
      /\ tiles' = [tiles EXCEPT ![t] = None]
      /\ tilePlacements' = [tilePlacements EXCEPT ![t] = {}]
      /\ todo' = todo \ {t}
      /\ UNCHANGED <<generation, jobs, map, existing, loading, main, focus>>
  BY DEF Unload, Released, Unreferenced, TypeOK, TilesOK
<1>2. Shown' = Shown \ {t} /\ Current' = Current
  BY <1>1 DEF Shown, Current, TypeOK
<1>3. TypeOK'
  <2>1. refs' \in [Uids -> Nat]
    BY <1>1 DEF TypeOK
  <2>2. placementNodes' \in [Uids -> 0 .. MaxGen]
    BY <1>1, ConstantsAssumption DEF TypeOK
  <2> QED BY <1>1, <2>1, <2>2 DEF TypeOK
<1>4. JobsOK'
  BY <1>1 DEF JobsOK, Loads
<1>5. OnePerTile'
  BY <1>1, <1>2, JobTypes DEF OnePerTile, TypeOK, Current
<1>6. TilesOK'
  BY <1>1, <1>2 DEF TilesOK, TilesOfMap, TypeOK
<1>7. ASSUME NEW u \in Uids
      PROVE  /\ HolderTiles(u)' = HolderTiles(u) \ {t}
             /\ t \in HolderTiles(u) <=> u \in ids
  <2>1. t \notin {j.tile : j \in Current}
    BY <1>1 DEF OnePerTile, Shown
  <2> QED BY <1>1, <1>2, <2>1 DEF HolderTiles, TypeOK
<1>8. ASSUME NEW u \in Uids
      PROVE  /\ refs[u] \in Nat /\ refs'[u] \in Nat
             /\ refs'[u] = Cardinality(HolderTiles(u)')
             /\ refs'[u] = IF u \in ids THEN refs[u] - 1 ELSE refs[u]
             /\ u \in ids => refs[u] > 0
  <2>1. refs[u] \in Nat /\ refs[u] = Cardinality(HolderTiles(u))
    BY DEF RefsCounted, TypeOK
  <2>2. Cardinality(HolderTiles(u) \ {t})
            = IF u \in ids THEN refs[u] - 1 ELSE refs[u]
    BY <1>7, <2>1, HoldersFinite, FS_RemoveElement
  <2>3. u \in ids => refs[u] > 0
    <3>1. refs[u] > 0 <=> HolderTiles(u) # {}
      BY CountedIffListed
    <3>2. u \in ids => t \in HolderTiles(u)
      BY <1>7
    <3>3. u \in ids => HolderTiles(u) # {}
      BY <3>2, Zenon
    <3> QED BY <3>1, <3>3, Zenon
  <2>4. refs'[u] = IF u \in ids THEN refs[u] - 1 ELSE refs[u]
    BY <1>1, <2>3
  <2>5. refs'[u] = Cardinality(HolderTiles(u)')
    BY <1>7, <2>2, <2>4
  <2> HIDE DEF ids
  <2> QED BY <2>1, <2>3, <2>4, <2>5
<1>9. RefsCounted'
  BY <1>8 DEF RefsCounted
<1>10. BuiltOnce'
  BY <1>1, <1>2, JobTypes, ConstantsAssumption
     DEF BuiltOnce, TypeOK, Current, Gens
<1>11. NodesReferenced'
  <2> SUFFICES ASSUME NEW u \in Uids, placementNodes'[u] = generation
               PROVE  refs'[u] > 0
    BY <1>1 DEF NodesReferenced
  <2>1. ~(u \in ids /\ refs[u] = 1) /\ placementNodes[u] = generation
    BY <1>1, ConstantsAssumption DEF TypeOK, Gens
  <2> QED BY <1>8, <2>1 DEF NodesReferenced
<1>12. Accounted'
  <2> SUFFICES ASSUME NEW u \in Good, refs'[u] > 0
               PROVE  \/ placementNodes'[u] = generation
                      \/ \E j \in Current : u \in j.built
    BY <1>1, <1>2 DEF Accounted
  <2>1. u \in Uids
    BY ConstantsAssumption DEF Good
  <2>2. refs[u] > 0 /\ ~(u \in ids /\ refs[u] = 1)
    BY <1>8, <2>1
  <2> QED BY <1>1, <2>1, <2>2 DEF Accounted
<1>13. NodesOK'
  BY <1>1, ConstantsAssumption DEF NodesOK, TypeOK, Gens
<1> QED BY <1>3, <1>4, <1>5, <1>6, <1>9, <1>10, <1>11, <1>12, <1>13

\* What a frame makes of the results: they join the shown tiles, and no count
\* changes hands.
LEMMA FrameInv ==
    ASSUME IInv, Frame PROVE IInv'
<1> USE DEF IInv
<1> DEFINE came == {j.tile : j \in Loaded}
           busy == loading \ {j.tile : j \in Ready}
           ask  == (existing' \cap Within(focus, Radius))
                       \ (Shown \cup came \cup busy)
           of(t) == CHOOSE j \in Loaded : j.tile = t
           asked == {Request(t) : t \in ask}
<1>1. /\ main = "idle" /\ main' = "unload"
      /\ existing' = existing \ {j.tile : j \in Ready \ Loaded}
      /\ tiles' = [t \in Tiles |-> IF t \in came THEN of(t).map ELSE tiles[t]]
      /\ tilePlacements' = [t \in Tiles |->
             IF t \in came THEN of(t).refs ELSE tilePlacements[t]]
      /\ placementNodes' = [u \in Uids |->
             IF \E j \in Loaded : u \in j.built
             THEN generation ELSE placementNodes[u]]
      /\ loading' = busy \cup ask
      /\ jobs' = {j \in jobs : ~j.done} \cup asked
      /\ todo' = (Shown \cup came) \ Within(focus, Radius + 1)
      /\ UNCHANGED <<streamer, map, focus>>
  BY DEF Frame
<1>2. /\ Loaded \subseteq Ready /\ Ready \subseteq Current
      /\ Current \subseteq jobs /\ came \subseteq Tiles /\ ask \subseteq Tiles
  BY JobTypes DEF Loaded, Ready, Current, TypeOK, Within
<1>3. ASSUME NEW j \in Loaded
      PROVE  of(j.tile) = j /\ j.map = map
  <2>1. of(j.tile) \in Loaded /\ of(j.tile).tile = j.tile
    OBVIOUS
  <2>2. of(j.tile) = j
    BY <1>2, <2>1 DEF OnePerTile
  <2>3. j.map = map
    BY <1>1, <1>2 DEF JobsOK, Current
  <2> QED BY <2>2, <2>3
<1>4. ASSUME NEW t \in ask
      PROVE  /\ Request(t) \in Job /\ Request(t).tile = t
             /\ Request(t).gen = generation /\ Request(t).map = map
             /\ Request(t).refs = {} /\ Request(t).built = {}
             /\ Request(t).done = FALSE
             /\ ~Loads(Request(t)) => Request(t).left = {}
  <2>1. Request(t).left \subseteq Uids
    BY <1>2, ConstantsAssumption DEF Request, TypeOK
  <2> QED BY <1>2, <2>1 DEF Request, Job, TypeOK, Loads
<1>5. \A t \in ask : t \notin Shown /\ t \notin came /\ t \notin busy
  OBVIOUS
<1>6. \A j \in asked : \E t \in ask : j = Request(t)
  OBVIOUS
<1>7. \A t \in ask : Request(t) \in asked
  OBVIOUS
<1>8. ASSUME NEW j \in asked
       PROVE  /\ j \in Job /\ j.tile \in ask /\ j = Request(j.tile)
              /\ j.gen = generation /\ j.map = map /\ j.done = FALSE
              /\ j.refs = {} /\ j.built = {}
              /\ ~Loads(j) => j.left = {}
  <2>1. PICK t \in ask : j = Request(t)
    BY <1>6
  <2> QED BY <1>4, <2>1
<1> HIDE DEF ask, asked, busy
<1>9. Current' = (Current \ Ready) \cup asked
  BY <1>1, <1>8 DEF Current, Ready, streamer
<1>10. ASSUME NEW t \in Tiles
      PROVE  tiles'[t] = IF t \in came THEN map ELSE tiles[t]
  BY <1>1, <1>3
<1>11. Shown' = Shown \cup came
  BY <1>1, <1>2, <1>10, ConstantsAssumption DEF Shown, TypeOK
<1>12. ASSUME NEW j \in Current \ Ready
      PROVE  /\ j.tile \in busy /\ j.tile \notin came
             /\ j.tile \notin ask /\ j \in jobs
  <2>1. \A i \in Ready : i.tile # j.tile
    BY <1>2 DEF OnePerTile
  <2>2. j.tile \in busy
    BY <1>2, <2>1 DEF OnePerTile, busy
  <2> QED BY <1>2, <1>5, <2>1, <2>2
<1>13. ASSUME NEW j \in Ready \ Loaded
      PROVE  j.refs = {} /\ j.built = {}
  BY <1>2 DEF Loaded, JobsOK
<1>14. \A t \in Shown : t \notin came
  BY <1>2 DEF OnePerTile, Shown
<1> HIDE DEF of
<1>15. \A t \in came : \E j \in Loaded : j.tile = t
  OBVIOUS
<1>16. ASSUME NEW t \in Tiles
       PROVE  tilePlacements'[t] \subseteq Uids
  <2>1. CASE t \in came
    <3>1. PICK j \in Loaded : j.tile = t
      BY <2>1, <1>15
    <3>2. tilePlacements'[t] = j.refs
      BY <1>1, <1>3, <2>1, <3>1
    <3> QED BY <1>2, <3>2, JobTypes
  <2>2. CASE t \notin came
    BY <1>1, <2>2 DEF TypeOK
  <2> QED BY <2>1, <2>2
<1>17. TypeOK'
  <2>1. jobs' \subseteq Job
    BY <1>1, <1>8 DEF TypeOK
  <2>2. tiles' \in [Tiles -> Maps \cup {None}]
    BY <1>1, <1>10 DEF TypeOK
  <2>3. tilePlacements' \in [Tiles -> SUBSET Uids]
    BY <1>1, <1>16
  <2>4. placementNodes' \in [Uids -> 0 .. MaxGen]
    BY <1>1, ConstantsAssumption DEF TypeOK, Gens
  <2>5. loading' \subseteq Tiles /\ todo' \subseteq Tiles
    BY <1>1, <1>2 DEF TypeOK, Shown, busy
  <2> QED BY <1>1, <2>1, <2>2, <2>3, <2>4, <2>5 DEF TypeOK, streamer
<1>18. JobsOK'
  <2> SUFFICES ASSUME NEW j \in jobs'
               PROVE  /\ j.gen <= generation
                      /\ j.left \cap j.refs = {}
                      /\ j.done => j.left = {}
                      /\ j.built \subseteq j.refs \cap Good
                      /\ ~Loads(j) => j.left = {} /\ j.refs = {}
                      /\ j.gen = generation => j.map = map
    BY <1>1 DEF JobsOK, streamer, Loads
  <2>1. CASE j \in asked
    <3>1. generation \in Nat
      BY ConstantsAssumption DEF TypeOK, Gens
    <3>2. j.done = FALSE
      BY <1>8, <2>1
    <3>3. j.done => j.left = {}
      BY <3>2, Zenon
    <3>4. /\ j.gen = generation /\ j.map = map
          /\ j.refs = {} /\ j.built = {}
      BY <1>8, <2>1
    <3>5. ~Loads(j) => j.left = {}
      BY <1>8, <2>1
    <3>6. /\ j.gen <= generation
          /\ j.left \cap j.refs = {}
          /\ j.built \subseteq j.refs \cap Good
      BY <3>1, <3>4
    <3>7. ~Loads(j) => j.left = {} /\ j.refs = {}
      BY <3>4, <3>5, Zenon
    <3>8. j.gen = generation => j.map = map
      BY <3>4, Zenon
    <3> QED BY <3>3, <3>6, <3>7, <3>8, Zenon
  <2>2. CASE j \in jobs
    BY <1>1, <2>2 DEF JobsOK
  <2> QED BY <1>1, <2>1, <2>2
<1>19. OnePerTile'
  <2>1. \A j, k \in Current' : j.tile = k.tile => j = k
    <3>1. \A j, k \in Current \ Ready : j.tile = k.tile => j = k
      BY DEF OnePerTile
    <3>2. \A j, k \in asked : j.tile = k.tile => j = k
      BY <1>8
    <3>3. \A j \in Current \ Ready, k \in asked : j.tile # k.tile
      BY <1>12, <1>8
    <3> QED BY <1>9, <3>1, <3>2, <3>3
  <2>2. ASSUME NEW j \in Current' PROVE tiles'[j.tile] = None
    <3>1. CASE j \in asked
      BY <1>2, <1>10, <1>5, <1>8, <3>1 DEF Shown
    <3>2. CASE j \in Current \ Ready
      BY <1>2, <1>10, <1>12, <3>2, JobTypes DEF OnePerTile
    <3> QED BY <1>9, <3>1, <3>2
  <2>3. loading' = {j.tile : j \in Current'}
    <3>1. busy = {j.tile : j \in Current \ Ready}
      BY <1>2, <1>12 DEF OnePerTile, busy
    <3>2. ask = {j.tile : j \in asked}
      BY <1>4, <1>7, <1>8
    <3> QED BY <1>1, <1>9, <3>1, <3>2
  <2> QED BY <2>1, <2>2, <2>3 DEF OnePerTile
<1>20. TilesOK'
  <2>1. TilesOfMap'
    BY <1>1, <1>2, <1>10, <1>11 DEF TilesOK, TilesOfMap, Shown
  <2>2. ASSUME NEW t \in Tiles, tiles'[t] = None
        PROVE  tilePlacements'[t] = {}
    <3>1. t \notin came /\ tiles[t] = None
      BY <1>10, <2>2, ConstantsAssumption DEF TypeOK
    <3> QED BY <1>1, <3>1 DEF TilesOK
  <2>3. todo' \subseteq Shown'
    BY <1>1, <1>11
  <2> QED BY <1>1, <2>1, <2>2, <2>3 DEF TilesOK
<1>21. ASSUME NEW u \in Uids
       PROVE  HolderTiles(u)' = HolderTiles(u)
  <2>1. {t \in Shown' : u \in tilePlacements'[t]}
            = {t \in Shown : u \in tilePlacements[t]}
              \cup {j.tile : j \in {i \in Loaded : u \in i.refs}}
    <3>1. ASSUME NEW t \in Shown
          PROVE  tilePlacements'[t] = tilePlacements[t]
      BY <1>1, <1>14 DEF Shown
    <3>2. ASSUME NEW j \in Loaded
          PROVE  tilePlacements'[j.tile] = j.refs
      BY <1>1, <1>2, <1>3
    <3> HIDE DEF came
    <3>3. \A t \in came : \E j \in Loaded : j.tile = t
      BY <1>15
    <3>4. \A j \in Loaded : j.tile \in came
      BY DEF came
    <3> QED BY <1>11, <3>1, <3>2, <3>3, <3>4
  <2>2. {j \in Current' : u \in j.refs}
            = {j \in Current \ Ready : u \in j.refs}
    BY <1>9, <1>8
  <2>3. {j \in Current : u \in j.refs}
            = {j \in Loaded : u \in j.refs}
              \cup {j \in Current \ Ready : u \in j.refs}
    BY <1>2, <1>13
  <2> QED BY <2>1, <2>2, <2>3 DEF HolderTiles
<1>22. RefsCounted'
  BY <1>1, <1>21 DEF RefsCounted, streamer
<1>23. BuiltOnce'
  <2> SUFFICES ASSUME NEW j \in Current', NEW u \in j.built
               PROVE  /\ placementNodes'[u] # generation
                      /\ \A k \in Current' : u \in k.built => k = j
    BY <1>1 DEF BuiltOnce, streamer
  <2>1. j \in Current \ Ready
    BY <1>9, <1>8
  <2>2. \A k \in Current : u \in k.built => k = j
    BY <2>1 DEF BuiltOnce
  <2>3. \A i \in Loaded : u \notin i.built
    BY <1>2, <2>1, <2>2
  <2>4. placementNodes[u] # generation /\ u \in Uids
    BY <1>2, <2>1, JobTypes DEF BuiltOnce
  <2> QED BY <1>1, <1>9, <1>8, <2>2, <2>3, <2>4
<1>24. NodesReferenced'
  <2> SUFFICES ASSUME NEW u \in Uids, placementNodes'[u] = generation
               PROVE  refs[u] > 0
    BY <1>1 DEF NodesReferenced, streamer
  <2>1. CASE placementNodes[u] = generation
    BY <2>1 DEF NodesReferenced
  <2>2. CASE \E j \in Loaded : u \in j.built
    <3>1. PICK j \in Loaded : u \in j.built
      BY <2>2
    <3>2. j.tile \in HolderTiles(u)
      BY <1>2, <3>1 DEF HolderTiles, JobsOK
    <3>3. HolderTiles(u) # {}
      BY <3>2
    <3> QED BY <3>3, CountedIffListed
  <2> QED BY <1>1, <2>1, <2>2
<1>25. Accounted'
  <2> SUFFICES ASSUME NEW u \in Good, refs[u] > 0
               PROVE  \/ placementNodes'[u] = generation
                      \/ \E j \in Current' : u \in j.built
    BY <1>1 DEF Accounted, streamer
  <2>1. u \in Uids
    BY ConstantsAssumption DEF Good
  <2>2. CASE placementNodes[u] = generation
    BY <1>1, <2>1, <2>2
  <2>3. CASE \E j \in Current : u \in j.built
    BY <1>1, <1>9, <1>13, <2>1, <2>3
  <2> QED BY <2>2, <2>3 DEF Accounted
<1>26. NodesOK'
  BY <1>1, ConstantsAssumption DEF NodesOK, TypeOK, Gens, streamer
<1> QED BY <1>17, <1>18, <1>19, <1>20, <1>22, <1>23, <1>24, <1>25, <1>26

-----------------------------------------------------------------------------
(***************************************************************************)
(* The invariants of the specification.                                    *)
(***************************************************************************)

LEMMA StepInv ==
    ASSUME IInv, [Next]_vars PROVE IInv'
<1>1. CASE Work
  BY <1>1, ClaimInv, FinishInv DEF Work
<1>2. CASE Main
  BY <1>2, FrameInv, FrameDoneInv, UnloadInv, SetMapInv, ResetInv,
     MoveFocusInv, DestroyInv, DestroyedInv DEF Main
<1>3. CASE UNCHANGED vars
  <2> USE <1>3 DEF IInv, vars, streamer, wowMap, mainVars
  <2>1. TypeOK'
    BY DEF TypeOK
  <2>2. JobsOK' /\ OnePerTile' /\ TilesOK'
    BY DEF JobsOK, OnePerTile, TilesOK, TilesOfMap, Current, Shown, Loads
  <2>3. RefsCounted' /\ BuiltOnce' /\ NodesReferenced' /\ Accounted'
        /\ NodesOK'
    BY DEF RefsCounted, HolderTiles, BuiltOnce, NodesReferenced, Accounted,
       NodesOK, Current, Shown
  <2> QED BY <2>1, <2>2, <2>3
<1> QED BY <1>1, <1>2, <1>3 DEF Next

\* The inductive invariant holds of every reachable state.
THEOREM Invariance == Spec => []IInv
<1>1. Init => IInv
  BY InitInv
<1>2. IInv /\ [Next]_vars => IInv'
  BY StepInv
<1> QED BY <1>1, <1>2, PTL DEF Spec

\* Types: each job and each tile is of the map's own.
THEOREM TypeCorrectness == Spec => []TypeOK
<1>1. IInv => TypeOK
  BY DEF IInv
<1> QED BY <1>1, Invariance, PTL

\* The streamer's counts are exact: refs[u] is the number of tiles that list
\* u, attached or under way, in every interleaving of the workers' claims with
\* the main thread's releases and changes of map.
THEOREM CountsAreExact == Spec => [](TypeOK /\ RefsCounted)
<1>1. IInv => TypeOK /\ RefsCounted
  BY DEF IInv
<1> QED BY <1>1, Invariance, PTL

\* No building is built twice, nor while it stands.
THEOREM BuildingsOnce == Spec => []BuiltOnce
<1>1. IInv => BuiltOnce
  BY DEF IInv
<1> QED BY <1>1, Invariance, PTL

\* A building's node goes with the last tile that lists it.
THEOREM NodesAreListed == Spec => []NodesReferenced
<1>1. IInv => NodesReferenced
  BY DEF IInv
<1> QED BY <1>1, Invariance, PTL

\* When nothing is loading, every building the loaded tiles list stands.
THEOREM CompleteWhenIdle == Spec => []IdleComplete
<1>1. ASSUME IInv PROVE IdleComplete
  <2> SUFFICES ASSUME loading = {}, NEW t \in Shown,
                      NEW u \in tilePlacements[t] \cap (Wmos \ BadWmos)
               PROVE  placementNodes[u] = generation
    BY DEF IdleComplete
  <2>1. u \in Good /\ u \in Uids
    BY ConstantsAssumption DEF Good
  <2>2. HolderTiles(u) # {}
    BY DEF HolderTiles
  <2>3. refs[u] > 0
    BY <1>1, <2>1, <2>2, CountedIffListed
  <2>4. Current = {}
    BY <1>1 DEF IInv, OnePerTile
  <2> QED BY <1>1, <2>1, <2>3, <2>4 DEF IInv, Accounted
<1> QED BY <1>1, Invariance, PTL

\* What the workers built for an older map is never attached.
THEOREM ShownTilesAreOfTheMap == Spec => []TilesOfMap
<1>1. IInv => TilesOfMap
  BY DEF IInv, TilesOK
<1> QED BY <1>1, Invariance, PTL

=============================================================================

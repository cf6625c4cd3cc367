--------------------------- MODULE ObjectsProofs ---------------------------
(***************************************************************************)
(* Proofs about Objects, for any guids and templates: the nodes are the    *)
(* objects, the plates show the names, and whoever lacks a name has been   *)
(* asked for.                                                              *)
(*                                                                         *)
(* The three lean on one another.  That an answer reaches every plate      *)
(* needs every nameless node to be recorded under its template, and that a *)
(* node is recorded needs it to be looked up whenever it is made: with the *)
(* block that creates it, with the scene, or when it is dressed again.     *)
(***************************************************************************)
EXTENDS Objects, TLAPS

\* Entities stands exactly in the world, and a packet is handled to its end
\* before the session can leave it.
SceneOK ==
    /\ scene <=> state = "world"
    /\ updating => state \in {"entering", "world"}
    /\ Idle => destroyed = {}
    /\ ~scene => nodes = {} /\ plates = {} /\ torn = {}

\* But for what the packet at hand sends out of range, the nodes are the
\* objects.
ViewOK ==
    /\ Self \notin nodes
    /\ scene => nodes \ destroyed = objects \ ({Self} \cup torn \cup destroyed)

\* A unit is recorded under its own template.
QueriesOK == \A e \in Entries : \A u \in creature_queries[e] : Entry[u] = e

\* NamesAsked, of the queries, of the nodes and of the lines.
Recorded(g) ==
    \/ Named(g)
    \/ g \in player_queries
    \/ g \in Units /\ g \in creature_queries[Entry[g]]
Pending ==
    /\ \A g \in player_queries : ByName(g) \in asked \cup deaf
    /\ \A e \in Entries : creature_queries[e] # {} => ByUnit(e) \in asked \cup deaf
NodesRecorded == \A g \in nodes : Recorded(g)
LinesRecorded == \A g \in Players : chat_waiting[g] # <<>> => g \in player_queries
QueriesNameless == \A g \in player_queries : ~Named(g)

\* TypeOK, by the parts that change together.
StoreTyped ==
    /\ state \in {"characters", "entering", "world"}
    /\ updating \in BOOLEAN /\ scene \in BOOLEAN
    /\ objects \subseteq Guids /\ destroyed \subseteq Guids /\ torn \subseteq Guids
ViewTyped == nodes \subseteq Guids /\ plates \subseteq Guids
QueriesTyped ==
    /\ names \subseteq Players \cup Entries
    /\ player_queries \subseteq Players
    /\ creature_queries \in [Entries -> SUBSET Units]
    /\ creature_entry_queries \subseteq Entries
    /\ asked \subseteq Questions /\ deaf \subseteq Questions
ChatTyped ==
    /\ lines \in Seq(Players)
    /\ chat_waiting \in [Players -> Seq(DOMAIN lines)]
    /\ heard \in Seq(DOMAIN lines)

IInv ==
    /\ StoreTyped /\ ViewTyped /\ QueriesTyped /\ ChatTyped
    /\ SceneOK /\ ViewOK /\ PlatesNamed
    /\ QueriesOK /\ Pending /\ NodesRecorded /\ LinesRecorded
    /\ QueriesNameless /\ LinesInTurn

-----------------------------------------------------------------------------
LEMMA GuidFacts ==
    /\ Self \in Players /\ Players \subseteq Guids /\ Units \subseteq Guids
    /\ \A u \in Units : Entry[u] \in Entries /\ u \notin Players
    /\ \A g \in Guids : g \in Players \/ g \in Units
    /\ \A e \in Entries : e \notin Players
BY GuidsAssumption DEF Guids

LEMMA QuestionFacts ==
    /\ \A g \in Players : ByName(g) \in Questions
    /\ \A e \in Entries : ByUnit(e) \in Questions /\ ByEntry(e) \in Questions
    /\ \A g, h : ByName(g) = ByName(h) => g = h
    /\ \A e, f : ByUnit(e) = ByUnit(f) => e = f
    /\ \A g, e : ByName(g) # ByUnit(e) /\ ByName(g) # ByEntry(e)
    /\ \A e, f : ByUnit(e) # ByEntry(f)
BY DEF Questions, ByName, ByUnit, ByEntry

\* The invariant and the properties of the runs.
LEMMA IInvImplies == IInv => TypeOK /\ ViewAgrees /\ PlatesNamed /\ NamesAsked /\ LinesInTurn
<1> SUFFICES ASSUME IInv PROVE TypeOK /\ ViewAgrees /\ PlatesNamed /\ NamesAsked /\ LinesInTurn
  OBVIOUS
<1>1. TypeOK
  BY DEF IInv, TypeOK, StoreTyped, ViewTyped, QueriesTyped, ChatTyped
<1>2. ViewAgrees
  BY DEF IInv, ViewAgrees, ViewOK, SceneOK
<1>3. NamesAsked
  BY DEF IInv, NamesAsked, Pending, NodesRecorded, Recorded, LinesRecorded
<1> QED BY <1>1, <1>2, <1>3 DEF IInv

LEMMA InitIInv == Init => IInv
<1> SUFFICES ASSUME Init PROVE IInv
  OBVIOUS
<1>1. StoreTyped /\ ViewTyped /\ QueriesTyped
  BY DEF Init, StoreTyped, ViewTyped, QueriesTyped
<1>2. ChatTyped
  BY DEF Init, ChatTyped, NoneWaiting
<1>3. SceneOK /\ ViewOK /\ PlatesNamed
  BY DEF Init, SceneOK, ViewOK, PlatesNamed, Idle
<1>4. QueriesOK /\ Pending /\ NodesRecorded /\ LinesRecorded /\ QueriesNameless
  BY DEF Init, QueriesNameless, QueriesOK, Pending, NodesRecorded, LinesRecorded, NoneWaiting
<1>5. LinesInTurn
  BY DEF Init, LinesInTurn, NoneWaiting
<1> QED BY <1>1, <1>2, <1>3, <1>4, <1>5 DEF IInv

-----------------------------------------------------------------------------
\* Looking names up records who lacks one, and loses no query.
LEMMA LookUpRecords ==
    ASSUME IInv, NEW S \in SUBSET Guids, LookUp(S)
    PROVE  /\ QueriesTyped' /\ QueriesOK' /\ Pending' /\ QueriesNameless'
           /\ \A g \in Guids : Recorded(g) => Recorded(g)'
           /\ \A g \in S : Recorded(g)'
           /\ \A g \in Guids : Named(g)' <=> Named(g)
           /\ player_queries \subseteq player_queries'
<1> DEFINE who == {g \in S \cap Players : ~Named(g)}
<1>1. /\ player_queries' = player_queries \cup who
      /\ creature_queries' = Asking(S)
      /\ asked' = asked \cup {ByName(g) : g \in who \ player_queries}
                        \cup {ByUnit(e) : e \in Unasked(S)}
      /\ UNCHANGED <<names, creature_entry_queries, deaf>>
  BY DEF LookUp
<1>2. QueriesTyped
  BY DEF IInv
<1>3. ASSUME NEW e \in Entries
      PROVE  /\ creature_queries[e] \subseteq Units
             /\ creature_queries'[e] =
                  creature_queries[e] \cup {g \in S \cap Units : ~Named(g) /\ Entry[g] = e}
  BY <1>1, <1>2 DEF QueriesTyped, Asking
<1>4. \A g \in Guids : Named(g)' <=> Named(g)
  BY <1>1 DEF Named, Key
<1>5. QueriesTyped'
  <2>1. creature_queries' \in [Entries -> SUBSET Units]
    BY <1>1, <1>2 DEF QueriesTyped, Asking
  <2>2. asked' \subseteq Questions
    BY <1>1, <1>2, QuestionFacts DEF QueriesTyped, Unasked
  <2> QED BY <1>1, <1>2, <2>1, <2>2 DEF QueriesTyped
<1>6. QueriesOK'
  BY <1>3 DEF IInv, QueriesOK
<1>7. Pending'
  <2>1. ASSUME NEW g \in player_queries' PROVE ByName(g) \in asked' \cup deaf'
    BY <1>1, <2>1 DEF IInv, Pending
  <2>2. ASSUME NEW e \in Entries, creature_queries'[e] # {}
        PROVE  ByUnit(e) \in asked' \cup deaf'
    <3>1. CASE creature_queries[e] # {}
      BY <1>1, <3>1 DEF IInv, Pending
    <3>2. CASE creature_queries[e] = {}
      BY <1>1, <2>2, <3>2 DEF Unasked
    <3> QED BY <3>1, <3>2
  <2> QED BY <2>1, <2>2 DEF Pending
<1>8. ASSUME NEW g \in Guids, Recorded(g) PROVE Recorded(g)'
  <2>1. CASE g \in Units /\ g \in creature_queries[Entry[g]]
    BY <1>3, <2>1, GuidFacts DEF Recorded
  <2> QED BY <1>1, <1>4, <1>8, <2>1 DEF Recorded
<1>9. ASSUME NEW g \in S PROVE Recorded(g)'
  <2>1. CASE g \in Players
    BY <1>1, <1>4, <2>1 DEF Recorded
  <2>2. CASE g \in Units
    BY <1>3, <1>4, <2>2, GuidFacts DEF Recorded
  <2> QED BY <2>1, <2>2, GuidFacts
<1>10. QueriesNameless'
  <2>1. who \subseteq Guids /\ player_queries \subseteq Guids
    BY <1>2, GuidFacts DEF QueriesTyped
  <2> QED BY <1>1, <1>4, <2>1 DEF IInv, QueriesNameless
<1> QED BY <1>1, <1>4, <1>5, <1>6, <1>7, <1>8, <1>9, <1>10

\* A node is made with its plate, and recorded if that is empty.
LEMMA CreateKeeps ==
    ASSUME IInv, NEW S \in SUBSET Guids, Create(S), UNCHANGED <<scene, chat>>
    PROVE  /\ ViewTyped' /\ QueriesTyped' /\ PlatesNamed'
           /\ QueriesOK' /\ Pending' /\ NodesRecorded' /\ LinesRecorded' /\ QueriesNameless'
           /\ nodes' = nodes \cup (S \ {Self}) /\ Self \notin nodes'
<1>1. /\ nodes' = nodes \cup (S \ {Self})
      /\ plates' = (plates \ S) \cup {g \in S \ {Self} : Named(g)}
      /\ LookUp(S \ {Self})
  BY DEF Create, Raised
<1>2. S \ {Self} \in SUBSET Guids /\ Self \notin nodes /\ nodes \subseteq Guids /\ plates \subseteq Guids
  BY DEF IInv, ViewOK, ViewTyped
<1>3. /\ QueriesTyped' /\ QueriesOK' /\ Pending' /\ QueriesNameless'
      /\ \A g \in Guids : Recorded(g) => Recorded(g)'
      /\ \A g \in S \ {Self} : Recorded(g)'
      /\ \A g \in Guids : Named(g)' <=> Named(g)
      /\ player_queries \subseteq player_queries'
  BY <1>1, <1>2, LookUpRecords
<1>4. ViewTyped'
  BY <1>1, <1>2 DEF ViewTyped
<1>5. PlatesNamed'
  BY <1>1, <1>2, <1>3 DEF IInv, PlatesNamed
<1>6. NodesRecorded'
  BY <1>1, <1>2, <1>3 DEF IInv, NodesRecorded
<1>7. LinesRecorded'
  BY <1>3 DEF IInv, LinesRecorded, chat
<1> QED BY <1>1, <1>2, <1>3, <1>4, <1>5, <1>6, <1>7

\* Nodes go with their plates.
LEMMA FadeKeeps ==
    ASSUME IInv, NEW S, Fade(S), UNCHANGED <<queries, chat>>
    PROVE  /\ ViewTyped' /\ QueriesTyped' /\ PlatesNamed'
           /\ QueriesOK' /\ Pending' /\ NodesRecorded' /\ LinesRecorded' /\ QueriesNameless'
           /\ nodes' = nodes \ S /\ Self \notin nodes'
<1>1. nodes' = nodes \ S /\ plates' = plates \ S
  BY DEF Fade
<1>2. UNCHANGED <<names, player_queries, creature_queries, creature_entry_queries, asked, deaf, chat_waiting>>
  BY DEF queries, chat
<1>3. QueriesTyped' /\ QueriesOK' /\ Pending' /\ LinesRecorded'
  BY <1>2 DEF IInv, QueriesTyped, QueriesOK, Pending, LinesRecorded
<1>5. QueriesNameless'
  BY <1>2 DEF IInv, QueriesNameless, Named, Key
<1>4. ViewTyped' /\ PlatesNamed' /\ NodesRecorded'
  BY <1>1, <1>2 DEF IInv, ViewTyped, PlatesNamed, NodesRecorded, Recorded, Named, Key
<1> QED BY <1>1, <1>3, <1>4, <1>5 DEF IInv, ViewOK

LEMMA ViewStays ==
    ASSUME IInv, UNCHANGED <<nodes, plates, queries, chat>>
    PROVE  /\ ViewTyped' /\ QueriesTyped' /\ PlatesNamed'
           /\ QueriesOK' /\ Pending' /\ NodesRecorded' /\ LinesRecorded' /\ QueriesNameless'
           /\ Self \notin nodes'
<1>1. Fade({})
  BY DEF Fade
<1> QED BY <1>1, FadeKeeps

LEMMA ChatStays == ASSUME IInv, UNCHANGED chat PROVE ChatTyped' /\ LinesInTurn'
BY DEF IInv, ChatTyped, LinesInTurn, chat

-----------------------------------------------------------------------------
\* The packets that make and unmake objects.
LEMMA UpdateBeginStep == IInv /\ UpdateBegin => IInv'
<1> SUFFICES ASSUME IInv, UpdateBegin PROVE IInv'
  OBVIOUS
<1>1. PICK gone \in SUBSET Guids :
          objects' = objects \ gone /\ destroyed' = gone /\ torn' = torn \ gone
  BY DEF UpdateBegin
<1>2. /\ Idle /\ state \in {"entering", "world"} /\ updating' = TRUE
      /\ UNCHANGED <<state, queries, chat, scene, nodes, plates>>
  BY DEF UpdateBegin, Told, view
<1>3. StoreTyped' /\ SceneOK'
  BY <1>1, <1>2 DEF IInv, StoreTyped, SceneOK, Idle
<1>4. ViewOK'
  BY <1>1, <1>2 DEF IInv, ViewOK, SceneOK
<1> QED BY <1>2, <1>3, <1>4, ViewStays, ChatStays DEF IInv

LEMMA UpdateCreateStep ==
    ASSUME IInv, NEW g \in Guids, UpdateCreate(g) PROVE IInv'
<1>1. /\ updating /\ objects' = objects \cup {g} /\ torn' = torn \ {g}
      /\ UNCHANGED <<state, updating, destroyed, chat, scene>>
  BY DEF UpdateCreate
<1>2. CASE scene
  <2>1. Create({g})
    BY <1>2 DEF UpdateCreate
  <2>2. /\ ViewTyped' /\ QueriesTyped' /\ PlatesNamed'
        /\ QueriesOK' /\ Pending' /\ NodesRecorded' /\ LinesRecorded' /\ QueriesNameless'
        /\ nodes' = nodes \cup ({g} \ {Self}) /\ Self \notin nodes'
    BY <1>1, <2>1, CreateKeeps
  <2>3. StoreTyped' /\ SceneOK'
    BY <1>1, <1>2 DEF IInv, StoreTyped, SceneOK, Idle
  <2>4. ViewOK'
    BY <1>1, <1>2, <2>2 DEF IInv, ViewOK
  <2> QED BY <1>1, <2>2, <2>3, <2>4, ChatStays DEF IInv
<1>3. CASE ~scene
  <2>1. UNCHANGED <<nodes, plates, queries>>
    BY <1>3 DEF UpdateCreate
  <2>2. StoreTyped' /\ SceneOK' /\ ViewOK'
    BY <1>1, <1>3, <2>1 DEF IInv, StoreTyped, SceneOK, ViewOK, Idle
  <2> QED BY <1>1, <2>1, <2>2, ViewStays, ChatStays DEF IInv
<1> QED BY <1>2, <1>3

\* A respawn, by a block of values or when an item is known.
LEMMA RespawnStep ==
    ASSUME IInv, NEW g \in Guids, Respawn(g),
           UNCHANGED <<state, objects, updating, destroyed, chat, scene, torn>>
    PROVE  IInv'
<1>1. scene /\ g \in nodes /\ Create({g})
  BY DEF Respawn
<1>2. /\ ViewTyped' /\ QueriesTyped' /\ PlatesNamed'
      /\ QueriesOK' /\ Pending' /\ NodesRecorded' /\ LinesRecorded' /\ QueriesNameless'
      /\ nodes' = nodes \cup ({g} \ {Self}) /\ Self \notin nodes'
  BY <1>1, CreateKeeps
<1>3. nodes' = nodes
  BY <1>1, <1>2
<1>4. StoreTyped' /\ SceneOK' /\ ViewOK'
  BY <1>1, <1>2, <1>3 DEF IInv, StoreTyped, SceneOK, ViewOK, Idle
<1> QED BY <1>2, <1>4, ChatStays DEF IInv

LEMMA UpdateEndStep == IInv /\ UpdateEnd => IInv'
<1> SUFFICES ASSUME IInv, UpdateEnd PROVE IInv'
  OBVIOUS
<1>1. /\ updating /\ updating' = FALSE /\ destroyed' = {}
      /\ torn' = torn \cup {g \in destroyed \ {Self} : scene /\ g \in objects}
      /\ UNCHANGED <<state, objects, queries, chat, scene>>
  BY DEF UpdateEnd
<1>2. StoreTyped'
  BY <1>1 DEF IInv, StoreTyped
<1>3. CASE scene
  <2>1. Fade(destroyed)
    BY <1>3 DEF UpdateEnd
  <2>2. /\ ViewTyped' /\ QueriesTyped' /\ PlatesNamed'
        /\ QueriesOK' /\ Pending' /\ NodesRecorded' /\ LinesRecorded' /\ QueriesNameless'
        /\ nodes' = nodes \ destroyed /\ Self \notin nodes'
    BY <1>1, <2>1, FadeKeeps
  <2>3. SceneOK' /\ ViewOK'
    BY <1>1, <1>3, <2>2 DEF IInv, SceneOK, ViewOK, Idle
  <2> QED BY <1>1, <1>2, <2>2, <2>3, ChatStays DEF IInv
<1>4. CASE ~scene
  <2>1. UNCHANGED <<nodes, plates>>
    BY <1>4 DEF UpdateEnd
  <2>2. SceneOK' /\ ViewOK'
    BY <1>1, <1>4, <2>1 DEF IInv, SceneOK, ViewOK, Idle
  <2> QED BY <1>1, <1>2, <2>1, <2>2, ViewStays, ChatStays DEF IInv
<1> QED BY <1>3, <1>4

LEMMA DestroyObjectStep ==
    ASSUME IInv, NEW g \in Guids, DestroyObject(g) PROVE IInv'
<1>1. /\ Idle /\ objects' = objects \ {g} /\ Fade({g}) /\ torn' = torn \ {g}
      /\ UNCHANGED <<state, updating, destroyed, queries, chat, scene>>
  BY DEF DestroyObject, Told
<1>2. /\ ViewTyped' /\ QueriesTyped' /\ PlatesNamed'
      /\ QueriesOK' /\ Pending' /\ NodesRecorded' /\ LinesRecorded' /\ QueriesNameless'
      /\ nodes' = nodes \ {g} /\ plates' = plates \ {g} /\ Self \notin nodes'
  BY <1>1, FadeKeeps DEF Fade
<1>3. StoreTyped' /\ SceneOK' /\ ViewOK'
  BY <1>1, <1>2 DEF IInv, StoreTyped, SceneOK, ViewOK, Idle
<1> QED BY <1>1, <1>2, <1>3, ChatStays DEF IInv

LEMMA NewWorldStep == IInv /\ NewWorld => IInv'
<1> SUFFICES ASSUME IInv, NewWorld PROVE IInv'
  OBVIOUS
<1>1. /\ Idle /\ state = "world" /\ objects' = objects \cap {Self}
      /\ Fade(objects \ {Self}) /\ torn' = {}
      /\ UNCHANGED <<state, updating, destroyed, queries, chat, scene>>
  BY DEF NewWorld, LeftBehind
<1>2. /\ ViewTyped' /\ QueriesTyped' /\ PlatesNamed'
      /\ QueriesOK' /\ Pending' /\ NodesRecorded' /\ LinesRecorded' /\ QueriesNameless'
      /\ nodes' = nodes \ (objects \ {Self}) /\ Self \notin nodes'
  BY <1>1, FadeKeeps
<1>3. StoreTyped' /\ SceneOK' /\ ViewOK'
  BY <1>1, <1>2 DEF IInv, StoreTyped, SceneOK, ViewOK, Idle
<1> QED BY <1>1, <1>2, <1>3, ChatStays DEF IInv

-----------------------------------------------------------------------------
\* Entering and leaving the world.
LEMMA EnterWorldStep == IInv /\ EnterWorld => IInv'
<1> SUFFICES ASSUME IInv, EnterWorld PROVE IInv'
  OBVIOUS
<1>1. /\ Idle /\ state = "characters" /\ state' = "entering" /\ objects' = {} /\ torn' = {}
      /\ UNCHANGED <<updating, destroyed, queries, chat, scene, nodes, plates>>
  BY DEF EnterWorld, view
<1>2. StoreTyped' /\ SceneOK' /\ ViewOK'
  BY <1>1 DEF IInv, StoreTyped, SceneOK, ViewOK, Idle
<1> QED BY <1>1, <1>2, ViewStays, ChatStays DEF IInv

LEMMA LoginVerifyWorldStep == IInv /\ LoginVerifyWorld => IInv'
<1> SUFFICES ASSUME IInv, LoginVerifyWorld PROVE IInv'
  OBVIOUS
<1>1. /\ Idle /\ state = "entering" /\ state' = "world" /\ scene' = TRUE /\ Create(objects)
      /\ UNCHANGED <<objects, updating, destroyed, chat, torn>>
  BY DEF LoginVerifyWorld
<1>2. ~scene /\ nodes = {} /\ plates = {} /\ torn = {} /\ destroyed = {} /\ objects \in SUBSET Guids
  BY <1>1 DEF IInv, SceneOK, StoreTyped
<1>3. /\ nodes' = objects \ {Self}
      /\ plates' = {g \in objects \ {Self} : Named(g)}
      /\ LookUp(objects \ {Self})
  BY <1>1, <1>2 DEF Create, Raised
<1>4. /\ QueriesTyped' /\ QueriesOK' /\ Pending' /\ QueriesNameless'
      /\ \A g \in objects \ {Self} : Recorded(g)'
      /\ \A g \in Guids : Named(g)' <=> Named(g)
      /\ player_queries \subseteq player_queries'
  BY <1>2, <1>3, LookUpRecords
<1>5. ViewTyped' /\ PlatesNamed' /\ NodesRecorded'
  BY <1>2, <1>3, <1>4 DEF ViewTyped, PlatesNamed, NodesRecorded
<1>6. LinesRecorded'
  BY <1>1, <1>4 DEF IInv, LinesRecorded, chat
<1>7. StoreTyped' /\ SceneOK' /\ ViewOK'
  BY <1>1, <1>2, <1>3 DEF IInv, StoreTyped, SceneOK, ViewOK, Idle
<1> QED BY <1>1, <1>4, <1>5, <1>6, <1>7, ChatStays DEF IInv

\* The scene goes, with all nodes.
LEMMA LeaveStep == IInv /\ (CharacterLoginFailed \/ LogoutComplete) => IInv'
<1> SUFFICES ASSUME IInv, CharacterLoginFailed \/ LogoutComplete PROVE IInv'
  OBVIOUS
<1>1. /\ Idle /\ state' = "characters" /\ Unscene
      /\ UNCHANGED <<updating, destroyed, queries, chat>>
  BY DEF CharacterLoginFailed, LogoutComplete
<1>2. scene' = FALSE /\ nodes' = {} /\ plates' = {} /\ Fade(nodes \cup plates)
  BY <1>1 DEF Unscene, Fade
<1>3. objects' \subseteq Guids /\ torn' = {}
  BY DEF CharacterLoginFailed, LogoutComplete, IInv, StoreTyped, SceneOK
<1>4. StoreTyped' /\ SceneOK' /\ ViewOK'
  BY <1>1, <1>2, <1>3 DEF IInv, StoreTyped, SceneOK, ViewOK, Idle
<1> QED BY <1>1, <1>2, <1>4, FadeKeeps, ChatStays DEF IInv

LEMMA DisconnectStep == IInv /\ Disconnect => IInv'
<1> SUFFICES ASSUME IInv, Disconnect PROVE IInv'
  OBVIOUS
<1>1. /\ Idle /\ state' = "characters" /\ objects' = {} /\ torn' = {}
      /\ player_queries' = {} /\ creature_queries' = [e \in Entries |-> {}]
      /\ creature_entry_queries' = {} /\ asked' = {} /\ deaf' = {}
      /\ chat_waiting' = [g \in Players |-> <<>>] /\ lines' = <<>> /\ heard' = <<>>
      /\ scene' = FALSE /\ nodes' = {} /\ plates' = {}
      /\ UNCHANGED <<updating, destroyed, names>>
  BY DEF Disconnect, Unscene, WaitingLeft, NoneWaiting
<1>2. StoreTyped' /\ SceneOK' /\ ViewOK' /\ ViewTyped' /\ PlatesNamed'
  BY <1>1 DEF IInv, StoreTyped, SceneOK, ViewOK, ViewTyped, PlatesNamed, Idle
<1>3. QueriesTyped' /\ QueriesOK' /\ Pending' /\ NodesRecorded' /\ LinesRecorded' /\ QueriesNameless'
  BY <1>1 DEF IInv, QueriesTyped, QueriesOK, Pending, NodesRecorded, LinesRecorded, QueriesNameless
<1>4. ChatTyped'
  BY <1>1 DEF ChatTyped
<1>5. LinesInTurn'
  BY <1>1 DEF LinesInTurn
<1> QED BY <1>2, <1>3, <1>4, <1>5 DEF IInv

-----------------------------------------------------------------------------
\* Questions and answers.  A step that leaves the store and the nodes alone
\* keeps what is said of them.
LEMMA StoreStays ==
    ASSUME IInv, UNCHANGED <<state, objects, updating, destroyed, scene, nodes, torn>>,
           plates' \subseteq nodes
    PROVE  StoreTyped' /\ SceneOK' /\ ViewOK' /\ ViewTyped'
<1>1. StoreTyped' /\ ViewOK' /\ ViewTyped'
  BY DEF IInv, StoreTyped, ViewOK, ViewTyped
<1>2. SceneOK'
  BY DEF IInv, SceneOK, Idle
<1> QED BY <1>1, <1>2

\* Nor does one that only records more, or takes a question for lost.
LEMMA RecordsGrow ==
    ASSUME IInv, names' = names, creature_queries' = creature_queries,
           player_queries \subseteq player_queries',
           \A g \in player_queries' \ player_queries : ~Named(g),
           UNCHANGED <<nodes, plates>>
    PROVE  PlatesNamed' /\ QueriesOK' /\ NodesRecorded' /\ QueriesNameless'
<1>1. PlatesNamed' /\ QueriesOK' /\ NodesRecorded'
  BY DEF IInv, PlatesNamed, QueriesOK, NodesRecorded, Recorded, Named, Key
<1>2. QueriesNameless'
  BY DEF IInv, QueriesNameless, Named, Key
<1> QED BY <1>1, <1>2

LEMMA PlatesOnNodes == IInv => plates \subseteq nodes
BY DEF IInv, PlatesNamed

LEMMA LostStep ==
    IInv /\ (ChangeRealm \/ \E q \in Questions : Invalid(q)) => IInv'
<1> SUFFICES ASSUME IInv, ChangeRealm \/ \E q \in Questions : Invalid(q) PROVE IInv'
  OBVIOUS
<1>1. UNCHANGED <<state, objects, updating, destroyed, names, player_queries,
                  creature_queries, creature_entry_queries, chat, scene, nodes, plates, torn>>
  BY DEF ChangeRealm, Invalid, view
<1>2. asked' \subseteq asked /\ deaf' \subseteq Questions /\ asked \cup deaf = asked' \cup deaf'
  BY DEF ChangeRealm, Invalid, IInv, QueriesTyped
<1>3. QueriesTyped' /\ Pending' /\ LinesRecorded'
  BY <1>1, <1>2 DEF IInv, QueriesTyped, Pending, LinesRecorded, chat
<1> QED BY <1>1, <1>3, StoreStays, RecordsGrow, PlatesOnNodes, ChatStays DEF IInv

LEMMA AskStep ==
    IInv /\ ((\E g \in Speakers : AskPlayer(g)) \/ \E e \in Entries : AskTemplate(e)) => IInv'
<1> SUFFICES ASSUME IInv,
                    (\E g \in Speakers : AskPlayer(g)) \/ \E e \in Entries : AskTemplate(e)
             PROVE  IInv'
  OBVIOUS
<1>1. UNCHANGED <<state, objects, updating, destroyed, names,
                  creature_queries, deaf, chat, scene, nodes, plates, torn>>
  BY DEF AskPlayer, AskTemplate, view
<1>2. CASE \E g \in Speakers : AskPlayer(g)
  <2>1. PICK g \in Players :
            /\ player_queries' = player_queries \cup {g} /\ asked' = asked \cup {ByName(g)}
            /\ creature_entry_queries' = creature_entry_queries /\ ~Named(g)
    BY <1>2, GuidsAssumption DEF AskPlayer
  <2>2. QueriesTyped' /\ Pending' /\ LinesRecorded'
    BY <1>1, <2>1, QuestionFacts DEF IInv, QueriesTyped, Pending, LinesRecorded, chat
  <2> QED BY <1>1, <2>1, <2>2, StoreStays, RecordsGrow, PlatesOnNodes, ChatStays DEF IInv
<1>3. CASE \E e \in Entries : AskTemplate(e)
  <2>1. PICK e \in Entries :
            /\ creature_entry_queries' = creature_entry_queries \cup {e}
            /\ asked' = asked \cup {ByEntry(e)} /\ player_queries' = player_queries
    BY <1>3 DEF AskTemplate
  <2>2. QueriesTyped' /\ Pending' /\ LinesRecorded'
    BY <1>1, <2>1, QuestionFacts DEF IInv, QueriesTyped, Pending, LinesRecorded, chat
  <2> QED BY <1>1, <2>1, <2>2, StoreStays, RecordsGrow, PlatesOnNodes, ChatStays DEF IInv
<1> QED BY <1>2, <1>3

\* Lines are numbers of lines, also when one more has come.
LEMMA SeqGrows ==
    ASSUME NEW S, NEW T, S \subseteq T, NEW s \in Seq(S) PROVE s \in Seq(T)
OBVIOUS

LEMMA SeqFacts ==
    ASSUME NEW S, NEW s \in Seq(S)
    PROVE  Len(s) \in Nat /\ DOMAIN s = 1 .. Len(s) /\ \A i \in 1 .. Len(s) : s[i] \in S
OBVIOUS

LEMMA ConcatFacts ==
    ASSUME NEW S, NEW s \in Seq(S), NEW t \in Seq(S)
    PROVE  /\ s \o t \in Seq(S) /\ DOMAIN (s \o t) = 1 .. Len(s) + Len(t)
           /\ \A i \in 1 .. Len(s) : (s \o t)[i] = s[i]
           /\ \A j \in 1 .. Len(t) : (s \o t)[Len(s) + j] = t[j]
           /\ \A i \in DOMAIN (s \o t) :
                  i \in 1 .. Len(s) \/ \E j \in 1 .. Len(t) : i = Len(s) + j
<1>1. /\ s \o t \in Seq(S) /\ DOMAIN (s \o t) = 1 .. Len(s) + Len(t)
      /\ Len(s) \in Nat /\ Len(t) \in Nat
      /\ \A i \in 1 .. Len(s) : (s \o t)[i] = s[i]
  OBVIOUS
<1>2. ASSUME NEW j \in 1 .. Len(t) PROVE (s \o t)[Len(s) + j] = t[j]
  OBVIOUS
<1>3. ASSUME NEW i \in 1 .. Len(s) + Len(t), i \notin 1 .. Len(s)
      PROVE  \E j \in 1 .. Len(t) : i = Len(s) + j
  <2>1. i - Len(s) \in 1 .. Len(t) /\ i = Len(s) + (i - Len(s))
    BY <1>1, <1>3
  <2> QED BY <2>1
<1> QED BY <1>1, <1>2, <1>3

LEMMA AppendFacts ==
    ASSUME NEW S, NEW s \in Seq(S), NEW x
    PROVE  /\ DOMAIN Append(s, x) = 1 .. Len(s) + 1 /\ Len(Append(s, x)) = Len(s) + 1
           /\ \A i \in 1 .. Len(s) : Append(s, x)[i] = s[i]
           /\ Append(s, x)[Len(s) + 1] = x
OBVIOUS

\* No line is lost: it was heard, or it waits.
LEMMA EachLine ==
    ASSUME LinesInTurn, NEW n \in DOMAIN lines
    PROVE  \/ \E i \in DOMAIN heard : heard[i] = n
           \/ \E j \in DOMAIN chat_waiting[lines[n]] : chat_waiting[lines[n]][j] = n
BY DEF LinesInTurn

LEMMA NameQueryResponseStep ==
    ASSUME IInv, NEW g \in Players, NameQueryResponse(g) PROVE IInv'
<1>1. /\ asked' = asked \ {ByName(g)} /\ names' = names \cup {g}
      /\ player_queries' = player_queries \ {g}
      /\ plates' = IF scene THEN plates \cup ({g} \cap nodes) ELSE plates
      /\ heard' = heard \o chat_waiting[g]
      /\ chat_waiting' = [chat_waiting EXCEPT ![g] = <<>>]
      /\ UNCHANGED <<state, objects, updating, destroyed,
                     creature_queries, creature_entry_queries, deaf,
                     lines, scene, nodes, torn>>
  BY DEF NameQueryResponse, Plated, InTurn, Flushed
<1>2. nodes \subseteq Guids /\ (~scene => nodes = {})
  BY DEF IInv, ViewTyped, SceneOK
<1>3. \A h \in Guids : Named(h)' <=> Named(h) \/ h = g
  BY <1>1, GuidFacts DEF Named, Key
<1>4. PlatesNamed'
  BY <1>1, <1>2, <1>3 DEF IInv, PlatesNamed
<1>5. QueriesTyped' /\ QueriesOK'
  BY <1>1 DEF IInv, QueriesTyped, QueriesOK
<1>6. Pending'
  BY <1>1, QuestionFacts DEF IInv, Pending
<1>7. NodesRecorded'
  BY <1>1, <1>2, <1>3 DEF IInv, NodesRecorded, Recorded
<1>8. LinesRecorded'
  BY <1>1 DEF IInv, LinesRecorded, ChatTyped
<1>9. ChatTyped'
  <2>1. chat_waiting[g] \in Seq(DOMAIN lines) /\ heard \in Seq(DOMAIN lines)
    BY DEF IInv, ChatTyped
  <2>2. heard' \in Seq(DOMAIN lines)
    BY <1>1, <2>1
  <2>3. chat_waiting' \in [Players -> Seq(DOMAIN lines)]
    BY <1>1 DEF IInv, ChatTyped
  <2> QED BY <1>1, <2>2, <2>3 DEF IInv, ChatTyped
<1>10. plates' \subseteq nodes
  BY <1>1, PlatesOnNodes
<1>11. QueriesNameless'
  BY <1>1, <1>3, GuidFacts DEF IInv, QueriesNameless, QueriesTyped
\* The lines that waited go behind those heard, in their order.
<1>12. LinesInTurn'
  <2> DEFINE w == chat_waiting[g]
  <2>1. /\ w \in Seq(DOMAIN lines) /\ heard \in Seq(DOMAIN lines)
        /\ Len(w) \in Nat /\ Len(heard) \in Nat
        /\ DOMAIN w = 1 .. Len(w) /\ DOMAIN heard = 1 .. Len(heard)
        /\ chat_waiting \in [Players -> Seq(DOMAIN lines)]
        /\ DOMAIN lines = 1 .. Len(lines) /\ Len(lines) \in Nat
    BY DEF IInv, ChatTyped
  <2>2. /\ DOMAIN heard' = 1 .. Len(heard) + Len(w)
        /\ \A i \in 1 .. Len(heard) : heard'[i] = heard[i]
        /\ \A j \in 1 .. Len(w) : heard'[Len(heard) + j] = w[j]
        /\ \A i \in DOMAIN heard' :
               i \in 1 .. Len(heard) \/ \E j \in 1 .. Len(w) : i = Len(heard) + j
    <3>1. heard' = heard \o w
      BY <1>1
    <3> QED BY <2>1, <3>1, ConcatFacts
  <2>4. /\ \A i, j \in 1 .. Len(heard) :
              i < j /\ lines[heard[i]] = lines[heard[j]] => heard[i] < heard[j]
        /\ \A j \in 1 .. Len(w) :
              /\ lines[w[j]] = g
              /\ \A i \in 1 .. Len(heard) : lines[heard[i]] = g => heard[i] < w[j]
              /\ \A k \in 1 .. j - 1 : w[k] < w[j]
    BY <2>1 DEF IInv, LinesInTurn
  <2>5. ASSUME NEW i \in DOMAIN heard', NEW j \in DOMAIN heard', i < j,
               lines[heard'[i]] = lines[heard'[j]]
        PROVE  heard'[i] < heard'[j]
    <3>1. CASE j \in 1 .. Len(heard)
      <4>1. i \in 1 .. Len(heard)
        BY <2>1, <2>2, <2>5, <3>1
      <4> QED BY <2>2, <2>4, <2>5, <3>1, <4>1
    <3>2. CASE j \notin 1 .. Len(heard)
      <4>1. PICK b \in 1 .. Len(w) : j = Len(heard) + b
        BY <2>2, <3>2
      <4>2. heard'[j] = w[b]
        BY <2>2, <4>1
      <4>3. CASE i \in 1 .. Len(heard)
        BY <2>2, <2>4, <2>5, <4>2, <4>3
      <4>4. CASE i \notin 1 .. Len(heard)
        <5>1. PICK a \in 1 .. Len(w) : i = Len(heard) + a
          BY <2>2, <4>4
        <5>2. heard'[i] = w[a] /\ a \in 1 .. b - 1
          BY <2>1, <2>2, <2>5, <4>1, <5>1
        <5> QED BY <2>4, <4>2, <5>2
      <4> QED BY <4>3, <4>4
    <3> QED BY <3>1, <3>2
  <2>6. ASSUME NEW h \in Players, NEW j \in DOMAIN chat_waiting'[h]
        PROVE  LET n == chat_waiting'[h][j] IN
               /\ lines[n] = h
               /\ \A i \in DOMAIN heard' : lines[heard'[i]] = h => heard'[i] < n
               /\ \A k \in 1 .. j - 1 : chat_waiting'[h][k] < n
    <3>1. h # g /\ chat_waiting'[h] = chat_waiting[h]
      <4>1. CASE h = g
        <5>1. chat_waiting'[h] = <<>>
          BY <1>1, <2>1, <4>1
        <5> QED BY <2>6, <5>1
      <4> QED BY <1>1, <2>1, <4>1
    <3>2. /\ lines[chat_waiting[h][j]] = h
          /\ \A i \in 1 .. Len(heard) : lines[heard[i]] = h => heard[i] < chat_waiting[h][j]
          /\ \A k \in 1 .. j - 1 : chat_waiting[h][k] < chat_waiting[h][j]
      BY <2>1, <2>6, <3>1 DEF IInv, LinesInTurn
    <3>3. ASSUME NEW i \in DOMAIN heard', lines[heard'[i]] = h PROVE heard'[i] < chat_waiting[h][j]
      <4>1. CASE i \in 1 .. Len(heard)
        BY <2>2, <3>2, <3>3, <4>1
      <4>2. CASE i \notin 1 .. Len(heard)
        <5>1. PICK a \in 1 .. Len(w) : i = Len(heard) + a
          BY <2>2, <4>2
        <5>2. lines[heard'[i]] = g
          BY <2>2, <2>4, <5>1
        <5> QED BY <3>1, <3>3, <5>2
      <4> QED BY <4>1, <4>2
    <3> QED BY <3>1, <3>2, <3>3
  <2>7. ASSUME NEW n \in DOMAIN lines
        PROVE  \/ \E i \in DOMAIN heard' : heard'[i] = n
               \/ \E j \in DOMAIN chat_waiting'[lines[n]] : chat_waiting'[lines[n]][j] = n
    <3>1. CASE \E i \in DOMAIN heard : heard[i] = n
      BY <2>1, <2>2, <3>1
    <3>2. CASE \E j \in DOMAIN chat_waiting[lines[n]] : chat_waiting[lines[n]][j] = n
      <4>1. CASE lines[n] = g
        <5>1. PICK j \in 1 .. Len(w) : w[j] = n
          BY <2>1, <3>2, <4>1
        <5>2. Len(heard) + j \in DOMAIN heard'
          BY <2>1, <2>2
        <5>3. heard'[Len(heard) + j] = n
          BY <2>2, <5>1
        <5> QED BY <5>2, <5>3
      <4>2. CASE lines[n] # g
        BY <1>1, <2>1, <3>2, <4>2
      <4> QED BY <4>1, <4>2
    <3> QED BY <2>7, <3>1, <3>2, EachLine DEF IInv
  <2> QED BY <1>1, <2>5, <2>6, <2>7, ZenonT(60) DEF LinesInTurn
<1> QED BY <1>1, <1>4, <1>5, <1>6, <1>7, <1>8, <1>9, <1>10, <1>11, <1>12, StoreStays DEF IInv

LEMMA CreatureQueryResponseStep ==
    ASSUME IInv, NEW e \in Entries, CreatureQueryResponse(e) PROVE IInv'
<1>1. /\ names' = names \cup {e}
      /\ creature_entry_queries' = creature_entry_queries \ {e}
      /\ plates' = IF scene THEN plates \cup (creature_queries[e] \cap nodes) ELSE plates
      /\ creature_queries' = [creature_queries EXCEPT ![e] = {}]
      /\ UNCHANGED <<state, objects, updating, destroyed,
                     player_queries, deaf, chat, scene, nodes, torn>>
  BY DEF CreatureQueryResponse, Plated
<1>2. PICK q \in {ByUnit(e), ByEntry(e)} : asked' = asked \ {q}
  BY DEF CreatureQueryResponse
<1>3. nodes \subseteq Guids /\ (~scene => nodes = {})
  BY DEF IInv, ViewTyped, SceneOK
<1>4. \A h \in Guids : Named(h)' <=> Named(h) \/ (h \in Units /\ Entry[h] = e)
  BY <1>1, GuidFacts DEF Named, Key
<1>5. /\ creature_queries \in [Entries -> SUBSET Units]
      /\ \A f \in Entries : creature_queries'[f] = IF f = e THEN {} ELSE creature_queries[f]
  BY <1>1 DEF IInv, QueriesTyped
<1>6. PlatesNamed'
  <2>1. ASSUME NEW h \in nodes, Named(h)' PROVE h \in plates'
    <3>1. h \in Guids /\ scene
      BY <1>3, <2>1
    <3>2. CASE Named(h)
      BY <1>1, <2>1, <3>1, <3>2 DEF IInv, PlatesNamed
    <3>3. CASE ~Named(h)
      <4>1. h \in Units /\ Entry[h] = e
        BY <1>4, <2>1, <3>1, <3>3
      <4>2. h \in creature_queries[e] \/ h \in player_queries
        BY <2>1, <3>3, <4>1 DEF IInv, NodesRecorded, Recorded
      <4>3. h \notin player_queries
        BY <4>1, GuidFacts DEF IInv, QueriesTyped
      <4> QED BY <1>1, <2>1, <3>1, <4>2, <4>3
    <3> QED BY <3>2, <3>3
  <2>2. ASSUME NEW h \in plates' PROVE h \in nodes /\ Named(h)'
    <3>1. CASE h \in plates
      BY <1>1, <1>3, <1>4, <3>1 DEF IInv, PlatesNamed
    <3>2. CASE h \in creature_queries[e] \cap nodes
      BY <1>3, <1>4, <1>5, <3>2 DEF IInv, QueriesOK
    <3> QED BY <1>1, <2>2, <3>1, <3>2
  <2> QED BY <1>1, <2>1, <2>2 DEF PlatesNamed
<1>7. QueriesTyped'
  BY <1>1, <1>2, <1>5 DEF IInv, QueriesTyped
<1>8. QueriesOK'
  BY <1>5 DEF IInv, QueriesOK
<1>9. Pending'
  BY <1>1, <1>2, <1>5, QuestionFacts DEF IInv, Pending
<1>10. NodesRecorded'
  <2>1. ASSUME NEW h \in nodes PROVE Recorded(h)'
    <3>1. h \in Guids /\ Recorded(h)
      BY <1>3 DEF IInv, NodesRecorded
    <3>2. CASE h \in Units /\ h \in creature_queries[Entry[h]]
      BY <1>4, <1>5, <3>1, <3>2, GuidFacts DEF Recorded
    <3> QED BY <1>1, <1>4, <3>1, <3>2 DEF Recorded
  <2> QED BY <1>1, <2>1 DEF NodesRecorded
<1>11. LinesRecorded'
  BY <1>1 DEF IInv, LinesRecorded, chat
<1>12. plates' \subseteq nodes
  BY <1>1, PlatesOnNodes
<1>13. QueriesNameless'
  BY <1>1, <1>4, GuidFacts DEF IInv, QueriesNameless, QueriesTyped
<1> QED BY <1>1, <1>6, <1>7, <1>8, <1>9, <1>10, <1>11, <1>12, <1>13, StoreStays, ChatStays DEF IInv

\* The newest line goes behind all others of its sender.
LEMMA LineHeard ==
    ASSUME IInv, NEW g \in Speakers, lines' = Append(lines, g), chat_waiting[g] = <<>>,
           heard' = Append(heard, Len(lines')), chat_waiting' = chat_waiting
    PROVE  LinesInTurn'
<1>1. /\ lines \in Seq(Players) /\ heard \in Seq(DOMAIN lines) /\ g \in Players
      /\ chat_waiting \in [Players -> Seq(DOMAIN lines)]
  BY GuidsAssumption DEF IInv, ChatTyped
<1>2. /\ Len(lines) \in Nat /\ DOMAIN lines = 1 .. Len(lines)
      /\ DOMAIN lines' = 1 .. Len(lines) + 1 /\ Len(lines') = Len(lines) + 1
      /\ \A n \in 1 .. Len(lines) : lines'[n] = lines[n]
      /\ lines'[Len(lines) + 1] = g
  BY <1>1
<1>3. /\ Len(heard) \in Nat /\ DOMAIN heard = 1 .. Len(heard)
      /\ DOMAIN heard' = 1 .. Len(heard) + 1
      /\ \A i \in 1 .. Len(heard) : heard'[i] = heard[i] /\ heard[i] \in 1 .. Len(lines)
      /\ heard'[Len(heard) + 1] = Len(lines) + 1
  <2>1. heard \in Seq(1 .. Len(lines)) /\ heard' = Append(heard, Len(lines) + 1)
    BY <1>1, <1>2
  <2> HIDE <1>1, <1>2
  <2> QED BY <2>1, SeqFacts, AppendFacts
<1>4. ASSUME NEW h \in Players, NEW j \in DOMAIN chat_waiting[h]
      PROVE  chat_waiting[h][j] \in 1 .. Len(lines)
  <2>1. chat_waiting[h] \in Seq(1 .. Len(lines))
    BY <1>1, <1>2
  <2> QED BY <1>4, <2>1, SeqFacts
<1>5. ASSUME NEW i \in DOMAIN heard', NEW j \in DOMAIN heard', i < j,
             lines'[heard'[i]] = lines'[heard'[j]]
      PROVE  heard'[i] < heard'[j]
  <2>1. i \in 1 .. Len(heard)
    BY <1>3, <1>5
  <2>2. CASE j = Len(heard) + 1
    BY <1>2, <1>3, <2>1, <2>2
  <2>3. CASE j \in 1 .. Len(heard)
    BY <1>2, <1>3, <1>5, <2>1, <2>3 DEF IInv, LinesInTurn
  <2> QED BY <1>3, <2>2, <2>3
<1>6. ASSUME NEW h \in Players, NEW j \in DOMAIN chat_waiting[h]
      PROVE  LET n == chat_waiting[h][j] IN
             /\ lines'[n] = h
             /\ \A i \in DOMAIN heard' : lines'[heard'[i]] = h => heard'[i] < n
             /\ \A k \in 1 .. j - 1 : chat_waiting[h][k] < n
  <2>1. h # g
    BY <1>6
  <2>2. /\ chat_waiting[h][j] \in 1 .. Len(lines) /\ lines[chat_waiting[h][j]] = h
        /\ \A i \in 1 .. Len(heard) : lines[heard[i]] = h => heard[i] < chat_waiting[h][j]
        /\ \A k \in 1 .. j - 1 : chat_waiting[h][k] < chat_waiting[h][j]
    BY <1>3, <1>4, <1>6 DEF IInv, LinesInTurn
  <2> QED BY <1>2, <1>3, <2>1, <2>2
<1> DEFINE Kept(n) == \/ \E i \in DOMAIN heard' : heard'[i] = n
                      \/ \E j \in DOMAIN chat_waiting[lines'[n]] :
                             chat_waiting[lines'[n]][j] = n
<1>7. ASSUME NEW n \in DOMAIN lines' PROVE Kept(n)
  <2>1. ASSUME n = Len(lines) + 1 PROVE Kept(n)
    BY <1>3, <2>1
  <2>2. ASSUME n \in DOMAIN lines PROVE Kept(n)
    <3>1. lines'[n] = lines[n]
      BY <1>2, <2>2
    <3>2. ASSUME NEW i \in DOMAIN heard, heard[i] = n PROVE Kept(n)
      BY <1>3, <3>2
    <3>3. \/ \E i \in DOMAIN heard : heard[i] = n
          \/ \E j \in DOMAIN chat_waiting[lines[n]] : chat_waiting[lines[n]][j] = n
      BY <2>2, EachLine DEF IInv
    <3> QED BY <3>1, <3>2, <3>3
  <2>3. n = Len(lines) + 1 \/ n \in DOMAIN lines
    <3> HIDE <1>1
    <3> QED BY <1>2, <1>7
  <2> QED BY <2>1, <2>2, <2>3
<1> QED BY <1>5, <1>6, <1>7, ZenonT(60) DEF LinesInTurn

LEMMA LineWaits ==
    ASSUME IInv, NEW g \in Speakers, lines' = Append(lines, g), heard' = heard,
           chat_waiting' = [chat_waiting EXCEPT ![g] = Append(@, Len(lines'))]
    PROVE  LinesInTurn'
<1>1. /\ lines \in Seq(Players) /\ heard \in Seq(DOMAIN lines) /\ g \in Players
      /\ chat_waiting \in [Players -> Seq(DOMAIN lines)]
  BY GuidsAssumption DEF IInv, ChatTyped
<1>2. /\ Len(lines) \in Nat /\ DOMAIN lines = 1 .. Len(lines)
      /\ DOMAIN lines' = 1 .. Len(lines) + 1 /\ Len(lines') = Len(lines) + 1
      /\ \A n \in 1 .. Len(lines) : lines'[n] = lines[n]
      /\ lines'[Len(lines) + 1] = g
  BY <1>1
<1>3. \A i \in DOMAIN heard : heard[i] \in 1 .. Len(lines)
  <2>1. heard \in Seq(1 .. Len(lines))
    BY <1>1, <1>2
  <2> QED BY <2>1, SeqFacts
<1> DEFINE w == chat_waiting[g]
<1>4. /\ w \in Seq(DOMAIN lines) /\ Len(w) \in Nat /\ DOMAIN w = 1 .. Len(w)
      /\ chat_waiting'[g] = Append(w, Len(lines) + 1)
      /\ \A h \in Players : h # g => chat_waiting'[h] = chat_waiting[h]
  BY <1>1, <1>2
<1>5. /\ DOMAIN chat_waiting'[g] = 1 .. Len(w) + 1
      /\ \A j \in 1 .. Len(w) : chat_waiting'[g][j] = w[j] /\ w[j] \in 1 .. Len(lines)
      /\ chat_waiting'[g][Len(w) + 1] = Len(lines) + 1
  BY <1>2, <1>4
<1>6. ASSUME NEW i \in DOMAIN heard, NEW j \in DOMAIN heard, i < j,
             lines'[heard[i]] = lines'[heard[j]]
      PROVE  heard[i] < heard[j]
  BY <1>2, <1>3, <1>6 DEF IInv, LinesInTurn
<1>7. ASSUME NEW h \in Players, NEW j \in DOMAIN chat_waiting'[h]
      PROVE  LET n == chat_waiting'[h][j] IN
             /\ lines'[n] = h
             /\ \A i \in DOMAIN heard : lines'[heard[i]] = h => heard[i] < n
             /\ \A k \in 1 .. j - 1 : chat_waiting'[h][k] < n
  <2>1. CASE h = g /\ j = Len(w) + 1
    BY <1>2, <1>3, <1>4, <1>5, <2>1
  <2>2. CASE h = g /\ j # Len(w) + 1
    <3>1. j \in 1 .. Len(w)
      BY <1>4, <1>5, <1>7, <2>2
    <3>2. /\ lines[w[j]] = g
          /\ \A i \in DOMAIN heard : lines[heard[i]] = g => heard[i] < w[j]
          /\ \A k \in 1 .. j - 1 : w[k] < w[j]
      BY <1>1, <1>4, <3>1 DEF IInv, LinesInTurn
    <3> QED BY <1>2, <1>3, <1>4, <1>5, <2>2, <3>1, <3>2
  <2>3. CASE h # g
    <3>1. chat_waiting'[h] = chat_waiting[h] /\ chat_waiting[h] \in Seq(DOMAIN lines)
      BY <1>1, <1>4, <2>3
    <3>2. /\ lines[chat_waiting[h][j]] = h
          /\ \A i \in DOMAIN heard : lines[heard[i]] = h => heard[i] < chat_waiting[h][j]
          /\ \A k \in 1 .. j - 1 : chat_waiting[h][k] < chat_waiting[h][j]
      BY <1>7, <3>1 DEF IInv, LinesInTurn
    <3>3. chat_waiting[h][j] \in 1 .. Len(lines)
      <4>1. chat_waiting[h] \in Seq(1 .. Len(lines)) /\ j \in DOMAIN chat_waiting[h]
        BY <1>2, <1>7, <3>1
      <4> QED BY <4>1, SeqFacts
    <3> QED BY <1>2, <1>3, <3>1, <3>2, <3>3
  <2> QED BY <2>1, <2>2, <2>3, Zenon
<1>8. ASSUME NEW n \in DOMAIN lines'
      PROVE  \/ \E i \in DOMAIN heard : heard[i] = n
             \/ \E j \in DOMAIN chat_waiting'[lines'[n]] : chat_waiting'[lines'[n]][j] = n
  <2>1. CASE n = Len(lines) + 1
    <3>1. lines'[n] = g /\ Len(w) + 1 \in DOMAIN chat_waiting'[g]
          /\ chat_waiting'[g][Len(w) + 1] = n
      BY <1>2, <1>4, <1>5, <2>1
    <3> QED BY <3>1
  <2>2. CASE n \in DOMAIN lines
    <3>1. lines'[n] = lines[n] /\ lines[n] \in Players
      BY <1>1, <1>2, <2>2
    <3>2. CASE \E j \in DOMAIN chat_waiting[lines[n]] : chat_waiting[lines[n]][j] = n
      <4>1. CASE lines[n] = g
        <5>1. PICK j \in 1 .. Len(w) : w[j] = n
          BY <1>4, <3>2, <4>1
        <5>2. j \in DOMAIN chat_waiting'[g] /\ chat_waiting'[g][j] = n
          BY <1>4, <1>5, <5>1
        <5> QED BY <3>1, <4>1, <5>2
      <4> QED BY <1>4, <3>1, <3>2, <4>1
    <3> QED BY <2>2, <3>1, <3>2 DEF IInv, LinesInTurn
  <2> QED BY <1>2, <2>1, <2>2
<1> QED BY <1>6, <1>7, <1>8 DEF LinesInTurn

LEMMA ChatStep ==
    ASSUME IInv, NEW g \in Speakers, Chat(g) PROVE IInv'
<1>1. /\ lines' = Append(lines, g)
      /\ UNCHANGED <<state, objects, updating, destroyed, names,
                     creature_queries, creature_entry_queries, deaf,
                     scene, nodes, plates, torn>>
  BY DEF Chat, view
<1>2. g \in Players
  BY GuidsAssumption
<1>3. /\ lines \in Seq(Players) /\ lines' \in Seq(Players)
      /\ Len(lines') = Len(lines) + 1 /\ Len(lines) \in Nat
      /\ DOMAIN lines = 1 .. Len(lines) /\ DOMAIN lines' = 1 .. Len(lines) + 1
  BY <1>1, <1>2 DEF IInv, ChatTyped
<1>4. /\ heard \in Seq(DOMAIN lines') /\ chat_waiting \in [Players -> Seq(DOMAIN lines')]
  <2>1. DOMAIN lines \subseteq DOMAIN lines'
    BY <1>3
  <2>2. heard \in Seq(DOMAIN lines')
    BY <2>1, SeqGrows DEF IInv, ChatTyped
  <2>3. ASSUME NEW h \in Players PROVE chat_waiting[h] \in Seq(DOMAIN lines')
    BY <2>1, SeqGrows DEF IInv, ChatTyped
  <2> QED BY <2>2, <2>3 DEF IInv, ChatTyped
<1>5. Len(lines') \in DOMAIN lines'
  BY <1>3
<1>6. CASE Named(g)
  <2>1. /\ heard' = Append(heard, Len(lines'))
        /\ UNCHANGED <<chat_waiting, player_queries, asked>>
    BY <1>6 DEF Chat
  <2>2. ChatTyped'
    <3>1. heard' \in Seq(DOMAIN lines')
      BY <1>4, <1>5, <2>1
    <3> QED BY <1>3, <1>4, <2>1, <3>1 DEF ChatTyped
  <2>3. QueriesTyped' /\ Pending' /\ LinesRecorded'
    BY <1>1, <2>1 DEF IInv, QueriesTyped, Pending, LinesRecorded
  <2>4. chat_waiting[g] = <<>>
    BY <1>2, <1>6 DEF IInv, LinesRecorded, QueriesNameless
  <2>5. LinesInTurn'
    BY <1>1, <2>1, <2>4, LineHeard
  <2> QED BY <1>1, <2>1, <2>2, <2>3, <2>5, StoreStays, RecordsGrow, PlatesOnNodes DEF IInv
<1>7. CASE ~Named(g)
  <2>1. /\ chat_waiting' = [chat_waiting EXCEPT ![g] = Append(@, Len(lines'))]
        /\ player_queries' = player_queries \cup {g}
        /\ asked' = IF g \in player_queries THEN asked ELSE asked \cup {ByName(g)}
        /\ heard' = heard
    BY <1>7 DEF Chat, Waits
  <2>2. ChatTyped'
    <3>1. Append(chat_waiting[g], Len(lines')) \in Seq(DOMAIN lines')
      BY <1>2, <1>4, <1>5
    <3>2. chat_waiting' \in [Players -> Seq(DOMAIN lines')]
      BY <1>4, <2>1, <3>1
    <3> QED BY <1>3, <1>4, <2>1, <3>2 DEF ChatTyped
  <2>3. QueriesTyped' /\ Pending'
    BY <1>1, <1>2, <2>1, QuestionFacts DEF IInv, QueriesTyped, Pending
  <2>4. LinesRecorded'
    BY <2>1 DEF IInv, LinesRecorded, ChatTyped
  <2>5. LinesInTurn'
    BY <1>1, <2>1, LineWaits
  <2>6. \A h \in player_queries' \ player_queries : ~Named(h)
    BY <1>7, <2>1
  <2> QED BY <1>1, <2>1, <2>2, <2>3, <2>4, <2>5, <2>6, StoreStays, RecordsGrow, PlatesOnNodes
          DEF IInv
<1> QED BY <1>6, <1>7

-----------------------------------------------------------------------------
THEOREM Invariance == Spec => []IInv
<1>1. ASSUME IInv, Next PROVE IInv'
  <2>1. CASE Update
    <3>1. CASE UpdateBegin \/ UpdateEnd
      BY <1>1, <3>1, UpdateBeginStep, UpdateEndStep
    <3>2. ASSUME NEW g \in Guids, UpdateCreate(g) PROVE IInv'
      BY <1>1, <3>2, UpdateCreateStep
    <3>3. ASSUME NEW g \in Guids, UpdateOther(g) PROVE IInv'
      BY <1>1, <3>3, RespawnStep DEF UpdateOther
    <3> QED BY <2>1, <3>1, <3>2, <3>3 DEF Update
  <2>2. CASE Answer
    <3>1. ASSUME NEW g \in Players, NameQueryResponse(g) PROVE IInv'
      BY <1>1, <3>1, NameQueryResponseStep
    <3>2. ASSUME NEW e \in Entries, CreatureQueryResponse(e) PROVE IInv'
      BY <1>1, <3>2, CreatureQueryResponseStep
    <3>3. CASE \E q \in Questions : Invalid(q)
      BY <1>1, <3>3, LostStep
    <3> QED BY <2>2, <3>1, <3>2, <3>3 DEF Answer
  <2>3. ASSUME NEW g \in Guids, DestroyObject(g) \/ ItemInfo(g) PROVE IInv'
    <3>1. CASE DestroyObject(g)
      BY <1>1, <3>1, DestroyObjectStep
    <3>2. CASE ItemInfo(g)
      BY <1>1, <3>2, RespawnStep DEF ItemInfo
    <3> QED BY <2>3, <3>1, <3>2
  <2>4. ASSUME NEW g \in Speakers, AskPlayer(g) \/ Chat(g) PROVE IInv'
    <3>1. CASE AskPlayer(g)
      BY <1>1, <3>1, AskStep
    <3>2. CASE Chat(g)
      BY <1>1, <3>2, ChatStep
    <3> QED BY <2>4, <3>1, <3>2
  <2>5. CASE \E e \in Entries : AskTemplate(e)
    BY <1>1, <2>5, AskStep
  <2>6. CASE NewWorld \/ EnterWorld \/ LoginVerifyWorld \/ CharacterLoginFailed
                \/ LogoutComplete \/ Disconnect \/ ChangeRealm
    BY <1>1, <2>6, NewWorldStep, EnterWorldStep, LoginVerifyWorldStep, LeaveStep,
       DisconnectStep, LostStep
  <2> QED BY <1>1, <2>1, <2>2, <2>3, <2>4, <2>5, <2>6 DEF Next
<1>2. ASSUME IInv, UNCHANGED vars PROVE IInv'
  <2>1. UNCHANGED <<state, objects, updating, destroyed, scene, nodes, plates, torn, queries, chat>>
    BY <1>2 DEF vars, view
  <2> QED BY <1>2, <2>1, StoreStays, ViewStays, ChatStays, PlatesOnNodes DEF IInv
<1> QED BY <1>1, <1>2, InitIInv, PTL DEF Spec

\* Types, and no line heard or waiting that has not come.
THEOREM TypeCorrectness == Spec => []TypeOK
BY Invariance, IInvImplies, PTL

\* Between packets Entities has a node for each object of the session, and no
\* other; but for the player and what one packet destroys and creates.
THEOREM NodesAreObjects == Spec => []ViewAgrees
BY Invariance, IInvImplies, PTL

\* Every plate shows the name if it is known, whoever asked for it.
THEOREM PlatesShowNames == Spec => []PlatesNamed
BY Invariance, IInvImplies, PTL

\* Who lacks a name has been asked for, and what is recorded as asked is under
\* way, or was lost with its connection or to an answer that names nobody.
THEOREM NamelessAreAsked == Spec => []NamesAsked
BY Invariance, IInvImplies, PTL

\* The lines of a player are heard in their order, whichever waited, and none
\* is lost or repeated.
THEOREM LinesStayInTurn == Spec => []LinesInTurn
BY Invariance, IInvImplies, PTL

=============================================================================

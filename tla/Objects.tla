------------------------------ MODULE Objects ------------------------------
(***************************************************************************)
(* The objects around the player: WowSession's store of them               *)
(* (extension/src/wow_session.cpp) and the nodes that Entities shows for   *)
(* them (shared/game/world/entities.gd), with the names both ask the       *)
(* server for and the chat lines that wait for a name.                     *)
(*                                                                         *)
(* Everything runs on the main thread.  An update packet is handled block  *)
(* by block, each block with the signal it emits and the script that       *)
(* answers it; nothing else runs before its end.  What an object is made   *)
(* of is left out: fields, movement, auras; and objects without a model.   *)
(*                                                                         *)
(* A definition marked "Mistake:" is used by no action.                    *)
(***************************************************************************)
EXTENDS Integers, Sequences, FiniteSets

CONSTANTS
    Players, Units,   \* the guids, by kind
    Self,             \* the player's own
    Entries, Entry,   \* the templates of creatures, and whose is which
    Speakers,         \* bound: the players who chat or are befriended
    MaxLines,         \* bound: lines of chat in a session
    MaxGone           \* bound: guids that one packet sends out of range

ASSUME GuidsAssumption ==
    /\ Self \in Players
    /\ Players \cap Units = {} /\ Players \cap Entries = {}
    /\ Entry \in [Units -> Entries]
    /\ Speakers \subseteq Players
    /\ MaxLines \in Nat /\ MaxGone \in Nat

Guids == Players \cup Units

VARIABLES
    state,            \* "characters", "entering" or "world"
    objects,          \* WowSession::objects
    updating,         \* in handle_update()
    destroyed,        \* its objects_destroyed, still to be emitted
    names,            \* player_names and creature_info
    player_queries, creature_queries, creature_entry_queries,
    asked,            \* what the server has been asked and will answer
    deaf,             \* asked for, and never to be answered
    lines,            \* the sender of each line of chat
    chat_waiting,     \* the lines that wait for their sender's name
    heard,            \* the lines emitted, in order
    scene,            \* Main::world, with Entities in it
    nodes,            \* Entities::_nodes
    plates,           \* nameplates that show a name
    torn              \* objects whose node their own packet has destroyed

queries == <<names, player_queries, creature_queries, creature_entry_queries,
             asked, deaf>>
chat    == <<lines, chat_waiting, heard>>
view    == <<scene, nodes, plates>>
vars    == <<state, objects, updating, destroyed, queries, chat,
             view, torn>>

Key(g)   == IF g \in Players THEN g ELSE Entry[g]
Named(g) == Key(g) \in names

\* What the server is asked: the name of a player, a creature by a unit or by
\* its template.
ByName(g)  == <<"player", g>>
ByUnit(e)  == <<"unit", e>>
ByEntry(e) == <<"entry", e>>
Questions  == {ByName(g) : g \in Players} \cup {ByUnit(e) : e \in Entries}
                  \cup {ByEntry(e) : e \in Entries}

-----------------------------------------------------------------------------
\* Mistake: a unit that asks while a query is under way is not recorded.
FirstAsks(S) == [e \in Entries |->
    IF creature_queries[e] # {} THEN creature_queries[e]
    ELSE {g \in S \cap Units : ~Named(g) /\ Entry[g] = e}]

\* creature_queries[entry], after the names of S have been looked up.
Asking(S) == [e \in Entries |->
    creature_queries[e] \cup {g \in S \cap Units : ~Named(g) /\ Entry[g] = e}]

\* Mistake: a template asked for by its entry is not asked for by a unit.
UnaskedAtAll(S) == {e \in Entries :
    creature_queries[e] = {} /\ Asking(S)[e] # {} /\ e \notin creature_entry_queries}
Unasked(S)      == {e \in Entries : creature_queries[e] = {} /\ Asking(S)[e] # {}}

\* get_object_name() of each of S: a name not known is asked for, once.
LookUp(S) ==
    LET who == {g \in S \cap Players : ~Named(g)} IN
    /\ player_queries' = player_queries \cup who
    /\ creature_queries' = Asking(S)
    /\ asked' = asked \cup {ByName(g) : g \in who \ player_queries}
                      \cup {ByUnit(e) : e \in Unasked(S)}
    /\ UNCHANGED <<names, creature_entry_queries, deaf>>

-----------------------------------------------------------------------------
\* Who gets a node: not the player, who is drawn by others.
Raised(S) == S \ {Self}

\* Entities._on_object_created() for each of S: a node left over goes first,
\* and the plate of the new one shows the name if it is known and asks for it
\* if not.
Create(S) ==
    /\ nodes' = nodes \cup Raised(S)
    /\ plates' = (plates \ S) \cup {g \in Raised(S) : Named(g)}
    /\ LookUp(Raised(S))

\* Entities._on_objects_destroyed()
Fade(S) ==
    /\ nodes' = nodes \ S
    /\ plates' = plates \ S

\* Mistake: the signal is emitted before the name is stored.
PlatedEarly(S) == plates \cup {g \in S \cap nodes : Named(g)}

\* Entities._on_name_received() for each of S.
Plated(S) == plates \cup (S \cap nodes)

-----------------------------------------------------------------------------
Idle == ~updating
Told == Idle /\ state \in {"entering", "world"}

\* handle_update(): the guids out of range go from the store at once.
UpdateBegin ==
    /\ Told
    /\ updating' = TRUE
    /\ \E gone \in {S \in SUBSET Guids : Cardinality(S) <= MaxGone} :
           /\ objects' = objects \ gone
           /\ destroyed' = gone
           /\ torn' = torn \ gone
    /\ UNCHANGED <<state, queries, chat, view>>

\* A block that also an object that is known already.
UpdateCreate(g) ==
    /\ updating
    /\ objects' = objects \cup {g}
    /\ IF scene THEN Create({g})
       ELSE UNCHANGED <<nodes, plates, queries>>
    /\ torn' = torn \ {g}
    /\ UNCHANGED <<state, updating, destroyed, chat, scene>>

\* Entities._respawn(): the node of an object that looks different now, or
\* whose gear has come.
Respawn(g) ==
    /\ scene /\ g \in nodes
    /\ Create({g})

\* A block of values or of movement: of an unknown guid it is skipped.
UpdateOther(g) ==
    /\ updating /\ g \in objects
    /\ Respawn(g)
    /\ UNCHANGED <<state, objects, updating, destroyed, chat, scene, torn>>

\* The last signal: the guids out of range, whatever the blocks have created.
UpdateEnd ==
    /\ updating
    /\ updating' = FALSE
    /\ destroyed' = {}
    /\ IF scene THEN Fade(destroyed) ELSE UNCHANGED <<nodes, plates>>
    /\ torn' = torn \cup {g \in destroyed \ {Self} : scene /\ g \in objects}
    /\ UNCHANGED <<state, objects, queries, chat, scene>>

\* SMSG_DESTROY_OBJECT
DestroyObject(g) ==
    /\ Told
    /\ objects' = objects \ {g}
    /\ Fade({g})
    /\ torn' = torn \ {g}
    /\ UNCHANGED <<state, updating, destroyed, queries, chat, scene>>

\* _on_item_info_received(), which re-dresses who waited for it.
ItemInfo(g) ==
    /\ Idle /\ Respawn(g)
    /\ UNCHANGED <<state, objects, updating, destroyed, chat, scene, torn>>

\* Mistake: the scripts are not told which objects a far teleport leaves.
LeftSilently == {}
LeftBehind == objects \ {Self}

\* SMSG_NEW_WORLD: every object but the player's goes.
NewWorld ==
    /\ Idle /\ state = "world"
    /\ objects' = objects \cap {Self}
    /\ Fade(LeftBehind)
    /\ torn' = {}
    /\ UNCHANGED <<state, updating, destroyed, queries, chat, scene>>

-----------------------------------------------------------------------------
\* enter_world()
EnterWorld ==
    /\ Idle /\ state = "characters"
    /\ state' = "entering"
    /\ objects' = {}
    /\ torn' = {}
    /\ UNCHANGED <<updating, destroyed, queries, chat, view>>

\* SMSG_LOGIN_VERIFY_WORLD: Main makes the scene, and Entities a node for each
\* object that came before it.
LoginVerifyWorld ==
    /\ Idle /\ state = "entering"
    /\ state' = "world"
    /\ scene' = TRUE
    /\ Create(objects)
    /\ UNCHANGED <<objects, updating, destroyed, chat, torn>>

Unscene == scene' = FALSE /\ nodes' = {} /\ plates' = {}

\* SMSG_CHARACTER_LOGIN_FAILED
CharacterLoginFailed ==
    /\ Idle /\ state = "entering"
    /\ state' = "characters"
    /\ Unscene
    /\ UNCHANGED <<objects, updating, destroyed, queries, chat, torn>>

\* SMSG_LOGOUT_COMPLETE
LogoutComplete ==
    /\ Idle /\ state = "world"
    /\ state' = "characters"
    /\ objects' = {}
    /\ Unscene
    /\ torn' = {}
    /\ UNCHANGED <<updating, destroyed, queries, chat>>

\* Mistake: the lines that wait outlive the queries they wait for.
StillWaiting == chat_waiting
NoneWaiting  == [g \in Players |-> <<>>]
WaitingLeft  == NoneWaiting

\* disconnect(), after a loss or from the character list, and the next login.
\* What was learned is kept; the lines are those of a new session.
Disconnect ==
    /\ Idle
    /\ state' = "characters"
    /\ objects' = {}
    /\ player_queries' = {}
    /\ creature_queries' = [e \in Entries |-> {}]
    /\ creature_entry_queries' = {}
    /\ asked' = {} /\ deaf' = {}
    /\ chat_waiting' = WaitingLeft
    /\ lines' = <<>> /\ heard' = <<>>
    /\ Unscene
    /\ torn' = {}
    /\ UNCHANGED <<updating, destroyed, names>>

\* request_realms() and select_realm(): the connection is another one, and
\* what the old one was asked stays recorded as asked.
ChangeRealm ==
    /\ Idle /\ state = "characters"
    /\ asked' = {}
    /\ deaf' = deaf \cup asked
    /\ UNCHANGED <<state, objects, updating, destroyed, names,
                   player_queries, creature_queries, creature_entry_queries,
                   chat, view, torn>>

-----------------------------------------------------------------------------
\* get_object_name() of a player who is no object, by the friends list.
AskPlayer(g) ==
    /\ Idle /\ state = "world"
    /\ g \notin objects /\ ~Named(g) /\ g \notin player_queries
    /\ player_queries' = player_queries \cup {g}
    /\ asked' = asked \cup {ByName(g)}
    /\ UNCHANGED <<state, objects, updating, destroyed, names,
                   creature_queries, creature_entry_queries, deaf, chat,
                   view, torn>>

\* get_creature_template()
AskTemplate(e) ==
    /\ Idle /\ state = "world"
    /\ e \notin names /\ e \notin creature_entry_queries
    /\ creature_entry_queries' = creature_entry_queries \cup {e}
    /\ asked' = asked \cup {ByEntry(e)}
    /\ UNCHANGED <<state, objects, updating, destroyed, names,
                   player_queries, creature_queries, deaf, chat, view, torn>>

\* An answer that names nobody changes nothing: what is recorded as asked
\* stays so.
Invalid(q) ==
    /\ Idle /\ q \in asked
    /\ asked' = asked \ {q}
    /\ deaf' = deaf \cup {q}
    /\ UNCHANGED <<state, objects, updating, destroyed, names,
                   player_queries, creature_queries, creature_entry_queries,
                   chat, view, torn>>

\* Mistake: the lines that waited are emitted from the last to the first.
Backwards(s) == [i \in DOMAIN s |-> s[Len(s) + 1 - i]]
InTurn(s)    == s

\* Mistake: they are not erased.
NotFlushed(g) == chat_waiting
Flushed(g)    == [chat_waiting EXCEPT ![g] = <<>>]

\* SMSG_NAME_QUERY_RESPONSE
NameQueryResponse(g) ==
    /\ Idle /\ ByName(g) \in asked
    /\ asked' = asked \ {ByName(g)}
    /\ names' = names \cup {g}
    /\ player_queries' = player_queries \ {g}
    /\ plates' = IF scene THEN Plated({g}) ELSE plates
    /\ heard' = heard \o InTurn(chat_waiting[g])
    /\ chat_waiting' = Flushed(g)
    /\ UNCHANGED <<state, objects, updating, destroyed,
                   creature_queries, creature_entry_queries, deaf,
                   lines, scene, nodes, torn>>

\* SMSG_CREATURE_QUERY_RESPONSE, to either question: it answers both.
CreatureQueryResponse(e) ==
    /\ Idle
    /\ \E q \in asked \cap {ByUnit(e), ByEntry(e)} : asked' = asked \ {q}
    /\ names' = names \cup {e}
    /\ creature_entry_queries' = creature_entry_queries \ {e}
    /\ plates' = IF scene THEN Plated(creature_queries[e]) ELSE plates
    /\ creature_queries' = [creature_queries EXCEPT ![e] = {}]
    /\ UNCHANGED <<state, objects, updating, destroyed,
                   player_queries, deaf, chat, scene, nodes, torn>>

\* Mistake: only the latest line waits.
LatestWaits(g, n) == [chat_waiting EXCEPT ![g] = <<n>>]
Waits(g, n)       == [chat_waiting EXCEPT ![g] = Append(@, n)]

\* handle_chat(), of a line that a player says: it waits if the name is not
\* known.
Chat(g) ==
    /\ Idle /\ state = "world" /\ Len(lines) < MaxLines
    /\ lines' = Append(lines, g)
    /\ IF Named(g)
       THEN /\ heard' = Append(heard, Len(lines'))
            /\ UNCHANGED <<chat_waiting, player_queries, asked>>
       ELSE /\ chat_waiting' = Waits(g, Len(lines'))
            /\ player_queries' = player_queries \cup {g}
            /\ asked' = IF g \in player_queries THEN asked
                        ELSE asked \cup {ByName(g)}
            /\ UNCHANGED heard
    /\ UNCHANGED <<state, objects, updating, destroyed, names,
                   creature_queries, creature_entry_queries, deaf,
                   view, torn>>

-----------------------------------------------------------------------------
Init ==
    /\ state = "characters"
    /\ objects = {}
    /\ updating = FALSE /\ destroyed = {}
    /\ names = {} /\ player_queries = {}
    /\ creature_queries = [e \in Entries |-> {}]
    /\ creature_entry_queries = {}
    /\ asked = {} /\ deaf = {}
    /\ lines = <<>> /\ heard = <<>>
    /\ chat_waiting = NoneWaiting
    /\ scene = FALSE /\ nodes = {} /\ plates = {}
    /\ torn = {}

Update ==
    \/ UpdateBegin \/ UpdateEnd
    \/ \E g \in Guids : UpdateCreate(g) \/ UpdateOther(g)

Answer ==
    \/ \E g \in Players : NameQueryResponse(g)
    \/ \E e \in Entries : CreatureQueryResponse(e)
    \/ \E q \in Questions : Invalid(q)

Next ==
    \/ Update \/ Answer
    \/ \E g \in Guids : DestroyObject(g) \/ ItemInfo(g)
    \/ \E g \in Speakers : AskPlayer(g) \/ Chat(g)
    \/ \E e \in Entries : AskTemplate(e)
    \/ NewWorld \/ EnterWorld \/ LoginVerifyWorld \/ CharacterLoginFailed
    \/ LogoutComplete \/ Disconnect \/ ChangeRealm

Spec == Init /\ [][Next]_vars

\* What the server is asked it answers, well or not; the answer has its place
\* in the stream, however many packets the others are.  A packet is handled to
\* its end.
Answered(q) ==
    \/ Invalid(q)
    \/ \E g \in Players : q = ByName(g) /\ NameQueryResponse(g)
    \/ \E e \in Entries : q \in {ByUnit(e), ByEntry(e)} /\ CreatureQueryResponse(e)
FairSpec ==
    /\ Spec
    /\ WF_vars(UpdateEnd)
    /\ \A q \in Questions : SF_vars(Answered(q))

-----------------------------------------------------------------------------
TypeOK ==
    /\ state \in {"characters", "entering", "world"}
    /\ objects \subseteq Guids /\ nodes \subseteq Guids
    /\ updating \in BOOLEAN /\ scene \in BOOLEAN
    /\ destroyed \subseteq Guids /\ torn \subseteq Guids /\ plates \subseteq Guids
    /\ names \subseteq Players \cup Entries
    /\ player_queries \subseteq Players
    /\ creature_queries \in [Entries -> SUBSET Units]
    /\ creature_entry_queries \subseteq Entries
    /\ asked \subseteq Questions /\ deaf \subseteq Questions
    /\ lines \in Seq(Players)
    /\ chat_waiting \in [Players -> Seq(DOMAIN lines)]
    /\ heard \in Seq(DOMAIN lines)

\* Between packets there is a node for each object, and no other: but for the
\* player, and for what one packet has both sent out of range and created again.
ViewAgrees ==
    Idle /\ scene => nodes = objects \ ({Self} \cup torn)

\* A plate shows the name from when it is known, whichever question was
\* answered, for whichever unit it was asked, and however often the node was
\* replaced meanwhile.
PlatesNamed == plates = {g \in nodes : Named(g)}

\* Who lacks a name has been asked for: each nameless plate and each line that
\* waits is recorded, and what is recorded is under way or was lost.
NamesAsked ==
    /\ \A g \in player_queries : ByName(g) \in asked \cup deaf
    /\ \A e \in Entries :
           creature_queries[e] # {} => ByUnit(e) \in asked \cup deaf
    /\ \A g \in nodes :
           \/ Named(g)
           \/ g \in player_queries
           \/ g \in Units /\ g \in creature_queries[Entry[g]]
    /\ \A g \in Players : chat_waiting[g] # <<>> => g \in player_queries

\* The lines of a player are heard in the order they came, those that wait
\* after those heard; each is in one place, and none is lost.
LinesInTurn ==
    /\ \A i, j \in DOMAIN heard :
           i < j /\ lines[heard[i]] = lines[heard[j]] => heard[i] < heard[j]
    /\ \A g \in Players : \A j \in DOMAIN chat_waiting[g] :
           LET n == chat_waiting[g][j] IN
           /\ lines[n] = g
           /\ \A i \in DOMAIN heard : lines[heard[i]] = g => heard[i] < n
           /\ \A k \in 1 .. j - 1 : chat_waiting[g][k] < n
    /\ \A n \in DOMAIN lines :
           \/ \E i \in DOMAIN heard : heard[i] = n
           \/ \E j \in DOMAIN chat_waiting[lines[n]] : chat_waiting[lines[n]][j] = n

\* Every plate gets its name, while the server answers.
Question(g) == IF g \in Players THEN ByName(g) ELSE ByUnit(Entry[g])
NamesArrive ==
    \A g \in Guids :
        g \in nodes ~> g \in plates \/ g \notin nodes \/ Question(g) \in deaf

\* Every line that waits is heard.
LinesHeard ==
    \A g \in Players :
        chat_waiting[g] # <<>> ~> chat_waiting[g] = <<>> \/ ByName(g) \in deaf

=============================================================================

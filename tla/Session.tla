------------------------------ MODULE Session ------------------------------
(***************************************************************************)
(* A session of the client (WowSession) with the connection to the login   *)
(* server (AuthHandler) and the scripts that react to its signals (Glue,   *)
(* Main).  Everything runs on the main thread: poll() runs the callbacks   *)
(* of the connections, a callback emits a signal, and the script answers   *)
(* in the same call, replacing the very connection whose callback runs.    *)
(*                                                                         *)
(* A step is one callback with all it sets off, one action of the player,  *)
(* or one leg of poll().  A blocking connect() is a step of its own.       *)
(* Connections are numbered as they are made, whichever their kind; zero   *)
(* is the null pointer.  STATE_FAILED is passed through: the Glue answers  *)
(* the signal with disconnect().                                           *)
(*                                                                         *)
(* A definition marked "Mistake:" is used by no action.                    *)
(***************************************************************************)
EXTENDS Integers

CONSTANT
    MaxConnections   \* bound: connections made in one run of the client

ASSUME MaxConnectionsAssumption == MaxConnections \in Nat

VARIABLES
    state,            \* WowSession::state
    auth, world, oldAuth, oldWorld,   \* the current and the retired ones
    made, dead,       \* connections made, and those destroyed
    attempt, retry,   \* auth_attempt, retry_auth
    hstate, adown,    \* the newest AuthHandler: its state, its socket closed
    key, granted,     \* logins whose key the client and the servers hold
    twice,            \* the login server may refuse again after its answer
    talk, shown,      \* what the world server waits for, the key it was shown
    enums, asked,     \* answers it owes: character lists, a create or delete
    wdown,            \* the newest world connection is lost
    phase, run,       \* the leg of poll() and the connection being updated
    busy,             \* the connect() that blocks the main thread
    screen, dialog, list, choosing, autoEnter,   \* Glue
    node              \* Main::world

owned  == <<auth, world, oldAuth, oldWorld, made, dead>>
login  == <<attempt, retry, hstate, adown, key, granted, twice>>
server == <<talk, shown, enums, asked, wdown>>
poll   == <<phase, run, busy>>
glue   == <<screen, dialog, list, choosing, autoEnter, node>>
vars   == <<state, owned, login, server, poll, glue>>

States == {"disconnected", "authenticating", "realmList", "connectingWorld",
           "characterList", "enteringWorld", "inWorld"}

AuthStates == {"none", "challengeSent", "pinRequired", "proofSent",
               "realmListRequested", "realmListReceived", "failed"}

Numbered ==
    /\ made \in Nat
    /\ {auth, world, oldAuth, oldWorld, run, key, granted, shown}
           \subseteq 0 .. made
    /\ dead \subseteq 1 .. made

LoginTyped ==
    /\ attempt \in {0, 1} /\ retry \in BOOLEAN
    /\ hstate \in AuthStates /\ adown \in BOOLEAN /\ twice \in BOOLEAN

ServerTyped ==
    /\ talk \in {"none", "hello", "auth", "chars", "entering", "world"}
    /\ enums \in {0, 1} /\ asked \in BOOLEAN /\ wdown \in BOOLEAN

GlueTyped ==
    /\ state \in States
    /\ screen \in {"login", "select", "loading"}
    /\ dialog \in {"none", "status", "message"}
    /\ list \in BOOLEAN /\ choosing \in BOOLEAN /\ autoEnter \in BOOLEAN
    /\ node \in BOOLEAN

TypeOK ==
    /\ Numbered /\ LoginTyped /\ ServerTyped /\ GlueTyped
    /\ phase \in {"idle", "auth", "retry", "turn", "world", "release"}
    /\ busy \in {"no", "auth", "world"}

Init ==
    /\ state = "disconnected"
    /\ auth = 0 /\ world = 0 /\ oldAuth = 0 /\ oldWorld = 0
    /\ made = 0 /\ dead = {}
    /\ attempt = 0 /\ retry = FALSE /\ hstate = "none" /\ adown = FALSE
    /\ key = 0 /\ granted = 0 /\ twice \in BOOLEAN
    /\ talk = "none" /\ shown = 0 /\ enums = 0 /\ asked = FALSE
    /\ wdown = FALSE
    /\ phase = "idle" /\ run = 0 /\ busy = "no"
    /\ screen = "login" /\ dialog = "none" /\ list = FALSE
    /\ choosing = FALSE /\ autoEnter \in BOOLEAN   \* --account was given
    /\ node = FALSE

(***************************************************************************)
(* retire_sockets() and release_retired(): within poll() what is replaced  *)
(* is parked, and the parking space holds one connection of each kind;     *)
(* outside it is destroyed at once.                                        *)
(***************************************************************************)
Polling == phase # "idle"

\* Mistake: destroyed while its callback may be running.
ParkedNever(cur, old) == 0

\* What is parked once cur, unless it is null, has been retired.
Parked(cur, old) ==
    IF ~Polling THEN 0 ELSE IF cur # 0 THEN cur ELSE old

\* The connections a and w take the places of the current ones.
Replace(a, w) ==
    /\ auth' = a /\ world' = w
    /\ oldAuth' = Parked(auth, oldAuth)
    /\ oldWorld' = Parked(world, oldWorld)
    /\ dead' = dead \cup ({auth, world, oldAuth, oldWorld}
                          \ {0, oldAuth', oldWorld'})

\* set_state(STATE_FAILED): the Glue disconnects and shows the reason, and
\* Main drops the world.
Fail ==
    /\ state' = "disconnected"
    /\ Replace(0, 0)
    /\ screen' = "login" /\ dialog' = "message" /\ list' = FALSE
    /\ node' = FALSE
    /\ UNCHANGED <<made, choosing, autoEnter>>

\* begin_auth() up to the blocking connect.
BeginAuth ==
    /\ Replace(made + 1, 0)
    /\ made' = made + 1
    /\ state' = "authenticating"
    /\ hstate' = "none" /\ adown' = FALSE
    /\ busy' = "auth"
    /\ dialog' = "status"

\* _join_realm() and select_realm() up to the blocking connect.
SelectRealm ==
    /\ Replace(0, made + 1)
    /\ made' = made + 1
    /\ state' = "connectingWorld"
    /\ busy' = "world"
    /\ talk' = "none" /\ enums' = 0 /\ asked' = FALSE /\ wdown' = FALSE
    /\ dialog' = "status" /\ list' = FALSE /\ choosing' = FALSE
    /\ UNCHANGED <<screen, autoEnter, node, shown>>

\* AuthHandler::authenticate(): a handler that is new can always send.
Authenticate == hstate' = "challengeSent"

ConnectAuth(ok) ==
    /\ busy = "auth"
    /\ busy' = "no"
    /\ \/ /\ ok
          /\ Authenticate
          /\ UNCHANGED <<state, owned, glue>>
       \/ /\ ~ok
          /\ hstate' = "failed"
          /\ Fail
    /\ UNCHANGED <<attempt, retry, adown, key, granted, twice, server, phase,
                   run>>

ConnectWorld(ok) ==
    /\ busy = "world"
    /\ busy' = "no"
    /\ \/ /\ ok
          /\ talk' = "hello"
          /\ UNCHANGED <<state, owned, glue>>
       \/ /\ ~ok
          /\ UNCHANGED talk
          /\ Fail
    /\ UNCHANGED <<login, shown, enums, asked, wdown, phase, run>>

(***************************************************************************)
(* The login server, and AuthHandler's handlers of its packets.  A handler *)
(* that was replaced still reads the packets that arrived together, and    *)
(* the session does not listen to it.  It has failed by then, or has its   *)
(* realms: only a refusal is read in those states.                         *)
(***************************************************************************)
ServerAccepts ==
    /\ auth # 0 /\ busy = "no" /\ hstate = "proofSent"
    /\ granted' = auth
    /\ UNCHANGED <<state, owned, attempt, retry, hstate, adown, key, twice,
                   server, poll, glue>>

Heard == IF phase = "auth" THEN run = auth ELSE run = world

\* The onFailure callback, with what lastFailureWasProtocol() answers.
AuthFails(protocol) ==
    /\ hstate' = "failed"
    /\ \/ /\ Heard /\ protocol /\ attempt = 0
          /\ retry' = TRUE
          /\ UNCHANGED <<state, owned, glue>>
       \/ /\ Heard /\ ~(protocol /\ attempt = 0)
          /\ Fail
          /\ UNCHANGED retry
       \/ /\ ~Heard
          /\ UNCHANGED <<state, owned, glue, retry>>

Reading == phase = "auth" /\ busy = "no" /\ ~adown

\* A challenge; with security flags it needs protocol 8, and one that asks
\* for a PIN or a token leaves the handler waiting: nobody submits either.
Challenged(flags, code) ==
    /\ Reading /\ hstate = "challengeSent"
    /\ code => flags
    /\ \/ /\ flags /\ attempt = 1
          /\ AuthFails(TRUE)
       \/ /\ ~(flags /\ attempt = 1)
          /\ hstate' = IF code THEN "pinRequired" ELSE "proofSent"
          /\ UNCHANGED <<state, owned, retry, glue>>
    /\ UNCHANGED <<attempt, adown, key, granted, twice, server, poll>>

ChallengeRefused(protocol) ==
    /\ Reading /\ hstate = "challengeSent"
    /\ AuthFails(protocol)
    /\ UNCHANGED <<attempt, adown, key, granted, twice, server, poll>>

\* A refusal in any other state: a login that waits for a code has timed out,
\* or the server refuses twice.
RefusedLate ==
    /\ Reading /\ hstate # "challengeSent"
    /\ hstate = "pinRequired" \/ twice
    /\ AuthFails(FALSE)
    /\ UNCHANGED <<attempt, adown, key, granted, twice, server, poll>>

\* Mistake: the first key is kept over later logins.
KeyKept == IF key = 0 THEN run ELSE key

NewKey == run

\* onSuccess: the session takes the key and asks for the realm list.
ProofAccepted ==
    /\ Reading /\ Heard /\ hstate = "proofSent" /\ granted = run
    /\ key' = NewKey
    /\ hstate' = "realmListRequested"
    /\ UNCHANGED <<state, owned, attempt, retry, adown, granted, twice, server,
                   poll, glue>>

\* A wrong password, or a proof that does not verify.
ProofRefused(protocol) ==
    /\ Reading /\ hstate = "proofSent"
    /\ AuthFails(protocol)
    /\ UNCHANGED <<attempt, adown, key, granted, twice, server, poll>>

\* onRealmList: the Glue joins the realm it knows at once, unless the player
\* asked for the list.  A list that does not parse changes nothing.
RealmList(known) ==
    /\ Reading /\ Heard /\ hstate = "realmListRequested"
    /\ hstate' = "realmListReceived"
    /\ \/ /\ known /\ ~choosing
          /\ SelectRealm
       \/ /\ ~(known /\ ~choosing)
          /\ state' = "realmList"
          /\ dialog' = "none" /\ list' = TRUE
          /\ UNCHANGED <<owned, busy, server, screen, choosing, autoEnter,
                         node>>
    /\ UNCHANGED <<attempt, retry, adown, key, granted, twice, phase, run>>

LoginPacket ==
    \/ \E flags, code \in BOOLEAN : Challenged(flags, code)
    \/ \E protocol \in BOOLEAN :
           ChallengeRefused(protocol) \/ ProofRefused(protocol)
    \/ RefusedLate
    \/ ProofAccepted
    \/ \E known \in BOOLEAN : RealmList(known)

(***************************************************************************)
(* poll(): the login connection, a retry, the world connection, and the    *)
(* end, where what was parked is destroyed.                                *)
(***************************************************************************)
PollBegin ==
    /\ phase = "idle" /\ busy = "no" /\ (auth # 0 \/ world # 0)
    /\ run' = auth
    /\ phase' = IF auth # 0 THEN "auth" ELSE "turn"
    /\ UNCHANGED <<state, owned, login, server, busy, glue>>

\* Mistake: a server that leaves instead of sending its realms goes unnoticed.
UnsettledEarly == {"challengeSent", "pinRequired", "proofSent"}

\* AuthHandler::update() reports a close in these states.
Unsettled == {"challengeSent", "pinRequired", "proofSent",
              "realmListRequested"}

PollAuthDone(closed) ==
    /\ phase = "auth" /\ busy = "no"
    /\ adown' = (adown \/ closed)
    /\ \/ /\ adown' /\ hstate \in Unsettled
          /\ AuthFails(hstate = "challengeSent")
       \/ /\ ~(adown' /\ hstate \in Unsettled)
          /\ UNCHANGED <<state, owned, hstate, retry, glue>>
    /\ phase' = "retry" /\ run' = 0
    /\ UNCHANGED <<attempt, key, granted, twice, server, busy>>

\* Mistake: the request for a retry is not taken back.
RetryAgain == TRUE

RetryDone == FALSE

\* A failure of the protocol is tried again with the older one.
PollRetry ==
    /\ phase = "retry"
    /\ phase' = "turn"
    /\ \/ /\ retry
          /\ retry' = RetryDone
          /\ attempt' = attempt + 1
          /\ BeginAuth
          /\ UNCHANGED <<screen, list, choosing, autoEnter, node>>
       \/ /\ ~retry
          /\ UNCHANGED <<state, owned, attempt, retry, hstate, adown, busy,
                         glue>>
    /\ UNCHANGED <<key, granted, twice, server, run>>

PollWorld ==
    /\ phase = "turn" /\ busy = "no"
    /\ run' = world
    /\ phase' = IF world # 0 THEN "world" ELSE "release"
    /\ UNCHANGED <<state, owned, login, server, busy, glue>>

\* Mistake: only a player in the world hears of a lost connection.
LostInWorld == world # 0 /\ wdown /\ state = "inWorld"

Lost == world # 0 /\ wdown /\ state # "connectingWorld"

PollWorldDone ==
    /\ phase = "world"
    /\ \/ Lost  /\ Fail
       \/ ~Lost /\ UNCHANGED <<state, owned, glue>>
    /\ phase' = "release" /\ run' = 0
    /\ UNCHANGED <<login, server, busy>>

\* Mistake: the retired world connection is forgotten.
ReleasedAuth == {oldAuth}

Released == {oldAuth, oldWorld}

PollEnd ==
    /\ phase = "release"
    /\ phase' = "idle"
    /\ oldAuth' = 0 /\ oldWorld' = 0
    /\ dead' = dead \cup (Released \ {0})
    /\ UNCHANGED <<state, auth, world, made, login, server, run, busy, glue>>

(***************************************************************************)
(* The world server and handle_world_packet().  The callback of a world    *)
(* connection that was replaced returns at once: no step.                  *)
(***************************************************************************)
Dispatching == phase = "world" /\ Heard

\* A request on a lost connection gets no answer.
Requested(n) == IF wdown THEN n ELSE n + 1

Answers(next) == IF wdown THEN "none" ELSE next

WorldLost ==
    /\ world # 0 /\ busy = "no" /\ ~wdown
    /\ wdown' = TRUE
    /\ UNCHANGED <<state, owned, login, talk, shown, enums, asked, poll, glue>>

\* SMSG_AUTH_CHALLENGE: AUTH_SESSION carries a digest of the session key.
AuthChallenge ==
    /\ Dispatching /\ talk = "hello"
    /\ talk' = Answers("auth") /\ shown' = key
    /\ UNCHANGED <<state, owned, login, enums, asked, wdown, poll, glue>>

\* Mistake: the loading screen stays when the session is back at the list.
StaysLoading == screen

BackAtSelect == IF screen = "loading" THEN "select" ELSE screen

\* STATE_CHARACTER_LIST and request_characters().
ListCharacters ==
    /\ state' = "characterList"
    /\ talk' = "chars" /\ enums' = Requested(enums)
    /\ screen' = BackAtSelect /\ dialog' = "status" /\ node' = FALSE
    /\ UNCHANGED <<owned, login, shown, asked, wdown, poll, list, choosing,
                   autoEnter>>

\* SMSG_AUTH_RESPONSE; the server compares the digest with the key it has.
AuthResponse ==
    /\ Dispatching /\ talk = "auth" /\ shown = granted
    /\ ListCharacters

\* SMSG_LOGOUT_COMPLETE, asked for or not.
LogoutComplete ==
    /\ Dispatching /\ talk = "world"
    /\ ListCharacters

\* A packet that does not parse, or a session that is refused.
WorldRefuses ==
    /\ Dispatching
    /\ \/ talk \in {"hello", "auth", "entering"}
       \/ talk = "chars" /\ enums > 0
    /\ Fail
    /\ talk' = "none"
    /\ UNCHANGED <<login, shown, enums, asked, wdown, poll>>

\* enter_world(): the Glue opens the loading screen first.
EnterWorld ==
    /\ state' = "enteringWorld" /\ talk' = Answers("entering")
    /\ screen' = "loading"

\* SMSG_CHAR_ENUM: with --character the Glue enters once by itself.
CharEnum ==
    /\ Dispatching /\ talk = "chars" /\ enums > 0
    /\ enums' = enums - 1
    /\ dialog' = "none"
    /\ \/ autoEnter /\ autoEnter' = FALSE /\ EnterWorld
       \/ screen' = "select" /\ UNCHANGED <<state, talk, autoEnter>>
    /\ UNCHANGED <<owned, login, shown, asked, wdown, poll, list, choosing,
                   node>>

\* SMSG_CHAR_CREATE and SMSG_CHAR_DELETE.
CharAnswer(success) ==
    /\ Dispatching /\ talk = "chars" /\ asked
    /\ asked' = FALSE
    /\ enums' = IF success THEN Requested(enums) ELSE enums
    /\ dialog' = IF success THEN dialog ELSE "message"
    /\ UNCHANGED <<state, owned, login, talk, shown, wdown, poll, screen, list,
                   choosing, autoEnter, node>>

\* SMSG_CHARACTER_LOGIN_FAILED.
CharacterLoginFailed ==
    /\ Dispatching /\ talk = "entering"
    /\ state' = "characterList" /\ talk' = "chars"
    /\ screen' = "select" /\ dialog' = "message" /\ node' = FALSE
    /\ UNCHANGED <<owned, login, shown, enums, asked, wdown, poll, list,
                   choosing, autoEnter>>

\* SMSG_LOGIN_VERIFY_WORLD: Main makes the world.
LoginVerifyWorld ==
    /\ Dispatching /\ talk = "entering"
    /\ state' = "inWorld" /\ talk' = "world"
    /\ node' = TRUE
    /\ UNCHANGED <<owned, login, shown, enums, asked, wdown, poll, screen,
                   dialog, list, choosing, autoEnter>>

WorldPacket ==
    \/ AuthChallenge \/ AuthResponse \/ WorldRefuses \/ CharEnum
    \/ \E success \in BOOLEAN : CharAnswer(success)
    \/ CharacterLoginFailed \/ LoginVerifyWorld \/ LogoutComplete

(***************************************************************************)
(* The player, between two calls of poll().  A dialog and the realm list   *)
(* cover the screen below them.                                            *)
(***************************************************************************)
Free(s) == ~Polling /\ busy = "no" /\ screen = s /\ dialog = "none" /\ ~list

\* A login makes up to three connections: two to the login server and one to
\* a world.
MayConnect == made + 3 <= MaxConnections

Login ==
    /\ Free("login") /\ MayConnect
    /\ attempt' = 0
    /\ BeginAuth
    /\ UNCHANGED <<retry, key, granted, twice, server, phase, run, screen,
                   list, choosing, autoEnter, node>>

\* request_realms(): a fresh list needs a new login.
ChangeRealm ==
    /\ Free("select") /\ MayConnect
    /\ attempt' = 0 /\ choosing' = TRUE
    /\ BeginAuth
    /\ UNCHANGED <<retry, key, granted, twice, server, phase, run, screen,
                   list, autoEnter, node>>

\* _log_out(): disconnect() changes the state without a signal.
LogOut ==
    /\ state' = "disconnected"
    /\ Replace(0, 0)
    /\ screen' = "login" /\ dialog' = "none" /\ list' = FALSE
    /\ UNCHANGED <<made, login, server, poll, choosing, autoEnter, node>>

CancelStatus ==
    /\ ~Polling /\ busy = "no" /\ dialog = "status"
    /\ LogOut

Back ==
    /\ Free("select")
    /\ LogOut

CloseMessage ==
    /\ ~Polling /\ busy = "no" /\ dialog = "message"
    /\ dialog' = "none"
    /\ UNCHANGED <<state, owned, login, server, poll, screen, list, choosing,
                   autoEnter, node>>

\* A realm chosen from the list, or when it is cancelled the one before.
JoinRealm ==
    /\ ~Polling /\ busy = "no" /\ list /\ dialog = "none"
    /\ SelectRealm
    /\ UNCHANGED <<login, phase, run>>

CancelRealmList ==
    /\ ~Polling /\ busy = "no" /\ list /\ dialog = "none"
    /\ LogOut

ChooseCharacter ==
    /\ Free("select") /\ world # 0
    /\ EnterWorld
    /\ UNCHANGED <<owned, login, shown, enums, asked, wdown, poll, dialog,
                   list, choosing, autoEnter, node>>

\* create_character() and delete_character().
AskCharacter ==
    /\ Free("select") /\ world # 0
    /\ asked' = ~wdown
    /\ dialog' = "status"
    /\ UNCHANGED <<state, owned, login, talk, shown, enums, wdown, poll,
                   screen, list, choosing, autoEnter, node>>

Player ==
    \/ Login \/ ChangeRealm \/ CancelStatus \/ Back \/ CloseMessage
    \/ JoinRealm \/ CancelRealmList \/ ChooseCharacter \/ AskCharacter

Poll ==
    \/ PollBegin \/ LoginPacket
    \/ \E closed \in BOOLEAN : PollAuthDone(closed)
    \/ PollRetry \/ PollWorld \/ WorldPacket \/ PollWorldDone \/ PollEnd

Connect ==
    \E ok \in BOOLEAN : ConnectAuth(ok) \/ ConnectWorld(ok)

Next == Poll \/ Connect \/ Player \/ ServerAccepts \/ WorldLost

Spec == Init /\ [][Next]_vars

(***************************************************************************)
(* The engine calls poll() every frame, and each leg of it returns; a      *)
(* connect ends within its timeout.  A login server that is asked answers  *)
(* or closes in the end.                                                   *)
(***************************************************************************)
LoginServerActs == LoginPacket \/ PollAuthDone(TRUE)

Fairness ==
    /\ WF_vars(PollBegin) /\ WF_vars(PollAuthDone(FALSE)) /\ WF_vars(PollRetry)
    /\ WF_vars(PollWorld) /\ WF_vars(PollWorldDone) /\ WF_vars(PollEnd)
    /\ WF_vars(Connect)
    /\ SF_vars(LoginServerActs)

FairSpec == Spec /\ Fairness

(***************************************************************************)
(* Properties.                                                             *)
(***************************************************************************)

\* poll() never destroys a connection while that connection's callbacks run,
\* whatever they set off: it is current still, or parked and the only one of
\* its kind to be so (retire_sockets, "Sockets replaced from inside their own
\* callbacks are parked here until poll() unwinds").
StackAlive == run # 0 => run \notin dead

\* Between two calls of poll() every connection ever made but the current one
\* is destroyed, and there is one current connection at most: none leaks, and
\* none outlives a login, a change of realm or a failure.
SocketsOwned ==
    /\ auth = 0 \/ world = 0
    /\ ~Polling => dead = 1 .. made \ {auth, world}

\* A failure that was reported stays: only the player's next login leaves it,
\* no packet or retry that was still under way (poll, begin_auth).
RefusalIsFinal ==
    [][state = "disconnected" /\ state' # state =>
           ~Polling /\ screen = "login" /\ dialog = "none"]_vars

\* The same, if the login server says nothing more after its answer.
FailureIsFinal ==
    [][~twice /\ state = "disconnected" /\ state' # state =>
           ~Polling /\ screen = "login" /\ dialog = "none"]_vars

\* The key the world server is shown is the one the login server gave out
\* last, whatever logins were broken off in between.
KeyCurrent == talk = "auth" /\ world # 0 => shown = granted

\* The screens and the session agree: the world stands only in the world, the
\* loading screen never outlives the entering, the realm list is up exactly
\* when a realm is to be chosen, and who waits for a server can give up.
ScreensAgree ==
    /\ node <=> state = "inWorld"
    /\ screen = "loading" <=> state \in {"enteringWorld", "inWorld"}
    /\ screen = "select" /\ ~list /\ dialog = "none" =>
           state = "characterList" /\ world # 0
    /\ list <=> state = "realmList"
    /\ state \in {"authenticating", "connectingWorld"} => dialog = "status"
    /\ state = "enteringWorld" => enums = 0 /\ ~asked

\* Each login ends: with a realm list, a realm joined or a reason shown.
LoginEnds == state = "authenticating" ~> state # "authenticating"

\* A connection that is lost once the server has accepted the session does not
\* stay: the loss is reported, or the player leaves first.
LossReported ==
    wdown /\ world # 0 /\ state # "connectingWorld" ~> world = 0

=============================================================================

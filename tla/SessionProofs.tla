--------------------------- MODULE SessionProofs ---------------------------
(***************************************************************************)
(* Proofs about Session, for any number of connections: what poll() may be *)
(* in the middle of never leaves a callback with a destroyed connection,   *)
(* none is leaked, the world server is shown the key of the last login,    *)
(* a failure that was reported stays, and the screens agree with the state *)
(* of the session.                                                         *)
(***************************************************************************)
EXTENDS Session, TLAPS

\* What is alive is current or parked, and what is parked is not current.
Owners ==
    /\ auth = 0 \/ world = 0
    /\ oldAuth # 0 => oldAuth \notin {auth, world}
    /\ oldWorld # 0 => oldWorld \notin {auth, world}
    /\ dead = 1 .. made \ {auth, world, oldAuth, oldWorld}

\* What each leg of poll() knows of the connection it updates, and where a
\* connect() can block.
Legs ==
    /\ phase = "idle" => oldAuth = 0 /\ oldWorld = 0
    /\ phase \notin {"auth", "world"} => run = 0
    /\ phase = "auth" => run # 0 /\ run = (IF auth # 0 THEN auth ELSE oldAuth)
    /\ phase = "world" =>
           run # 0 /\ run = (IF world # 0 THEN world ELSE oldWorld)
    /\ busy = "auth" => auth # 0 /\ hstate = "none" /\ phase \in {"idle", "turn"}
    /\ busy = "world" => /\ world # 0 /\ phase \in {"idle", "auth"}
                         /\ enums = 0 /\ ~asked /\ talk = "none"

\* One request to the world server at a time, and its dialog covers the list of
\* characters; without a dialog the list is up, or the loading screen is.
Requests ==
    world # 0 =>
        /\ enums = 0 \/ ~asked
        /\ enums # 0 \/ asked => talk = "chars" /\ dialog = "status"
        /\ dialog # "status" => talk = "chars" \/ screen = "loading"

\* A world connection, a realm list and a handler that asked for one come after
\* the key of the last login was taken.
Keys ==
    /\ world # 0 => key = granted
    /\ talk = "auth" /\ world # 0 => shown = granted
    /\ auth # 0 /\ hstate \in {"realmListRequested", "realmListReceived"} =>
           key = granted
    /\ list => auth # 0 /\ hstate = "realmListReceived"

\* A retry is asked for by the first attempt's failure, and that handler is
\* current still when it begins, unless the server has refused twice.
Retrying ==
    retry => /\ attempt = 0 /\ hstate = "failed"
             /\ phase \in {"auth", "retry"}
             /\ auth # 0 \/ twice

\* A session that has a connection is not disconnected.
Connected ==
    /\ auth # 0 \/ world # 0 => state # "disconnected"
    /\ state = "disconnected" => screen = "login"

IInv ==
    TypeOK /\ Owners /\ Legs /\ Requests /\ Keys /\ Retrying /\ Connected

USE MaxConnectionsAssumption

LEMMA InitInv == Init => IInv
<1> SUFFICES ASSUME Init PROVE IInv
  OBVIOUS
<1>1. TypeOK
  <2>1. /\ made \in Nat /\ dead \subseteq 1 .. made
        /\ {auth, world, oldAuth, oldWorld, run, key, granted, shown}
               \subseteq 0 .. made
    BY DEF Init
  <2> QED
    BY <2>1 DEF Init, TypeOK, Numbered, LoginTyped, ServerTyped, GlueTyped,
                States, AuthStates
<1>2. Owners
  BY DEF Init, Owners
<1>3. Legs /\ Requests /\ Keys /\ Retrying /\ Connected
  BY DEF Init, Legs, Requests, Keys, Retrying, Connected
<1> QED
  BY <1>1, <1>2, <1>3 DEF IInv

(***************************************************************************)
(* Replacing connections.                                                  *)
(***************************************************************************)
LEMMA Replaced ==
    ASSUME IInv, NEW a, NEW w, Replace(a, w), a = 0 \/ w = 0,
           \/ made' = made /\ a = 0 /\ w = 0
           \/ made' = made + 1 /\ {a, w} = {0, made'}
    PROVE  /\ Owners'
           /\ made' \in Nat /\ made \leq made' /\ dead' \subseteq 1 .. made'
           /\ {auth', world', oldAuth', oldWorld'} \subseteq 0 .. made'
           /\ auth' = a /\ world' = w
           /\ oldAuth' = IF phase = "idle" THEN 0
                         ELSE IF auth # 0 THEN auth ELSE oldAuth
           /\ oldWorld' = IF phase = "idle" THEN 0
                          ELSE IF world # 0 THEN world ELSE oldWorld
<1>1. /\ made \in Nat /\ made' \in Nat /\ made \leq made'
      /\ auth \in 0 .. made /\ world \in 0 .. made
      /\ oldAuth \in 0 .. made /\ oldWorld \in 0 .. made
      /\ dead \subseteq 1 .. made
      /\ a \in 0 .. made' /\ w \in 0 .. made'
      /\ a # 0 => a \notin 0 .. made
      /\ w # 0 => w \notin 0 .. made
  BY DEF IInv, TypeOK, Numbered
<1>2. /\ auth' = a /\ world' = w
      /\ oldAuth' = IF phase = "idle" THEN 0
                    ELSE IF auth # 0 THEN auth ELSE oldAuth
      /\ oldWorld' = IF phase = "idle" THEN 0
                     ELSE IF world # 0 THEN world ELSE oldWorld
      /\ dead' = dead \cup ({auth, world, oldAuth, oldWorld}
                            \ {0, oldAuth', oldWorld'})
  BY DEF Replace, Parked, Polling
<1>3. dead' = 1 .. made' \ {auth', world', oldAuth', oldWorld'}
  <2>1. dead = 1 .. made \ {auth, world, oldAuth, oldWorld}
    BY DEF IInv, Owners
  <2>2. oldAuth' \notin dead /\ oldWorld' \notin dead
    BY <1>1, <1>2, <2>1
  <2>3. oldAuth' \in 0 .. made /\ oldWorld' \in 0 .. made
    BY <1>1, <1>2
  <2>4. dead' = 1 .. made \ {oldAuth', oldWorld'}
    BY <1>1, <1>2, <2>1, <2>2
  <2>5. 1 .. made' \ {a, w} = 1 .. made
    BY <1>1
  <2> QED
    BY <1>2, <2>3, <2>4, <2>5
<1> QED
  BY <1>1, <1>2, <1>3 DEF Owners

\* The session has failed: it has no connection, and the Glue is typed.
LEMMA Failed ==
    ASSUME IInv, Fail
    PROVE  /\ Owners' /\ GlueTyped' /\ made' = made
           /\ dead' \subseteq 1 .. made
           /\ {auth', world', oldAuth', oldWorld'} \subseteq 0 .. made
           /\ auth' = 0 /\ world' = 0
           /\ oldAuth' = IF phase = "idle" THEN 0
                         ELSE IF auth # 0 THEN auth ELSE oldAuth
           /\ oldWorld' = IF phase = "idle" THEN 0
                          ELSE IF world # 0 THEN world ELSE oldWorld
           /\ Requests' /\ Connected' /\ list' = FALSE
<1>1. Replace(0, 0) /\ made' = made
  BY DEF Fail
<1>2. /\ GlueTyped' /\ list' = FALSE
  BY DEF Fail, IInv, TypeOK, GlueTyped, States
<1>3. auth' = 0 /\ world' = 0 => Requests' /\ Connected'
  BY DEF Fail, Requests, Connected
<1> QED
  BY <1>1, <1>2, <1>3, Replaced

\* Steps that touch no connection.
LEMMA OwnedKept ==
    ASSUME IInv, UNCHANGED owned
    PROVE  Owners'
  BY DEF IInv, Owners, owned

LEMMA ConnectKeeps == ASSUME IInv, Connect PROVE IInv'
<1>1. ASSUME NEW ok \in BOOLEAN, ConnectAuth(ok) PROVE IInv'
  <2> USE <1>1 DEF ConnectAuth, Authenticate
  <2>1. CASE ok
    <3>1. /\ UNCHANGED <<state, owned, glue, attempt, retry, adown, key, granted,
                         twice, server, phase, run>>
          /\ hstate' = "challengeSent" /\ busy' = "no"
      BY <2>1
    <3>2. TypeOK'
      BY <3>1 DEF IInv, TypeOK, Numbered, LoginTyped, ServerTyped, GlueTyped,
                  AuthStates, owned, server, glue
    <3>3. Owners' /\ Legs'
      BY <3>1 DEF IInv, Owners, Legs, owned
    <3>4. Requests' /\ Connected'
      BY <3>1 DEF IInv, Requests, Connected, owned, server, glue
    <3>5. Keys' /\ Retrying'
      BY <3>1 DEF IInv, Keys, Retrying, Legs, owned, server, glue
    <3> QED
      BY <3>2, <3>3, <3>4, <3>5 DEF IInv
  <2>2. CASE ~ok
    <3>1. /\ Fail /\ hstate' = "failed" /\ busy' = "no"
          /\ UNCHANGED <<attempt, retry, adown, key, granted, twice, server,
                         phase, run>>
      BY <2>2
    <3>3. TypeOK'
      BY <3>1, Failed DEF IInv, TypeOK, Numbered, LoginTyped, ServerTyped,
                          AuthStates, server
    <3>4. Legs'
      BY <3>1, Failed DEF IInv, Legs
    <3>5. Keys'
      BY <3>1, Failed DEF Keys
    <3>6. Retrying'
      BY <3>1 DEF IInv, Retrying, Legs
    <3> QED
      BY <3>1, <3>3, <3>4, <3>5, <3>6, Failed DEF IInv
  <2> QED
    BY <2>1, <2>2
<1>2. ASSUME NEW ok \in BOOLEAN, ConnectWorld(ok) PROVE IInv'
  <2> USE <1>2 DEF ConnectWorld
  <2>1. CASE ok
    <3>1. /\ UNCHANGED <<state, owned, glue, login, shown, enums, asked, wdown,
                         phase, run>>
          /\ talk' = "hello" /\ busy = "world" /\ busy' = "no"
      BY <2>1
    <3>2. TypeOK'
      BY <3>1 DEF IInv, TypeOK, Numbered, LoginTyped, ServerTyped, GlueTyped,
                  owned, login, glue
    <3>3. Owners' /\ Legs'
      BY <3>1, OwnedKept DEF IInv, Legs, owned, login
    <3>4. Requests'
      BY <3>1 DEF IInv, Requests, Legs, owned, glue
    <3>5. Keys' /\ Retrying' /\ Connected'
      BY <3>1 DEF IInv, Keys, Retrying, Connected, owned, login, glue
    <3> QED
      BY <3>2, <3>3, <3>4, <3>5 DEF IInv
  <2>2. CASE ~ok
    <3>1. /\ Fail /\ busy = "world" /\ busy' = "no"
          /\ UNCHANGED <<login, server, phase, run>>
      BY <2>2 DEF server
    <3>2. TypeOK'
      <4>1. Numbered' /\ GlueTyped'
        BY <3>1, Failed DEF IInv, TypeOK, Numbered, login, server
      <4>2. LoginTyped' /\ ServerTyped'
        BY <3>1 DEF IInv, TypeOK, LoginTyped, ServerTyped, login, server
      <4> QED
        BY <3>1, <4>1, <4>2 DEF IInv, TypeOK
    <3>3. Legs'
      BY <3>1, Failed DEF IInv, Legs
    <3>4. Keys'
      BY <3>1, Failed DEF Keys
    <3>5. Retrying'
      BY <3>1, Failed DEF IInv, Retrying, Legs, Owners, login
    <3> QED
      BY <3>1, <3>2, <3>3, <3>4, <3>5, Failed DEF IInv
  <2> QED
    BY <2>1, <2>2
<1> QED
  BY <1>1, <1>2 DEF Connect

(***************************************************************************)
(* The login connection.                                                   *)
(***************************************************************************)
LEMMA AuthFailsKeeps ==
    ASSUME IInv, NEW protocol \in BOOLEAN, AuthFails(protocol),
           phase = "auth", busy = "no",
           protocol => hstate # "realmListReceived",
           hstate \in Unsettled \/ twice,
           \/ phase' = "auth" /\ run' = run
           \/ phase' = "retry" /\ run' = 0,
           adown' \in BOOLEAN,
           UNCHANGED <<attempt, key, granted, twice, server, busy>>
    PROVE  IInv'
<1>1. CASE Heard /\ protocol /\ attempt = 0
  <2>1. /\ hstate' = "failed" /\ retry' = TRUE
        /\ UNCHANGED <<state, owned, glue>>
    BY <1>1 DEF AuthFails
  <2>2. auth # 0 /\ run = auth
    BY <1>1 DEF IInv, Legs, Heard
  <2>3. TypeOK'
    BY <2>1 DEF IInv, TypeOK, Numbered, LoginTyped, ServerTyped, GlueTyped,
                AuthStates, owned, server, glue
  <2>4. Owners' /\ Legs'
    BY <2>1, <2>2, OwnedKept DEF IInv, Legs, owned
  <2>5. Requests' /\ Connected'
    BY <2>1 DEF IInv, Requests, Connected, owned, server, glue
  <2>6. Keys'
    BY <1>1, <2>1 DEF IInv, Keys, owned, server, glue
  <2>7. Retrying'
    BY <1>1, <2>1, <2>2 DEF Retrying, owned
  <2> QED
    BY <2>3, <2>4, <2>5, <2>6, <2>7 DEF IInv
<1>2. CASE Heard /\ ~(protocol /\ attempt = 0)
  <2>1. Fail /\ hstate' = "failed" /\ retry' = retry
    BY <1>2 DEF AuthFails
  <2>2. TypeOK'
    <3>1. Numbered' /\ GlueTyped'
      BY <2>1, Failed DEF IInv, TypeOK, Numbered, server
    <3>2. LoginTyped' /\ ServerTyped'
      BY <2>1 DEF IInv, TypeOK, LoginTyped, ServerTyped, AuthStates, server
    <3> QED
      BY <3>1, <3>2 DEF IInv, TypeOK
  <2>3. Legs'
    BY <2>1, Failed DEF IInv, Legs
  <2>4. Keys'
    BY <2>1, Failed DEF Keys
  <2>5. Retrying'
    BY <2>1 DEF IInv, Retrying, Unsettled
  <2> QED
    BY <2>1, <2>2, <2>3, <2>4, <2>5, Failed DEF IInv
<1>3. CASE ~Heard
  <2>1. hstate' = "failed" /\ UNCHANGED <<state, owned, glue, retry>>
    BY <1>3 DEF AuthFails
  <2>2. auth = 0
    BY <1>3 DEF IInv, Legs, Heard
  <2>3. TypeOK'
    BY <2>1 DEF IInv, TypeOK, Numbered, LoginTyped, ServerTyped, GlueTyped,
                AuthStates, owned, server, glue
  <2>4. Owners' /\ Legs'
    BY <2>1, OwnedKept DEF IInv, Legs, owned
  <2>5. Requests' /\ Connected'
    BY <2>1 DEF IInv, Requests, Connected, owned, server, glue
  <2>6. Keys'
    BY <2>1, <2>2 DEF IInv, Keys, owned, server, glue
  <2>7. Retrying'
    BY <2>1 DEF IInv, Retrying, owned
  <2> QED
    BY <2>3, <2>4, <2>5, <2>6, <2>7 DEF IInv
<1> QED
  BY <1>1, <1>2, <1>3

LEMMA RealmSelected ==
    ASSUME IInv, SelectRealm, auth # 0, key = granted, ~retry,
           phase \in {"idle", "auth"}, hstate' \in AuthStates,
           UNCHANGED <<attempt, retry, adown, key, granted, twice, phase, run>>
    PROVE  IInv'
<1>1. /\ Replace(0, made + 1) /\ made' = made + 1
      /\ state' = "connectingWorld" /\ busy' = "world" /\ talk' = "none"
      /\ enums' = 0 /\ asked' = FALSE /\ wdown' = FALSE
      /\ dialog' = "status" /\ list' = FALSE /\ choosing' = FALSE
      /\ UNCHANGED <<screen, autoEnter, node, shown>>
  BY DEF SelectRealm
<1>2. made \in Nat
  BY DEF IInv, TypeOK, Numbered
<1>3. /\ Owners' /\ made' \in Nat /\ made \leq made'
      /\ dead' \subseteq 1 .. made'
      /\ {auth', world', oldAuth', oldWorld'} \subseteq 0 .. made'
      /\ auth' = 0 /\ world' = made'
      /\ oldAuth' = IF phase = "idle" THEN 0 ELSE auth
      /\ phase = "idle" => oldWorld' = 0
  BY <1>1, <1>2, Replaced
<1>4. Numbered'
  <2>1. {run, key, granted, shown} \subseteq 0 .. made
    BY DEF IInv, TypeOK, Numbered
  <2>2. {run', key', granted', shown'} \subseteq 0 .. made'
    BY <1>1, <1>2, <2>1
  <2> QED
    BY <1>3, <2>2 DEF Numbered
<1>5. TypeOK'
  BY <1>1, <1>4 DEF IInv, TypeOK, LoginTyped, ServerTyped, GlueTyped, States
<1>6. Legs'
  BY <1>1, <1>2, <1>3 DEF IInv, Legs
<1>7. Requests' /\ Connected'
  BY <1>1 DEF Requests, Connected
<1>8. Keys' /\ Retrying'
  BY <1>1, <1>3 DEF Keys, Retrying
<1> QED
  BY <1>3, <1>5, <1>6, <1>7, <1>8 DEF IInv

LEMMA LoginPacketKeeps == ASSUME IInv, LoginPacket PROVE IInv'
<1> USE DEF Reading
<1>1. ASSUME NEW flags \in BOOLEAN, NEW code \in BOOLEAN,
             Challenged(flags, code)
      PROVE  IInv'
  <2> USE <1>1 DEF Challenged
  <2>1. CASE flags /\ attempt = 1
    BY <2>1, AuthFailsKeeps DEF Unsettled, poll, IInv, TypeOK, LoginTyped
  <2>2. CASE ~(flags /\ attempt = 1)
    <3>1. /\ hstate = "challengeSent" /\ hstate' \in {"pinRequired", "proofSent"}
          /\ UNCHANGED <<state, owned, retry, glue, attempt, adown, key,
                         granted, twice, server, poll>>
          /\ phase = "auth" /\ busy = "no"
      BY <2>2
    <3>2. TypeOK'
      BY <3>1 DEF IInv, TypeOK, Numbered, LoginTyped, ServerTyped, GlueTyped,
                  AuthStates, owned, server, glue, poll
    <3>3. Owners' /\ Legs'
      BY <3>1, OwnedKept DEF IInv, Legs, owned, poll
    <3>4. Requests' /\ Connected'
      BY <3>1 DEF IInv, Requests, Connected, owned, server, glue
    <3>5. Keys' /\ Retrying'
      BY <3>1 DEF IInv, Keys, Retrying, owned, server, glue
    <3> QED
      BY <3>2, <3>3, <3>4, <3>5 DEF IInv
  <2> QED
    BY <2>1, <2>2
<1>2. ASSUME NEW protocol \in BOOLEAN,
             ChallengeRefused(protocol) \/ ProofRefused(protocol)
      PROVE  IInv'
  BY <1>2, AuthFailsKeeps
     DEF ChallengeRefused, ProofRefused, Unsettled, poll, IInv, TypeOK,
         LoginTyped
<1>3. CASE RefusedLate
  BY <1>3, AuthFailsKeeps
     DEF RefusedLate, Unsettled, poll, IInv, TypeOK, LoginTyped
<1>4. CASE ProofAccepted
  <2>1. /\ hstate = "proofSent" /\ granted = run /\ phase = "auth" /\ Heard
        /\ busy = "no" /\ key' = run /\ hstate' = "realmListRequested"
        /\ UNCHANGED <<state, owned, attempt, retry, adown, granted, twice,
                       server, poll, glue>>
    BY <1>4 DEF ProofAccepted, NewKey
  <2>2. TypeOK'
    BY <2>1 DEF IInv, TypeOK, Numbered, LoginTyped, ServerTyped, GlueTyped,
                AuthStates, owned, server, glue, poll
  <2>3. Owners' /\ Legs'
    BY <2>1, OwnedKept DEF IInv, Legs, owned, poll
  <2>4. Requests' /\ Connected'
    BY <2>1 DEF IInv, Requests, Connected, owned, server, glue
  <2>5. Keys'
    BY <2>1 DEF IInv, Keys, Owners, Legs, Heard, owned, server, glue
  <2>6. Retrying'
    BY <2>1 DEF IInv, Retrying
  <2> QED
    BY <2>2, <2>3, <2>4, <2>5, <2>6 DEF IInv
<1>5. ASSUME NEW known \in BOOLEAN, RealmList(known) PROVE IInv'
  <2> USE <1>5 DEF RealmList
  <2>1. /\ phase = "auth" /\ busy = "no" /\ run = auth /\ auth # 0 /\ world = 0
        /\ key = granted /\ ~retry
    BY DEF IInv, Legs, Heard, Keys, Retrying, Owners
  <2>2. CASE known /\ ~choosing
    BY <2>1, <2>2, RealmSelected DEF AuthStates
  <2>3. CASE ~(known /\ ~choosing)
    <3>1. /\ hstate' = "realmListReceived" /\ state' = "realmList"
          /\ dialog' = "none" /\ list' = TRUE
          /\ UNCHANGED <<owned, busy, server, screen, choosing, autoEnter, node,
                         attempt, retry, adown, key, granted, twice, phase,
                         run>>
      BY <2>3
    <3>2. TypeOK'
      BY <3>1 DEF IInv, TypeOK, Numbered, LoginTyped, ServerTyped, GlueTyped,
                  AuthStates, States, owned, server
    <3>3. Owners' /\ Legs'
      BY <3>1, <2>1, OwnedKept DEF IInv, Legs, owned
    <3>4. Requests' /\ Connected'
      BY <3>1, <2>1 DEF Requests, Connected, owned
    <3>5. Keys' /\ Retrying'
      BY <3>1, <2>1 DEF Keys, Retrying, owned
    <3> QED
      BY <3>2, <3>3, <3>4, <3>5 DEF IInv
  <2> QED
    BY <2>2, <2>3
<1> QED
  BY <1>1, <1>2, <1>3, <1>4, <1>5 DEF LoginPacket

(***************************************************************************)
(* The legs of poll().                                                     *)
(***************************************************************************)
\* A login begins, in the place of whatever connection there was.
LEMMA AuthBegun ==
    ASSUME IInv, BeginAuth, busy = "no", ~retry', ~list,
           attempt' \in {0, 1}, retry' \in BOOLEAN,
           \/ phase = "idle" /\ phase' = "idle"
           \/ phase = "retry" /\ phase' = "turn",
           choosing' \in BOOLEAN,
           UNCHANGED <<key, granted, twice, server, run, screen, list,
                       autoEnter, node>>
    PROVE  IInv'
<1>1. /\ Replace(made + 1, 0) /\ made' = made + 1
      /\ state' = "authenticating" /\ hstate' = "none" /\ adown' = FALSE
      /\ busy' = "auth" /\ dialog' = "status"
  BY DEF BeginAuth
<1>2. made \in Nat
  BY DEF IInv, TypeOK, Numbered
<1>3. /\ Owners' /\ made' \in Nat /\ made \leq made'
      /\ dead' \subseteq 1 .. made'
      /\ {auth', world', oldAuth', oldWorld'} \subseteq 0 .. made'
      /\ auth' = made' /\ world' = 0
      /\ phase = "idle" => oldAuth' = 0 /\ oldWorld' = 0
  BY <1>1, <1>2, Replaced
<1>4. Numbered'
  <2>1. {run, key, granted, shown} \subseteq 0 .. made
    BY DEF IInv, TypeOK, Numbered
  <2>2. {run', key', granted', shown'} \subseteq 0 .. made'
    BY <1>1, <1>2, <2>1 DEF server
  <2> QED
    BY <1>3, <2>2 DEF Numbered
<1>5. TypeOK'
  <2>1. LoginTyped'
    BY <1>1 DEF IInv, TypeOK, LoginTyped, AuthStates
  <2>2. ServerTyped'
    BY DEF IInv, TypeOK, ServerTyped, server
  <2>3. GlueTyped'
    BY <1>1 DEF IInv, TypeOK, GlueTyped, States
  <2> QED
    BY <1>1, <1>4, <2>1, <2>2, <2>3 DEF IInv, TypeOK
<1>6. Legs'
  BY <1>1, <1>2, <1>3 DEF IInv, Legs
<1>7. Requests' /\ Connected'
  BY <1>1, <1>3 DEF Requests, Connected
<1>8. Keys' /\ Retrying'
  BY <1>1, <1>3 DEF Keys, Retrying
<1> QED
  BY <1>3, <1>5, <1>6, <1>7, <1>8 DEF IInv

\* Steps that only move poll() on.
LEMMA LegKeeps ==
    ASSUME IInv, UNCHANGED <<state, owned, login, server, glue>>,
           run' \in 0 .. made,
           phase' \in {"idle", "auth", "retry", "turn", "world", "release"},
           busy' = "no", Legs', retry => phase' = "retry"
    PROVE  IInv'
<1>1. Numbered' /\ LoginTyped'
  BY DEF IInv, TypeOK, Numbered, LoginTyped, owned, login, server
<1>2. ServerTyped' /\ GlueTyped'
  BY DEF IInv, TypeOK, ServerTyped, GlueTyped, server, glue
<1>3. TypeOK'
  BY <1>1, <1>2 DEF TypeOK
<1>4. Requests' /\ Connected'
  BY DEF IInv, Requests, Connected, owned, server, glue
<1>5. Keys' /\ Retrying'
  BY DEF IInv, Keys, Retrying, owned, login, server, glue
<1> QED
  BY <1>3, <1>4, <1>5, OwnedKept DEF IInv

LEMMA PollKeeps ==
    ASSUME IInv,
           \/ PollBegin \/ PollRetry \/ PollWorld \/ PollWorldDone \/ PollEnd
           \/ \E closed \in BOOLEAN : PollAuthDone(closed)
    PROVE  IInv'
<1>1. CASE PollBegin
  <2>1. /\ phase = "idle" /\ busy = "no" /\ run' = auth
        /\ phase' = IF auth # 0 THEN "auth" ELSE "turn"
        /\ UNCHANGED <<state, owned, login, server, busy, glue>>
    BY <1>1 DEF PollBegin
  <2>2. Legs'
    BY <2>1 DEF IInv, Legs, owned
  <2>3. auth \in 0 .. made /\ ~retry
    BY <2>1 DEF IInv, TypeOK, Numbered, Retrying
  <2> QED
    BY <2>1, <2>2, <2>3, LegKeeps
<1>2. CASE PollRetry
  <2> USE <1>2 DEF PollRetry
  <2>1. phase = "retry" /\ busy = "no"
    BY DEF IInv, Legs, TypeOK
  <2>2. CASE retry
    <3>1. attempt' \in {0, 1} /\ ~retry' /\ retry' \in BOOLEAN /\ ~list
      <4>1. attempt' = 1 /\ retry' = FALSE
        BY <2>2 DEF IInv, Retrying, RetryDone
      <4>2. ~list
        BY <2>2 DEF IInv, Retrying, Keys
      <4> QED
        BY <4>1, <4>2
    <3> QED
      BY <2>1, <2>2, <3>1, AuthBegun DEF IInv, TypeOK, GlueTyped
  <2>3. CASE ~retry
    <3>1. /\ phase' = "turn" /\ run' = run /\ busy' = "no"
          /\ UNCHANGED <<state, owned, login, server, glue>>
      BY <2>1, <2>3 DEF login
    <3>2. Legs'
      BY <2>1, <3>1 DEF IInv, Legs, owned
    <3>3. run \in 0 .. made
      BY DEF IInv, TypeOK, Numbered
    <3> QED
      BY <2>3, <3>1, <3>2, <3>3, LegKeeps
  <2> QED
    BY <2>2, <2>3
<1>3. CASE PollWorld
  <2>1. /\ phase = "turn" /\ busy = "no" /\ run' = world
        /\ phase' = IF world # 0 THEN "world" ELSE "release"
        /\ UNCHANGED <<state, owned, login, server, busy, glue>>
    BY <1>3 DEF PollWorld
  <2>2. Legs'
    BY <2>1 DEF IInv, Legs, owned
  <2>3. world \in 0 .. made /\ ~retry
    BY <2>1 DEF IInv, TypeOK, Numbered, Retrying
  <2> QED
    BY <2>1, <2>2, <2>3, LegKeeps
<1>4. CASE PollWorldDone
  <2> USE <1>4 DEF PollWorldDone
  <2>1. /\ phase = "world" /\ phase' = "release" /\ run' = 0 /\ busy = "no"
        /\ ~retry /\ UNCHANGED <<login, server, busy>>
    BY DEF IInv, TypeOK, Legs, Retrying
  <2>2. CASE Lost
    <3>1. Fail
      BY <2>2
    <3>2. Numbered' /\ GlueTyped'
      BY <2>1, <3>1, Failed DEF IInv, TypeOK, Numbered, login, server
    <3>3. LoginTyped' /\ ServerTyped'
      BY <2>1 DEF IInv, TypeOK, LoginTyped, ServerTyped, login, server
    <3>4. TypeOK' /\ Legs' /\ Keys'
      BY <2>1, <3>1, <3>2, <3>3, Failed DEF TypeOK, Legs, Keys
    <3>5. Retrying'
      BY <2>1 DEF Retrying, login
    <3> QED
      BY <3>1, <3>4, <3>5, Failed DEF IInv
  <2>3. CASE ~Lost
    <3>1. UNCHANGED <<state, owned, glue>>
      BY <2>3
    <3>2. Legs'
      BY <2>1, <3>1 DEF IInv, Legs, owned
    <3>3. made \in Nat
      BY DEF IInv, TypeOK, Numbered
    <3> QED
      BY <2>1, <3>1, <3>2, <3>3, LegKeeps
  <2> QED
    BY <2>2, <2>3
<1>5. CASE PollEnd
  <2>1. /\ phase = "release" /\ phase' = "idle" /\ oldAuth' = 0 /\ oldWorld' = 0
        /\ dead' = dead \cup ({oldAuth, oldWorld} \ {0})
        /\ UNCHANGED <<state, auth, world, made, login, server, run, busy, glue>>
    BY <1>5 DEF PollEnd, Released
  <2>2. busy = "no" /\ ~retry /\ run = 0
    BY <2>1 DEF IInv, TypeOK, Legs, Retrying
  <2>3. /\ dead = 1 .. made \ {auth, world, oldAuth, oldWorld} /\ made \in Nat
        /\ {auth, world, oldAuth, oldWorld} \subseteq 0 .. made
        /\ oldAuth # 0 => oldAuth \notin {auth, world}
        /\ oldWorld # 0 => oldWorld \notin {auth, world}
        /\ auth = 0 \/ world = 0
    BY DEF IInv, TypeOK, Numbered, Owners
  <2>4. dead' = 1 .. made \ {auth, world, 0}
    BY <2>1, <2>3
  <2>5. Owners' /\ dead' \subseteq 1 .. made
    BY <2>1, <2>3, <2>4 DEF Owners
  <2>6. Numbered'
    BY <2>1, <2>5 DEF IInv, TypeOK, Numbered, login, server
  <2>7. LoginTyped' /\ ServerTyped' /\ GlueTyped'
    BY <2>1 DEF IInv, TypeOK, LoginTyped, ServerTyped, GlueTyped, login, server,
                glue
  <2>8. TypeOK' /\ Legs'
    BY <2>1, <2>2, <2>6, <2>7 DEF TypeOK, Legs
  <2>9. Requests' /\ Connected'
    BY <2>1 DEF IInv, Requests, Connected, server, glue
  <2>10. Keys' /\ Retrying'
    BY <2>1, <2>2 DEF IInv, Keys, Retrying, login, server, glue
  <2> QED
    BY <2>5, <2>8, <2>9, <2>10 DEF IInv
<1>6. ASSUME NEW closed \in BOOLEAN, PollAuthDone(closed) PROVE IInv'
  <2> USE <1>6 DEF PollAuthDone
  <2>1. adown' \in BOOLEAN /\ phase = "auth" /\ busy = "no"
    BY DEF IInv, TypeOK, LoginTyped
  <2>2. CASE adown' /\ hstate \in Unsettled
    BY <2>1, <2>2, AuthFailsKeeps DEF Unsettled
  <2>3. CASE ~(adown' /\ hstate \in Unsettled)
    <3>1. /\ phase' = "retry" /\ run' = 0
          /\ UNCHANGED <<state, owned, hstate, retry, glue, attempt, key,
                         granted, twice, server, busy>>
      BY <2>3
    <3>2. TypeOK'
      BY <2>1, <3>1 DEF IInv, TypeOK, Numbered, LoginTyped, ServerTyped,
                        GlueTyped, owned, server, glue
    <3>3. Owners' /\ Legs'
      BY <2>1, <3>1, OwnedKept DEF IInv, Legs, owned
    <3>4. Requests' /\ Connected'
      BY <3>1 DEF IInv, Requests, Connected, owned, server, glue
    <3>5. Keys' /\ Retrying'
      BY <3>1 DEF IInv, Keys, Retrying, owned, server, glue
    <3> QED
      BY <3>2, <3>3, <3>4, <3>5 DEF IInv
  <2> QED
    BY <2>2, <2>3
<1> QED
  BY <1>1, <1>2, <1>3, <1>4, <1>5, <1>6

(***************************************************************************)
(* The world server and the player.                                        *)
(***************************************************************************)
\* Steps on a world connection that is kept.
LEMMA WorldStepKeeps ==
    ASSUME IInv, world # 0, busy = "no",
           UNCHANGED <<owned, login, poll, list>>,
           ServerTyped', GlueTyped', Requests', state' # "disconnected",
           \/ shown' = key
           \/ shown' = shown /\ (talk' = "auth" => talk = "auth")
    PROVE  IInv'
<1>1. auth = 0 /\ key = granted /\ ~list
  BY DEF IInv, Owners, Keys
<1>2. /\ Numbered' /\ LoginTyped'
  <2>1. {run, key, granted, shown} \subseteq 0 .. made
    BY DEF IInv, TypeOK, Numbered
  <2>2. {run', key', granted', shown'} \subseteq 0 .. made'
    BY <2>1 DEF owned, login, poll
  <2>3. Numbered'
    BY <2>2 DEF IInv, TypeOK, Numbered, owned
  <2>4. LoginTyped'
    BY DEF IInv, TypeOK, LoginTyped, login
  <2> QED
    BY <2>3, <2>4
<1>3. TypeOK'
  BY <1>2 DEF IInv, TypeOK, poll
<1>4. Owners' /\ Legs' /\ Connected'
  BY <1>1, OwnedKept DEF IInv, Legs, Connected, owned, login, poll
<1>5. Keys' /\ Retrying'
  BY <1>1 DEF IInv, Keys, Retrying, owned, login, poll
<1> QED
  BY <1>3, <1>4, <1>5 DEF IInv

LEMMA WorldKeeps == ASSUME IInv, WorldPacket \/ WorldLost PROVE IInv'
<1>1. CASE WorldLost
  <2>1. /\ world # 0 /\ busy = "no" /\ wdown' = TRUE /\ state # "disconnected"
        /\ UNCHANGED <<state, owned, login, talk, shown, enums, asked, poll,
                       glue>>
    BY <1>1 DEF WorldLost, IInv, Connected
  <2>2. ServerTyped' /\ GlueTyped'
    BY <2>1 DEF IInv, TypeOK, ServerTyped, GlueTyped, glue
  <2>3. Requests'
    BY <2>1 DEF IInv, Requests, owned, glue
  <2> QED
    BY <2>1, <2>2, <2>3, WorldStepKeeps DEF glue
<1> SUFFICES ASSUME Dispatching, WorldPacket PROVE IInv'
  BY <1>1 DEF WorldPacket, AuthChallenge, AuthResponse, WorldRefuses, CharEnum,
              CharAnswer, CharacterLoginFailed, LoginVerifyWorld, LogoutComplete
<1>2. /\ world # 0 /\ busy = "no" /\ phase = "world" /\ ~retry
      /\ state # "disconnected" /\ run = world
  BY DEF Dispatching, Heard, IInv, TypeOK, Legs, Retrying, Connected
<1>3. /\ enums \in {0, 1} /\ asked \in BOOLEAN /\ (enums = 0 \/ ~asked)
      /\ enums # 0 \/ asked => talk = "chars" /\ dialog = "status"
  BY <1>2 DEF IInv, TypeOK, ServerTyped, Requests
<1>4. CASE AuthChallenge
  <2>1. /\ talk = "hello" /\ talk' \in {"none", "auth"} /\ shown' = key
        /\ UNCHANGED <<state, owned, login, enums, asked, wdown, poll, glue>>
    BY <1>4 DEF AuthChallenge, Answers
  <2>2. ServerTyped' /\ GlueTyped' /\ Requests'
    BY <1>2, <1>3, <2>1 DEF IInv, TypeOK, ServerTyped, GlueTyped, Requests,
                            glue
  <2> QED
    BY <1>2, <2>1, <2>2, WorldStepKeeps DEF glue
<1>5. CASE AuthResponse \/ LogoutComplete
  <2>1. /\ talk # "chars" /\ talk' = "chars" /\ state' = "characterList"
        /\ enums' = Requested(enums) /\ screen' = BackAtSelect
        /\ dialog' = "status" /\ node' = FALSE
        /\ UNCHANGED <<owned, login, shown, asked, wdown, poll, list, choosing,
                       autoEnter>>
    BY <1>5 DEF AuthResponse, LogoutComplete, ListCharacters
  <2>2. enums' \in {0, 1} /\ asked = FALSE /\ asked' = FALSE
    BY <2>1, <1>3 DEF Requested
  <2>3. ServerTyped'
    BY <2>1, <2>2 DEF IInv, TypeOK, ServerTyped
  <2>4. GlueTyped' /\ Requests'
    BY <2>1, <2>2 DEF IInv, TypeOK, GlueTyped, States, BackAtSelect, Requests
  <2> QED
    BY <1>2, <2>1, <2>3, <2>4, WorldStepKeeps
<1>6. CASE WorldRefuses
  <2>1. /\ Fail /\ talk' = "none"
        /\ UNCHANGED <<login, shown, enums, asked, wdown, poll>>
    BY <1>6 DEF WorldRefuses
  <2>2. Numbered' /\ GlueTyped'
    BY <2>1, Failed DEF IInv, TypeOK, Numbered, login, poll
  <2>3. LoginTyped' /\ ServerTyped'
    BY <2>1 DEF IInv, TypeOK, LoginTyped, ServerTyped, login
  <2>4. TypeOK'
    BY <2>1, <2>2, <2>3 DEF IInv, TypeOK, poll
  <2>5. Legs'
    BY <1>2, <2>1, Failed DEF IInv, Legs, poll
  <2>6. Keys' /\ Retrying'
    BY <1>2, <2>1, Failed DEF Keys, Retrying, login
  <2> QED
    BY <2>1, <2>4, <2>5, <2>6, Failed DEF IInv
<1>7. CASE CharEnum
  <2>1. /\ enums = 1 /\ enums' = 0 /\ asked = FALSE /\ asked' = FALSE
        /\ talk = "chars" /\ dialog' = "none"
        /\ UNCHANGED <<owned, login, shown, wdown, poll, list, choosing, node>>
    BY <1>3, <1>7 DEF CharEnum
  <2>2. /\ state' \in {state, "enteringWorld"}
        /\ talk' \in {talk, "none", "entering"}
        /\ talk' = talk \/ screen' = "loading"
        /\ screen' \in {"loading", "select"} /\ autoEnter' \in {autoEnter, FALSE}
    BY <1>7 DEF CharEnum, EnterWorld, Answers
  <2>3. ServerTyped'
    BY <2>1, <2>2 DEF IInv, TypeOK, ServerTyped
  <2>4. GlueTyped' /\ Requests'
    BY <1>2, <2>1, <2>2 DEF IInv, TypeOK, GlueTyped, States, Requests
  <2> QED
    BY <1>2, <2>1, <2>2, <2>3, <2>4, WorldStepKeeps
<1>8. ASSUME NEW success \in BOOLEAN, CharAnswer(success) PROVE IInv'
  <2>1. /\ talk = "chars" /\ enums = 0 /\ asked' = FALSE /\ dialog = "status"
        /\ \/ enums' \in {0, 1} /\ dialog' = dialog
           \/ enums' = 0 /\ dialog' = "message"
        /\ UNCHANGED <<state, owned, login, talk, shown, wdown, poll, screen,
                       list, choosing, autoEnter, node>>
    BY <1>3, <1>8 DEF CharAnswer, Requested
  <2>2. ServerTyped'
    BY <2>1 DEF IInv, TypeOK, ServerTyped
  <2>3. GlueTyped' /\ Requests'
    BY <2>1 DEF IInv, TypeOK, GlueTyped, Requests
  <2> QED
    BY <1>2, <2>1, <2>2, <2>3, WorldStepKeeps
<1>9. CASE CharacterLoginFailed
  <2>1. /\ enums = 0 /\ asked = FALSE
        /\ state' = "characterList" /\ talk' = "chars"
        /\ screen' = "select" /\ dialog' = "message" /\ node' = FALSE
        /\ UNCHANGED <<owned, login, shown, enums, asked, wdown, poll, list,
                       choosing, autoEnter>>
    BY <1>3, <1>9 DEF CharacterLoginFailed
  <2>2. ServerTyped'
    BY <2>1 DEF IInv, TypeOK, ServerTyped
  <2>3. GlueTyped' /\ Requests'
    BY <1>2, <2>1 DEF IInv, TypeOK, GlueTyped, States, Requests
  <2> QED
    BY <1>2, <2>1, <2>2, <2>3, WorldStepKeeps
<1>10. CASE LoginVerifyWorld
  <2>1. /\ enums = 0 /\ asked = FALSE /\ talk = "entering"
        /\ state' = "inWorld" /\ talk' = "world" /\ node' = TRUE
        /\ UNCHANGED <<owned, login, shown, enums, asked, wdown, poll, screen,
                       dialog, list, choosing, autoEnter>>
    BY <1>3, <1>10 DEF LoginVerifyWorld
  <2>2. ServerTyped'
    BY <2>1 DEF IInv, TypeOK, ServerTyped
  <2>3. GlueTyped' /\ Requests'
    BY <1>2, <2>1 DEF IInv, TypeOK, GlueTyped, States, Requests
  <2> QED
    BY <1>2, <2>1, <2>2, <2>3, WorldStepKeeps
<1> QED
  BY <1>4, <1>5, <1>6, <1>7, <1>8, <1>9, <1>10 DEF WorldPacket

\* A login that was accepted: until its key is taken there is no world
\* connection and no realm list.
LEMMA AcceptKeeps == ASSUME IInv, ServerAccepts PROVE IInv'
<1>1. /\ auth # 0 /\ hstate = "proofSent" /\ granted' = auth
      /\ UNCHANGED <<state, owned, attempt, retry, hstate, adown, key, twice,
                     server, poll, glue>>
  BY DEF ServerAccepts
<1>2. world = 0 /\ ~retry /\ ~list /\ auth \in 0 .. made
  BY <1>1 DEF IInv, TypeOK, Numbered, Owners, Retrying, Keys
<1>3. TypeOK'
  BY <1>1, <1>2 DEF IInv, TypeOK, Numbered, LoginTyped, ServerTyped, GlueTyped,
                    owned, server, poll, glue
<1>4. Owners' /\ Legs'
  BY <1>1, OwnedKept DEF IInv, Legs, owned, server, poll
<1>5. Requests' /\ Connected'
  BY <1>1 DEF IInv, Requests, Connected, owned, server, glue
<1>6. Keys' /\ Retrying'
  BY <1>1, <1>2 DEF Keys, Retrying, owned, glue
<1> QED
  BY <1>3, <1>4, <1>5, <1>6 DEF IInv

LEMMA PlayerKeeps == ASSUME IInv, Player PROVE IInv'
<1> SUFFICES ASSUME phase = "idle", busy = "no" PROVE IInv'
  BY DEF Player, Login, ChangeRealm, CancelStatus, Back, CloseMessage, JoinRealm,
         CancelRealmList, ChooseCharacter, AskCharacter, Free, Polling
<1>1. retry = FALSE /\ attempt \in {0, 1} /\ choosing \in BOOLEAN
  BY DEF IInv, TypeOK, LoginTyped, GlueTyped, Retrying
<1>2. CASE Login \/ ChangeRealm
  <2>1. /\ BeginAuth /\ attempt' = 0 /\ retry' = retry /\ phase' = "idle" /\ ~list
        /\ choosing' \in {choosing, TRUE}
        /\ UNCHANGED <<key, granted, twice, server, run, screen, list,
                       autoEnter, node>>
    BY <1>2 DEF Login, ChangeRealm, Free
  <2> QED
    BY <1>1, <2>1, AuthBegun
<1>4. CASE CancelStatus \/ Back \/ CancelRealmList
  <2>1. /\ Replace(0, 0) /\ made' = made /\ state' = "disconnected"
        /\ screen' = "login" /\ dialog' = "none" /\ list' = FALSE
        /\ UNCHANGED <<login, server, poll, choosing, autoEnter, node>>
    BY <1>4 DEF CancelStatus, Back, CancelRealmList, LogOut
  <2>2. /\ Owners' /\ dead' \subseteq 1 .. made /\ auth' = 0 /\ world' = 0
        /\ {auth', world', oldAuth', oldWorld'} \subseteq 0 .. made
        /\ oldAuth' = 0 /\ oldWorld' = 0
    BY <2>1, Replaced
  <2>3. Numbered'
    BY <2>1, <2>2 DEF IInv, TypeOK, Numbered, login, server, poll
  <2>4. LoginTyped' /\ ServerTyped' /\ GlueTyped'
    <3>1. LoginTyped' /\ ServerTyped'
      BY <2>1 DEF IInv, TypeOK, LoginTyped, ServerTyped, login, server
    <3>2. GlueTyped'
      BY <2>1 DEF IInv, TypeOK, GlueTyped, States
    <3> QED
      BY <3>1, <3>2
  <2>5. TypeOK' /\ Legs'
    BY <2>1, <2>2, <2>3, <2>4 DEF IInv, TypeOK, Legs, poll
  <2>6. Requests' /\ Keys' /\ Connected'
    BY <2>1, <2>2 DEF Requests, Keys, Connected
  <2>7. Retrying'
    BY <1>1, <2>1 DEF Retrying, login
  <2> QED
    BY <2>2, <2>5, <2>6, <2>7 DEF IInv
<1>5. CASE CloseMessage
  <2>1. /\ dialog = "message" /\ dialog' = "none"
        /\ UNCHANGED <<state, owned, login, server, poll, screen, list, choosing,
                       autoEnter, node>>
    BY <1>5 DEF CloseMessage
  <2>2. Numbered' /\ LoginTyped'
    BY <2>1 DEF IInv, TypeOK, Numbered, LoginTyped, owned, login, server, poll
  <2>3. ServerTyped' /\ GlueTyped'
    BY <2>1 DEF IInv, TypeOK, ServerTyped, GlueTyped, server
  <2>4. TypeOK'
    BY <2>1, <2>2, <2>3 DEF IInv, TypeOK, poll
  <2>5. Owners' /\ Legs'
    BY <2>1, OwnedKept DEF IInv, Legs, owned, login, server, poll
  <2>6. Requests' /\ Connected'
    BY <2>1 DEF IInv, Requests, Connected, owned, server
  <2>7. Keys' /\ Retrying'
    BY <1>1, <2>1 DEF IInv, Keys, Retrying, owned, login, server
  <2> QED
    BY <2>4, <2>5, <2>6, <2>7 DEF IInv
<1>6. CASE JoinRealm
  <2>1. auth # 0 /\ key = granted /\ hstate \in AuthStates
    BY <1>6 DEF JoinRealm, IInv, TypeOK, LoginTyped, Keys
  <2> QED
    BY <1>1, <1>6, <2>1, RealmSelected DEF JoinRealm, login
<1>7. CASE ChooseCharacter
  <2>1. /\ world # 0 /\ dialog = "none" /\ state' = "enteringWorld"
        /\ talk' \in {"none", "entering"} /\ screen' = "loading"
        /\ UNCHANGED <<owned, login, shown, enums, asked, wdown, poll, dialog,
                       list, choosing, autoEnter, node>>
    BY <1>7 DEF ChooseCharacter, EnterWorld, Answers, Free
  <2>2. enums = 0 /\ asked = FALSE
    BY <2>1 DEF IInv, TypeOK, ServerTyped, Requests
  <2>3. ServerTyped' /\ GlueTyped' /\ Requests'
    BY <2>1, <2>2 DEF IInv, TypeOK, ServerTyped, GlueTyped, States, Requests
  <2> QED
    BY <2>1, <2>3, WorldStepKeeps
<1>8. CASE AskCharacter
  <2>1. /\ world # 0 /\ dialog = "none" /\ ~list /\ screen = "select"
        /\ asked' \in BOOLEAN /\ dialog' = "status"
        /\ UNCHANGED <<state, owned, login, talk, shown, enums, wdown, poll,
                       screen, list, choosing, autoEnter, node>>
    BY <1>8 DEF AskCharacter, Free, IInv, TypeOK, ServerTyped
  <2>2. enums = 0 /\ state # "disconnected"
    BY <2>1 DEF IInv, TypeOK, ServerTyped, Requests, Connected
  <2>3. ServerTyped' /\ GlueTyped' /\ Requests'
    BY <2>1, <2>2 DEF IInv, TypeOK, ServerTyped, GlueTyped, States, Requests
  <2> QED
    BY <2>1, <2>2, <2>3, WorldStepKeeps
<1> QED
  BY <1>2, <1>4, <1>5, <1>6, <1>7, <1>8 DEF Player

(***************************************************************************)
(* The invariant, and what follows from it.                                *)
(***************************************************************************)
LEMMA StepKeeps == IInv /\ [Next]_vars => IInv'
<1> SUFFICES ASSUME IInv, [Next]_vars PROVE IInv'
  OBVIOUS
<1>1. CASE Poll
  BY <1>1, PollKeeps, LoginPacketKeeps, WorldKeeps DEF Poll
<1>2. CASE Connect \/ Player \/ ServerAccepts \/ WorldLost
  BY <1>2, ConnectKeeps, PlayerKeeps, AcceptKeeps, WorldKeeps
<1>3. CASE UNCHANGED vars
  <2>1. Numbered' /\ LoginTyped'
    BY <1>3 DEF IInv, TypeOK, Numbered, LoginTyped, vars, owned, login, server,
                poll
  <2>2. ServerTyped' /\ GlueTyped'
    BY <1>3 DEF IInv, TypeOK, ServerTyped, GlueTyped, vars, server, glue
  <2>3. Owners' /\ Legs' /\ Requests'
    BY <1>3 DEF IInv, Owners, Legs, Requests, vars, owned, login, server, poll,
                glue
  <2>4. Keys' /\ Retrying' /\ Connected'
    BY <1>3 DEF IInv, Keys, Retrying, Connected, vars, owned, login, server,
                poll, glue
  <2> QED
    BY <1>3, <2>1, <2>2, <2>3, <2>4 DEF IInv, TypeOK, vars, poll
<1> QED
  BY <1>1, <1>2, <1>3 DEF Next

\* The inductive invariant: types, owners, the legs of poll(), one request at a
\* time, the key, the retry, and the connection of each state.
THEOREM Invariance == Spec => []IInv
  BY InitInv, StepKeeps, PTL DEF Spec

\* Connections are numbered as they are made, and at most one retry is under
\* way (begin_auth, auth_attempt), whatever the servers and the player do.
THEOREM TypeCorrectness == Spec => []TypeOK
<1>1. IInv => TypeOK
  BY DEF IInv
<1> QED
  BY <1>1, Invariance, PTL

\* No callback runs on a destroyed connection: for any number of logins,
\* refusals, retries and changes of realm (retire_sockets, release_retired).
THEOREM CallbacksAlive == Spec => []StackAlive
<1>1. IInv => StackAlive
  <2> SUFFICES ASSUME IInv, run # 0 PROVE run \notin dead
    BY DEF StackAlive
  <2>1. dead = 1 .. made \ {auth, world, oldAuth, oldWorld}
    BY DEF IInv, Owners
  <2>2. run \in {auth, world, oldAuth, oldWorld}
    BY DEF IInv, Legs
  <2> QED
    BY <2>1, <2>2
<1> QED
  BY <1>1, Invariance, PTL

\* No connection leaks, and at most one is open between two calls of poll().
THEOREM NoneLeaks == Spec => []SocketsOwned
<1>1. IInv => SocketsOwned
  <2> SUFFICES ASSUME IInv
               PROVE  /\ auth = 0 \/ world = 0
                      /\ phase = "idle" => dead = 1 .. made \ {auth, world}
    BY DEF SocketsOwned, Polling
  <2>1. dead = 1 .. made \ {auth, world, oldAuth, oldWorld}
    BY DEF IInv, Owners
  <2>2. phase = "idle" => oldAuth = 0 /\ oldWorld = 0
    BY DEF IInv, Legs
  <2>3. auth = 0 \/ world = 0
    BY DEF IInv, Owners
  <2> QED
    BY <2>1, <2>2, <2>3
<1> QED
  BY <1>1, Invariance, PTL

\* The world server is shown the key of the last login (handle_world_packet).
THEOREM KeyIsCurrent == Spec => []KeyCurrent
<1>1. IInv => KeyCurrent
  BY DEF IInv, Keys, KeyCurrent
<1> QED
  BY <1>1, Invariance, PTL

\* A failure that was reported is left by the player's next login only, if the
\* login server says nothing more after its answer (poll, begin_auth).
THEOREM FailuresStay == Spec => FailureIsFinal
<1>1. IInv /\ [Next]_vars =>
          [~twice /\ state = "disconnected" /\ state' # state =>
               ~Polling /\ screen = "login" /\ dialog = "none"]_vars
  <2> SUFFICES ASSUME IInv, Next, ~twice, state = "disconnected",
                      state' # state
               PROVE  ~Polling /\ screen = "login" /\ dialog = "none"
    BY DEF vars
  <2>1. /\ auth = 0 /\ world = 0 /\ ~list /\ ~retry /\ screen = "login"
    BY DEF IInv, Connected, Keys, Retrying
  <2>2. ~Fail
    BY DEF Fail
  <2>3. CASE Connect
    BY <2>2, <2>3 DEF Connect, ConnectAuth, Authenticate, ConnectWorld
  <2>4. CASE Player
    BY <2>1, <2>4 DEF Player, Login, Free, ChangeRealm, CancelStatus, Back, LogOut,
          CloseMessage, JoinRealm, CancelRealmList, ChooseCharacter, AskCharacter
  <2>5. CASE LoginPacket
    <3>1. phase = "auth" => ~Heard
      BY <2>1 DEF IInv, Legs, Heard
    <3>2. \A protocol \in BOOLEAN : ~AuthFails(protocol)
      BY <2>2 DEF AuthFails
    <3> QED
      BY <2>5, <3>1, <3>2
         DEF LoginPacket, Challenged, ChallengeRefused, ProofRefused, RefusedLate,
             ProofAccepted, RealmList, Reading
  <2>6. CASE WorldPacket
    <3>1. ~Dispatching
      BY <2>1 DEF IInv, Legs, Dispatching, Heard
    <3> QED
      BY <2>6, <3>1
         DEF WorldPacket, AuthChallenge, AuthResponse, WorldRefuses, CharEnum,
             CharAnswer, CharacterLoginFailed, LoginVerifyWorld, LogoutComplete
  <2>7. CASE PollBegin \/ PollRetry \/ PollWorld \/ PollWorldDone \/ PollEnd
    BY <2>1, <2>2, <2>7 DEF PollBegin, PollRetry, PollWorld, PollWorldDone, PollEnd
  <2>8. CASE \E closed \in BOOLEAN : PollAuthDone(closed)
    BY <2>2, <2>8 DEF PollAuthDone, AuthFails
  <2>9. CASE ServerAccepts \/ WorldLost
    BY <2>9 DEF ServerAccepts, WorldLost
  <2> QED
    BY <2>3, <2>4, <2>5, <2>6, <2>7, <2>8, <2>9 DEF Next, Poll
<1> QED
  BY <1>1, Invariance, PTL DEF Spec, FailureIsFinal

-----------------------------------------------------------------------------
(***************************************************************************)
(* The screens.                                                            *)
(***************************************************************************)
Joined == {"connectingWorld", "characterList", "enteringWorld", "inWorld"}

\* The state says which connection there is, and what the world server was
\* told last; a lost one is told nothing.
StateOfConnections ==
    /\ auth # 0 <=> state \in {"authenticating", "realmList"}
    /\ world # 0 <=> state \in Joined
    /\ retry => world = 0

StateOfTalk ==
    world # 0 =>
        /\ talk \in {"hello", "auth"} => state = "connectingWorld"
        /\ talk = "none" => state \in {"connectingWorld", "enteringWorld"}
        /\ talk = "chars" => state = "characterList"
        /\ talk = "entering" => state = "enteringWorld"
        /\ talk = "world" => state = "inWorld"

\* The same of the screens, whatever dialog covers them.
StateOfScreens ==
    /\ node <=> state = "inWorld"
    /\ screen = "loading" <=> state \in {"enteringWorld", "inWorld"}
    /\ screen = "select" /\ ~list /\ dialog # "status" => state = "characterList"
    /\ list <=> state = "realmList"
    /\ state \in {"authenticating", "connectingWorld"} => dialog = "status"
    /\ state \in {"enteringWorld", "inWorld"} => dialog = "none"

\* connect() blocks on a world only while the session is on its way to one.
Connecting == busy = "world" => state = "connectingWorld"

ScreenInv == Connecting /\ StateOfConnections /\ StateOfTalk /\ StateOfScreens

LEMMA FailScreens == ASSUME Fail, busy' # "world" PROVE ScreenInv'
BY DEF Fail, Replace, ScreenInv, Connecting, StateOfConnections, StateOfTalk, StateOfScreens, Joined

\* A step that changes neither the connections nor what the Glue shows.
LEMMA ScreensKept ==
    ASSUME ScreenInv, UNCHANGED <<state, owned, glue, talk>>, retry' => retry \/ world = 0,
           busy' = busy \/ busy' = "no"
    PROVE  ScreenInv'
BY DEF ScreenInv, Connecting, StateOfConnections, StateOfTalk, StateOfScreens, owned, glue

LEMMA AuthFailsScreens ==
    ASSUME IInv, ScreenInv, NEW p \in BOOLEAN, AuthFails(p), phase = "auth", UNCHANGED server,
           busy = "no", busy' = "no"
    PROVE  ScreenInv'
<1>1. CASE UNCHANGED <<state, owned, glue>> /\ Heard
  <2>1. world = 0
    BY <1>1 DEF Heard, IInv, Legs, Owners
  <2> QED BY <1>1, <2>1, ScreensKept DEF server
<1>2. CASE UNCHANGED <<state, owned, glue, retry>>
  BY <1>2, ScreensKept DEF server
<1>3. CASE Fail /\ UNCHANGED retry
  BY <1>3, FailScreens
<1> QED BY <1>1, <1>2, <1>3 DEF AuthFails

LEMMA SelectScreens ==
    ASSUME IInv, ScreenInv, SelectRealm, auth # 0, screen # "loading", ~retry, UNCHANGED retry
    PROVE  ScreenInv'
<1>1. /\ auth' = 0 /\ world' # 0 /\ state' = "connectingWorld" /\ talk' = "none"
      /\ dialog' = "status" /\ list' = FALSE /\ UNCHANGED <<screen, node>>
  BY DEF SelectRealm, Replace, IInv, TypeOK, Numbered
<1>2. node = FALSE
  BY DEF ScreenInv, Connecting, StateOfConnections, StateOfScreens, IInv, TypeOK, GlueTyped
<1> QED BY <1>1, <1>2 DEF ScreenInv, Connecting, StateOfConnections, StateOfTalk, StateOfScreens, Joined

LEMMA BeginScreens ==
    ASSUME IInv, ScreenInv, BeginAuth, screen # "loading", ~list, UNCHANGED <<screen, node, list>>,
           retry' => retry
    PROVE  ScreenInv'
<1>1. /\ auth' # 0 /\ world' = 0 /\ state' = "authenticating" /\ dialog' = "status"
      /\ busy' = "auth"
  BY DEF BeginAuth, Replace, IInv, TypeOK, Numbered
<1>2. node = FALSE
  BY DEF ScreenInv, StateOfScreens, IInv, TypeOK, GlueTyped
<1> QED BY <1>1, <1>2 DEF ScreenInv, Connecting, StateOfConnections, StateOfTalk, StateOfScreens, Joined

LEMMA LogOutScreens ==
    ASSUME IInv, ScreenInv, LogOut, state # "inWorld", busy = "no" PROVE ScreenInv'
BY DEF LogOut, Replace, login, poll, ScreenInv, Connecting, StateOfConnections, StateOfTalk, StateOfScreens, Joined

LEMMA PollScreens == ASSUME IInv, ScreenInv, Poll PROVE ScreenInv'
<1>1. CASE PollBegin \/ PollWorld \/ PollEnd
  BY <1>1 DEF PollBegin, PollWorld, PollEnd, ScreenInv, Connecting, StateOfConnections, StateOfTalk,
              StateOfScreens, owned, login, server, glue
<1>2. CASE \E closed \in BOOLEAN : PollAuthDone(closed)
  <2>1. PICK closed \in BOOLEAN : PollAuthDone(closed)
    BY <1>2
  <2>2. CASE AuthFails(hstate = "challengeSent")
    BY <2>1, <2>2, AuthFailsScreens DEF PollAuthDone
  <2> QED BY <2>1, <2>2, ScreensKept DEF PollAuthDone, server
<1>3. CASE PollRetry
  <2>1. CASE retry
    <3>1. ~list /\ screen # "loading"
      BY <2>1 DEF IInv, Keys, Retrying, ScreenInv, Connecting, StateOfConnections, StateOfScreens, Joined,
                  TypeOK, GlueTyped, States
    <3> QED BY <1>3, <2>1, <3>1, BeginScreens DEF PollRetry, RetryDone
  <2>2. CASE ~retry
    BY <1>3, <2>2, ScreensKept DEF PollRetry, server
  <2> QED BY <2>1, <2>2
<1>4. CASE PollWorldDone
  <2>1. busy # "world" /\ busy' = busy /\ retry' = retry
    BY <1>4 DEF PollWorldDone, IInv, Legs, login
  <2> QED BY <1>4, <2>1, FailScreens, ScreensKept DEF PollWorldDone, server
<1>5. CASE LoginPacket
  <2>1. ASSUME NEW flags \in BOOLEAN, NEW code \in BOOLEAN, Challenged(flags, code)
        PROVE  ScreenInv'
    <3>1. CASE AuthFails(TRUE)
      BY <2>1, <3>1, AuthFailsScreens DEF Challenged, Reading, poll
    <3>2. CASE UNCHANGED <<state, owned, retry, glue>>
      BY <2>1, <3>2, ScreensKept DEF Challenged, server, poll
    <3> QED BY <2>1, <3>1, <3>2 DEF Challenged
  <2>2. ASSUME NEW p \in BOOLEAN, ChallengeRefused(p) \/ ProofRefused(p) PROVE ScreenInv'
    BY <2>2, AuthFailsScreens DEF ChallengeRefused, ProofRefused, Reading, poll
  <2>3. CASE RefusedLate
    BY <2>3, AuthFailsScreens DEF RefusedLate, Reading, poll
  <2>4. CASE ProofAccepted
    BY <2>4, ScreensKept DEF ProofAccepted, server, poll
  <2>5. ASSUME NEW known \in BOOLEAN, RealmList(known) PROVE ScreenInv'
    <3>1. auth # 0 /\ hstate = "realmListRequested" /\ ~retry /\ busy = "no"
      BY <2>5 DEF RealmList, Reading, Heard, IInv, Legs, Retrying
    <3>2. state \in {"authenticating", "realmList"} /\ screen # "loading"
      BY <3>1 DEF ScreenInv, Connecting, StateOfConnections, StateOfScreens
    <3>3. CASE SelectRealm
      BY <2>5, <3>1, <3>2, <3>3, SelectScreens DEF RealmList
    <3>4. CASE ~SelectRealm
      <4>1. /\ state' = "realmList" /\ dialog' = "none" /\ list' = TRUE
            /\ UNCHANGED <<auth, world, talk, screen, node, retry, busy>>
        BY <2>5, <3>4 DEF RealmList, owned, server
      <4>2. world = 0 /\ node = FALSE
        BY <3>1, <3>2 DEF IInv, Owners, ScreenInv, StateOfScreens, TypeOK, GlueTyped
      <4> QED BY <3>1, <3>2, <4>1, <4>2
              DEF ScreenInv, Connecting, StateOfConnections, StateOfTalk, StateOfScreens, Joined
    <3> QED BY <3>3, <3>4
  <2> QED BY <1>5, <2>1, <2>2, <2>3, <2>4, <2>5 DEF LoginPacket
<1>6. CASE WorldPacket
  <2>0. phase = "world" /\ world # 0 /\ auth = 0 /\ ~retry /\ busy # "world" /\ busy' = busy
    BY <1>6 DEF WorldPacket, AuthChallenge, AuthResponse, WorldRefuses, CharEnum, CharAnswer,
                CharacterLoginFailed, LoginVerifyWorld, LogoutComplete, Dispatching, Heard,
                IInv, Legs, Owners, Retrying, ListCharacters, poll
  <2>1. CASE AuthChallenge
    BY <2>0, <2>1 DEF AuthChallenge, Answers, ScreenInv, Connecting, StateOfConnections, StateOfTalk,
                      StateOfScreens, owned, login, glue
  <2>2. CASE AuthResponse \/ LogoutComplete
    BY <2>0, <2>2 DEF AuthResponse, LogoutComplete, ListCharacters, BackAtSelect, ScreenInv, Connecting,
                      StateOfConnections, StateOfTalk, StateOfScreens, Joined, owned, login
  <2>3. CASE WorldRefuses
    BY <2>0, <2>3, FailScreens DEF WorldRefuses
  <2>4. CASE CharEnum
    BY <2>0, <2>4 DEF CharEnum, EnterWorld, Answers, ScreenInv, Connecting, StateOfConnections, StateOfTalk,
                      StateOfScreens, Joined, owned, login
  <2>5. ASSUME NEW success \in BOOLEAN, CharAnswer(success) PROVE ScreenInv'
    BY <2>0, <2>5 DEF CharAnswer, ScreenInv, Connecting, StateOfConnections, StateOfTalk,
                      StateOfScreens, Joined, owned, login
  <2>6. CASE CharacterLoginFailed \/ LoginVerifyWorld
    BY <2>0, <2>6 DEF CharacterLoginFailed, LoginVerifyWorld, ScreenInv, Connecting, StateOfConnections,
                      StateOfTalk, StateOfScreens, Joined, owned, login
  <2> QED BY <1>6, <2>1, <2>2, <2>3, <2>4, <2>5, <2>6 DEF WorldPacket
<1> QED BY <1>1, <1>2, <1>3, <1>4, <1>5, <1>6 DEF Poll

LEMMA PlayerScreens == ASSUME IInv, ScreenInv, Player PROVE ScreenInv'
<1>1. phase = "idle" /\ ~retry /\ busy = "no"
  BY DEF Player, Login, ChangeRealm, CancelStatus, Back, CloseMessage, JoinRealm,
         CancelRealmList, ChooseCharacter, AskCharacter, Free, Polling, IInv, Retrying
<1>2. CASE Login \/ ChangeRealm
  BY <1>1, <1>2, BeginScreens DEF Login, ChangeRealm, Free
<1>3. CASE CancelStatus \/ Back \/ CancelRealmList
  <2>1. LogOut /\ state # "inWorld"
    BY <1>3 DEF CancelStatus, Back, CancelRealmList, Free, ScreenInv, StateOfScreens
  <2> QED BY <1>1, <2>1, LogOutScreens
<1>4. CASE JoinRealm
  <2>1. auth # 0 /\ screen # "loading"
    BY <1>4 DEF JoinRealm, ScreenInv, StateOfScreens, StateOfConnections
  <2> QED BY <1>1, <1>4, <2>1, SelectScreens DEF JoinRealm, login
<1>5. CASE CloseMessage \/ AskCharacter
  BY <1>1, <1>5 DEF CloseMessage, AskCharacter, Free, ScreenInv, Connecting, StateOfConnections,
                    StateOfTalk, StateOfScreens, Joined, owned, login, server, poll
<1>6. CASE ChooseCharacter
  <2>1. state = "characterList" /\ ~node /\ ~list
    BY <1>6 DEF ChooseCharacter, Free, ScreenInv, StateOfScreens
  <2> QED BY <1>1, <1>6, <2>1
          DEF ChooseCharacter, Free, EnterWorld, Answers, ScreenInv, Connecting, StateOfConnections,
              StateOfTalk, StateOfScreens, Joined, owned, login, poll
<1> QED BY <1>2, <1>3, <1>4, <1>5, <1>6 DEF Player

LEMMA ScreenStep == IInv /\ ScreenInv /\ [Next]_vars => ScreenInv'
<1> SUFFICES ASSUME IInv, ScreenInv, [Next]_vars PROVE ScreenInv'
  OBVIOUS
<1>1. CASE Connect
  <2>1. ASSUME NEW ok \in BOOLEAN, ConnectAuth(ok) PROVE ScreenInv'
    BY <2>1, FailScreens, ScreensKept DEF ConnectAuth, Authenticate, server
  <2>2. ASSUME NEW ok \in BOOLEAN, ConnectWorld(ok) PROVE ScreenInv'
    <3>1. CASE Fail
      BY <2>2, <3>1, FailScreens DEF ConnectWorld, login
    <3>2. CASE ~Fail
      <4>1. /\ UNCHANGED <<state, owned, glue, login>> /\ talk' = "hello"
            /\ busy = "world"
        BY <2>2, <3>2 DEF ConnectWorld
      <4>2. world # 0 /\ talk = "none" /\ busy' = "no"
        BY <2>2, <4>1 DEF IInv, Legs, ConnectWorld
      <4>3. state = "connectingWorld"
        BY <4>1 DEF ScreenInv, Connecting
      <4> QED BY <4>1, <4>2, <4>3
              DEF ScreenInv, Connecting, StateOfConnections, StateOfTalk, StateOfScreens, owned, glue, login
    <3> QED BY <3>1, <3>2
  <2> QED BY <1>1, <2>1, <2>2 DEF Connect
<1>2. CASE ServerAccepts \/ WorldLost \/ UNCHANGED vars
  BY <1>2, ScreensKept DEF ServerAccepts, WorldLost, vars, login, server, poll
<1> QED BY <1>1, <1>2, PollScreens, PlayerScreens DEF Next

\* What the player sees is what the session is in: the world stands only in
\* the world, a list of realms is up when one is to be chosen, and whoever
\* waits for a server has the dialog that lets him give up.
THEOREM ScreensFollowState == Spec => []ScreensAgree
<1>1. Init => ScreenInv
  BY DEF Init, ScreenInv, Connecting, StateOfConnections, StateOfTalk, StateOfScreens, Joined
<1>2. IInv /\ ScreenInv => ScreensAgree
  BY DEF IInv, Requests, ScreenInv, Connecting, StateOfConnections, StateOfScreens, Joined, ScreensAgree
<1> QED BY <1>1, <1>2, ScreenStep, Invariance, PTL DEF Spec

=============================================================================

---------------------------- MODULE LogonLayouts ----------------------------
(***************************************************************************)
(* The parsers of the login server's packets (extension/wowee/src/auth/    *)
(* auth_packets.cpp).  They ask for nothing: the connection hands them no  *)
(* packet before it is whole (module LogonFraming).                        *)
(***************************************************************************)
EXTENDS SharedLayouts

LogonChallengeResponse ==
    <<Read(2), Opt(<<Accept>>), Read(32), Count("g", 1), Bytes("g", 1),
      Count("N", 1), Bytes("N", 1), Read(32), Read(16), Read(1),
      Opt(<<Read(20)>>), Opt(<<Read(1)>>)>>

LogonProofResponse == <<Read(1), Opt(<<Accept>>), Read(20)>>

\* One realm, with the words of its client's version if it has one.  A realm
\* without a name is read again in the shape of the old protocol.
Realm(legacy) ==
    <<Read(IF legacy THEN 5 ELSE 3), Text, Text, Read(7), Opt(<<Read(5)>>)>>
RealmListResponse(legacy) ==
    <<Read(6), Count("realms", IF legacy THEN 1 ELSE 2),
      Times("realms", NoCap,
            IF legacy THEN Realm(TRUE)
            ELSE <<OneOf(<<Realm(FALSE), <<Peek(Realm(FALSE), Realm(TRUE))>> >>)>>)>>

=============================================================================

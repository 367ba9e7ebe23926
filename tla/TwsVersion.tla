----------------------------- MODULE TwsVersion -----------------------------
(***************************************************************************)
(* The version of the session, m_serverVersion of EClient: what the        *)
(* handshake (TwsSession) and the requests (TwsApi) have in common.        *)
(* Session says how it may change; TwsApi takes that for granted and       *)
(* TwsSession is shown to provide it.                                      *)
(***************************************************************************)
EXTENDS Integers

MIN_CLIENT_VER == 100
MAX_CLIENT_VER == 180

(* The versions serverVersion lets pass, and what m_serverVersion is       *)
(* without a session: unconnected, or connected and still in the handshake. *)
Version == MIN_CLIENT_VER .. MAX_CLIENT_VER
NoVersion == 0
AnyVersion == Version \cup {NoVersion}

VARIABLE version

begins(v) == version = NoVersion /\ version' = v
ends == version # NoVersion /\ version' = NoVersion

(* The version is one of those given from the handshake to the end of the  *)
(* session; no version follows another.                                    *)
Session(versions) ==
  version = NoVersion /\ [][(\E v \in versions : begins(v)) \/ ends]_version
=============================================================================

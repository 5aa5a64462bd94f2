-------------------------- MODULE MCPortalSessions --------------------------
(* One asset of each kind of connection profile: SSH, the protocols of the   *)
(* Guacamole client, databases, and an asset that has no profile.            *)
EXTENDS PortalSessions

MCProfile(a) == [kind |-> a, creds |-> a \in Kinds]
=============================================================================

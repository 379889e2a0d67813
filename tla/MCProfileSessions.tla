-------------------------- MODULE MCProfileSessions --------------------------
(***************************************************************************)
(* Constants of the TLC run of ProfileSessions.                            *)
(***************************************************************************)
EXTENDS ProfileSessions

CONSTANTS d, s, sessions

Two == {s, sessions}
One == {d}
ToSessions == {<<d, sessions>>}
=============================================================================

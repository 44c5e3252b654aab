----------------------------- MODULE MCMembers -----------------------------
(* Three users and two requests that are handled at the same time.          *)
EXTENDS Members

CONSTANTS u1, u2, u3, q1, q2
=============================================================================

----------------------------- MODULE MCSessions -----------------------------
(* A WebID that connects twice, and three calls. *)
EXTENDS Sessions

CONSTANTS s1, s2, c1, c2, c3

MCSessions == {s1, s2}
MCCallers  == {c1, c2, c3}
=============================================================================

------------------------- MODULE MCGarbageCollection -------------------------
(* Small instances of GarbageCollection. *)
EXTENDS GarbageCollection

CONSTANTS g, a, b, o1, o2, o3

\* The commit a replaces o1 by o2, which refers to o3; b adds o3 to o1.
MCBinds == (g :> {o1}) @@ (a :> {o2}) @@ (b :> {o1, o3})
MCReferences == (o1 :> {}) @@ (o2 :> {o3}) @@ (o3 :> {})
=============================================================================

--------------------------- MODULE MCDescriptors ---------------------------
(***************************************************************************)
(* A small instance of Descriptors: two full keys (one uncompressed), one  *)
(* x-only key whose text no full-key parser accepts, an opaque script that *)
(* is valid in BareCtx and one that is Tap-only, and opaque witnesses with *)
(* a script boolean (pushed as OP_1) and an empty element (OP_0).          *)
(***************************************************************************)
EXTENDS Descriptors

CONSTANTS k1, k2, x1, o1, o2

MCFullKeys == {k1, k2}
MCUncompressed == {k2}
MCXKeys == {x1}
MCOpaque == {o1, o2}
MCOpaqueCtx == [o \in MCOpaque |-> IF o = o2 THEN {"Tap"} ELSE {"Legacy", "Bare"}]
MCOpaqueWits == {<<OneByte>>, <<EmptyBytes, SigBytes>>}
=============================================================================

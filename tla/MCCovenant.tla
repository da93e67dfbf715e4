---------------------------- MODULE MCCovenant ----------------------------
(***************************************************************************)
(* A small instance of Covenant: two full keys (one uncompressed), one     *)
(* x-only key, and inner miniscripts at the edges of the limits new()     *)
(* enforces: exactly at the op ceiling with and without a free verify, one *)
(* op over it, no satisfaction at all, eight bytes over the size ceiling,  *)
(* and one that is not a Segwitv0 script.                                  *)
(***************************************************************************)
EXTENDS Covenant

CONSTANTS k1, k2, x1, o1, o2, o3, o4, o5, o6

MCFullKeys == {k1, k2}
MCUncompressed == {k2}
MCXKeys == {x1}
MCOpaque == {o1, o2, o3, o4, o5, o6}
MCOpaqueCtx == [o \in MCOpaque |-> IF o = o6 THEN {"Tap"} ELSE {"Legacy", "Segwitv0", "Bare"}]

\* 177 + 24 = 201 (at the ceiling); 178 + 24 - 1 = 201 (free verify); 178 + 24 = 202
MCOpsSat == [o \in MCOpaque |->
               CASE o = o1 -> 177 [] o = o2 -> 178 [] o = o3 -> 178
                 [] o = o4 -> NoOpCount [] OTHER -> 10]
MCFreeVerify == [o \in MCOpaque |-> o = o2]
\* 9950 + 58 > 10000
MCScriptSize == [o \in MCOpaque |-> IF o = o5 THEN 9950 ELSE 500]
MCMsKeys == [o \in MCOpaque |-> CASE o = o1 -> {k1, k2} [] o = o2 -> {} [] OTHER -> {k1}]
MCSighashTypes == {"ALL", "SINGLE"}
MCMsWitnesses == {<<SigBytes>>, <<EmptyBytes, SigBytes>>}
=============================================================================

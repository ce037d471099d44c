---------------------------- MODULE MCBufferPool ----------------------------
(***************************************************************************)
(* Model values and symmetry for the runs of BufferPool.  Threads, frames  *)
(* and the page contents other than Zero are interchangeable: nothing in   *)
(* the specification or in a property names a particular one.              *)
(***************************************************************************)
EXTENDS BufferPool

CONSTANTS t1, t2, t3, f1, f2, z, d1, nopage, noframe, nothread

MCThreads == {t1, t2}
MCThreeThreads == {t1, t2, t3}
MCFrames == {f1, f2}
MCData == {z, d1}
MCOneDatum == {z}
MCSymmetry == Permutations(MCThreads) \cup Permutations(MCFrames)

=============================================================================

--------------------------- MODULE MCKernelFrames ---------------------------
(* Small instance of KernelFrames. *)
EXTENDS KernelFrames
CONSTANTS a1, s1, w0, w1

MCTopicLists == {<<>>, <<w1, w0>>}
MCDataLists == {<<w0>>}
=============================================================================

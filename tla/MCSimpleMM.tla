----------------------------- MODULE MCSimpleMM -----------------------------
(***************************************************************************)
(* SimpleMM on small heaps, for TLC.                                       *)
(***************************************************************************)
EXTENDS SimpleMM

\* What the client stores: a cell that looks like the header of a free block
\* with a free predecessor, as header or as footer.
MCData == {[magic |-> 1, size |-> 1, free |-> 1, prevFree |-> 1]}
=============================================================================

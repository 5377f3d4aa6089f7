------------------------------- MODULE MCHeap -------------------------------
(* TLC instance of Heap: a heap of a dozen words, so that splitting, exact    *)
(* reuse, merging on either side and running into the stack all happen.       *)
EXTENDS Heap
=============================================================================

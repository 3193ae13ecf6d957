----------------------------- MODULE PageMemory -----------------------------
(***************************************************************************)
(* The memory that page tables lie in: frames, and what they hold when read*)
(* as tables.                                                              *)
(***************************************************************************)
EXTENDS PageWalk

CONSTANTS Frames,          \* the frames that may be tables
          PAGE_SIZE

ASSUME PoolAssumption == Frames # {} /\ Frames \subseteq Nat /\ NoFrame \notin Nat
ASSUME PageSizeAssumption == PAGE_SIZE \in Nat \ {0}

VARIABLES mem              \* the contents of Frames, as tables

=============================================================================

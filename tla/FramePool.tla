----------------------------- MODULE FramePool -----------------------------
(***************************************************************************)
(* What the kernel's frame allocator (kernel/src/mm/frame_alloc.rs)        *)
(* promises its callers, without bitmaps or regions: a pool of free frames *)
(* is opened once at boot, a frame is handed out to one holder at a time,  *)
(* None is answered only when no frame is free, and a frame that is given  *)
(* back becomes available again.                                           *)
(***************************************************************************)
EXTENDS Naturals

CONSTANT NoFrame           \* the answer None of alloc_frame

VARIABLES open,            \* whether create_frame_allocator has run
          free,            \* the frames that may be handed out
          owned,           \* the frames handed out and not given back
          ret              \* the answer of the last alloc_frame

vars == <<open, free, owned, ret>>

Init ==
    /\ open = FALSE
    /\ free = {}
    /\ owned = {}
    /\ ret = NoFrame

\* The boot code decides which frames are in the pool, once.
Open ==
    /\ ~open
    /\ open' = TRUE
    /\ free' \subseteq Nat
    /\ UNCHANGED <<owned, ret>>

Alloc ==
    /\ open
    /\ \E f \in free :
         /\ free' = free \ {f}
         /\ owned' = owned \cup {f}
         /\ ret' = f
    /\ UNCHANGED open

Exhausted ==
    /\ open
    /\ free = {}
    /\ ret' = NoFrame
    /\ UNCHANGED <<open, free, owned>>

Free ==
    /\ open
    /\ \E f \in owned :
         /\ free' = free \cup {f}
         /\ owned' = owned \ {f}
    /\ UNCHANGED <<open, ret>>

Next == Open \/ Alloc \/ Exhausted \/ Free

Spec == Init /\ [][Next]_vars
=============================================================================

---------------------------- MODULE MCUefiLoader ----------------------------
(***************************************************************************)
(* UefiLoader with kernels of two segments, linked as uefi-linker.ld does, *)
(* with and without a header that is not loaded between them.              *)
(***************************************************************************)
EXTENDS UefiLoader

MCFrames == 1 .. 17

\* Enough memory, and too little for each of the three allocations.
MCMemories == {1 .. 17, 1 .. 8, 1 .. 10, 2 .. 14}

Segment(page, size, file) ==
    [typ |-> "Load", vaddr |-> page, memory_size |-> size, file_size |-> file]
Note == [typ |-> "Other", vaddr |-> 0, memory_size |-> 1, file_size |-> 1]

MCExecutables ==
    {LET text == Segment(TextStart, s[1], s[1])
         data == Segment(TextStart + HeaderPages(text), s[2], s[3])
     IN  IF note THEN <<text, Note, data>> ELSE <<text, data>> :
        s \in {<<1, 3, 0>>, <<2, 4, 1>>, <<3, 1, 1>>, <<4, 2, 2>>}, note \in BOOLEAN}
=============================================================================

---------------------------- MODULE MCFlashDisk -----------------------------
(***************************************************************************)
(* FlashDisk for TLC: the disks it is checked with.                        *)
(***************************************************************************)
EXTENDS FlashDisk

\* One block is written again and again while the others keep full segments in
\* the way of compaction.
Moving == [segments |-> 4, pages |-> 3, unavailable |-> 9, background |-> FALSE,
           hot |-> {0}, maxCuts |-> 0, afterFault |-> TRUE]

\* All blocks of a disk with one segment in reserve, two of them with new
\* contents again and again.
Full == [segments |-> 3, pages |-> 2, unavailable |-> 2, background |-> FALSE,
         hot |-> 0..1, maxCuts |-> 0, afterFault |-> TRUE]

\* Erased and compacted in the background, up to the first write that fails.
Lazy == [segments |-> 3, pages |-> 2, unavailable |-> 4, background |-> TRUE,
         hot |-> 0..1, maxCuts |-> 0, afterFault |-> FALSE]

\* The power fails once.
Cut == [segments |-> 3, pages |-> 2, unavailable |-> 2, background |-> FALSE,
        hot |-> {0}, maxCuts |-> 1, afterFault |-> FALSE]

AllDisks == {Moving, Full, Lazy, Cut}
=============================================================================

------------------------------ MODULE MCQueue ------------------------------
(***************************************************************************)
(* Two consumers, one from the start and one from the end of the queue.    *)
(***************************************************************************)
EXTENDS Queue

MCFirstCursors == {HeadCursor, TailCursor}
ASSUME LargeEnough == RoomForThree
=============================================================================

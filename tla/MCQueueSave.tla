---------------------------- MODULE MCQueueSave ----------------------------
(***************************************************************************)
(* No consumers: the threads are those that put, save, reset and close.    *)
(***************************************************************************)
EXTENDS QueueSave

ASSUME LargeEnough == RoomForThree
=============================================================================

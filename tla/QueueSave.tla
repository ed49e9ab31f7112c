----------------------------- MODULE QueueSave -----------------------------
(***************************************************************************)
(* The queue file (Queue.cpp, Open, Close, Save, Autosave, Reset): the     *)
(* autosave thread and Close write the part of the ring that is not yet in *)
(* the file while other threads put events, because save_locked lets go of *)
(* _lock while it writes.                                                  *)
(*                                                                         *)
(* The file may be read back after any step: the process can die at any    *)
(* time, and what Open makes of the file at that moment is Opened.         *)
(***************************************************************************)
EXTENDS Queue, Sequences

CONSTANT Past \* cells that Reset reads behind the end of the buffer

ASSUME PastConstant == Past \in 0 .. DataSize

VARIABLES
  hdr,     \* FileHeader in the file
  disk,    \* the data part of the file
  save,    \* the save in progress (_save_active): its step and its plan
  closer,  \* the thread in Close: "none", "waits" for a save, "done"
  overrun, \* ghost: Put or Reset reached what a save was still writing
  late     \* ghost: Close met a save that had begun before the last Put

fvars == <<hdr, disk, save, closer, overrun, late>>
vars == <<qvars, fvars>>

-----------------------------------------------------------------------------
FileHeader(t, h, n) == [tail |-> t, head |-> h, next_id |-> n]

\* pc: "before" (first header), "data", "after" (second header), "end".
NoSave == [pc |-> "idle", before |-> FileHeader(0, 0, 1),
           after |-> FileHeader(0, 0, 1), cells |-> <<>>, done |-> 0]

SaveActive == save.pc # "idle"

\* Open found no file and made an empty one.
InitSave ==
  /\ Init
  /\ hdr = FileHeader(0, 0, 1)
  /\ disk = [j \in Index |-> Zero]
  /\ save = NoSave
  /\ closer = "none"
  /\ overrun = FALSE /\ late = FALSE

-----------------------------------------------------------------------------
(* save_locked *)

Span(from, to) == [k \in 1 .. (IF to > from THEN to - from ELSE 0) |-> from + k - 1]

\* The cells that are not in the file yet, in the order they are written.
Unsaved ==
  LET tail_size == DataSize - tail
  IN  IF tail <= head THEN Span(tail + saved_size, head)
      ELSE IF tail_size > saved_size
           THEN Span(tail + saved_size, DataSize) \o Span(0, head)
           ELSE Span(saved_size - tail_size, head)

\* Mutant: nothing is taken for saved.
SavedEnd_None == tail

\* Where the saved part ends.
SavedEnd ==
  IF head < tail /\ DataSize - tail <= saved_size
  THEN saved_size - (DataSize - tail)
  ELSE tail + saved_size

SaveBegin ==
  /\ ~SaveActive
  /\ save' = [pc |-> IF Unsaved = <<>> THEN "after" ELSE "before",
              before |-> FileHeader(tail, SavedEnd, next_id),
              after |-> FileHeader(tail, head, next_id),
              cells |-> Unsaved, done |-> 0]

\* Save, which Autosave calls after its delay or when enough is unsaved.
Save ==
  /\ ~put.busy /\ ~closed
  /\ SaveBegin
  /\ UNCHANGED <<qvars, hdr, disk, closer, overrun, late>>

\* Mutant: the header comes before the data.
WriteBefore_Final ==
  /\ save.pc = "before"
  /\ hdr' = save.after
  /\ save' = [save EXCEPT !.pc = "data"]
  /\ UNCHANGED <<qvars, disk, closer, overrun, late>>

\* From here to SaveEnd the thread does not hold _lock.
WriteBefore ==
  /\ save.pc = "before"
  /\ hdr' = save.before
  /\ save' = [save EXCEPT !.pc = "data"]
  /\ UNCHANGED <<qvars, disk, closer, overrun, late>>

WriteCell ==
  /\ save.pc = "data"
  /\ LET c == save.cells[save.done + 1]
     IN  disk' = [disk EXCEPT ![c] = mem[c]]
  /\ save' = [save EXCEPT !.done = @ + 1,
                          !.pc = IF save.done + 1 = Len(save.cells) THEN "after" ELSE @]
  /\ UNCHANGED <<qvars, hdr, closer, overrun, late>>

WriteAfter ==
  /\ save.pc = "after"
  /\ hdr' = save.after
  /\ save' = [save EXCEPT !.pc = "end"]
  /\ UNCHANGED <<qvars, disk, closer, overrun, late>>

SaveEnd ==
  /\ save.pc = "end" /\ ~put.busy
  /\ saved_size' = saved_size + Len(save.cells)
  /\ save' = NoSave
  /\ UNCHANGED <<mem, head, tail, next_id, first, pos, closed, int_id, put, get,
                 cur, astray, hdr, disk, closer, overrun, late>>

-----------------------------------------------------------------------------
(* Close, Reset and Put as the file sees them *)

\* A save in progress is not started again, whatever was put since it began.
CloseCall ==
  /\ Close
  /\ closer' = "waits"
  /\ IF SaveActive THEN UNCHANGED save ELSE SaveBegin
  /\ late' = (SaveActive /\ next_id # save.after.next_id)
  /\ UNCHANGED <<hdr, disk, overrun>>

\* Mutant: Close does not wait for the save.
CloseReturn_NoWait ==
  /\ closer = "waits" /\ ~put.busy
  /\ closer' = "done"
  /\ UNCHANGED <<qvars, hdr, disk, save, overrun, late>>

CloseReturn ==
  /\ closer = "waits" /\ ~SaveActive /\ ~put.busy
  /\ closer' = "done"
  /\ UNCHANGED <<qvars, hdr, disk, save, overrun, late>>

Junk == Block("JUNK", 0, 0)

\* The header and the cleared buffer go to the file, from Past cells too far on.
\* The callers (Output threads) are stopped before Close.
ResetFile ==
  /\ ~closed
  /\ Reset
  /\ hdr' = FileHeader(0, 0, next_id)
  /\ disk' = [j \in Index |-> IF j < DataSize - Past THEN Zero ELSE Junk]
  /\ overrun' = (overrun \/ SaveActive)
  /\ UNCHANGED <<save, closer, late>>

PutRuns ==
  /\ Put
  /\ overrun' = (overrun \/ (SaveActive /\ Overwritten > saved_size /\ ~put'.busy))
  /\ UNCHANGED <<hdr, disk, save, closer, late>>

-----------------------------------------------------------------------------
NextSave ==
  \/ PutRuns
  \/ Save \/ WriteBefore \/ WriteCell \/ WriteAfter \/ SaveEnd
  \/ CloseCall \/ CloseReturn
  \/ ResetFile

SpecSave == InitSave /\ [][NextSave]_vars

-----------------------------------------------------------------------------
(* Open on an existing file *)

InFile(j) ==
  IF hdr.tail <= hdr.head THEN hdr.tail <= j /\ j < hdr.head
                          ELSE hdr.tail <= j \/ j < hdr.head

Opened ==
  IF hdr.tail = hdr.head
  THEN [mem |-> [j \in Index |-> Zero], tail |-> 0, head |-> 0]
  ELSE [mem |-> [j \in Index |-> IF j = hdr.head THEN Block("HEAD", 0, 0)
                                 ELSE IF InFile(j) THEN disk[j] ELSE Zero],
        tail |-> hdr.tail, head |-> hdr.head]

-----------------------------------------------------------------------------
(* Properties *)

\* The blocks from the tail on, as Get and allocate_locked would walk them.
Walk(q) ==
  LET at[k \in 0 .. DataSize] ==
        IF k = 0 THEN SkipWrap(q.mem, q.tail)
        ELSE LET p == at[k - 1]
             IN  IF q.mem[p].state = "ITEM" /\ EndOf(q.mem, p) \in Index
                 THEN SkipWrap(q.mem, EndOf(q.mem, p)) ELSE p
  IN  at

Whole(m, p, n) ==
  /\ p \in Index /\ m[p].state = "ITEM" /\ m[p].id = n
  /\ \A j \in p + 1 .. EndOf(m, p) - 1 : j \in Index /\ m[j] = Payload(n)

\* The file can be opened at any moment, in the middle of a save as well: it
\* holds a chain of whole items with consecutive ids below its next_id.
FileLoads ==
  ~overrun =>
    LET q == Opened
        at == Walk(q)
    IN  \E k \in 0 .. DataSize :
          /\ at[k] = q.head
          /\ \A j \in 0 .. k - 1 : Whole(q.mem, at[j], q.mem[at[0]].id + j)
          /\ k > 0 => q.mem[at[0]].id + k - 1 < hdr.next_id

\* The items among the first saved_size cells of the ring.
SavedItems ==
  {n \in Live : (IF tail <= pos[n] THEN pos[n] - tail ELSE pos[n] + DataSize - tail)
                  + Hdr + mem[pos[n]].size <= saved_size}

\* What a save has brought to the file stays there until Put gives it up: dying
\* in a later save loses none of it.
SavedStays ==
  ~overrun /\ ~put.busy =>
    \A n \in SavedItems : Whole(Opened.mem, pos[n], n)

\* Close leaves every item of the queue in the file, and the next session
\* continues with the next id.
CloseKeepsAll ==
  closer = "done" /\ ~overrun /\ ~late =>
    /\ hdr = FileHeader(tail, head, next_id)
    /\ \A n \in Live : Whole(Opened.mem, pos[n], n)
=============================================================================

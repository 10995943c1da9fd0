------------------------- MODULE CrateBufferedOutput -------------------------
(***************************************************************************)
(* Writing a crate file through buffers that a task writes out behind the  *)
(* program's back (CrateFile::_BufferedOutput in pxr/usd/sdf/crateFile.cpp *)
(* with a WorkSingularTask).                                               *)
(*                                                                         *)
(* One thread, the writer, calls Write, Seek and Flush.  A byte is the     *)
(* number of the Write it comes from; Stale is what a buffer holds that    *)
(* was never filled.  A buffer that is pushed, popped or recycled moves, so*)
(* nobody sees it in two places; those in _freeBuffers are counted.        *)
(***************************************************************************)
EXTENDS Integers, Sequences

CONSTANTS
    FileEnd,     \* positions in the file are 0 .. FileEnd - 1
    BufferCap,
    NumBuffers,
    MaxCalls,    \* bound on the calls of the writer
    Runs         \* runs of the task, for its module

ASSUME OutputAssumption ==
    /\ FileEnd \in Nat /\ MaxCalls \in Nat
    /\ BufferCap \in Nat \ {0} /\ NumBuffers \in Nat \ {0, 1}

VARIABLES
    filePos, bufferPos,
    buffer,          \* _buffer: its bytes and size
    freeBuffers,     \* how many are in _freeBuffers
    writeQueue,      \* _writeQueue: buffers with their positions
    op,              \* per run, the operations it has popped and not done
    disk,            \* the asset's bytes
    pc, todo,        \* where the writer is, and in which call
    calls,           \* how many calls it has made
    image,           \* the bytes as the program wrote them
    count, waker, run, old, due     \* the task's

taskVars == <<count, waker, run, old, due>>
outputVars == <<filePos, bufferPos, buffer, image>>
vars == <<outputVars, freeBuffers, writeQueue, op, disk, pc, todo, calls, taskVars>>

Writer == "writer"
Task == INSTANCE WorkSingularTask WITH Wakers <- {Writer}

Positions == 0 .. FileEnd - 1
Stale == -1
Bytes == {Stale} \cup 0 .. MaxCalls
EmptyBuffer == [bytes |-> [i \in 0 .. BufferCap - 1 |-> Stale], size |-> 0]

Init ==
    /\ filePos = 0 /\ bufferPos = 0
    /\ buffer = EmptyBuffer
    /\ freeBuffers = NumBuffers - 1
    /\ writeQueue = <<>>
    /\ op = [k \in Runs |-> <<>>]
    /\ disk = [x \in Positions |-> 0]
    /\ pc = "idle"
    /\ todo = [call |-> "none"]
    /\ calls = 0
    /\ image = disk
    /\ Task!Init

----------------------------------------------------------------------------
(* The writer                                                              *)

Called(call) ==
    /\ pc = "idle" /\ calls < MaxCalls
    /\ calls' = calls + 1
    /\ todo' = call

Write(n) ==
    /\ Called([call |-> "Write", left |-> n])
    /\ filePos + n <= FileEnd
    /\ pc' = "write"
    /\ UNCHANGED <<outputVars, freeBuffers, writeQueue, op, disk, taskVars>>

(* The buffer's size when n bytes are put at start.                        *)
(* Faulty: as if every write were at the end.                              *)
SizeIsEnd(start, n) == start + n
SizeWith(start, n) == IF start + n > buffer.size THEN start + n ELSE buffer.size

(* One turn of Write's loop, with _WriteToBuffer.                          *)
WriteToBuffer ==
    LET available == BufferCap - (filePos - bufferPos)
        n == IF todo.left < available THEN todo.left ELSE available
        start == filePos - bufferPos
    IN  /\ pc = "write" /\ todo.left > 0
        /\ buffer' =
               [bytes |-> [i \in DOMAIN buffer.bytes |->
                              IF i \in start .. start + n - 1 THEN calls
                              ELSE buffer.bytes[i]],
                size |-> SizeWith(start, n)]
        /\ image' = [x \in Positions |->
                        IF x \in filePos .. filePos + n - 1 THEN calls ELSE image[x]]
        /\ filePos' = filePos + n
        /\ todo' = [todo EXCEPT !.left = @ - n]
        /\ pc' = IF n = available THEN "flush" ELSE "write"
        /\ UNCHANGED <<bufferPos, freeBuffers, writeQueue, op, disk, calls, taskVars>>

Written ==
    /\ pc = "write" /\ todo.left = 0
    /\ pc' = "idle"
    /\ UNCHANGED <<outputVars, freeBuffers, writeQueue, op, disk, todo, calls, taskVars>>

Within(offset) == offset >= bufferPos /\ offset <= bufferPos + buffer.size

Seek(offset) ==
    /\ Called([call |-> "Seek", to |-> offset])
    /\ IF Within(offset)
       THEN filePos' = offset /\ pc' = pc
       ELSE filePos' = filePos /\ pc' = "flush"
    /\ UNCHANGED <<bufferPos, buffer, image, freeBuffers, writeQueue, op, disk, taskVars>>

Flush ==
    /\ Called([call |-> "Flush"])
    /\ pc' = "flush"
    /\ UNCHANGED <<outputVars, freeBuffers, writeQueue, op, disk, taskVars>>

(* The end of _FlushBuffer, and what its caller does next.                 *)
Flushed ==
    /\ IF todo.call = "Seek"
       THEN filePos' = todo.to /\ bufferPos' = todo.to
       ELSE filePos' = filePos /\ bufferPos' = filePos
    /\ pc' = CASE todo.call = "Write" -> "write"
               [] todo.call = "Seek"  -> "idle"
               [] todo.call = "Flush" -> "wait"

FlushNothing ==
    /\ pc = "flush" /\ buffer.size = 0
    /\ Flushed
    /\ UNCHANGED <<buffer, image, freeBuffers, writeQueue, op, disk, todo, calls, taskVars>>

QueueWrite ==
    /\ pc = "flush" /\ buffer.size # 0
    /\ writeQueue' = Append(writeQueue, [buf |-> buffer, pos |-> bufferPos])
    /\ buffer' = EmptyBuffer
    /\ pc' = "wake"
    /\ UNCHANGED <<filePos, bufferPos, image, freeBuffers, op, disk, todo, calls, taskVars>>

(* Faulty: leaves that to whoever runs.                                    *)
WakeForgotten ==
    /\ pc = "wake"
    /\ pc' = "get"
    /\ UNCHANGED <<outputVars, freeBuffers, writeQueue, op, disk, todo, calls, taskVars>>

Wake ==
    /\ pc = "wake"
    /\ Task!Bump(Writer)
    /\ pc' = IF count = 0 THEN "spawn" ELSE "get"
    /\ UNCHANGED <<outputVars, freeBuffers, writeQueue, op, disk, todo, calls>>

SpawnRun ==
    /\ pc = "spawn"
    /\ Task!Spawn(Writer)
    /\ pc' = "get"
    /\ UNCHANGED <<outputVars, freeBuffers, writeQueue, op, disk, todo, calls>>

GetBuffer ==
    /\ pc = "get" /\ freeBuffers > 0
    /\ freeBuffers' = freeBuffers - 1
    /\ Flushed
    /\ UNCHANGED <<buffer, image, writeQueue, op, disk, todo, calls, taskVars>>

NoBuffer ==
    /\ pc = "get" /\ freeBuffers = 0
    /\ pc' = "getWait"
    /\ UNCHANGED <<outputVars, freeBuffers, writeQueue, op, disk, todo, calls, taskVars>>

(* The dispatcher's Wait, in Flush and while there is no free buffer.      *)
Wait ==
    /\ pc \in {"wait", "getWait"}
    /\ Task!AllDone
    /\ pc' = IF pc = "wait" THEN "idle" ELSE "get"
    /\ UNCHANGED <<outputVars, freeBuffers, writeQueue, op, disk, todo, calls, taskVars>>

----------------------------------------------------------------------------
(* The task: _DoWrites, called by a run                                    *)

writerVars == <<outputVars, pc, todo, calls>>

StartRun(k) ==
    /\ Task!Start(k)
    /\ UNCHANGED <<writerVars, freeBuffers, writeQueue, op, disk>>

TryPop(k) ==
    /\ run[k] = "calling" /\ op[k] = <<>> /\ writeQueue # <<>>
    /\ op' = [op EXCEPT ![k] = <<Head(writeQueue)>>]
    /\ writeQueue' = Tail(writeQueue)
    /\ UNCHANGED <<writerVars, freeBuffers, disk, taskVars>>

Covers(o, x) == x \in o.pos .. o.pos + o.buf.size - 1
ByteAt(o, x) == o.buf.bytes[x - o.pos]

Recycled == freeBuffers + 1

WriteToAsset(k) ==
    /\ op[k] # <<>>
    /\ LET o == Head(op[k])
       IN  disk' = [x \in Positions |-> IF Covers(o, x) THEN ByteAt(o, x) ELSE disk[x]]
    /\ op' = [op EXCEPT ![k] = <<>>]
    /\ freeBuffers' = Recycled
    /\ UNCHANGED <<writerVars, writeQueue, taskVars>>

(* The queue is seen empty; until the run has finished, the writer may     *)
(* push.                                                                   *)
ReturnFromCall(k) ==
    /\ op[k] = <<>> /\ writeQueue = <<>>
    /\ Task!Return(k)
    /\ UNCHANGED <<writerVars, freeBuffers, writeQueue, op, disk>>

EndRun(k) ==
    /\ Task!Finish(k) \/ Task!CallAgain(k)
    /\ UNCHANGED <<writerVars, freeBuffers, writeQueue, op, disk>>

WriterNext ==
    \/ \E n \in 1 .. FileEnd : Write(n)
    \/ \E offset \in 0 .. FileEnd : Seek(offset)
    \/ Flush
    \/ WriteToBuffer \/ Written \/ FlushNothing \/ QueueWrite
    \/ Wake \/ SpawnRun \/ GetBuffer \/ NoBuffer \/ Wait

RunNext(k) ==
    StartRun(k) \/ TryPop(k) \/ WriteToAsset(k) \/ ReturnFromCall(k) \/ EndRun(k)

Next == WriterNext \/ \E k \in Runs : RunNext(k)

Spec == Init /\ [][Next]_vars

(* A call that was made goes on, and the dispatcher runs what it was given.*)
FairSpec ==
    /\ Spec
    /\ WF_vars(WriterNext /\ pc # "idle")
    /\ \A k \in Runs : WF_vars(RunNext(k))

----------------------------------------------------------------------------
(* Properties                                                              *)

TypeOK ==
    /\ filePos \in 0 .. FileEnd /\ bufferPos \in 0 .. FileEnd
    /\ buffer.bytes \in [0 .. BufferCap - 1 -> Bytes]
    /\ buffer.size \in 0 .. BufferCap
    /\ freeBuffers \in 0 .. NumBuffers
    /\ disk \in [Positions -> Bytes] /\ image \in [Positions -> Bytes]
    /\ Task!TypeOK

(* The buffers on their way to the disk, the oldest first, and the one     *)
(* being filled.                                                           *)
Popped ==
    IF \E k \in Runs : op[k] # <<>>
    THEN op[CHOOSE k \in Runs : op[k] # <<>>] ELSE <<>>
Pending == Popped \o writeQueue \o <<[buf |-> buffer, pos |-> bufferPos]>>

(* What the file will have at x: the youngest buffer's byte.               *)
Youngest(x) ==
    LET at == {i \in DOMAIN Pending : Covers(Pending[i], x)}
    IN  IF at = {} THEN disk[x]
        ELSE ByteAt(Pending[CHOOSE i \in at : \A j \in at : j <= i], x)

(* Whatever the program wrote, and wherever it sought, is in the last      *)
(* buffer that covers the place, or on the disk: the buffers are written   *)
(* out in the order they were filled, and no stale byte with them.         *)
NothingLost == \A x \in Positions : Youngest(x) = image[x]

(* When Flush returns, the file is as the program wrote it.                *)
FlushWritesAll ==
    [][pc = "wait" /\ pc' = "idle" => disk' = image']_vars

(* The buffers go round: NumBuffers of them, none lost and none new.       *)
BuffersExact ==
    freeBuffers + Len(writeQueue) + Len(Popped)
        + (IF pc \in {"wake", "spawn", "get", "getWait"} THEN 0 ELSE 1) = NumBuffers

(* The writing task runs alone, and no wake-up of it is lost.              *)
RunsAlone == Task!RunsAlone
NoWakeLost == Task!NoWakeLost

(* A write that finds no free buffer goes on, and a flush returns.         *)
CallsReturn == pc # "idle" ~> pc = "idle"

=============================================================================

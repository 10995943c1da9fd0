----------------------------- MODULE Sdf_proofs -----------------------------
(***************************************************************************)
(* Proofs about two parts of Sdf: the buffered output of crate files, for  *)
(* any sizes of the file and of the buffers, any number of buffers, of     *)
(* calls and of runs of the task, and the nodes behind paths, for any      *)
(* finite numbers of threads and of nodes and any depth of paths.          *)
(***************************************************************************)
EXTENDS CrateBufferedOutput, SdfPathNode,
        SequenceTheorems, FiniteSetTheorems, WellFoundedInduction, TLAPS

-----------------------------------------------------------------------------
(* The buffered output: no byte is lost or overtaken by an older one, and  *)
(* when Flush returns they are all in the file.                            *)

TaskProofs == INSTANCE WorkSingularTask_proofs WITH Wakers <- {Writer}

Buffers == [bytes : [0 .. BufferCap - 1 -> Bytes], size : 0 .. BufferCap]
Entries == [buf : Buffers, pos : 0 .. FileEnd]
Todos == [call : {"none", "Flush"}] \cup [call : {"Write"}, left : 0 .. FileEnd]
            \cup [call : {"Seek"}, to : 0 .. FileEnd]
Places == {"idle", "write", "flush", "wake", "spawn", "get", "getWait", "wait"}

OutputTyped ==
    /\ filePos \in 0 .. FileEnd /\ bufferPos \in 0 .. FileEnd
    /\ buffer \in Buffers
    /\ freeBuffers \in Int
    /\ disk \in [Positions -> Bytes] /\ image \in [Positions -> Bytes]
    /\ writeQueue \in Seq(Entries)
    /\ op \in [Runs -> {<<>>} \cup {<<e>> : e \in Entries}]
    /\ pc \in Places /\ todo \in Todos /\ calls \in 0 .. MaxCalls

(* Between two flushes the position is in the buffer or just behind it, so *)
(* that a write leaves no gap; a write ends in the file.                   *)
PositionInBuffer ==
    /\ pc \in {"idle", "write", "wait"} =>
           bufferPos <= filePos /\ filePos <= bufferPos + buffer.size
    /\ pc \in {"wake", "spawn", "get", "getWait", "wait"} => buffer.size = 0
    /\ pc \notin {"idle", "write"} => todo.call # "none"
    /\ pc = "write" => todo.call = "Write"
    /\ pc # "idle" /\ todo.call = "Write" => filePos + todo.left <= FileEnd

(* What is popped belongs to a run in its call, and the writer spawns only *)
(* at its own place.                                                       *)
RunsWrite ==
    /\ \A k \in Runs : op[k] # <<>> => run[k] = "calling"
    /\ waker[Writer] = "spawning" => pc = "spawn"

(* A queue that is not empty has somebody who is to empty it.              *)
QueueIsServed ==
    writeQueue # <<>> =>
        \/ pc = "wake" \/ due # {} \/ \E k \in Runs : run[k] = "calling"

(* At x, the buffers in s over the disk d show v: the youngest that covers *)
(* x has it, or none covers x and the disk has it.                         *)
Shows(s, d, x, v) ==
    \/ v = d[x] /\ \A i \in DOMAIN s : ~Covers(s[i], x)
    \/ \E i \in DOMAIN s :
          /\ Covers(s[i], x) /\ v = ByteAt(s[i], x)
          /\ \A j \in DOMAIN s : j > i => ~Covers(s[j], x)

Filling == [buf |-> buffer, pos |-> bufferPos]
InFlight == Popped \o writeQueue

AllShown ==
    \A x \in Positions : Shows(Append(InFlight, Filling), disk, x, image[x])

CrateInv ==
    /\ OutputTyped /\ PositionInBuffer /\ RunsWrite /\ QueueIsServed /\ AllShown
    /\ BuffersExact
    /\ TaskProofs!IInv

-----------------------------------------------------------------------------
(* Sequences of buffers                                                    *)

(* A buffer added at the end hides what it covers.                         *)
LEMMA ShowsAppend ==
    ASSUME NEW S, NEW s \in Seq(S), NEW e \in S, NEW d, NEW x, NEW v
    PROVE  Shows(Append(s, e), d, x, v) <=>
               IF Covers(e, x) THEN v = ByteAt(e, x) ELSE Shows(s, d, x, v)
<1> DEFINE a == Append(s, e)
<1>1. /\ Len(s) \in Nat /\ DOMAIN s = 1 .. Len(s)
      /\ DOMAIN a = 1 .. (Len(s) + 1)
      /\ \A i \in 1 .. Len(s) : a[i] = s[i]
      /\ a[Len(s) + 1] = e
  BY AppendProperties, LenProperties
<1> HIDE DEF a
<1>2. CASE Covers(e, x)
  <2>1. \A i \in DOMAIN a : i # Len(s) + 1 => Len(s) + 1 > i
    BY <1>1
  <2> QED
    BY <1>1, <1>2, <2>1 DEF Shows, a
<1>3. CASE ~Covers(e, x)
  <2>1. (\A i \in DOMAIN a : ~Covers(a[i], x)) <=> (\A i \in DOMAIN s : ~Covers(s[i], x))
    BY <1>1, <1>3
  <2>2. ASSUME NEW i \in DOMAIN s
        PROVE  (\A j \in DOMAIN a : j > i => ~Covers(a[j], x))
                   <=> (\A j \in DOMAIN s : j > i => ~Covers(s[j], x))
    BY <1>1, <1>3
  <2>3. ASSUME NEW i \in DOMAIN a, Covers(a[i], x) PROVE i \in DOMAIN s /\ a[i] = s[i]
    BY <1>1, <1>3, <2>3
  <2>4. \A i \in DOMAIN s : i \in DOMAIN a /\ a[i] = s[i]
    BY <1>1
  <2> QED
    BY <1>3, <2>1, <2>2, <2>3, <2>4 DEF Shows, a
<1> QED
  BY <1>2, <1>3

(* The oldest buffer can as well be on the disk.                           *)
LEMMA ShowsTail ==
    ASSUME NEW S, NEW s \in Seq(S), s # <<>>, NEW d, NEW d2, NEW x, NEW v,
           d2[x] = (IF Covers(Head(s), x) THEN ByteAt(Head(s), x) ELSE d[x])
    PROVE  Shows(s, d, x, v) => Shows(Tail(s), d2, x, v)
<1> DEFINE r == Tail(s)
<1>1. /\ Len(s) \in Nat /\ DOMAIN s = 1 .. Len(s) /\ Len(s) > 0
      /\ DOMAIN r = 1 .. (Len(s) - 1)
      /\ \A i \in 1 .. (Len(s) - 1) : r[i] = s[i + 1]
      /\ Head(s) = s[1]
  BY HeadTailProperties, LenProperties, EmptySeq
<1> HIDE DEF r
<1>2. CASE \A i \in DOMAIN s : ~Covers(s[i], x)
  <2>1. \A i \in DOMAIN r : ~Covers(r[i], x)
    BY <1>1, <1>2
  <2>2. d2[x] = d[x]
    BY <1>1, <1>2
  <2> QED
    BY <1>2, <2>1, <2>2 DEF Shows, r
<1>3. ASSUME NEW i \in DOMAIN s, Covers(s[i], x), v = ByteAt(s[i], x),
             \A j \in DOMAIN s : j > i => ~Covers(s[j], x)
      PROVE  Shows(r, d2, x, v)
  <2>1. CASE i = 1
    <3>1. \A j \in DOMAIN r : ~Covers(r[j], x)
      BY <1>1, <1>3, <2>1
    <3>2. d2[x] = v
      BY <1>1, <1>3, <2>1
    <3> QED
      BY <3>1, <3>2 DEF Shows
  <2>2. CASE i # 1
    <3>1. i - 1 \in DOMAIN r /\ r[i - 1] = s[i]
      BY <1>1, <1>3, <2>2
    <3>2. \A j \in DOMAIN r : j > i - 1 => ~Covers(r[j], x)
      BY <1>1, <1>3, <2>2
    <3> QED
      BY <1>3, <3>1, <3>2 DEF Shows
  <2> QED
    BY <2>1, <2>2
<1> QED
  BY <1>2, <1>3 DEF Shows, r

-----------------------------------------------------------------------------
(* The task                                                                *)

LEMMA TaskKept == TaskProofs!IInv /\ [Next]_vars => TaskProofs!IInv'
<1> SUFFICES ASSUME TaskProofs!IInv, [Next]_vars PROVE TaskProofs!IInv'
  OBVIOUS
<1>1. CASE UNCHANGED taskVars
  BY <1>1 DEF taskVars, TaskProofs!IInv, TaskProofs!TypeOK, TaskProofs!OneAtWork,
     TaskProofs!NoWakeLost, TaskProofs!Spawning, TaskProofs!Live
<1>2. CASE Wake
  <2>1. TaskProofs!Bump(Writer)
    BY <1>2 DEF Wake, Task!Bump, TaskProofs!Bump
  <2> QED
    BY <2>1, TaskProofs!BumpPreserves
<1>3. CASE SpawnRun
  <2>1. TaskProofs!Spawn(Writer)
    BY <1>3 DEF SpawnRun, Task!Spawn, TaskProofs!Spawn
  <2> QED
    BY <2>1, TaskProofs!SpawnPreserves
<1>4. ASSUME NEW k \in Runs, StartRun(k) \/ ReturnFromCall(k) \/ EndRun(k)
      PROVE  TaskProofs!IInv'
  <2>1. \/ TaskProofs!Start(k) \/ TaskProofs!Return(k) \/ TaskProofs!CallAgain(k)
        \/ TaskProofs!Finish(k)
    BY <1>4 DEF StartRun, ReturnFromCall, EndRun, Task!Start, Task!Return,
       Task!CallAgain, Task!Finish, Task!Look, TaskProofs!Start, TaskProofs!Return,
       TaskProofs!CallAgain, TaskProofs!Finish, TaskProofs!Look
  <2> QED
    BY <2>1, TaskProofs!CallPreserves, TaskProofs!FinishPreserves
<1>5. (\E n : Write(n)) \/ (\E offset : Seek(offset)) \/ Flush \/ WriteToBuffer \/ Written
      \/ FlushNothing \/ QueueWrite \/ GetBuffer \/ NoBuffer \/ Wait
      \/ (\E k \in Runs : TryPop(k) \/ WriteToAsset(k)) \/ UNCHANGED vars
      => UNCHANGED taskVars
  BY DEF Write, Seek, Flush, WriteToBuffer, Written, FlushNothing, QueueWrite, GetBuffer,
     NoBuffer, Wait, TryPop, WriteToAsset, vars
<1> QED
  BY <1>1, <1>2, <1>3, <1>4, <1>5 DEF Next, WriterNext, RunNext

(* There is one run at most that has popped anything.                      *)
LEMMA PoppedIs ==
    ASSUME TaskProofs!IInv, RunsWrite
    PROVE  /\ \A k \in Runs : op[k] # <<>> => Popped = op[k]
           /\ (\A k \in Runs : op[k] = <<>>) => Popped = <<>>
<1>1. \A j, k \in Runs : op[j] # <<>> /\ op[k] # <<>> => j = k
  BY DEF RunsWrite, TaskProofs!IInv, TaskProofs!OneAtWork, TaskProofs!Live
<1> QED
  BY <1>1 DEF Popped

LEMMA PoppedIsNext ==
    ASSUME TaskProofs!IInv', RunsWrite'
    PROVE  /\ \A k \in Runs : op'[k] # <<>> => Popped' = op'[k]
           /\ (\A k \in Runs : op'[k] = <<>>) => Popped' = <<>>
<1>1. \A j, k \in Runs : op'[j] # <<>> /\ op'[k] # <<>> => j = k
  BY DEF RunsWrite, TaskProofs!IInv, TaskProofs!OneAtWork, TaskProofs!Live
<1> QED
  BY <1>1 DEF Popped

LEMMA InFlightTyped ==
    ASSUME OutputTyped, TaskProofs!IInv, RunsWrite
    PROVE  /\ Popped \in Seq(Entries) /\ InFlight \in Seq(Entries)
           /\ Filling \in Entries
           /\ Popped = <<>> \/ \E e \in Entries : Popped = <<e>>
<1>1. Popped = <<>> \/ \E e \in Entries : Popped = <<e>>
  BY PoppedIs DEF OutputTyped
<1>2. Popped \in Seq(Entries)
  <2>1. \A e \in Entries : <<e>> \in Seq(Entries)
    OBVIOUS
  <2> QED
    BY <1>1, <2>1, EmptySeq
<1>3. InFlight \in Seq(Entries)
  BY <1>2, ConcatProperties DEF InFlight, OutputTyped
<1>4. Filling \in Entries
  BY DEF Filling, Entries, OutputTyped
<1> QED
  BY <1>1, <1>2, <1>3, <1>4

(* What is done of the operation a run has popped changes nothing else.    *)
LEMMA PoppedNext ==
    ASSUME TaskProofs!IInv, RunsWrite, TaskProofs!IInv', RunsWrite',
           op \in [Runs -> {<<>>} \cup {<<e>> : e \in Entries}],
           NEW k \in Runs, NEW e, op' = [op EXCEPT ![k] = e],
           op[k] # <<>> \/ \A j \in Runs : op[j] = <<>>
    PROVE  Popped' = e /\ Popped = op[k]
<1>1. \A j \in Runs : j # k => op[j] = <<>>
  BY DEF RunsWrite, TaskProofs!IInv, TaskProofs!OneAtWork, TaskProofs!Live
<1>2. Popped = op[k]
  BY <1>1, PoppedIs
<1>3. Popped' = e
  BY <1>1, PoppedIsNext
<1> QED
  BY <1>2, <1>3

-----------------------------------------------------------------------------
(* Types and positions                                                     *)

(* A turn of Write's loop puts n bytes where the buffer has no gap.        *)
LEMMA WriteStep ==
    ASSUME OutputTyped, PositionInBuffer, WriteToBuffer
    PROVE  \E n \in 0 .. FileEnd :
              LET start == filePos - bufferPos
                  size == IF start + n > buffer.size THEN start + n ELSE buffer.size
              IN  /\ start \in 0 .. buffer.size /\ size \in 0 .. BufferCap
                  /\ n <= todo.left /\ filePos + todo.left <= FileEnd
                  /\ todo \in [call : {"Write"}, left : 0 .. FileEnd]
                  /\ todo' = [call |-> "Write", left |-> todo.left - n]
                  /\ filePos' = filePos + n
                  /\ buffer' =
                        [bytes |-> [i \in 0 .. BufferCap - 1 |->
                                       IF i \in start .. start + n - 1 THEN calls
                                       ELSE buffer.bytes[i]],
                         size |-> size]
                  /\ image' = [x \in Positions |->
                        IF x \in filePos .. filePos + n - 1 THEN calls ELSE image[x]]
                  /\ pc' \in {"flush", "write"}
                  /\ UNCHANGED <<bufferPos, freeBuffers, writeQueue, op, disk, calls,
                                 taskVars>>
<1> DEFINE available == BufferCap - (filePos - bufferPos)
           n == IF todo.left < available THEN todo.left ELSE available
           start == filePos - bufferPos
<1>1. /\ pc = "write" /\ todo.left > 0
      /\ buffer' = [bytes |-> [i \in DOMAIN buffer.bytes |->
                                 IF i \in start .. start + n - 1 THEN calls
                                 ELSE buffer.bytes[i]],
                    size |-> SizeWith(start, n)]
      /\ image' = [x \in Positions |->
                     IF x \in filePos .. filePos + n - 1 THEN calls ELSE image[x]]
      /\ filePos' = filePos + n
      /\ todo' = [todo EXCEPT !.left = @ - n]
      /\ pc' = IF n = available THEN "flush" ELSE "write"
      /\ UNCHANGED <<bufferPos, freeBuffers, writeQueue, op, disk, calls, taskVars>>
  BY DEF WriteToBuffer
<1>2. /\ todo \in [call : {"Write"}, left : 0 .. FileEnd]
      /\ filePos + todo.left <= FileEnd
  BY <1>1 DEF OutputTyped, PositionInBuffer, Todos
<1>3. /\ start \in 0 .. buffer.size /\ buffer.size \in 0 .. BufferCap
      /\ DOMAIN buffer.bytes = 0 .. BufferCap - 1
      /\ FileEnd \in Nat /\ BufferCap \in Nat
      /\ filePos \in 0 .. FileEnd /\ bufferPos \in 0 .. FileEnd
  BY <1>1, OutputAssumption DEF OutputTyped, PositionInBuffer, Buffers
<1>4. available \in 0 .. BufferCap /\ n \in 0 .. FileEnd /\ n <= todo.left
      /\ start + n <= BufferCap
  BY <1>2, <1>3
<1>5. todo' = [call |-> "Write", left |-> todo.left - n]
  BY <1>1, <1>2
<1>6. SizeWith(start, n) = (IF start + n > buffer.size THEN start + n ELSE buffer.size)
      /\ SizeWith(start, n) \in 0 .. BufferCap
  BY <1>3, <1>4 DEF SizeWith
<1> HIDE DEF n, available
<1> QED
  BY <1>1, <1>2, <1>3, <1>4, <1>5, <1>6

LEMMA EmptyTyped == EmptyBuffer \in Buffers /\ EmptyBuffer.size = 0
BY OutputAssumption DEF EmptyBuffer, Buffers, Bytes

LEMMA FlushedTo ==
    ASSUME OutputTyped, Flushed, todo.call # "none"
    PROVE  /\ filePos' \in 0 .. FileEnd /\ bufferPos' = filePos'
           /\ todo.call = "Write" => filePos' = filePos
           /\ todo.call \in {"Write", "Seek", "Flush"}
           /\ pc' = CASE todo.call = "Write" -> "write"
                      [] todo.call = "Seek"  -> "idle"
                      [] todo.call = "Flush" -> "wait"
BY DEF OutputTyped, Flushed, Todos

LEMMA TypedKept ==
    ASSUME CrateInv, [Next]_vars PROVE OutputTyped' /\ PositionInBuffer'
<1>t. OutputTyped /\ PositionInBuffer
  BY DEF CrateInv
<1>c. FileEnd \in Nat /\ MaxCalls \in Nat /\ BufferCap \in Nat
  BY OutputAssumption
<1> DEFINE Typed == OutputTyped' /\ PositionInBuffer'
<1> USE DEF outputVars, writerVars
<1>1. ASSUME NEW n \in 1 .. FileEnd, Write(n) PROVE Typed
  <2>1. todo' \in Todos /\ calls' \in 0 .. MaxCalls /\ pc = "idle"
    BY <1>t, <1>c, <1>1 DEF Write, Called, Todos, OutputTyped
  <2>2. OutputTyped'
    BY <1>t, <1>1, <2>1 DEF Write, OutputTyped, Places
  <2> QED
    BY <1>t, <1>1, <2>1, <2>2 DEF Write, Called, PositionInBuffer, OutputTyped
<1>2. ASSUME NEW offset \in 0 .. FileEnd, Seek(offset) PROVE Typed
  <2>1. todo' \in Todos /\ calls' \in 0 .. MaxCalls /\ pc = "idle"
        /\ todo'.call = "Seek"
    BY <1>t, <1>c, <1>2 DEF Seek, Called, Todos, OutputTyped
  <2>2. OutputTyped'
    BY <1>t, <1>2, <2>1 DEF Seek, OutputTyped, Places
  <2>3. PositionInBuffer'
    BY <1>t, <1>2, <2>1 DEF Seek, Within, PositionInBuffer, OutputTyped
  <2> QED
    BY <2>2, <2>3
<1>3. ASSUME Flush PROVE Typed
  <2>1. todo' \in Todos /\ calls' \in 0 .. MaxCalls /\ pc = "idle"
        /\ todo'.call = "Flush" /\ pc' = "flush"
    BY <1>t, <1>c, <1>3 DEF Flush, Called, Todos, OutputTyped
  <2> QED
    BY <1>t, <1>3, <2>1 DEF Flush, OutputTyped, Places, PositionInBuffer
<1>4. ASSUME WriteToBuffer PROVE Typed
  <2>1. PICK n \in 0 .. FileEnd :
              LET start == filePos - bufferPos
                  size == IF start + n > buffer.size THEN start + n ELSE buffer.size
              IN  /\ start \in 0 .. buffer.size /\ size \in 0 .. BufferCap
                  /\ n <= todo.left /\ filePos + todo.left <= FileEnd
                  /\ todo \in [call : {"Write"}, left : 0 .. FileEnd]
                  /\ todo' = [call |-> "Write", left |-> todo.left - n]
                  /\ filePos' = filePos + n
                  /\ buffer' =
                        [bytes |-> [i \in 0 .. BufferCap - 1 |->
                                       IF i \in start .. start + n - 1 THEN calls
                                       ELSE buffer.bytes[i]],
                         size |-> size]
                  /\ image' = [x \in Positions |->
                        IF x \in filePos .. filePos + n - 1 THEN calls ELSE image[x]]
                  /\ pc' \in {"flush", "write"}
                  /\ UNCHANGED <<bufferPos, freeBuffers, writeQueue, op, disk, calls,
                                 taskVars>>
    BY <1>t, <1>4, WriteStep
  <2>2. calls \in Bytes /\ buffer.bytes \in [0 .. BufferCap - 1 -> Bytes]
        /\ buffer.size \in 0 .. BufferCap
    BY <1>t DEF OutputTyped, Bytes, Buffers
  <2>3. buffer' \in Buffers /\ image' \in [Positions -> Bytes]
    BY <1>t, <2>1, <2>2 DEF Buffers, OutputTyped
  <2>4. todo' \in Todos /\ filePos' \in 0 .. FileEnd
    BY <1>t, <1>c, <2>1 DEF OutputTyped, Todos
  <2>5. OutputTyped'
    BY <1>t, <2>1, <2>3, <2>4 DEF OutputTyped, Places
  <2>6. PositionInBuffer'
    BY <1>t, <1>c, <2>1, <2>2 DEF PositionInBuffer, OutputTyped
  <2> QED
    BY <2>5, <2>6
<1>5. ASSUME Written PROVE Typed
  BY <1>t, <1>5 DEF Written, OutputTyped, PositionInBuffer, Places
<1>6. ASSUME FlushNothing PROVE Typed
  <2>1. buffer.size = 0 /\ todo.call # "none" /\ Flushed
        /\ UNCHANGED <<buffer, image, freeBuffers, writeQueue, op, disk, todo, calls>>
    BY <1>t, <1>6 DEF FlushNothing, PositionInBuffer
  <2>2. OutputTyped'
    BY <1>t, <2>1, FlushedTo DEF OutputTyped, Places
  <2> QED
    BY <1>t, <1>6, <2>1, <2>2, FlushedTo DEF PositionInBuffer, FlushNothing, OutputTyped
<1>7. ASSUME QueueWrite PROVE Typed
  <2>1. /\ pc = "flush" /\ pc' = "wake" /\ buffer' = EmptyBuffer
        /\ writeQueue' = Append(writeQueue, Filling)
        /\ UNCHANGED <<filePos, bufferPos, image, freeBuffers, op, disk, todo, calls>>
    BY <1>7 DEF QueueWrite, Filling
  <2>2. writeQueue' \in Seq(Entries)
    BY <1>t, <2>1, AppendProperties DEF OutputTyped, Filling, Entries
  <2> QED
    BY <1>t, <2>1, <2>2, EmptyTyped DEF OutputTyped, PositionInBuffer, Places
<1>8. ASSUME GetBuffer PROVE Typed
  <2>1. buffer.size = 0 /\ todo.call # "none" /\ Flushed
        /\ UNCHANGED <<buffer, image, writeQueue, op, disk, todo, calls>>
        /\ freeBuffers' = freeBuffers - 1
    BY <1>t, <1>8 DEF GetBuffer, PositionInBuffer
  <2>2. OutputTyped'
    BY <1>t, <2>1, FlushedTo DEF OutputTyped, Places
  <2> QED
    BY <1>t, <1>8, <2>1, <2>2, FlushedTo DEF PositionInBuffer, GetBuffer, OutputTyped
<1>9. ASSUME Wake \/ SpawnRun \/ NoBuffer \/ Wait PROVE Typed
  <2>1. /\ pc \in {"wake", "spawn", "get", "getWait", "wait"}
        /\ UNCHANGED <<outputVars, freeBuffers, writeQueue, op, disk, todo, calls>>
        /\ \/ pc' \in {"spawn", "get", "getWait"} /\ pc # "wait"
           \/ pc = "wait" /\ pc' = "idle"
    BY <1>9 DEF Wake, SpawnRun, NoBuffer, Wait
  <2> QED
    BY <1>t, <2>1 DEF OutputTyped, PositionInBuffer, Places
<1>10. ASSUME NEW k \in Runs, StartRun(k) \/ ReturnFromCall(k) \/ EndRun(k) PROVE Typed
  BY <1>t, <1>10 DEF StartRun, ReturnFromCall, EndRun, OutputTyped, PositionInBuffer
<1>11. ASSUME NEW k \in Runs, TryPop(k) PROVE Typed
  <2>1. Head(writeQueue) \in Entries /\ Tail(writeQueue) \in Seq(Entries)
    BY <1>t, <1>11, HeadTailProperties DEF TryPop, OutputTyped
  <2> QED
    BY <1>t, <1>11, <2>1 DEF TryPop, OutputTyped, PositionInBuffer
<1>12. ASSUME NEW k \in Runs, WriteToAsset(k) PROVE Typed
  <2>1. PICK e \in Entries : op[k] = <<e>>
    BY <1>t, <1>12 DEF WriteToAsset, OutputTyped
  <2>2. disk' = [x \in Positions |-> IF Covers(e, x) THEN ByteAt(e, x) ELSE disk[x]]
    BY <1>12, <2>1 DEF WriteToAsset
  <2>3. ASSUME NEW x \in Positions, Covers(e, x) PROVE ByteAt(e, x) \in Bytes
    <3>1. /\ e.buf.bytes \in [0 .. BufferCap - 1 -> Bytes]
          /\ e.buf.size \in 0 .. BufferCap /\ e.pos \in 0 .. FileEnd
      BY DEF Entries, Buffers
    <3>2. x - e.pos \in 0 .. BufferCap - 1
      BY <1>c, <2>3, <3>1 DEF Covers, Positions
    <3> QED
      BY <3>1, <3>2 DEF ByteAt
  <2>4. disk' \in [Positions -> Bytes]
    BY <1>t, <2>2, <2>3 DEF OutputTyped
  <2>5. op' \in [Runs -> {<<>>} \cup {<<f>> : f \in Entries}]
    BY <1>t, <1>12 DEF WriteToAsset, OutputTyped
  <2> QED
    BY <1>t, <1>12, <2>4, <2>5 DEF WriteToAsset, Recycled, OutputTyped, PositionInBuffer
<1>13. ASSUME UNCHANGED vars PROVE Typed
  BY <1>t, <1>13 DEF vars, OutputTyped, PositionInBuffer
<1> QED
  BY <1>1, <1>2, <1>3, <1>4, <1>5, <1>6, <1>7, <1>8, <1>9, <1>10, <1>11, <1>12, <1>13
     DEF Next, WriterNext, RunNext

-----------------------------------------------------------------------------
(* The writer and the runs                                                 *)

LEMMA RunsWriteKept ==
    ASSUME CrateInv, [Next]_vars PROVE RunsWrite'
<1>t. /\ run \in [Runs -> {"none", "queued", "calling", "returned"}]
      /\ waker \in [{Writer} -> {"idle", "spawning"}]
      /\ op \in [Runs -> {<<>>} \cup {<<e>> : e \in Entries}]
      /\ RunsWrite
  BY DEF CrateInv, OutputTyped, TaskProofs!IInv, TaskProofs!TypeOK
<1> DEFINE Called1 == \A j \in Runs : op'[j] # <<>> => run'[j] = "calling"
           Spawns == waker'[Writer] = "spawning" => pc' = "spawn"
<1> USE <1>t DEF RunsWrite, outputVars, writerVars, taskVars
<1>1. ASSUME UNCHANGED <<op, taskVars>>, pc = "spawn" => pc' = "spawn" PROVE RunsWrite'
  BY <1>1
<1>2. (\E n : Write(n)) \/ (\E offset : Seek(offset)) \/ Flush \/ WriteToBuffer \/ Written
      \/ FlushNothing \/ QueueWrite \/ GetBuffer \/ NoBuffer \/ Wait \/ UNCHANGED vars
      => UNCHANGED <<op, taskVars>> /\ (pc = "spawn" => pc' = "spawn")
  BY DEF Write, Seek, Flush, Called, WriteToBuffer, Written, FlushNothing, QueueWrite,
     GetBuffer, NoBuffer, Wait, vars
<1>3. ASSUME Wake PROVE Called1 /\ Spawns
  BY <1>3 DEF Wake, Task!Bump
<1>4. ASSUME SpawnRun PROVE Called1 /\ Spawns
  BY <1>4 DEF SpawnRun, Task!Spawn
<1>5. ASSUME NEW k \in Runs, StartRun(k) \/ ReturnFromCall(k) \/ EndRun(k)
      PROVE  Called1 /\ Spawns
  BY <1>5 DEF StartRun, ReturnFromCall, EndRun, Task!Start, Task!Return, Task!Finish,
     Task!CallAgain, Task!Look
<1>6. ASSUME NEW k \in Runs, TryPop(k) \/ WriteToAsset(k) PROVE Called1 /\ Spawns
  BY <1>6 DEF TryPop, WriteToAsset
<1> QED
  BY <1>1, <1>2, <1>3, <1>4, <1>5, <1>6 DEF Next, WriterNext, RunNext

LEMMA QueueKept ==
    ASSUME CrateInv, [Next]_vars PROVE QueueIsServed'
<1>t. /\ run \in [Runs -> {"none", "queued", "calling", "returned"}]
      /\ QueueIsServed
  BY DEF CrateInv, TaskProofs!IInv, TaskProofs!TypeOK
<1> USE <1>t DEF QueueIsServed, outputVars, writerVars, taskVars
<1>1. ASSUME UNCHANGED <<writeQueue, taskVars>>, pc = "wake" => pc' = "wake"
      PROVE  QueueIsServed'
  BY <1>1
<1>2. (\E n : Write(n)) \/ (\E offset : Seek(offset)) \/ Flush \/ WriteToBuffer \/ Written
      \/ FlushNothing \/ GetBuffer \/ NoBuffer \/ Wait \/ UNCHANGED vars
      => UNCHANGED <<writeQueue, taskVars>> /\ (pc = "wake" => pc' = "wake")
  BY DEF Write, Seek, Flush, Called, WriteToBuffer, Written, FlushNothing, GetBuffer,
     NoBuffer, Wait, vars
<1>3. ASSUME QueueWrite PROVE QueueIsServed'
  BY <1>3 DEF QueueWrite
<1>4. ASSUME Wake PROVE QueueIsServed'
  BY <1>4 DEF Wake, Task!Bump
<1>5. ASSUME SpawnRun PROVE QueueIsServed'
  BY <1>5 DEF SpawnRun, Task!Spawn
<1>6. ASSUME NEW k \in Runs, StartRun(k) \/ ReturnFromCall(k) \/ EndRun(k)
      PROVE  QueueIsServed'
  BY <1>6 DEF StartRun, ReturnFromCall, EndRun, Task!Start, Task!Return, Task!Finish,
     Task!CallAgain, Task!Look
<1>7. ASSUME NEW k \in Runs, TryPop(k) PROVE QueueIsServed'
  BY <1>7 DEF TryPop
<1>8. ASSUME NEW k \in Runs, WriteToAsset(k) PROVE QueueIsServed'
  <2>1. run[k] = "calling"
    BY <1>8 DEF WriteToAsset, CrateInv, RunsWrite
  <2> QED
    BY <1>8, <2>1 DEF WriteToAsset
<1> QED
  BY <1>1, <1>2, <1>3, <1>4, <1>5, <1>6, <1>7, <1>8 DEF Next, WriterNext, RunNext

-----------------------------------------------------------------------------
(* What is shown                                                           *)

LEMMA PopMoves ==
    ASSUME NEW S, NEW q \in Seq(S), q # <<>>
    PROVE  <<Head(q)>> \o Tail(q) = q
<1>1. /\ Head(q) \in S /\ Tail(q) \in Seq(S) /\ Len(q) \in Nat /\ Len(q) > 0
      /\ Len(Tail(q)) = Len(q) - 1 /\ Head(q) = q[1]
      /\ \A i \in 1 .. Len(Tail(q)) : Tail(q)[i] = q[i + 1]
  BY HeadTailProperties, LenProperties, EmptySeq
<1>2. <<Head(q)>> \in Seq(S) /\ Len(<<Head(q)>>) = 1 /\ <<Head(q)>>[1] = q[1]
  BY <1>1
<1> DEFINE c == <<Head(q)>> \o Tail(q)
<1>3. /\ c \in Seq(S) /\ Len(c) = Len(q)
      /\ \A i \in 1 .. Len(q) : c[i] = q[i]
  BY <1>1, <1>2, ConcatProperties
<1> QED
  BY <1>3, SeqEqual

LEMMA DoneMoves ==
    ASSUME NEW S, NEW e \in S, NEW q \in Seq(S)
    PROVE  LET c == <<e>> \o q IN c \in Seq(S) /\ c # <<>> /\ Head(c) = e /\ Tail(c) = q
<1> DEFINE c == <<e>> \o q
<1>1. <<e>> \in Seq(S) /\ Len(<<e>>) = 1 /\ <<e>>[1] = e /\ Len(q) \in Nat
  OBVIOUS
<1>2. /\ c \in Seq(S) /\ Len(c) = 1 + Len(q) /\ c[1] = e
      /\ \A i \in 1 .. Len(q) : c[i + 1] = q[i]
  BY <1>1, ConcatProperties
<1> HIDE DEF c
<1>3. c # <<>> /\ Head(c) = e
  BY <1>1, <1>2
<1>4. Tail(c) \in Seq(S) /\ Len(Tail(c)) = Len(q)
      /\ \A i \in 1 .. Len(q) : Tail(c)[i] = q[i]
  BY <1>1, <1>2, <1>3, HeadTailProperties
<1> QED
  BY <1>2, <1>3, <1>4, SeqEqual DEF c

LEMMA QueuedMoves ==
    ASSUME NEW S, NEW s \in Seq(S), NEW q \in Seq(S), NEW e \in S
    PROVE  s \o Append(q, e) = Append(s \o q, e)
<1> DEFINE a == s \o Append(q, e)
           b == Append(s \o q, e)
<1>1. Len(s) \in Nat /\ Len(q) \in Nat /\ Append(q, e) \in Seq(S)
      /\ Len(Append(q, e)) = Len(q) + 1
      /\ \A i \in 1 .. Len(q) + 1 : Append(q, e)[i] = IF i = Len(q) + 1 THEN e ELSE q[i]
  BY AppendProperties, LenProperties
<1>2. /\ a \in Seq(S) /\ Len(a) = Len(s) + Len(q) + 1
      /\ \A i \in 1 .. Len(s) + Len(q) + 1 :
            a[i] = IF i <= Len(s) THEN s[i]
                   ELSE IF i = Len(s) + Len(q) + 1 THEN e ELSE q[i - Len(s)]
  BY <1>1, ConcatProperties
<1>3. /\ s \o q \in Seq(S) /\ Len(s \o q) = Len(s) + Len(q)
      /\ \A i \in 1 .. Len(s) + Len(q) :
            (s \o q)[i] = IF i <= Len(s) THEN s[i] ELSE q[i - Len(s)]
  BY <1>1, ConcatProperties
<1>4. /\ b \in Seq(S) /\ Len(b) = Len(s) + Len(q) + 1
      /\ \A i \in 1 .. Len(s) + Len(q) + 1 :
            b[i] = IF i = Len(s) + Len(q) + 1 THEN e ELSE (s \o q)[i]
  BY <1>1, <1>3, AppendProperties
<1> HIDE DEF a, b
<1>5. ASSUME NEW i \in 1 .. Len(a) PROVE a[i] = b[i]
  <2>1. CASE i = Len(s) + Len(q) + 1
    BY <1>1, <1>2, <1>4, <2>1
  <2>2. CASE i # Len(s) + Len(q) + 1
    <3>1. i \in 1 .. Len(s) + Len(q) /\ b[i] = (s \o q)[i]
      BY <1>1, <1>2, <1>4, <2>2
    <3>2. (s \o q)[i] = IF i <= Len(s) THEN s[i] ELSE q[i - Len(s)]
      BY <1>3, <3>1
    <3>3. a[i] = IF i <= Len(s) THEN s[i] ELSE q[i - Len(s)]
      BY <1>1, <1>2, <2>2, <3>1
    <3> QED
      BY <3>1, <3>2, <3>3
  <2> QED
    BY <2>1, <2>2
<1> QED
  BY <1>2, <1>4, <1>5, SeqEqual DEF a, b

(* What the buffer being filled covers, and what it shows there.           *)
LEMMA AllShownMeans ==
    ASSUME OutputTyped, TaskProofs!IInv, RunsWrite
    PROVE  AllShown <=>
             \A x \in Positions :
                IF Covers(Filling, x) THEN image[x] = ByteAt(Filling, x)
                ELSE Shows(InFlight, disk, x, image[x])
BY InFlightTyped, ShowsAppend DEF AllShown

LEMMA AllShownNext ==
    ASSUME InFlight' \in Seq(Entries), Filling' \in Entries,
           \A x \in Positions :
              IF Covers(Filling', x) THEN image'[x] = ByteAt(Filling', x)
              ELSE Shows(InFlight', disk', x, image'[x])
    PROVE  AllShown'
<1>1. ASSUME NEW x \in Positions
      PROVE  Shows(Append(InFlight', Filling'), disk', x, image'[x])
  BY ShowsAppend
<1> QED
  BY <1>1 DEF AllShown, Shows, Covers, ByteAt

LEMMA PoppedSame ==
    ASSUME UNCHANGED op PROVE Popped' = Popped
BY DEF Popped

LEMMA ShownKept ==
    ASSUME CrateInv, [Next]_vars,
           OutputTyped', PositionInBuffer', RunsWrite', TaskProofs!IInv'
    PROVE  AllShown'
<1>t. /\ OutputTyped /\ PositionInBuffer /\ RunsWrite /\ TaskProofs!IInv
      /\ \A x \in Positions :
            IF Covers(Filling, x) THEN image[x] = ByteAt(Filling, x)
            ELSE Shows(InFlight, disk, x, image[x])
  BY AllShownMeans DEF CrateInv
<1>f. InFlight \in Seq(Entries) /\ Filling \in Entries
  BY <1>t, InFlightTyped
<1>g. Filling' \in Entries
  BY DEF OutputTyped, Filling, Entries
<1> USE DEF outputVars, writerVars
(* Nothing moves but an empty buffer.                                      *)
<1>1. ASSUME UNCHANGED <<op, writeQueue, disk, image>>,
             Filling' = Filling \/ (buffer.size = 0 /\ buffer' = buffer)
      PROVE  AllShown'
  <2>1. InFlight' = InFlight
    BY <1>1, PoppedSame DEF InFlight
  <2>2. ASSUME NEW x \in Positions
        PROVE  IF Covers(Filling', x) THEN image'[x] = ByteAt(Filling', x)
               ELSE Shows(InFlight', disk', x, image'[x])
    <3>1. CASE Filling' = Filling
      BY <1>1, <1>t, <2>1, <3>1 DEF Shows
    <3>2. CASE buffer.size = 0 /\ buffer' = buffer
      <4>1. ~Covers(Filling, x) /\ ~Covers(Filling', x)
        BY <1>f, <1>g, <3>2, OutputAssumption DEF Covers, Filling, Entries, Positions
      <4> QED
        BY <1>1, <1>t, <2>1, <4>1 DEF Shows
    <3> QED
      BY <1>1, <3>1, <3>2
  <2> QED
    BY <1>f, <1>g, <2>1, <2>2, AllShownNext
<1>2. (\E n : Write(n)) \/ (\E offset : Seek(offset)) \/ Flush \/ Written \/ NoBuffer
      \/ Wake \/ SpawnRun \/ Wait \/ UNCHANGED vars
      \/ (\E k \in Runs : StartRun(k) \/ ReturnFromCall(k) \/ EndRun(k))
      => UNCHANGED <<op, writeQueue, disk, image>> /\ Filling' = Filling
  BY DEF Write, Seek, Flush, Written, NoBuffer, Wake, SpawnRun, Wait, StartRun,
     ReturnFromCall, EndRun, vars, Filling
<1>3. FlushNothing \/ GetBuffer
      => UNCHANGED <<op, writeQueue, disk, image>> /\ buffer.size = 0 /\ buffer' = buffer
  BY <1>t DEF FlushNothing, GetBuffer, PositionInBuffer
<1>4. ASSUME QueueWrite PROVE AllShown'
  <2>1. /\ writeQueue' = Append(writeQueue, Filling) /\ buffer'.size = 0
        /\ UNCHANGED <<op, disk, image>>
    BY <1>4, EmptyTyped DEF QueueWrite, Filling
  <2>2. InFlight' = Append(InFlight, Filling)
    BY <1>t, <1>f, <2>1, PoppedSame, InFlightTyped, QueuedMoves DEF InFlight, OutputTyped
  <2>3. InFlight' \in Seq(Entries)
    BY <1>f, <2>2, AppendProperties
  <2>4. ASSUME NEW x \in Positions
        PROVE  /\ ~Covers(Filling', x)
               /\ Shows(InFlight', disk', x, image'[x])
    <3>1. ~Covers(Filling', x)
      BY <1>g, <2>1, OutputAssumption DEF Covers, Filling, Entries, Positions
    <3>2. Shows(Append(InFlight, Filling), disk, x, image[x])
      BY DEF CrateInv, AllShown
    <3> QED
      BY <2>1, <2>2, <3>1, <3>2 DEF Shows
  <2> QED
    BY <1>g, <2>3, <2>4, AllShownNext
<1>5. ASSUME NEW k \in Runs, TryPop(k) PROVE AllShown'
  <2>1. /\ op[k] = <<>> /\ writeQueue # <<>> /\ run[k] = "calling"
        /\ op' = [op EXCEPT ![k] = <<Head(writeQueue)>>]
        /\ writeQueue' = Tail(writeQueue)
        /\ Filling' = Filling
        /\ UNCHANGED <<disk, image>>
    BY <1>5 DEF TryPop, Filling
  <2>2. \A j \in Runs : op[j] = <<>>
    BY <1>t, <2>1 DEF RunsWrite, TaskProofs!IInv, TaskProofs!OneAtWork, TaskProofs!Live
  <2>3. Popped' = <<Head(writeQueue)>> /\ Popped = <<>>
    BY <1>t, <2>1, <2>2, PoppedNext DEF OutputTyped
  <2>4. InFlight' = writeQueue /\ InFlight = writeQueue
    BY <1>t, <2>1, <2>3, PopMoves, ConcatEmptySeq DEF InFlight, OutputTyped
  <2> QED
    BY <1>t, <1>f, <1>g, <2>1, <2>4, AllShownNext DEF Shows
<1>6. ASSUME NEW k \in Runs, WriteToAsset(k) PROVE AllShown'
  <2>1. PICK e \in Entries : op[k] = <<e>>
    BY <1>t, <1>6 DEF WriteToAsset, OutputTyped
  <2>2. /\ disk' = [x \in Positions |-> IF Covers(e, x) THEN ByteAt(e, x) ELSE disk[x]]
        /\ op' = [op EXCEPT ![k] = <<>>]
        /\ Filling' = Filling
        /\ UNCHANGED <<writeQueue, image>>
    BY <1>6, <2>1 DEF WriteToAsset, Filling
  <2>n. op[k] # <<>>
    BY <1>6 DEF WriteToAsset
  <2>3. Popped' = <<>> /\ Popped = <<e>>
    BY <1>t, <2>1, <2>2, <2>n, PoppedNext DEF OutputTyped
  <2>4. /\ InFlight # <<>> /\ Head(InFlight) = e /\ Tail(InFlight) = writeQueue
        /\ InFlight' = writeQueue
    BY <1>t, <2>2, <2>3, DoneMoves, ConcatEmptySeq DEF InFlight, OutputTyped
  <2>5. ASSUME NEW x \in Positions, ~Covers(Filling, x)
        PROVE  Shows(InFlight', disk', x, image'[x])
    <3>1. Shows(InFlight, disk, x, image[x])
      BY <1>t, <2>5
    <3>2. disk'[x] = IF Covers(Head(InFlight), x) THEN ByteAt(Head(InFlight), x) ELSE disk[x]
      BY <2>2, <2>4
    <3>3. Shows(Tail(InFlight), disk', x, image[x])
      BY <1>f, <2>4, <3>1, <3>2, ShowsTail
    <3> QED
      BY <2>2, <2>4, <3>3 DEF Shows
  <2>6. InFlight' \in Seq(Entries)
    BY <1>t, <2>4 DEF OutputTyped
  <2> QED
    BY <1>t, <1>g, <2>2, <2>5, <2>6, AllShownNext
<1>7. ASSUME WriteToBuffer PROVE AllShown'
  <2>1. PICK n \in 0 .. FileEnd :
              LET start == filePos - bufferPos
                  size == IF start + n > buffer.size THEN start + n ELSE buffer.size
              IN  /\ start \in 0 .. buffer.size /\ size \in 0 .. BufferCap
                  /\ filePos' = filePos + n
                  /\ buffer' =
                        [bytes |-> [i \in 0 .. BufferCap - 1 |->
                                       IF i \in start .. start + n - 1 THEN calls
                                       ELSE buffer.bytes[i]],
                         size |-> size]
                  /\ image' = [x \in Positions |->
                        IF x \in filePos .. filePos + n - 1 THEN calls ELSE image[x]]
                  /\ UNCHANGED <<bufferPos, writeQueue, op, disk>>
    BY <1>t, <1>7, WriteStep
  <2>2. InFlight' = InFlight
    BY <2>1, PoppedSame DEF InFlight
  <2>c. /\ filePos \in Nat /\ bufferPos \in Nat /\ buffer.size \in 0 .. BufferCap
        /\ BufferCap \in Nat /\ FileEnd \in Nat
    BY <1>t, OutputAssumption DEF OutputTyped, Buffers
  <2> DEFINE start == filePos - bufferPos
             size == buffer'.size
  <2>b. /\ start \in 0 .. buffer.size /\ size \in 0 .. BufferCap
        /\ size = IF start + n > buffer.size THEN start + n ELSE buffer.size
        /\ \A i \in 0 .. BufferCap - 1 :
              buffer'.bytes[i] = IF i \in start .. start + n - 1 THEN calls
                                 ELSE buffer.bytes[i]
        /\ bufferPos' = bufferPos
    BY <2>1
  <2> HIDE DEF size
  <2>d. ASSUME NEW x \in Positions
        PROVE  /\ Covers(Filling, x) <=> x - bufferPos \in 0 .. buffer.size - 1
               /\ Covers(Filling', x) <=> x - bufferPos \in 0 .. size - 1
               /\ ByteAt(Filling, x) = buffer.bytes[x - bufferPos]
               /\ ByteAt(Filling', x) = buffer'.bytes[x - bufferPos]
               /\ x \in filePos .. filePos + n - 1
                     <=> x - bufferPos \in start .. start + n - 1
    <3>1. x \in Int /\ size \in Int /\ n \in Int
      BY <2>b, <2>c, <2>1 DEF Positions
    <3>2. /\ Covers(Filling, x) <=> x \in bufferPos .. bufferPos + buffer.size - 1
          /\ Covers(Filling', x) <=> x \in bufferPos .. bufferPos + size - 1
          /\ ByteAt(Filling, x) = buffer.bytes[x - bufferPos]
          /\ ByteAt(Filling', x) = buffer'.bytes[x - bufferPos]
      BY <2>b DEF Covers, ByteAt, Filling, size
    <3> QED
      BY <2>c, <3>1, <3>2
  <2>3. ASSUME NEW x \in Positions, x \in filePos .. filePos + n - 1
        PROVE  Covers(Filling', x) /\ image'[x] = ByteAt(Filling', x)
    <3>1. x - bufferPos \in start .. start + n - 1 /\ x \in Int
      BY <2>3, <2>d DEF Positions
    <3>2. x - bufferPos \in 0 .. size - 1 /\ x - bufferPos \in 0 .. BufferCap - 1
      BY <2>b, <2>c, <3>1
    <3>3. image'[x] = calls
      BY <2>1, <2>3
    <3> QED
      BY <2>b, <2>d, <3>1, <3>2, <3>3
  <2>4. ASSUME NEW x \in Positions, x \notin filePos .. filePos + n - 1
        PROVE  /\ Covers(Filling', x) <=> Covers(Filling, x)
               /\ Covers(Filling, x) => ByteAt(Filling', x) = ByteAt(Filling, x)
               /\ image'[x] = image[x]
    <3>1. x - bufferPos \notin start .. start + n - 1 /\ x \in Int
      BY <2>4, <2>d DEF Positions
    <3>2. x - bufferPos \in 0 .. size - 1 <=> x - bufferPos \in 0 .. buffer.size - 1
      BY <2>b, <2>c, <3>1
    <3>3. x - bufferPos \in 0 .. buffer.size - 1 => x - bufferPos \in 0 .. BufferCap - 1
      BY <2>c, <3>1
    <3>4. image'[x] = image[x]
      BY <2>1, <2>4
    <3> QED
      BY <2>b, <2>d, <3>1, <3>2, <3>3, <3>4
  <2>5. ASSUME NEW x \in Positions
        PROVE  IF Covers(Filling', x) THEN image'[x] = ByteAt(Filling', x)
               ELSE Shows(InFlight', disk', x, image'[x])
    <3>1. CASE x \in filePos .. filePos + n - 1
      BY <2>3, <3>1
    <3>2. CASE x \notin filePos .. filePos + n - 1
      BY <1>t, <2>1, <2>2, <2>4, <3>2 DEF Shows
    <3> QED
      BY <3>1, <3>2
  <2> QED
    BY <1>f, <1>g, <2>2, <2>5, AllShownNext
<1> QED
  BY <1>1, <1>2, <1>3, <1>4, <1>5, <1>6, <1>7 DEF Next, WriterNext, RunNext

(* The buffers move round, none is lost and none is new.                   *)
LEMMA BuffersKept ==
    ASSUME CrateInv, [Next]_vars,
           OutputTyped', PositionInBuffer', RunsWrite', TaskProofs!IInv'
    PROVE  BuffersExact'
<1> DEFINE Out(p) == IF p \in {"wake", "spawn", "get", "getWait"} THEN 0 ELSE 1
<1>t. /\ OutputTyped /\ PositionInBuffer /\ RunsWrite /\ TaskProofs!IInv
      /\ freeBuffers + Len(writeQueue) + Len(Popped) + Out(pc) = NumBuffers
  BY DEF CrateInv, BuffersExact
<1>n. /\ freeBuffers \in Int /\ Len(writeQueue) \in Nat /\ Len(Popped) \in Nat
      /\ NumBuffers \in Nat
  BY <1>t, InFlightTyped, LenProperties, OutputAssumption DEF OutputTyped
<1> USE DEF outputVars, writerVars
<1>1. ASSUME freeBuffers' + Len(writeQueue') + Len(Popped') + Out(pc') = NumBuffers
      PROVE  BuffersExact'
  BY <1>1 DEF BuffersExact
<1>2. ASSUME UNCHANGED <<freeBuffers, writeQueue, op>>, Out(pc') = Out(pc)
      PROVE  BuffersExact'
  BY <1>1, <1>2, <1>t, PoppedSame
<1>3. (\E n : Write(n)) \/ (\E offset : Seek(offset)) \/ Flush \/ Written \/ NoBuffer
      \/ Wake \/ SpawnRun \/ Wait \/ UNCHANGED vars
      \/ (\E k \in Runs : StartRun(k) \/ ReturnFromCall(k) \/ EndRun(k))
      => UNCHANGED <<freeBuffers, writeQueue, op>> /\ Out(pc') = Out(pc)
  BY DEF Write, Seek, Flush, Called, Written, NoBuffer, Wake, SpawnRun, Wait, StartRun,
     ReturnFromCall, EndRun, vars
<1>4. ASSUME WriteToBuffer PROVE BuffersExact'
  <2>1. UNCHANGED <<freeBuffers, writeQueue, op>> /\ pc = "write"
        /\ pc' \in {"write", "flush"}
    BY <1>4 DEF WriteToBuffer
  <2> QED
    BY <1>2, <2>1
<1>5. ASSUME FlushNothing PROVE BuffersExact'
  <2>1. UNCHANGED <<freeBuffers, writeQueue, op>> /\ pc = "flush"
        /\ pc' \in {"write", "idle", "wait"}
    BY <1>t, <1>5, FlushedTo DEF FlushNothing, PositionInBuffer
  <2> QED
    BY <1>2, <2>1
<1>6. ASSUME QueueWrite PROVE BuffersExact'
  <2>1. /\ pc = "flush" /\ pc' = "wake" /\ UNCHANGED <<freeBuffers, op>>
        /\ writeQueue' = Append(writeQueue, Filling)
    BY <1>6 DEF QueueWrite, Filling
  <2>2. Len(writeQueue') = Len(writeQueue) + 1
    BY <1>t, <2>1, AppendProperties, InFlightTyped DEF OutputTyped
  <2> QED
    BY <1>1, <1>n, <1>t, <2>1, <2>2, PoppedSame
<1>7. ASSUME GetBuffer PROVE BuffersExact'
  <2>1. UNCHANGED <<writeQueue, op>> /\ pc = "get" /\ freeBuffers' = freeBuffers - 1
        /\ pc' \in {"write", "idle", "wait"}
    BY <1>t, <1>7, FlushedTo DEF GetBuffer, PositionInBuffer
  <2> QED
    BY <1>1, <1>n, <1>t, <2>1, PoppedSame
<1>8. ASSUME NEW k \in Runs, TryPop(k) PROVE BuffersExact'
  <2>1. /\ op[k] = <<>> /\ writeQueue # <<>> /\ run[k] = "calling"
        /\ op' = [op EXCEPT ![k] = <<Head(writeQueue)>>]
        /\ writeQueue' = Tail(writeQueue)
        /\ UNCHANGED <<freeBuffers, pc>>
    BY <1>8 DEF TryPop
  <2>2. \A j \in Runs : op[j] = <<>>
    BY <1>t, <2>1 DEF RunsWrite, TaskProofs!IInv, TaskProofs!OneAtWork, TaskProofs!Live
  <2>3. Popped' = <<Head(writeQueue)>> /\ Popped = <<>>
    BY <1>t, <2>1, <2>2, PoppedNext DEF OutputTyped
  <2>4. Len(Popped') = 1 /\ Len(Popped) = 0
    BY <2>3
  <2>5. Len(writeQueue') = Len(writeQueue) - 1
    BY <1>t, <2>1, HeadTailProperties DEF OutputTyped
  <2> QED
    BY <1>1, <1>n, <1>t, <2>1, <2>4, <2>5
<1>9. ASSUME NEW k \in Runs, WriteToAsset(k) PROVE BuffersExact'
  <2>1. PICK e \in Entries : op[k] = <<e>>
    BY <1>t, <1>9 DEF WriteToAsset, OutputTyped
  <2>2. /\ op[k] # <<>> /\ op' = [op EXCEPT ![k] = <<>>]
        /\ freeBuffers' = freeBuffers + 1 /\ UNCHANGED <<writeQueue, pc>>
    BY <1>9 DEF WriteToAsset, Recycled
  <2>3. Popped' = <<>> /\ Popped = <<e>>
    BY <1>t, <2>1, <2>2, PoppedNext DEF OutputTyped
  <2>4. Len(Popped') = 0 /\ Len(Popped) = 1
    BY <2>3
  <2> QED
    BY <1>1, <1>n, <1>t, <2>2, <2>4
<1> QED
  BY <1>2, <1>3, <1>4, <1>5, <1>6, <1>7, <1>8, <1>9 DEF Next, WriterNext, RunNext

-----------------------------------------------------------------------------
(* The invariant                                                           *)

LEMMA CrateInit == Init => CrateInv
<1> SUFFICES ASSUME Init PROVE CrateInv
  OBVIOUS
<1>1. TaskProofs!IInv
  <2>1. TaskProofs!Init
    BY DEF Init, Task!Init, TaskProofs!Init
  <2> QED
    BY <2>1, TaskProofs!SingularInit
<1>2. OutputTyped
  <2>1. /\ 0 \in 0 .. FileEnd /\ 0 \in 0 .. MaxCalls /\ 0 \in Bytes
        /\ freeBuffers \in Int /\ [call |-> "none"] \in Todos
    BY OutputAssumption DEF Init, Bytes, Todos
  <2> QED
    BY <2>1, EmptyTyped, EmptySeq DEF Init, OutputTyped, Places
<1>3. PositionInBuffer /\ RunsWrite /\ QueueIsServed
  BY EmptyTyped DEF Init, PositionInBuffer, RunsWrite, QueueIsServed, Task!Init
<1>4. Popped = <<>>
  BY <1>1, <1>3, PoppedIs DEF Init
<1>5. AllShown
  <2>1. InFlight = <<>>
    BY <1>4, ConcatEmptySeq, EmptySeq DEF InFlight, Init
  <2>2. ASSUME NEW x \in Positions
        PROVE  ~Covers(Filling, x) /\ Shows(InFlight, disk, x, image[x])
    <3>1. ~Covers(Filling, x)
      BY EmptyTyped DEF Covers, Filling, Positions, Init
    <3>2. DOMAIN InFlight = {}
      BY <2>1
    <3> QED
      BY <3>1, <3>2 DEF Shows, Init
  <2> QED
    BY <1>1, <1>2, <1>3, <2>2, AllShownMeans
<1>6. BuffersExact
  <2>1. Len(Popped) = 0 /\ Len(writeQueue) = 0 /\ freeBuffers = NumBuffers - 1
        /\ pc = "idle"
    BY <1>4 DEF Init
  <2> QED
    BY <2>1, OutputAssumption DEF BuffersExact
<1> QED
  BY <1>1, <1>2, <1>3, <1>5, <1>6 DEF CrateInv

LEMMA CrateStep == CrateInv /\ [Next]_vars => CrateInv'
<1> SUFFICES ASSUME CrateInv, [Next]_vars PROVE CrateInv'
  OBVIOUS
<1>1. TaskProofs!IInv'
  BY TaskKept DEF CrateInv
<1>2. OutputTyped' /\ PositionInBuffer' /\ RunsWrite' /\ QueueIsServed'
  BY TypedKept, RunsWriteKept, QueueKept
<1>3. AllShown' /\ BuffersExact'
  BY <1>1, <1>2, ShownKept, BuffersKept
<1> QED
  BY <1>1, <1>2, <1>3 DEF CrateInv

(* In every state the buffers and the disk show what the program wrote, no *)
(* buffer is lost, one run writes at most, and a queue that is not empty   *)
(* has a wake-up that is coming or a run that is in its call.              *)
THEOREM CrateInvariant == Spec => []CrateInv
BY CrateInit, CrateStep, PTL DEF Spec

-----------------------------------------------------------------------------
(* What follows                                                            *)

(* What the youngest buffer shows is what they all show.                   *)
LEMMA ShowsYoungest ==
    ASSUME OutputTyped, TaskProofs!IInv, RunsWrite, NEW x,
           Shows(Append(InFlight, Filling), disk, x, image[x])
    PROVE  Youngest(x) = image[x]
<1>1. Pending = Append(InFlight, Filling)
  BY InFlightTyped, AppendIsConcat DEF Pending, InFlight, Filling
<1>2. /\ DOMAIN Pending = 1 .. Len(Pending) /\ Len(Pending) \in Nat
      /\ Shows(Pending, disk, x, image[x])
  BY <1>1, InFlightTyped, AppendProperties, LenProperties
<1> DEFINE at == {i \in DOMAIN Pending : Covers(Pending[i], x)}
<1>3. CASE at = {}
  BY <1>2, <1>3 DEF Shows, Youngest
<1>4. CASE at # {}
  <2>1. PICK i \in at : image[x] = ByteAt(Pending[i], x) /\ \A j \in at : ~(j > i)
    BY <1>2, <1>4 DEF Shows
  <2>2. \A j \in at : j \in Int
    BY <1>2
  <2>3. \A j \in at : j <= i
    BY <2>1, <2>2
  <2>4. \A l \in at : (\A j \in at : j <= l) => l = i
    BY <2>1, <2>2, <2>3
  <2>5. (CHOOSE l \in at : \A j \in at : j <= l) = i
    BY <2>3, <2>4
  <2> QED
    BY <1>4, <2>1, <2>5 DEF Youngest
<1> QED
  BY <1>3, <1>4

(* Whatever the program wrote is in the last buffer that covers the place, *)
(* or on the disk.                                                         *)
THEOREM CrateNothingLost == Spec => []NothingLost
<1>1. CrateInv => NothingLost
  BY ShowsYoungest DEF CrateInv, NothingLost, AllShown
<1> QED
  BY <1>1, CrateInvariant, PTL

(* One run of the writing task at a time: two never pop the queue and write*)
(* out of order.                                                           *)
THEOREM CrateRunsAlone == Spec => []RunsAlone
<1>1. CrateInv => RunsAlone
  BY DEF CrateInv, RunsAlone, Task!RunsAlone, TaskProofs!IInv, TaskProofs!OneAtWork,
     TaskProofs!Live
<1> QED
  BY <1>1, CrateInvariant, PTL

(* A wake-up of the writing task that no call has answered has a run that  *)
(* has yet to call _DoWrites.                                              *)
THEOREM CrateNoWakeLost == Spec => []NoWakeLost
<1>1. CrateInv => NoWakeLost
  BY DEF CrateInv, NoWakeLost, Task!NoWakeLost, TaskProofs!IInv, TaskProofs!NoWakeLost
<1> QED
  BY <1>1, CrateInvariant, PTL

(* NumBuffers buffers go round, in the free ones, the queue, the task and  *)
(* the writer's hands.                                                     *)
THEOREM CrateBuffersExact == Spec => []BuffersExact
<1>1. CrateInv => BuffersExact
  BY DEF CrateInv
<1> QED
  BY <1>1, CrateInvariant, PTL

(* With the writer in Flush's wait and no run left, there is nothing on its*)
(* way to the disk.                                                        *)
LEMMA AllWritten ==
    ASSUME CrateInv, pc = "wait", Task!AllDone
    PROVE  disk = image
<1>t. OutputTyped /\ PositionInBuffer /\ RunsWrite /\ QueueIsServed /\ TaskProofs!IInv
  BY DEF CrateInv
<1>1. \A k \in Runs : run[k] = "none" /\ op[k] = <<>>
  BY <1>t DEF Task!AllDone, RunsWrite
<1>2. waker[Writer] # "spawning"
  BY <1>t DEF RunsWrite
<1>3. due = {}
  BY <1>t, <1>1, <1>2 DEF TaskProofs!IInv, TaskProofs!NoWakeLost
<1>4. writeQueue = <<>> /\ Popped = <<>>
  BY <1>t, <1>1, <1>3, PoppedIs DEF QueueIsServed
<1>5. InFlight = <<>>
  BY <1>4, ConcatEmptySeq, EmptySeq DEF InFlight
<1>6. ASSUME NEW x \in Positions PROVE disk[x] = image[x]
  <2>1. buffer.size = 0 /\ bufferPos \in Int /\ x \in Int
    BY <1>t DEF PositionInBuffer, OutputTyped, Positions
  <2>2. ~Covers(Filling, x)
    BY <2>1 DEF Covers, Filling
  <2>3. Shows(InFlight, disk, x, image[x])
    BY <1>t, <2>2, AllShownMeans DEF CrateInv
  <2> QED
    BY <1>5, <2>3 DEF Shows
<1> QED
  BY <1>t, <1>6 DEF OutputTyped

(* When Flush returns, every byte the program wrote is in the file.        *)
THEOREM CrateFlushWritesAll == Spec => FlushWritesAll
<1> DEFINE Returns == pc = "wait" /\ pc' = "idle" => disk' = image'
<1>1. CrateInv /\ [Next]_vars => [Returns]_vars
  <2> SUFFICES ASSUME CrateInv, Next, pc = "wait", pc' = "idle" PROVE disk' = image'
    OBVIOUS
  <2>1. Task!AllDone /\ UNCHANGED <<disk, image>>
    BY DEF Next, WriterNext, RunNext, Write, Seek, Flush, Called, WriteToBuffer, Written,
       FlushNothing, QueueWrite, Wake, SpawnRun, GetBuffer, NoBuffer, Wait, StartRun,
       TryPop, WriteToAsset, ReturnFromCall, EndRun, outputVars, writerVars
  <2> QED
    BY <2>1, AllWritten
<1> QED
  BY <1>1, CrateInvariant, PTL DEF Spec, FlushWritesAll

(* The writer and the runs use the singular task as it may be used: each   *)
(* step here is a step of the task's specification or leaves it alone.     *)
THEOREM CrateImplementsTask == Spec => Task!Spec
<1>1. Init => Task!Init
  BY DEF Init
<1>2. [Next]_vars => [Task!Next]_<<count, waker, run, old, due>>
  <2> SUFFICES ASSUME [Next]_vars
               PROVE  Task!Next \/ UNCHANGED <<count, waker, run, old, due>>
    OBVIOUS
  <2>1. Wake \/ SpawnRun => Task!Next
    BY DEF Wake, SpawnRun, Task!Next
  <2>2. ASSUME NEW k \in Runs, StartRun(k) \/ ReturnFromCall(k) \/ EndRun(k)
        PROVE  Task!Next
    BY <2>2 DEF StartRun, ReturnFromCall, EndRun, Task!Next
  <2>3. (\E n : Write(n)) \/ (\E offset : Seek(offset)) \/ Flush \/ WriteToBuffer
        \/ Written \/ FlushNothing \/ QueueWrite \/ GetBuffer \/ NoBuffer \/ Wait
        \/ (\E k \in Runs : TryPop(k) \/ WriteToAsset(k)) \/ UNCHANGED vars
        => UNCHANGED <<count, waker, run, old, due>>
    BY DEF Write, Seek, Flush, WriteToBuffer, Written, FlushNothing, QueueWrite, GetBuffer,
       NoBuffer, Wait, TryPop, WriteToAsset, vars, taskVars
  <2> QED
    BY <2>1, <2>2, <2>3 DEF Next, WriterNext, RunNext
<1> QED
  BY <1>1, <1>2, PTL DEF Spec, Task!Spec, Task!vars

-----------------------------------------------------------------------------
(* The nodes: two that are alive never stand for the same path.            *)
(*                                                                         *)
(* The count of a node is the number of its places, the paths in hand and  *)
(* the children that keep it alive, and who has a place is alive.  So a    *)
(* count that a thread takes to zero was the last reference, and the table *)
(* shows a node that dies with the count zero only.  Create then takes an  *)
(* entry from nobody who is alive, and two nodes of one path, whose        *)
(* parents are one by the invariant itself, cannot come about.             *)

(* What counts in a node: the paths to it, numbered per thread, and its    *)
(* children that have not given their count back.                          *)
RefPlaces(n) ==
    {q \in (Threads \cup Nodes) \X (0 .. MaxHeld) :
        \/ q[2] > 0 /\ q[1] \in Threads /\ q[2] <= held[q[1]][n]
        \/ q[2] = 0 /\ q[1] \in Children(n)}

(* Destruction of n has passed one of these places.                        *)
Passed(n, places) == \E t \in Threads : \E i \in DOMAIN dying[t] :
    dying[t][i] = n /\ (i < Len(dying[t]) \/ dtor[t] \in places)
Removed(n) == Passed(n, {"token", "parent", "free"})
Untokened(n) == Passed(n, {"parent", "free"})

EachDiesOnce ==
    \A t, u \in Threads : \A i \in DOMAIN dying[t], j \in DOMAIN dying[u] :
        dying[t][i] = dying[u][j] => t = u /\ i = j
DyingAreAllocated == \A n \in Nodes : Dying(n) => n \in allocated
ReferredAreLive == \A n \in Nodes : RefPlaces(n) # {} => Live(n)
LiveAreCounted ==
    \A n \in Nodes : Live(n) =>
        RefPlaces(n) # {} /\ refCount[n] = Cardinality(RefPlaces(n))
EntriesAreExact ==
    \A k \in Parents \X Names : table[k] # None =>
        /\ table[k] \in allocated /\ Key(table[k]) = k
        /\ ~Removed(table[k])
        /\ Dying(table[k]) => refCount[table[k]] = 0
LiveAreEntered == \A n \in Nodes : Live(n) => table[Key(n)] = n
PathsExtendParents ==
    \A n \in Nodes : Live(n) => path[n] = Append(PathOf(parent[n]), name[n])
TokensMatch ==
    \A n \in Nodes : token[n] # None =>
        n \in allocated /\ token[n] = path[n] /\ ~Untokened(n)

PathNodeInv ==
    /\ PathNodeTypeOK /\ EachDiesOnce /\ DyingAreAllocated
    /\ ReferredAreLive /\ LiveAreCounted
    /\ EntriesAreExact /\ LiveAreEntered /\ PathsExtendParents
    /\ TokensMatch /\ PathsAreUnique

(* A path with one element more is a path.                                 *)
LEMMA PathsGrow ==
    ASSUME PathNodeTypeOK, NEW p \in Parents, NEW e \in Names,
           Len(PathOf(p)) < MaxDepth
    PROVE  Append(PathOf(p), e) \in Paths
<1>1. PICK d \in 0 .. MaxDepth : PathOf(p) \in [1 .. d -> Names]
  <2>1. CASE p = Root
    <3>1. <<>> \in [1 .. 0 -> Names]
      OBVIOUS
    <3>. QED  BY <2>1, <3>1, PathConstants DEF PathOf
  <2>2. CASE p # Root
    <3>1. path[p] \in Paths
      BY <2>2 DEF PathNodeTypeOK, Parents
    <3>. QED  BY <2>2, <3>1 DEF PathOf, Paths
  <2>. QED  BY <2>1, <2>2
<1>2. PathOf(p) \in Seq(Names) /\ Len(PathOf(p)) = d
  BY <1>1
<1>3. Append(PathOf(p), e) \in [1 .. d + 1 -> Names]
  <2>. DEFINE s == Append(PathOf(p), e)
  <2>1. s \in Seq(Names) /\ Len(s) = d + 1
    BY <1>2
  <2>. HIDE DEF s
  <2>2. s \in [1 .. Len(s) -> Names]
    BY <2>1, LenProperties
  <2>. QED  BY <2>1, <2>2 DEF s
<1>4. d + 1 \in 0 .. MaxDepth
  BY <1>2, PathConstants
<1>. QED  BY <1>3, <1>4 DEF Paths

(* The path of a node, or of the root, is a sequence of names.             *)
LEMMA PathsAreSequences ==
    ASSUME PathNodeTypeOK, NEW p \in Parents
    PROVE  PathOf(p) \in Seq(Names)
<1>1. \A s \in Paths : s \in Seq(Names)
  BY DEF Paths
<1>2. \A q \in Nodes : path[q] \in Seq(Names)
  BY <1>1 DEF PathNodeTypeOK
<1>. QED  BY <1>2 DEF PathOf, Parents

(* Sequences that agree with one element more agree without it.            *)
LEMMA AppendsAgree ==
    ASSUME NEW S, NEW a \in Seq(S), NEW b \in Seq(S), NEW e \in S, NEW f \in S,
           Append(a, e) = Append(b, f)
    PROVE  a = b /\ e = f
<1>1. /\ Len(Append(a, e)) = Len(a) + 1 /\ Append(a, e)[Len(a) + 1] = e
      /\ \A i \in 1 .. Len(a) : Append(a, e)[i] = a[i]
  BY AppendProperties
<1>2. /\ Len(Append(b, f)) = Len(b) + 1 /\ Append(b, f)[Len(b) + 1] = f
      /\ \A i \in 1 .. Len(b) : Append(b, f)[i] = b[i]
  BY AppendProperties
<1>3. Len(a) = Len(b) /\ e = f
  BY <1>1, <1>2, LenProperties
<1>4. \A i \in 1 .. Len(a) : a[i] = b[i]
  BY <1>1, <1>2, <1>3
<1>. QED  BY <1>3, <1>4, SeqEqual

(* A destructor begins.  One that was about to drop its parent has done so.*)
LEMMA BeginsToDie ==
    ASSUME PathNodeTypeOK, NEW t \in Threads, NEW n \in Nodes,
           dtor[t] \in {"idle", "parent"},
           dying' = [dying EXCEPT ![t] = Append(@, n)],
           dtor' = [dtor EXCEPT ![t] = "remove"]
    PROVE  /\ \A m \in Nodes : Dying(m)' <=> Dying(m) \/ m = n
           /\ \A m \in Nodes : \A P : "remove" \notin P =>
                 (Passed(m, P)' <=>
                     Passed(m, P) \/ (dtor[t] = "parent" /\ m = Top(t)))
<1>. DEFINE L == Len(dying[t])
<1>1. /\ dying[t] \in Seq(Nodes) /\ L \in Nat /\ DOMAIN dying[t] = 1 .. L
      /\ dtor[t] = "idle" => L = 0
      /\ dtor[t] = "parent" => L > 0
  BY DEF PathNodeTypeOK
<1>2. /\ Len(dying'[t]) = L + 1 /\ DOMAIN dying'[t] = 1 .. (L + 1)
      /\ dying'[t][L + 1] = n
      /\ \A i \in 1 .. L : dying'[t][i] = dying[t][i]
  BY <1>1 DEF PathNodeTypeOK
<1>3. \A u \in Threads \ {t} : dying'[u] = dying[u] /\ dtor'[u] = dtor[u]
  BY DEF PathNodeTypeOK
<1>4. dtor'[t] = "remove"
  BY DEF PathNodeTypeOK
<1>. HIDE DEF L
<1>5. ASSUME NEW m \in Nodes
      PROVE  Dying(m)' <=> Dying(m) \/ m = n
  <2>1. ASSUME Dying(m)'  PROVE Dying(m) \/ m = n
    <3>0. PICK u \in Threads : \E i \in DOMAIN dying'[u] : dying'[u][i] = m
      BY <2>1 DEF Dying
    <3>1. PICK i \in DOMAIN dying'[u] : dying'[u][i] = m
      BY <3>0
    <3>2. CASE u = t /\ i = L + 1
      BY <3>1, <3>2, <1>2
    <3>3. CASE u = t /\ i # L + 1
      <4>1. i \in 1 .. L
        BY <3>1, <3>3, <1>1, <1>2
      <4>. QED  BY <3>1, <3>3, <4>1, <1>1, <1>2 DEF Dying
    <3>4. CASE u # t
      BY <3>1, <3>4, <1>3 DEF Dying
    <3>. QED  BY <3>2, <3>3, <3>4
  <2>2. ASSUME Dying(m)  PROVE Dying(m)'
    <3>0. PICK u \in Threads : \E i \in DOMAIN dying[u] : dying[u][i] = m
      BY <2>2 DEF Dying
    <3>1. PICK i \in DOMAIN dying[u] : dying[u][i] = m
      BY <3>0
    <3>2. i \in DOMAIN dying'[u] /\ dying'[u][i] = m
      BY <3>1, <1>1, <1>2, <1>3
    <3>. QED  BY <3>2 DEF Dying
  <2>3. ASSUME m = n  PROVE Dying(m)'
    <3>1. L + 1 \in DOMAIN dying'[t]
      BY <1>1, <1>2
    <3>. QED  BY <2>3, <3>1, <1>2 DEF Dying
  <2>. QED  BY <2>1, <2>2, <2>3
<1>6. ASSUME NEW m \in Nodes, NEW P, "remove" \notin P
      PROVE  Passed(m, P)' <=>
                 Passed(m, P) \/ (dtor[t] = "parent" /\ m = Top(t))
  <2>1. ASSUME Passed(m, P)'
        PROVE  Passed(m, P) \/ (dtor[t] = "parent" /\ m = Top(t))
    <3>0. PICK u \in Threads : \E i \in DOMAIN dying'[u] :
             dying'[u][i] = m /\ (i < Len(dying'[u]) \/ dtor'[u] \in P)
      BY <2>1 DEF Passed
    <3>1. PICK i \in DOMAIN dying'[u] :
             dying'[u][i] = m /\ (i < Len(dying'[u]) \/ dtor'[u] \in P)
      BY <3>0
    <3>2. CASE u # t
      BY <3>1, <3>2, <1>3 DEF Passed
    <3>3. CASE u = t
      <4>1. i \in 1 .. L /\ dying[t][i] = m /\ dtor[t] = "parent"
        BY <3>1, <3>3, <1>1, <1>2, <1>4, <1>6
      <4>2. CASE i < L
        BY <4>1, <4>2, <1>1 DEF Passed, L
      <4>3. CASE i = L
        BY <4>1, <4>3 DEF Top, L
      <4>. QED  BY <4>1, <4>2, <4>3, <1>1
    <3>. QED  BY <3>2, <3>3
  <2>2. ASSUME Passed(m, P)  PROVE Passed(m, P)'
    <3>0. PICK u \in Threads : \E i \in DOMAIN dying[u] :
             dying[u][i] = m /\ (i < Len(dying[u]) \/ dtor[u] \in P)
      BY <2>2 DEF Passed
    <3>1. PICK i \in DOMAIN dying[u] :
             dying[u][i] = m /\ (i < Len(dying[u]) \/ dtor[u] \in P)
      BY <3>0
    <3>2. /\ i \in DOMAIN dying'[u] /\ dying'[u][i] = m
          /\ i < Len(dying'[u]) \/ dtor'[u] \in P
      BY <3>1, <1>1, <1>2, <1>3
    <3>. QED  BY <3>2 DEF Passed
  <2>3. ASSUME dtor[t] = "parent", m = Top(t)  PROVE Passed(m, P)'
    <3>1. L \in DOMAIN dying'[t] /\ dying'[t][L] = m /\ L < Len(dying'[t])
      BY <2>3, <1>1, <1>2 DEF Top, L
    <3>. QED  BY <3>1 DEF Passed
  <2>. QED  BY <2>1, <2>2, <2>3
<1>. QED  BY <1>5, <1>6

(* A destructor goes on.                                                   *)
LEMMA GoesOnDying ==
    ASSUME PathNodeTypeOK, NEW t \in Threads, dtor[t] # "idle", NEW q,
           UNCHANGED dying, dtor' = [dtor EXCEPT ![t] = q]
    PROVE  /\ Top(t) \in Nodes /\ Dying(Top(t))
           /\ \A m \in Nodes : Dying(m)' <=> Dying(m)
           /\ \A P : dtor[t] \in P => Passed(Top(t), P)
           /\ \A m \in Nodes : \A P :
                 /\ q \in P =>
                       (Passed(m, P)' <=> Passed(m, P) \/ m = Top(t))
                 /\ q \notin P /\ dtor[t] \notin P =>
                       (Passed(m, P)' <=> Passed(m, P))
<1>1. /\ Len(dying[t]) \in DOMAIN dying[t]
      /\ Top(t) = dying[t][Len(dying[t])] /\ Top(t) \in Nodes
      /\ \A i \in DOMAIN dying[t] :
            i < Len(dying[t]) \/ i = Len(dying[t])
  BY DEF PathNodeTypeOK, Top
<1>2. /\ dtor'[t] = q
      /\ \A u \in Threads \ {t} : dtor'[u] = dtor[u]
  BY DEF PathNodeTypeOK
<1>3. Dying(Top(t)) /\ \A m \in Nodes : Dying(m)' <=> Dying(m)
  BY <1>1 DEF Dying
<1>4. ASSUME NEW m \in Nodes, NEW P, q \in P
      PROVE  Passed(m, P)' <=> Passed(m, P) \/ m = Top(t)
  <2>1. ASSUME Passed(m, P)'  PROVE Passed(m, P) \/ m = Top(t)
    <3>0. PICK u \in Threads : \E i \in DOMAIN dying[u] :
             dying[u][i] = m /\ (i < Len(dying[u]) \/ dtor'[u] \in P)
      BY <2>1 DEF Passed
    <3>1. PICK i \in DOMAIN dying[u] :
             dying[u][i] = m /\ (i < Len(dying[u]) \/ dtor'[u] \in P)
      BY <3>0
    <3>. QED  BY <3>1, <1>1, <1>2 DEF Passed
  <2>2. ASSUME Passed(m, P)  PROVE Passed(m, P)'
    <3>0. PICK u \in Threads : \E i \in DOMAIN dying[u] :
             dying[u][i] = m /\ (i < Len(dying[u]) \/ dtor[u] \in P)
      BY <2>2 DEF Passed
    <3>1. PICK i \in DOMAIN dying[u] :
             dying[u][i] = m /\ (i < Len(dying[u]) \/ dtor[u] \in P)
      BY <3>0
    <3>. QED  BY <3>1, <1>2, <1>4 DEF Passed
  <2>3. ASSUME m = Top(t)  PROVE Passed(m, P)'
    BY <2>3, <1>1, <1>2, <1>4 DEF Passed
  <2>. QED  BY <2>1, <2>2, <2>3
<1>5. ASSUME NEW m \in Nodes, NEW P, q \notin P, dtor[t] \notin P
      PROVE  Passed(m, P)' <=> Passed(m, P)
  <2>1. \A u \in Threads : dtor'[u] \in P <=> dtor[u] \in P
    BY <1>2, <1>5
  <2>. QED  BY <2>1 DEF Passed
<1>6. \A P : dtor[t] \in P => Passed(Top(t), P)
  BY <1>1 DEF Passed
<1>. QED  BY <1>1, <1>3, <1>4, <1>5, <1>6

(* A destructor is done.                                                   *)
LEMMA IsDead ==
    ASSUME PathNodeTypeOK, EachDiesOnce, NEW t \in Threads, Free(t)
    PROVE  /\ Top(t) \in Nodes /\ Dying(Top(t))
           /\ \A m \in Nodes : Dying(m)' <=> Dying(m) /\ m # Top(t)
           /\ \A m \in Nodes : \A P : "free" \in P =>
                 /\ Passed(Top(t), P)
                 /\ Passed(m, P)' <=> Passed(m, P) /\ m # Top(t)
<1>. DEFINE L == Len(dying[t])
<1>1. /\ dying[t] \in Seq(Nodes) /\ L \in Nat \ {0} /\ DOMAIN dying[t] = 1 .. L
      /\ Top(t) = dying[t][L] /\ Top(t) \in Nodes /\ dtor[t] = "free"
  BY DEF PathNodeTypeOK, Top, Free
<1>2. /\ Len(dying'[t]) = L - 1 /\ DOMAIN dying'[t] = 1 .. (L - 1)
      /\ \A i \in 1 .. (L - 1) : dying'[t][i] = dying[t][i]
  <2>1. dying'[t] = SubSeq(dying[t], 1, L - 1)
    BY DEF PathNodeTypeOK, Free
  <2>. QED  BY <1>1, <2>1
<1>3. \A u \in Threads \ {t} : dying'[u] = dying[u] /\ dtor'[u] = dtor[u]
  BY DEF PathNodeTypeOK, Free
<1>4. L > 1 => dtor'[t] = "free"
  <2>1. dtor'[t] = IF L = 1 THEN "idle" ELSE "free"
    BY DEF PathNodeTypeOK, Free
  <2>. HIDE DEF L
  <2>. QED  BY <1>1, <2>1
<1>5. \A u \in Threads : \A i \in DOMAIN dying[u] :
          dying[u][i] = Top(t) <=> u = t /\ i = L
  BY <1>1 DEF EachDiesOnce
<1>. HIDE DEF L
<1>6. \A u \in Threads : \A i : i \in DOMAIN dying'[u] <=>
          i \in DOMAIN dying[u] /\ ~(u = t /\ i = L)
  BY <1>1, <1>2, <1>3
<1>7. \A u \in Threads : \A i \in DOMAIN dying'[u] : dying'[u][i] = dying[u][i]
  BY <1>2, <1>3
<1>8. Dying(Top(t)) /\ \A m \in Nodes : Dying(m)' <=> Dying(m) /\ m # Top(t)
  BY <1>1, <1>5, <1>6, <1>7 DEF Dying
<1>9. ASSUME NEW m \in Nodes, NEW P, "free" \in P
      PROVE  /\ Passed(Top(t), P)
             /\ Passed(m, P)' <=> Passed(m, P) /\ m # Top(t)
  <2>1. Passed(Top(t), P)
    BY <1>1, <1>9 DEF Passed
  <2>2. ASSUME Passed(m, P)'  PROVE Passed(m, P) /\ m # Top(t)
    <3>0. PICK u \in Threads : \E i \in DOMAIN dying'[u] :
             dying'[u][i] = m /\ (i < Len(dying'[u]) \/ dtor'[u] \in P)
      BY <2>2 DEF Passed
    <3>1. PICK i \in DOMAIN dying'[u] :
             dying'[u][i] = m /\ (i < Len(dying'[u]) \/ dtor'[u] \in P)
      BY <3>0
    <3>2. i \in DOMAIN dying[u] /\ dying[u][i] = m /\ ~(u = t /\ i = L)
      BY <3>1, <1>6, <1>7
    <3>3. u = t => dtor[u] \in P
      BY <1>1, <1>9
    <3>. QED  BY <3>1, <3>2, <3>3, <1>3, <1>5 DEF Passed
  <2>3. ASSUME Passed(m, P), m # Top(t)  PROVE Passed(m, P)'
    <3>0. PICK u \in Threads : \E i \in DOMAIN dying[u] :
             dying[u][i] = m /\ (i < Len(dying[u]) \/ dtor[u] \in P)
      BY <2>3 DEF Passed
    <3>1. PICK i \in DOMAIN dying[u] :
             dying[u][i] = m /\ (i < Len(dying[u]) \/ dtor[u] \in P)
      BY <3>0
    <3>2. i \in DOMAIN dying'[u] /\ dying'[u][i] = m
      BY <2>3, <3>1, <1>1, <1>6, <1>7
    <3>3. u = t => dtor'[u] \in P
      BY <3>2, <1>2, <1>4, <1>9, <1>1
    <3>. QED  BY <3>1, <3>2, <3>3, <1>3 DEF Passed
  <2>. QED  BY <2>1, <2>2, <2>3
<1>. QED  BY <1>1, <1>8, <1>9

(* What counts in a node is finitely many, so that it can be counted.      *)
LEMMA PlacesAreFinite ==
    ASSUME NEW n \in Nodes
    PROVE  IsFiniteSet(RefPlaces(n))
<1>1. IsFiniteSet(Threads \cup Nodes)
  BY FS_Union, PathConstants
<1>2. IsFiniteSet(0 .. MaxHeld)
  BY FS_Interval, PathConstants
<1>3. IsFiniteSet((Threads \cup Nodes) \X (0 .. MaxHeld))
  BY <1>1, <1>2, FS_Product
<1>4. RefPlaces(n) \in SUBSET ((Threads \cup Nodes) \X (0 .. MaxHeld))
  BY DEF RefPlaces
<1>. QED  BY <1>3, <1>4, FS_Subset

(* One place more counts one more.                                         *)
LEMMA CountOneMore ==
    ASSUME NEW S, NEW q, IsFiniteSet(S), q \notin S
    PROVE  S \cup {q} # {} /\ Cardinality(S \cup {q}) = Cardinality(S) + 1
BY FS_AddElement

(* One place less counts one less, and none is left of one.                *)
LEMMA CountOneLess ==
    ASSUME NEW S, NEW q \in S, IsFiniteSet(S)
    PROVE  /\ Cardinality(S) \in Nat \ {0}
           /\ Cardinality(S \ {q}) = Cardinality(S) - 1
           /\ S \ {q} = {} <=> Cardinality(S) = 1
<1>1. /\ IsFiniteSet(S \ {q}) /\ Cardinality(S \ {q}) = Cardinality(S) - 1
  BY FS_RemoveElement
<1>2. Cardinality(S) \in Nat /\ Cardinality(S \ {q}) \in Nat
  BY <1>1, FS_CardinalityType
<1>3. Cardinality(S \ {q}) = 0 <=> S \ {q} = {}
  BY <1>1, FS_EmptySet
<1>. QED  BY <1>1, <1>2, <1>3

(* Paths in hand, and children that count, are places.                     *)
LEMMA PlacesOf ==
    ASSUME PathNodeTypeOK, NEW n \in Nodes
    PROVE  /\ \A t \in Threads :
                  held[t][n] > 0 => <<t, held[t][n]>> \in RefPlaces(n)
           /\ \A c \in Children(n) : <<c, 0>> \in RefPlaces(n)
           /\ \A t \in Threads : RefPlaces(n) = {} => held[t][n] = 0
           /\ RefPlaces(n) = {} => Children(n) = {}
<1>1. Children(n) \subseteq Nodes
  BY DEF Children, PathNodeTypeOK
<1>2. 0 \in 0 .. MaxHeld
  BY PathConstants
<1>3. \A t \in Threads : held[t][n] \in 0 .. MaxHeld
  BY DEF PathNodeTypeOK
<1>4. \A c \in Children(n) : <<c, 0>> \in RefPlaces(n)
  BY <1>1, <1>2 DEF RefPlaces
<1>5. \A t \in Threads : held[t][n] > 0 => <<t, held[t][n]>> \in RefPlaces(n)
  BY <1>3, PathConstants DEF RefPlaces
<1>6. \A t \in Threads : RefPlaces(n) = {} => held[t][n] = 0
  BY <1>3, <1>5, PathConstants
<1>. QED  BY <1>4, <1>5, <1>6

(* A thread that takes another path to a node gives it a place.            *)
LEMMA OnePathMore ==
    ASSUME PathNodeTypeOK, NEW n \in Nodes,
           NEW t \in Threads, Hold(t, n), Children(n)' = Children(n)
    PROVE  /\ <<t, held[t][n] + 1>> \notin RefPlaces(n)
           /\ RefPlaces(n)' = RefPlaces(n) \cup {<<t, held[t][n] + 1>>}
<1>1. \A u \in Threads : /\ held[u][n] \in 0 .. MaxHeld
                         /\ held'[u][n] = IF u = t THEN held[u][n] + 1
                                          ELSE held[u][n]
  BY DEF PathNodeTypeOK, Hold
<1>2. /\ held[t][n] + 1 \in 1 .. MaxHeld /\ MaxHeld \in Nat
      /\ Children(n)' = Children(n)
  BY PathConstants DEF PathNodeTypeOK, Hold
<1>3. ASSUME NEW x \in Threads \cup Nodes, NEW i \in 0 .. MaxHeld
      PROVE  <<x, i>> \in RefPlaces(n)' <=>
                 <<x, i>> \in RefPlaces(n) \cup {<<t, held[t][n] + 1>>}
  <2>1. CASE i = 0
    BY <2>1, <1>1, <1>2 DEF RefPlaces
  <2>2. CASE i # 0
    <3>1. <<x, i>> \in RefPlaces(n) <=> x \in Threads /\ i <= held[x][n]
      BY <2>2 DEF RefPlaces
    <3>2. <<x, i>> \in RefPlaces(n)' <=> x \in Threads /\ i <= held'[x][n]
      BY <2>2 DEF RefPlaces
    <3>. QED  BY <3>1, <3>2, <1>1, <1>2, <2>2
  <2>. QED  BY <2>1, <2>2
<1>. QED  BY <1>1, <1>2, <1>3 DEF RefPlaces

(* A thread that lets a path to a node go takes its place away.            *)
LEMMA OnePathLess ==
    ASSUME PathNodeTypeOK, NEW n \in Nodes,
           NEW t \in Threads, held[t][n] > 0,
           held' = [held EXCEPT ![t][n] = @ - 1], Children(n)' = Children(n)
    PROVE  /\ <<t, held[t][n]>> \in RefPlaces(n)
           /\ RefPlaces(n)' = RefPlaces(n) \ {<<t, held[t][n]>>}
<1>1. \A u \in Threads : /\ held[u][n] \in 0 .. MaxHeld
                         /\ held'[u][n] = IF u = t THEN held[u][n] - 1
                                          ELSE held[u][n]
  BY DEF PathNodeTypeOK
<1>2. /\ held[t][n] \in 1 .. MaxHeld /\ MaxHeld \in Nat
      /\ Children(n)' = Children(n)
  BY PathConstants DEF PathNodeTypeOK
<1>3. ASSUME NEW x \in Threads \cup Nodes, NEW i \in 0 .. MaxHeld
      PROVE  <<x, i>> \in RefPlaces(n)' <=>
                 <<x, i>> \in RefPlaces(n) \ {<<t, held[t][n]>>}
  <2>1. CASE i = 0
    BY <2>1, <1>1, <1>2 DEF RefPlaces
  <2>2. CASE i # 0
    <3>1. <<x, i>> \in RefPlaces(n) <=> x \in Threads /\ i <= held[x][n]
      BY <2>2 DEF RefPlaces
    <3>2. <<x, i>> \in RefPlaces(n)' <=> x \in Threads /\ i <= held'[x][n]
      BY <2>2 DEF RefPlaces
    <3>. QED  BY <3>1, <3>2, <1>1, <1>2, <2>2
  <2>. QED  BY <2>1, <2>2
<1>. QED  BY <1>1, <1>2, <1>3 DEF RefPlaces

(* A new child gives its parent a place.                                   *)
LEMMA OneChildMore ==
    ASSUME PathNodeTypeOK, NEW n \in Nodes,
           NEW c \in Nodes, c \notin Children(n),
           Children(n)' = Children(n) \cup {c},
           \A u \in Threads : held'[u][n] = held[u][n]
    PROVE  /\ <<c, 0>> \notin RefPlaces(n)
           /\ RefPlaces(n)' = RefPlaces(n) \cup {<<c, 0>>}
<1>1. \A u \in Threads : held'[u][n] = held[u][n]
  OBVIOUS
<1>2. 0 \in 0 .. MaxHeld /\ Children(n)' = Children(n) \cup {c}
  BY PathConstants
<1>3. ASSUME NEW x \in Threads \cup Nodes, NEW i \in 0 .. MaxHeld
      PROVE  <<x, i>> \in RefPlaces(n)' <=>
                 <<x, i>> \in RefPlaces(n) \cup {<<c, 0>>}
  <2>1. CASE i = 0
    BY <2>1, <1>1, <1>2 DEF RefPlaces
  <2>2. CASE i # 0
    <3>1. <<x, i>> \in RefPlaces(n) <=> x \in Threads /\ i <= held[x][n]
      BY <2>2 DEF RefPlaces
    <3>2. <<x, i>> \in RefPlaces(n)' <=> x \in Threads /\ i <= held'[x][n]
      BY <2>2 DEF RefPlaces
    <3>. QED  BY <3>1, <3>2, <1>1, <1>2, <2>2
  <2>. QED  BY <2>1, <2>2
<1>. QED  BY <1>1, <1>2, <1>3 DEF RefPlaces

(* A child that drops its parent takes its place away.                     *)
LEMMA OneChildLess ==
    ASSUME PathNodeTypeOK, NEW n \in Nodes,
           NEW c \in Children(n), Children(n)' = Children(n) \ {c},
           \A u \in Threads : held'[u][n] = held[u][n]
    PROVE  /\ <<c, 0>> \in RefPlaces(n)
           /\ RefPlaces(n)' = RefPlaces(n) \ {<<c, 0>>}
<1>1. \A u \in Threads : held'[u][n] = held[u][n]
  OBVIOUS
<1>2. 0 \in 0 .. MaxHeld /\ Children(n)' = Children(n) \ {c} /\ c \in Nodes
  BY PathConstants DEF Children, PathNodeTypeOK
<1>3. ASSUME NEW x \in Threads \cup Nodes, NEW i \in 0 .. MaxHeld
      PROVE  <<x, i>> \in RefPlaces(n)' <=> <<x, i>> \in RefPlaces(n) \ {<<c, 0>>}
  <2>1. CASE i = 0
    BY <2>1, <1>1, <1>2 DEF RefPlaces
  <2>2. CASE i # 0
    <3>1. <<x, i>> \in RefPlaces(n) <=> x \in Threads /\ i <= held[x][n]
      BY <2>2 DEF RefPlaces
    <3>2. <<x, i>> \in RefPlaces(n)' <=> x \in Threads /\ i <= held'[x][n]
      BY <2>2 DEF RefPlaces
    <3>. QED  BY <3>1, <3>2, <1>1, <1>2, <2>2
  <2>. QED  BY <2>1, <2>2
<1>. QED  BY <1>1, <1>2, <1>3 DEF RefPlaces

(* Otherwise a node keeps its places.                                      *)
LEMMA SamePlaces ==
    ASSUME NEW n \in Nodes, Children(n)' = Children(n),
           \A u \in Threads : held'[u][n] = held[u][n]
    PROVE  RefPlaces(n)' = RefPlaces(n)
BY DEF RefPlaces

(* Who is referred to is alive, by paths or children.                      *)
LEMMA AliveBecause ==
    ASSUME PathNodeInv, NEW n \in Nodes
    PROVE  /\ \A t \in Threads : held[t][n] > 0 => Live(n)
           /\ \A c \in Children(n) : Live(n)
           /\ Live(n) /\ parent[n] # Root =>
                 /\ parent[n] \in Nodes /\ Live(parent[n])
                 /\ n \in Children(parent[n])
<1>. USE DEF PathNodeInv
<1>1. \A m \in Nodes : \A c \in Children(m) : Live(m)
  BY PlacesOf DEF ReferredAreLive
<1>2. \A t \in Threads : held[t][n] > 0 => Live(n)
  BY PlacesOf DEF ReferredAreLive
<1>3. ASSUME Live(n), parent[n] # Root
      PROVE  parent[n] \in Nodes /\ n \in Children(parent[n])
  <2>1. ~DroppedParent(n)
    BY <1>3 DEF Live, Dying, DroppedParent
  <2>. QED  BY <1>3, <2>1 DEF PathNodeTypeOK, Parents, Children, Live
<1>. QED  BY <1>1, <1>2, <1>3

(* Nobody begins or goes on to die.                                        *)
LEMMA DeathsStay ==
    ASSUME UNCHANGED <<dying, dtor>>
    PROVE  /\ \A n \in Nodes : Dying(n)' <=> Dying(n)
           /\ \A n \in Nodes : \A P : Passed(n, P)' <=> Passed(n, P)
BY DEF Dying, Passed

(* To have dropped the parent is to have passed on to freeing.             *)
LEMMA DroppedIsPassed ==
    /\ \A n : DroppedParent(n) <=> Passed(n, {"free"})
    /\ \A n : DroppedParent(n)' <=> Passed(n, {"free"})'
BY DEF DroppedParent, Passed

(* Another path to a node that is alive.                                   *)
LEMMA GrabKeepsInv ==
    ASSUME PathNodeInv, NEW t \in Threads, NEW n \in Nodes, Live(n), Hold(t, n),
           refCount' = [refCount EXCEPT ![n] = @ + 1],
           UNCHANGED <<table, allocated, nodeVars, token, dtor, dying>>
    PROVE  PathNodeInv'
<1>. USE DEF PathNodeInv, nodeVars
<1>1. PathNodeTypeOK'
  <2>1. held' \in [Threads -> [Nodes -> 0 .. MaxHeld]]
    BY PathConstants DEF Hold, PathNodeTypeOK
  <2>2. refCount' \in [Nodes -> Nat]
    BY DEF PathNodeTypeOK
  <2>. QED  BY <2>1, <2>2 DEF PathNodeTypeOK
<1>2. /\ \A m \in Nodes : Dying(m)' <=> Dying(m)
      /\ \A m \in Nodes : \A P : Passed(m, P)' <=> Passed(m, P)
  BY DeathsStay
<1>3. \A m \in Nodes : Live(m)' <=> Live(m)
  BY <1>2 DEF Live
<1>4. \A m \in Nodes : Children(m)' = Children(m)
  BY <1>2, DroppedIsPassed DEF Children, PathNodeTypeOK
<1>5. \A m \in Nodes \ {n} : RefPlaces(m)' = RefPlaces(m)
  BY <1>4, SamePlaces DEF Hold, PathNodeTypeOK
<1>6. /\ RefPlaces(n)' # {}
      /\ Cardinality(RefPlaces(n)') = Cardinality(RefPlaces(n)) + 1
  BY <1>4, OnePathMore, PlacesAreFinite, CountOneMore
<1>7. ReferredAreLive'
  BY <1>3, <1>5 DEF ReferredAreLive
<1>8. LiveAreCounted'
  BY <1>3, <1>5, <1>6 DEF LiveAreCounted, PathNodeTypeOK
<1>9. EntriesAreExact'
  BY <1>2, <1>3 DEF EntriesAreExact, Removed, Live, Key, PathNodeTypeOK
<1>10. EachDiesOnce' /\ DyingAreAllocated'
  BY <1>2 DEF EachDiesOnce, DyingAreAllocated
<1>11. LiveAreEntered' /\ PathsExtendParents' /\ PathsAreUnique'
  BY <1>3 DEF LiveAreEntered, PathsExtendParents, PathsAreUnique, Key, PathOf
<1>12. TokensMatch'
  BY <1>2 DEF TokensMatch, Untokened
<1>. QED  BY <1>1, <1>7, <1>8, <1>9, <1>10, <1>11, <1>12

(* A node that Find takes from the table is alive: it counts.              *)
LEMMA FindKeepsInv ==
    ASSUME PathNodeInv, NEW t \in Threads, NEW p \in Parents, NEW e \in Names,
           Find(t, p, e)
    PROVE  PathNodeInv'
<1>1. <<p, e>> \in Parents \X Names /\ table[<<p, e>>] # None
  BY DEF Find
<1>2. table[<<p, e>>] \in Nodes /\ Live(table[<<p, e>>])
  BY <1>1 DEF Find, PathNodeInv, EntriesAreExact, Live, PathNodeTypeOK
<1>. QED  BY <1>2, GrabKeepsInv DEF Find

(* A node to which somebody has a path is alive.                           *)
LEMMA CopyKeepsInv ==
    ASSUME PathNodeInv, NEW t \in Threads, NEW n \in Nodes, Copy(t, n)
    PROVE  PathNodeInv'
<1>1. Live(n)
  BY AliveBecause DEF Copy
<1>. QED  BY <1>1, GrabKeepsInv DEF Copy

(* A token is made for the path of a node that is alive.                   *)
LEMMA GetPathTokenKeepsInv ==
    ASSUME PathNodeInv, NEW t \in Threads, NEW n \in Nodes, GetPathToken(t, n)
    PROVE  PathNodeInv'
<1>. USE DEF PathNodeInv, GetPathToken, nodeVars
<1>1. Live(n)
  BY AliveBecause
<1>2. PathNodeTypeOK'
  BY DEF PathNodeTypeOK
<1>3. /\ \A m \in Nodes : Dying(m)' <=> Dying(m)
      /\ \A m \in Nodes : \A P : Passed(m, P)' <=> Passed(m, P)
  BY DeathsStay
<1>4. \A m \in Nodes : Live(m)' <=> Live(m)
  BY <1>3 DEF Live
<1>5. \A m \in Nodes : RefPlaces(m)' = RefPlaces(m)
  BY <1>3, DroppedIsPassed, SamePlaces DEF Children, PathNodeTypeOK
<1>6. ReferredAreLive' /\ LiveAreCounted'
  BY <1>4, <1>5 DEF ReferredAreLive, LiveAreCounted
<1>7. EntriesAreExact'
  BY <1>3 DEF EntriesAreExact, Removed, Key, PathNodeTypeOK
<1>8. EachDiesOnce' /\ DyingAreAllocated'
  BY <1>3 DEF EachDiesOnce, DyingAreAllocated
<1>9. LiveAreEntered' /\ PathsExtendParents' /\ PathsAreUnique'
  BY <1>4 DEF LiveAreEntered, PathsExtendParents, PathsAreUnique, Key, PathOf
<1>10. TokensMatch'
  <2>1. ~Untokened(n)
    BY <1>1 DEF Live, Untokened, Passed, Dying
  <2>. QED  BY <2>1, <1>1, <1>3 DEF TokensMatch, Untokened, Live, PathNodeTypeOK
<1>. QED  BY <1>2, <1>6, <1>7, <1>8, <1>9, <1>10

(* A new node takes the entry, from nobody who is alive.                   *)
LEMMA CreateKeepsInv ==
    ASSUME PathNodeInv, NEW t \in Threads, NEW p \in Parents, NEW e \in Names,
           Create(t, p, e)
    PROVE  PathNodeInv'
<1>. USE DEF PathNodeInv
<1>. DEFINE former == table[<<p, e>>]
<1>1. PICK n \in Nodes \ allocated :
          /\ allocated' = allocated \cup {n}
          /\ table' = [table EXCEPT ![<<p, e>>] = n]
          /\ parent' = [parent EXCEPT ![n] = p]
          /\ name' = [name EXCEPT ![n] = e]
          /\ path' = [path EXCEPT ![n] = Append(PathOf(p), e)]
          /\ refCount' = [m \in Nodes |->
                CASE m = n -> 1
                  [] m = former \/ m = p -> refCount[m] + 1
                  [] OTHER -> refCount[m]]
          /\ Hold(t, n)
  BY DEF Create
<1>2. /\ Holds(t, p) /\ Len(PathOf(p)) < MaxDepth
      /\ former # None => refCount[former] = 0
      /\ UNCHANGED <<token, dtor, dying>>
  BY DEF Create
<1>3. <<p, e>> \in Parents \X Names /\ n \in Nodes /\ n \notin allocated
  BY <1>1
<1>4. /\ ~Live(n) /\ ~Dying(n) /\ RefPlaces(n) = {}
      /\ Children(n) = {} /\ \A u \in Threads : held[u][n] = 0
  BY <1>3, PlacesOf DEF Live, DyingAreAllocated, ReferredAreLive
<1>5. p # Root => p \in Nodes /\ Live(p)
  BY <1>2, AliveBecause DEF Holds, Parents
<1>6. p # n
  BY <1>3, <1>4, <1>5, PathConstants
<1>7. former # None =>
          /\ former \in Nodes /\ former \in allocated /\ Key(former) = <<p, e>>
          /\ ~Live(former)
  <2>1. former # None => /\ former \in Nodes /\ former \in allocated
                         /\ Key(former) = <<p, e>>
    BY <1>3 DEF EntriesAreExact, PathNodeTypeOK
  <2>2. \A m \in Nodes : Live(m) => refCount[m] # 0
    <3>1. ASSUME NEW m \in Nodes, Live(m)  PROVE refCount[m] # 0
      <4>1. PICK q : q \in RefPlaces(m)
        BY <3>1 DEF LiveAreCounted
      <4>. QED  BY <3>1, <4>1, PlacesAreFinite, CountOneLess DEF LiveAreCounted
    <3>. QED  BY <3>1
  <2>. QED  BY <1>2, <2>1, <2>2
<1>. HIDE DEF former
<1>8. /\ \A m \in Nodes : Dying(m)' <=> Dying(m)
      /\ \A m \in Nodes : \A P : Passed(m, P)' <=> Passed(m, P)
  BY <1>2, DeathsStay
<1>9. \A m \in Nodes : Live(m)' <=> Live(m) \/ m = n
  BY <1>1, <1>4, <1>8 DEF Live
<1>10. PathNodeTypeOK'
  <2>1. held' \in [Threads -> [Nodes -> 0 .. MaxHeld]]
    BY <1>1, PathConstants DEF Hold, PathNodeTypeOK
  <2>2. path' \in [Nodes -> Paths]
    BY <1>1, <1>2, PathsGrow DEF PathNodeTypeOK
  <2>3. table' \in [Parents \X Names -> Nodes \cup {None}]
    BY <1>1 DEF PathNodeTypeOK
  <2>4. refCount' \in [Nodes -> Nat]
    BY <1>1 DEF PathNodeTypeOK
  <2>5. /\ parent' \in [Nodes -> Parents] /\ name' \in [Nodes -> Names]
        /\ allocated' \subseteq Nodes
    BY <1>1 DEF PathNodeTypeOK
  <2>. QED  BY <1>2, <2>1, <2>2, <2>3, <2>4, <2>5 DEF PathNodeTypeOK
<1>11. /\ parent'[n] = p /\ name'[n] = e /\ path'[n] = Append(PathOf(p), e)
       /\ \A m \in Nodes \ {n} : /\ parent'[m] = parent[m] /\ name'[m] = name[m]
                                 /\ path'[m] = path[m]
       /\ table'[<<p, e>>] = n
       /\ \A k \in (Parents \X Names) \ {<<p, e>>} : table'[k] = table[k]
  BY <1>1, <1>3 DEF PathNodeTypeOK
<1>12. /\ \A m \in Nodes \ {p} : Children(m)' = Children(m)
       /\ p \in Nodes => Children(p)' = Children(p) \cup {n}
       /\ p \in Nodes => n \notin Children(p)
  <2>1. ~DroppedParent(n)'
    BY <1>4, <1>2 DEF DroppedParent, Dying
  <2>2. \A m \in Nodes : DroppedParent(m)' <=> DroppedParent(m)
    BY <1>8, DroppedIsPassed
  <2>3. allocated \subseteq Nodes
    BY DEF PathNodeTypeOK
  <2>. QED  BY <1>1, <1>3, <1>11, <2>1, <2>2, <2>3 DEF Children
<1>13. /\ \A u \in Threads, m \in Nodes \ {n} : held'[u][m] = held[u][m]
       /\ held[t][n] = 0
  BY <1>1, <1>4 DEF Hold, PathNodeTypeOK
<1>14. \A m \in Nodes \ {n, p} : RefPlaces(m)' = RefPlaces(m)
  BY <1>12, <1>13, SamePlaces
<1>15. RefPlaces(n)' # {} /\ Cardinality(RefPlaces(n)') = 1
  <2>1. Children(n)' = Children(n) /\ Hold(t, n)
    BY <1>1, <1>6, <1>12
  <2>2. RefPlaces(n)' = RefPlaces(n) \cup {<<t, held[t][n] + 1>>}
    BY <2>1, OnePathMore
  <2>3. RefPlaces(n)' = {<<t, 1>>}
    BY <2>2, <1>4, <1>13
  <2>. QED  BY <2>3, FS_Singleton
<1>16. ASSUME p \in Nodes
       PROVE  /\ RefPlaces(p)' # {}
              /\ Cardinality(RefPlaces(p)') = Cardinality(RefPlaces(p)) + 1
  <2>1. /\ n \notin Children(p) /\ Children(p)' = Children(p) \cup {n}
        /\ \A u \in Threads : held'[u][p] = held[u][p]
    BY <1>6, <1>12, <1>13, <1>16
  <2>2. /\ <<n, 0>> \notin RefPlaces(p)
        /\ RefPlaces(p)' = RefPlaces(p) \cup {<<n, 0>>}
    BY <2>1, <1>3, <1>16, OneChildMore
  <2>. QED  BY <2>2, <1>16, PlacesAreFinite, CountOneMore
<1>17. \A m \in Nodes : m \notin {n, former, p} => refCount'[m] = refCount[m]
  BY <1>1
<1>18. refCount'[n] = 1 /\ (p \in Nodes => refCount'[p] = refCount[p] + 1)
  <2>1. refCount'[n] = 1
    BY <1>1, <1>3, <1>6, <1>7, PathConstants
  <2>2. ASSUME p \in Nodes  PROVE refCount'[p] = refCount[p] + 1
    BY <1>1, <1>6, <2>2
  <2>. QED  BY <2>1, <2>2
<1>19. p \in Nodes => Live(p)
  BY <1>5, PathConstants
<1>20. \A m \in Nodes : Live(m) => m # former
  BY <1>7, PathConstants
<1>21. ReferredAreLive'
  BY <1>9, <1>14, <1>19 DEF ReferredAreLive
<1>22. LiveAreCounted'
  <2>1. ASSUME NEW m \in Nodes, Live(m)'
        PROVE  RefPlaces(m)' # {} /\ refCount'[m] = Cardinality(RefPlaces(m)')
    <3>1. CASE m = n
      BY <3>1, <1>15, <1>18
    <3>2. CASE m = p
      BY <3>2, <1>16, <1>18, <1>19 DEF LiveAreCounted
    <3>3. CASE m # n /\ m # p
      BY <3>3, <2>1, <1>9, <1>14, <1>17, <1>20 DEF LiveAreCounted
    <3>. QED  BY <3>1, <3>2, <3>3
  <2>. QED  BY <2>1 DEF LiveAreCounted
<1>23. EntriesAreExact'
  <2>1. ASSUME NEW k \in Parents \X Names, NEW m, m = table'[k], m # None
        PROVE  /\ m \in Nodes /\ m \in allocated' /\ Key(m)' = k
               /\ ~Removed(m)' /\ (Dying(m)' => refCount'[m] = 0)
    <3>1. CASE k = <<p, e>>
      <4>1. m = n
        BY <2>1, <3>1, <1>11
      <4>2. ~Removed(n)
        BY <1>4 DEF Removed, Passed, Dying
      <4>3. ~Removed(n)' /\ ~Dying(n)'
        BY <4>2, <1>4, <1>8, <1>3 DEF Removed
      <4>. QED  BY <3>1, <4>1, <4>3, <1>1, <1>11 DEF Key
    <3>2. CASE k # <<p, e>>
      <4>1. table[k] = m
        BY <2>1, <3>2, <1>11
      <4>2. /\ m \in Nodes /\ m \in allocated /\ Key(m) = k /\ ~Removed(m)
            /\ Dying(m) => refCount[m] = 0
        BY <2>1, <4>1 DEF EntriesAreExact, PathNodeTypeOK
      <4>3. m # n /\ m # former
        BY <4>2, <3>2, <1>3, <1>7, PathConstants
      <4>4. Key(m)' = k
        BY <4>2, <4>3, <1>11 DEF Key
      <4>5. ~Removed(m)'
        BY <4>2, <1>8 DEF Removed
      <4>6. Dying(m)' => refCount'[m] = 0
        BY <4>2, <4>3, <1>8, <1>17, <1>19 DEF Live
      <4>. QED  BY <4>2, <4>4, <4>5, <4>6, <1>1
    <3>. QED  BY <3>1, <3>2
  <2>. QED  BY <2>1 DEF EntriesAreExact, Key, Removed, Passed, Dying
<1>24. LiveAreEntered'
  <2>1. ASSUME NEW m \in Nodes, Live(m)'  PROVE table'[Key(m)'] = m
    <3>1. CASE m = n
      BY <3>1, <1>11 DEF Key
    <3>2. CASE m # n
      <4>1. Live(m) /\ Key(m)' = Key(m) /\ table[Key(m)] = m
        BY <3>2, <2>1, <1>9, <1>11 DEF Key, LiveAreEntered
      <4>2. Key(m) \in Parents \X Names /\ Key(m) # <<p, e>>
        BY <4>1, <1>20 DEF Key, PathNodeTypeOK, former
      <4>. QED  BY <4>1, <4>2, <1>11
    <3>. QED  BY <3>1, <3>2
  <2>. QED  BY <2>1 DEF LiveAreEntered
<1>25. PathOf(p)' = PathOf(p)
  BY <1>5, <1>6, <1>11 DEF PathOf
<1>26. PathsExtendParents'
  <2>1. ASSUME NEW m \in Nodes, Live(m)'
        PROVE  path'[m] = Append(PathOf(parent[m])', name'[m])
    <3>1. CASE m = n
      BY <3>1, <1>11, <1>25 DEF PathOf
    <3>2. CASE m # n
      <4>1. /\ Live(m) /\ parent'[m] = parent[m] /\ name'[m] = name[m]
            /\ path'[m] = path[m] /\ path[m] = Append(PathOf(parent[m]), name[m])
        BY <3>2, <2>1, <1>9, <1>11 DEF PathsExtendParents
      <4>2. parent[m] # Root => parent[m] \in Nodes \ {n}
        BY <4>1, <1>4, AliveBecause
      <4>. QED  BY <4>1, <4>2, <1>11 DEF PathOf
    <3>. QED  BY <3>1, <3>2
  <2>. QED  BY <2>1 DEF PathsExtendParents
<1>27. PathsAreUnique'
  <2>1. ASSUME NEW m \in Nodes, Live(m), path[m] = Append(PathOf(p), e)
        PROVE  FALSE
    <3>1. /\ path[m] = Append(PathOf(parent[m]), name[m])
          /\ PathOf(parent[m]) \in Seq(Names) /\ PathOf(p) \in Seq(Names)
          /\ name[m] \in Names /\ parent[m] \in Parents
      BY <2>1, PathsAreSequences DEF PathsExtendParents, PathNodeTypeOK
    <3>2. PathOf(parent[m]) = PathOf(p) /\ name[m] = e
      <4>1. Append(PathOf(parent[m]), name[m]) = Append(PathOf(p), e)
        BY <2>1, <3>1
      <4>. QED  BY <3>1, <4>1, AppendsAgree
    <3>3. \A q \in Nodes : Live(q) => path[q] # <<>>
      <4>1. ASSUME NEW q \in Nodes, Live(q)  PROVE path[q] # <<>>
        <5>1. /\ path[q] = Append(PathOf(parent[q]), name[q])
              /\ PathOf(parent[q]) \in Seq(Names) /\ name[q] \in Names
          BY <4>1, PathsAreSequences DEF PathsExtendParents, PathNodeTypeOK
        <5>. QED  BY <5>1, AppendProperties
      <4>. QED  BY <4>1
    <3>4. parent[m] = p
      <4>1. parent[m] # Root => parent[m] \in Nodes /\ Live(parent[m])
        BY <2>1, AliveBecause
      <4>2. CASE p = Root
        BY <4>1, <4>2, <3>2, <3>3 DEF PathOf
      <4>3. CASE p # Root
        BY <4>1, <4>3, <3>2, <3>3, <1>5 DEF PathOf, PathsAreUnique
      <4>. QED  BY <4>2, <4>3
    <3>5. table[<<p, e>>] = m
      BY <2>1, <3>2, <3>4 DEF LiveAreEntered, Key
    <3>. QED  BY <2>1, <3>5, <1>20 DEF former
  <2>. QED  BY <2>1, <1>9, <1>11 DEF PathsAreUnique
<1>28. EachDiesOnce' /\ DyingAreAllocated'
  BY <1>1, <1>2, <1>8 DEF EachDiesOnce, DyingAreAllocated
<1>29. TokensMatch'
  BY <1>1, <1>2, <1>8, <1>11 DEF TokensMatch, Untokened
<1>. QED  BY <1>10, <1>21, <1>22, <1>23, <1>24, <1>26, <1>27, <1>28, <1>29

(* A count is given back, and maybe the node begins to die.                *)
LEMMA LosesOne ==
    ASSUME PathNodeInv, NEW n \in Nodes, Live(n), NEW q \in RefPlaces(n),
           RefPlaces(n)' = RefPlaces(n) \ {q},
           \A m \in Nodes \ {n} : RefPlaces(m)' = RefPlaces(m),
           refCount' = [refCount EXCEPT ![n] = @ - 1],
           UNCHANGED <<table, allocated, nodeVars, token>>,
           \A m \in Nodes : Dying(m)' <=> Dying(m) \/ (m = n /\ refCount[n] = 1),
           \A m \in Nodes : Removed(m)' <=> Removed(m),
           \A m \in Nodes : Untokened(m)' <=> Untokened(m)
    PROVE  /\ refCount' \in [Nodes -> Nat] /\ DyingAreAllocated'
           /\ ReferredAreLive' /\ LiveAreCounted'
           /\ EntriesAreExact' /\ LiveAreEntered' /\ PathsExtendParents'
           /\ TokensMatch' /\ PathsAreUnique'
<1>. USE DEF PathNodeInv, nodeVars
<1>1. /\ refCount[n] \in Nat \ {0}
      /\ Cardinality(RefPlaces(n)') = refCount[n] - 1
      /\ RefPlaces(n)' = {} <=> refCount[n] = 1
  <2>1. IsFiniteSet(RefPlaces(n)) /\ refCount[n] = Cardinality(RefPlaces(n))
    BY PlacesAreFinite DEF LiveAreCounted
  <2>2. /\ Cardinality(RefPlaces(n)) \in Nat \ {0}
        /\ Cardinality(RefPlaces(n) \ {q}) = Cardinality(RefPlaces(n)) - 1
        /\ RefPlaces(n) \ {q} = {} <=> Cardinality(RefPlaces(n)) = 1
    BY <2>1, CountOneLess
  <2>. QED  BY <2>1, <2>2
<1>2. \A m \in Nodes : Live(m)' <=> Live(m) /\ ~(m = n /\ refCount[n] = 1)
  BY DEF Live
<1>3. /\ refCount'[n] = refCount[n] - 1
      /\ \A m \in Nodes \ {n} : refCount'[m] = refCount[m]
      /\ refCount' \in [Nodes -> Nat]
  BY <1>1 DEF PathNodeTypeOK
<1>4. DyingAreAllocated'
  BY DEF DyingAreAllocated, Live
<1>5. ReferredAreLive' /\ LiveAreCounted'
  BY <1>1, <1>2, <1>3 DEF ReferredAreLive, LiveAreCounted
<1>6. EntriesAreExact'
  <2>1. ASSUME NEW k \in Parents \X Names, NEW m, m = table[k], m # None
        PROVE  /\ m \in Nodes /\ m \in allocated /\ Key(m)' = k
               /\ ~Removed(m)' /\ (Dying(m)' => refCount'[m] = 0)
    <3>1. /\ m \in Nodes /\ m \in allocated /\ Key(m) = k /\ ~Removed(m)
          /\ Dying(m) => refCount[m] = 0
      BY <2>1 DEF EntriesAreExact, PathNodeTypeOK
    <3>2. Dying(m)' => refCount'[m] = 0
      BY <3>1, <1>1, <1>3 DEF Live
    <3>. QED  BY <3>1, <3>2 DEF Key
  <2>. QED  BY <2>1 DEF EntriesAreExact
<1>7. LiveAreEntered' /\ PathsExtendParents' /\ PathsAreUnique'
  BY <1>2 DEF LiveAreEntered, PathsExtendParents, PathsAreUnique, Key, PathOf
<1>8. TokensMatch'
  BY DEF TokensMatch
<1>. QED  BY <1>3, <1>4, <1>5, <1>6, <1>7, <1>8

(* A node that begins to die was not dying before.                         *)
LEMMA DiesOnce ==
    ASSUME PathNodeTypeOK, EachDiesOnce, NEW t \in Threads, NEW n \in Nodes,
           ~Dying(n), dying' = [dying EXCEPT ![t] = Append(@, n)]
    PROVE  EachDiesOnce'
<1>. DEFINE L == Len(dying[t])
<1>1. dying[t] \in Seq(Nodes) /\ L \in Nat /\ DOMAIN dying[t] = 1 .. L
  BY DEF PathNodeTypeOK
<1>2. /\ DOMAIN dying'[t] = 1 .. (L + 1) /\ dying'[t][L + 1] = n
      /\ \A i \in 1 .. L : dying'[t][i] = dying[t][i]
  BY <1>1 DEF PathNodeTypeOK
<1>3. \A u \in Threads \ {t} : dying'[u] = dying[u]
  BY DEF PathNodeTypeOK
<1>. HIDE DEF L
<1>4. ASSUME NEW u \in Threads, NEW i \in DOMAIN dying'[u]
      PROVE  \/ u = t /\ i = L + 1 /\ dying'[u][i] = n
             \/ /\ i \in DOMAIN dying[u] /\ dying'[u][i] = dying[u][i]
                /\ dying[u][i] # n
  BY <1>1, <1>2, <1>3 DEF Dying
<1>. QED  BY <1>4 DEF EachDiesOnce

(* What a decrement does to the destructors of a thread.                   *)
LEMMA DecKeepsTypes ==
    ASSUME PathNodeTypeOK, NEW t \in Threads, NEW n \in Nodes, NEW next,
           \/ dtor[t] = "idle" /\ next = "idle"
           \/ dtor[t] = "parent" /\ next = "free",
           Dec(t, n, next)
    PROVE  /\ dying' \in [Threads -> Seq(Nodes)]
           /\ dtor' \in [Threads -> {"idle", "remove", "token", "parent", "free"}]
           /\ \A u \in Threads : dtor'[u] = "idle" <=> dying'[u] = <<>>
<1>1. CASE refCount[n] = 1
  <2>1. /\ dying' = [dying EXCEPT ![t] = Append(@, n)]
        /\ dtor' = [dtor EXCEPT ![t] = "remove"]
    BY <1>1 DEF Dec
  <2>2. dying'[t] = Append(dying[t], n) /\ dying'[t] # <<>>
    BY <2>1, AppendProperties DEF PathNodeTypeOK
  <2>3. dying' \in [Threads -> Seq(Nodes)]
    BY <2>1, AppendProperties DEF PathNodeTypeOK
  <2>. QED  BY <2>1, <2>2, <2>3 DEF PathNodeTypeOK
<1>2. CASE refCount[n] # 1
  BY <1>2 DEF Dec, PathNodeTypeOK
<1>. QED  BY <1>1, <1>2

(* Letting a path go kills the node with its last place only.              *)
LEMMA ReleaseKeepsInv ==
    ASSUME PathNodeInv, NEW t \in Threads, NEW n \in Nodes, Release(t, n)
    PROVE  PathNodeInv'
<1>. USE DEF PathNodeInv
<1>1. /\ dtor[t] = "idle" /\ held[t][n] > 0 /\ Live(n)
      /\ held' = [held EXCEPT ![t][n] = @ - 1]
      /\ refCount' = [refCount EXCEPT ![n] = @ - 1]
      /\ UNCHANGED <<table, allocated, nodeVars, token>>
  BY AliveBecause DEF Release, Dec
<1>2. /\ \A m \in Nodes : Dying(m)' <=> Dying(m) \/ (m = n /\ refCount[n] = 1)
      /\ \A m \in Nodes : \A P : "remove" \notin P => (Passed(m, P)' <=> Passed(m, P))
      /\ EachDiesOnce'
  <2>1. CASE refCount[n] = 1
    <3>1. /\ dying' = [dying EXCEPT ![t] = Append(@, n)]
          /\ dtor' = [dtor EXCEPT ![t] = "remove"]
      BY <2>1 DEF Release, Dec
    <3>. QED  BY <1>1, <2>1, <3>1, BeginsToDie, DiesOnce DEF Live
  <2>2. CASE refCount[n] # 1
    <3>1. UNCHANGED <<dying, dtor>>
      BY <1>1, <2>2 DEF Release, Dec, PathNodeTypeOK
    <3>. QED  BY <2>2, <3>1, DeathsStay DEF EachDiesOnce
  <2>. QED  BY <2>1, <2>2
<1>3. \A m \in Nodes : Children(m)' = Children(m)
  BY <1>1, <1>2, DroppedIsPassed DEF Children, nodeVars, PathNodeTypeOK
<1>4. /\ <<t, held[t][n]>> \in RefPlaces(n)
      /\ RefPlaces(n)' = RefPlaces(n) \ {<<t, held[t][n]>>}
  BY <1>1, <1>3, OnePathLess
<1>5. \A m \in Nodes \ {n} : RefPlaces(m)' = RefPlaces(m)
  BY <1>1, <1>3, SamePlaces DEF PathNodeTypeOK
<1>6. \A m \in Nodes : /\ Removed(m)' <=> Removed(m)
                       /\ Untokened(m)' <=> Untokened(m)
  BY <1>2 DEF Removed, Untokened
<1>7. /\ refCount' \in [Nodes -> Nat] /\ DyingAreAllocated'
      /\ ReferredAreLive' /\ LiveAreCounted'
      /\ EntriesAreExact' /\ LiveAreEntered' /\ PathsExtendParents'
      /\ TokensMatch' /\ PathsAreUnique'
  BY <1>1, <1>2, <1>4, <1>5, <1>6, LosesOne
<1>8. PathNodeTypeOK'
  <2>1. held' \in [Threads -> [Nodes -> 0 .. MaxHeld]]
    BY <1>1, PathConstants DEF PathNodeTypeOK
  <2>2. /\ dying' \in [Threads -> Seq(Nodes)]
        /\ dtor' \in [Threads -> {"idle", "remove", "token", "parent", "free"}]
        /\ \A u \in Threads : dtor'[u] = "idle" <=> dying'[u] = <<>>
    BY <1>1, DecKeepsTypes DEF Release
  <2>. QED  BY <1>1, <1>7, <2>1, <2>2 DEF PathNodeTypeOK, nodeVars
<1>. QED  BY <1>2, <1>7, <1>8

(* Only the entry of the dying node goes.                                  *)
LEMMA RemoveKeepsInv ==
    ASSUME PathNodeInv, NEW t \in Threads, Remove(t)
    PROVE  PathNodeInv'
<1>. USE DEF PathNodeInv, nodeVars
<1>. DEFINE k0 == Key(Top(t))
<1>1. /\ dtor[t] = "remove" /\ dtor' = [dtor EXCEPT ![t] = "token"]
      /\ table' = [table EXCEPT ![k0] = IF @ = Top(t) THEN None ELSE @]
      /\ UNCHANGED <<allocated, nodeVars, refCount, token, held, dying>>
  BY DEF Remove
<1>2. PICK c \in Nodes : c = Top(t) /\ Dying(c)
  BY <1>1, GoesOnDying
<1>3. /\ \A m \in Nodes : Dying(m)' <=> Dying(m)
      /\ \A m \in Nodes : Removed(m)' <=> Removed(m) \/ m = c
      /\ \A m \in Nodes : Untokened(m)' <=> Untokened(m)
      /\ \A m \in Nodes : DroppedParent(m)' <=> DroppedParent(m)
  <2>1. /\ \A m \in Nodes : Dying(m)' <=> Dying(m)
        /\ \A P : "remove" \in P => Passed(c, P)
        /\ \A m \in Nodes : \A P :
              /\ "token" \in P => (Passed(m, P)' <=> Passed(m, P) \/ m = c)
              /\ "token" \notin P /\ "remove" \notin P =>
                    (Passed(m, P)' <=> Passed(m, P))
    BY <1>1, <1>2, GoesOnDying
  <2>. QED  BY <2>1, DroppedIsPassed DEF Removed, Untokened
<1>4. \A m \in Nodes : Live(m)' <=> Live(m)
  BY <1>1, <1>3 DEF Live
<1>5. \A m \in Nodes : RefPlaces(m)' = RefPlaces(m)
  BY <1>1, <1>3, SamePlaces DEF Children, PathNodeTypeOK
<1>6. k0 \in Parents \X Names /\ k0 = Key(c)
  BY <1>2 DEF Key, PathNodeTypeOK
<1>. HIDE DEF k0
<1>7. \A k \in Parents \X Names :
          table'[k] = IF k = k0 /\ table[k] = c THEN None ELSE table[k]
  BY <1>1, <1>2, <1>6 DEF PathNodeTypeOK
<1>8. PathNodeTypeOK'
  <2>1. table' \in [Parents \X Names -> Nodes \cup {None}]
    BY <1>1 DEF PathNodeTypeOK
  <2>. QED  BY <1>1, <2>1 DEF PathNodeTypeOK
<1>9. ReferredAreLive' /\ LiveAreCounted'
  BY <1>1, <1>4, <1>5 DEF ReferredAreLive, LiveAreCounted
<1>10. EntriesAreExact'
  <2>1. ASSUME NEW k \in Parents \X Names, NEW m, m = table'[k], m # None
        PROVE  /\ m \in Nodes /\ m \in allocated /\ Key(m)' = k
               /\ ~Removed(m)' /\ (Dying(m)' => refCount'[m] = 0)
    <3>1. table[k] = m
      BY <2>1, <1>7
    <3>2. /\ m \in Nodes /\ m \in allocated /\ Key(m) = k /\ ~Removed(m)
          /\ Dying(m) => refCount[m] = 0
      BY <2>1, <3>1 DEF EntriesAreExact, PathNodeTypeOK
    <3>3. m # c
      BY <2>1, <3>1, <3>2, <1>6, <1>7
    <3>4. ~Removed(m)'
      BY <3>2, <3>3, <1>3
    <3>5. Dying(m)' => refCount'[m] = 0
      BY <3>2, <1>1, <1>3
    <3>6. Key(m)' = k
      BY <3>2, <1>1 DEF Key
    <3>. QED  BY <3>2, <3>4, <3>5, <3>6
  <2>2. allocated' = allocated
    BY <1>1
  <2>. QED  BY <2>1, <2>2 DEF EntriesAreExact
<1>11. LiveAreEntered'
  <2>1. ASSUME NEW m \in Nodes, Live(m)'  PROVE table'[Key(m)'] = m
    <3>1. Live(m) /\ m # c /\ Key(m)' = Key(m) /\ table[Key(m)] = m
      BY <2>1, <1>1, <1>2, <1>4 DEF Live, Key, LiveAreEntered
    <3>2. Key(m) \in Parents \X Names
      BY DEF Key, PathNodeTypeOK
    <3>. QED  BY <3>1, <3>2, <1>7
  <2>. QED  BY <2>1 DEF LiveAreEntered
<1>12. PathsExtendParents' /\ PathsAreUnique'
  BY <1>1, <1>4 DEF PathsExtendParents, PathsAreUnique, PathOf
<1>13. EachDiesOnce' /\ DyingAreAllocated' /\ TokensMatch'
  BY <1>1, <1>3 DEF EachDiesOnce, DyingAreAllocated, TokensMatch
<1>. QED  BY <1>8, <1>9, <1>10, <1>11, <1>12, <1>13

(* The token of the dying node goes before its memory does.                *)
LEMMA RemovePathTokenKeepsInv ==
    ASSUME PathNodeInv, NEW t \in Threads, RemovePathToken(t)
    PROVE  PathNodeInv'
<1>. USE DEF PathNodeInv, nodeVars
<1>1. /\ dtor[t] = "token" /\ dtor' = [dtor EXCEPT ![t] = "parent"]
      /\ token' = [token EXCEPT ![Top(t)] = None]
      /\ UNCHANGED <<table, allocated, nodeVars, refCount, held, dying>>
  BY DEF RemovePathToken
<1>2. PICK c \in Nodes : c = Top(t) /\ Dying(c)
  BY <1>1, GoesOnDying
<1>3. /\ \A m \in Nodes : Dying(m)' <=> Dying(m)
      /\ \A m \in Nodes : Removed(m)' <=> Removed(m)
      /\ \A m \in Nodes : Untokened(m)' <=> Untokened(m) \/ m = c
      /\ \A m \in Nodes : DroppedParent(m)' <=> DroppedParent(m)
  <2>1. /\ \A m \in Nodes : Dying(m)' <=> Dying(m)
        /\ \A P : "token" \in P => Passed(c, P)
        /\ \A m \in Nodes : \A P :
              /\ "parent" \in P => (Passed(m, P)' <=> Passed(m, P) \/ m = c)
              /\ "parent" \notin P /\ "token" \notin P =>
                    (Passed(m, P)' <=> Passed(m, P))
    BY <1>1, <1>2, GoesOnDying
  <2>. QED  BY <2>1, DroppedIsPassed DEF Removed, Untokened
<1>4. \A m \in Nodes : Live(m)' <=> Live(m)
  BY <1>1, <1>3 DEF Live
<1>5. \A m \in Nodes : RefPlaces(m)' = RefPlaces(m)
  BY <1>1, <1>3, SamePlaces DEF Children, PathNodeTypeOK
<1>6. PathNodeTypeOK'
  <2>1. token' \in [Nodes -> Paths \cup {None}]
    BY <1>1 DEF PathNodeTypeOK
  <2>. QED  BY <1>1, <2>1 DEF PathNodeTypeOK
<1>7. ReferredAreLive' /\ LiveAreCounted'
  BY <1>1, <1>4, <1>5 DEF ReferredAreLive, LiveAreCounted
<1>8. EntriesAreExact'
  BY <1>1, <1>3 DEF EntriesAreExact, Key, PathNodeTypeOK
<1>9. LiveAreEntered' /\ PathsExtendParents' /\ PathsAreUnique'
  BY <1>1, <1>4 DEF LiveAreEntered, PathsExtendParents, PathsAreUnique, Key, PathOf
<1>10. EachDiesOnce' /\ DyingAreAllocated'
  BY <1>1, <1>3 DEF EachDiesOnce, DyingAreAllocated
<1>11. TokensMatch'
  <2>1. \A m \in Nodes : token'[m] = IF m = c THEN None ELSE token[m]
    BY <1>1, <1>2 DEF PathNodeTypeOK
  <2>. QED  BY <1>1, <1>3, <2>1 DEF TokensMatch
<1>. QED  BY <1>6, <1>7, <1>8, <1>9, <1>10, <1>11

(* A dying node gives back its count in its parent, once.                  *)
LEMMA DropParentKeepsInv ==
    ASSUME PathNodeInv, NEW t \in Threads, DropParent(t)
    PROVE  PathNodeInv'
<1>. USE DEF PathNodeInv, nodeVars
<1>1. /\ dtor[t] = "parent"
      /\ UNCHANGED <<table, allocated, nodeVars, token, held>>
  BY DEF DropParent
<1>2. PICK c \in Nodes : c = Top(t) /\ Dying(c)
  <2>1. dying[t] # <<>> /\ dying[t] \in Seq(Nodes)
    BY <1>1 DEF PathNodeTypeOK
  <2>2. Len(dying[t]) \in DOMAIN dying[t] /\ Top(t) \in Nodes
    BY <2>1 DEF Top
  <2>. QED  BY <2>2 DEF Top, Dying
<1>3. /\ \A P : "parent" \in P => Passed(c, P)
      /\ ~DroppedParent(c)
  <2>1. /\ Len(dying[t]) \in DOMAIN dying[t] /\ c = dying[t][Len(dying[t])]
        /\ Len(dying[t]) \in Nat
    BY <1>1, <1>2 DEF PathNodeTypeOK, Top
  <2>2. \A u \in Threads : \A i \in DOMAIN dying[u] :
            dying[u][i] = c => u = t /\ i = Len(dying[t])
    BY <2>1 DEF EachDiesOnce
  <2>. QED  BY <1>1, <2>1, <2>2 DEF Passed, DroppedParent
<1>4. CASE parent[c] = Root
  <2>1. dtor' = [dtor EXCEPT ![t] = "free"] /\ UNCHANGED <<refCount, dying>>
    BY <1>2, <1>4 DEF DropParent
  <2>2. /\ \A m \in Nodes : Dying(m)' <=> Dying(m)
        /\ \A m \in Nodes : Removed(m)' <=> Removed(m)
        /\ \A m \in Nodes : Untokened(m)' <=> Untokened(m)
        /\ \A m \in Nodes : DroppedParent(m)' <=> DroppedParent(m) \/ m = c
    <3>1. /\ \A m \in Nodes : Dying(m)' <=> Dying(m)
          /\ \A P : "parent" \in P => Passed(c, P)
          /\ \A m \in Nodes : \A P :
                /\ "free" \in P => (Passed(m, P)' <=> Passed(m, P) \/ m = c)
                /\ "free" \notin P /\ "parent" \notin P =>
                      (Passed(m, P)' <=> Passed(m, P))
      BY <1>1, <1>2, <2>1, GoesOnDying
    <3>. QED  BY <3>1, DroppedIsPassed DEF Removed, Untokened
  <2>3. \A m \in Nodes : Live(m)' <=> Live(m)
    BY <1>1, <2>2 DEF Live
  <2>4. \A m \in Nodes : Children(m)' = Children(m)
    BY <1>1, <1>4, <2>2, PathConstants DEF Children, PathNodeTypeOK
  <2>5. \A m \in Nodes : RefPlaces(m)' = RefPlaces(m)
    BY <1>1, <2>4, SamePlaces
  <2>6. PathNodeTypeOK'
    BY <1>1, <2>1 DEF PathNodeTypeOK
  <2>7. ReferredAreLive' /\ LiveAreCounted'
    BY <2>1, <2>3, <2>5 DEF ReferredAreLive, LiveAreCounted
  <2>8. EntriesAreExact'
    BY <1>1, <2>1, <2>2 DEF EntriesAreExact, Key, PathNodeTypeOK
  <2>9. LiveAreEntered' /\ PathsExtendParents' /\ PathsAreUnique'
    BY <1>1, <2>3
       DEF LiveAreEntered, PathsExtendParents, PathsAreUnique, Key, PathOf
  <2>10. EachDiesOnce' /\ DyingAreAllocated' /\ TokensMatch'
    BY <1>1, <2>1, <2>2 DEF EachDiesOnce, DyingAreAllocated, TokensMatch
  <2>. QED  BY <2>6, <2>7, <2>8, <2>9, <2>10
<1>5. CASE parent[c] # Root
  <2>1. PICK p \in Nodes : p = parent[c]
    BY <1>5 DEF PathNodeTypeOK, Parents
  <2>2. Dec(t, p, "free")
    BY <1>2, <1>5, <2>1 DEF DropParent
  <2>3. c \in Children(p) /\ Live(p)
    <3>1. c \in Children(p)
      BY <1>2, <1>3, <2>1 DEF Children, DyingAreAllocated
    <3>. QED  BY <3>1, AliveBecause
  <2>4. /\ \A m \in Nodes : Dying(m)' <=> Dying(m) \/ (m = p /\ refCount[p] = 1)
        /\ \A m \in Nodes : Removed(m)' <=> Removed(m)
        /\ \A m \in Nodes : Untokened(m)' <=> Untokened(m)
        /\ \A m \in Nodes : DroppedParent(m)' <=> DroppedParent(m) \/ m = c
        /\ EachDiesOnce'
    <3>1. CASE refCount[p] = 1
      <4>1. /\ dying' = [dying EXCEPT ![t] = Append(@, p)]
            /\ dtor' = [dtor EXCEPT ![t] = "remove"]
        BY <2>2, <3>1 DEF Dec
      <4>2. /\ \A m \in Nodes : Dying(m)' <=> Dying(m) \/ m = p
            /\ \A m \in Nodes : \A P : "remove" \notin P =>
                  (Passed(m, P)' <=> Passed(m, P) \/ m = c)
        BY <1>1, <1>2, <4>1, BeginsToDie
      <4>3. EachDiesOnce'
        BY <2>3, <4>1, DiesOnce DEF Live
      <4>. QED  BY <1>3, <3>1, <4>2, <4>3, DroppedIsPassed DEF Removed, Untokened
    <3>2. CASE refCount[p] # 1
      <4>1. UNCHANGED dying /\ dtor' = [dtor EXCEPT ![t] = "free"]
        BY <2>2, <3>2 DEF Dec
      <4>2. /\ \A m \in Nodes : Dying(m)' <=> Dying(m)
            /\ \A P : "parent" \in P => Passed(c, P)
            /\ \A m \in Nodes : \A P :
                  /\ "free" \in P => (Passed(m, P)' <=> Passed(m, P) \/ m = c)
                  /\ "free" \notin P /\ "parent" \notin P =>
                        (Passed(m, P)' <=> Passed(m, P))
        BY <1>1, <1>2, <4>1, GoesOnDying
      <4>. QED  BY <3>2, <4>1, <4>2, DroppedIsPassed
                DEF Removed, Untokened, EachDiesOnce
    <3>. QED  BY <3>1, <3>2
  <2>5. /\ Children(p)' = Children(p) \ {c}
        /\ \A m \in Nodes \ {p} : Children(m)' = Children(m)
    BY <1>1, <2>1, <2>4 DEF Children, PathNodeTypeOK
  <2>6. <<c, 0>> \in RefPlaces(p) /\ RefPlaces(p)' = RefPlaces(p) \ {<<c, 0>>}
    BY <1>1, <2>3, <2>5, OneChildLess
  <2>7. \A m \in Nodes \ {p} : RefPlaces(m)' = RefPlaces(m)
    BY <1>1, <2>5, SamePlaces
  <2>8. refCount' = [refCount EXCEPT ![p] = @ - 1]
    BY <2>2 DEF Dec
  <2>9. /\ refCount' \in [Nodes -> Nat] /\ DyingAreAllocated'
        /\ ReferredAreLive' /\ LiveAreCounted'
        /\ EntriesAreExact' /\ LiveAreEntered' /\ PathsExtendParents'
        /\ TokensMatch' /\ PathsAreUnique'
    BY <1>1, <2>3, <2>4, <2>6, <2>7, <2>8, LosesOne
  <2>10. PathNodeTypeOK'
    <3>1. /\ dying' \in [Threads -> Seq(Nodes)]
          /\ dtor' \in [Threads -> {"idle", "remove", "token", "parent", "free"}]
          /\ \A u \in Threads : dtor'[u] = "idle" <=> dying'[u] = <<>>
      BY <1>1, <2>2, DecKeepsTypes
    <3>. QED  BY <1>1, <2>9, <3>1 DEF PathNodeTypeOK
  <2>. QED  BY <2>4, <2>9, <2>10
<1>. QED  BY <1>4, <1>5

(* Nothing refers to the memory that is freed.                             *)
LEMMA FreeKeepsInv ==
    ASSUME PathNodeInv, NEW t \in Threads, Free(t)
    PROVE  PathNodeInv'
<1>. USE DEF PathNodeInv, nodeVars
<1>1. /\ dtor[t] = "free" /\ allocated' = allocated \ {Top(t)}
      /\ dying' = [dying EXCEPT ![t] = SubSeq(@, 1, Len(@) - 1)]
      /\ dtor' = [dtor EXCEPT ![t] = IF Len(dying[t]) = 1 THEN "idle" ELSE "free"]
      /\ UNCHANGED <<table, nodeVars, refCount, token, held>>
  BY DEF Free
<1>2. PICK c \in Nodes : c = Top(t) /\ Dying(c)
  BY IsDead
<1>3. /\ \A m \in Nodes : Dying(m)' <=> Dying(m) /\ m # c
      /\ \A m \in Nodes : Removed(m)' <=> Removed(m) /\ m # c
      /\ \A m \in Nodes : Untokened(m)' <=> Untokened(m) /\ m # c
      /\ \A m \in Nodes : DroppedParent(m)' <=> DroppedParent(m) /\ m # c
      /\ Removed(c) /\ Untokened(c) /\ DroppedParent(c)
  BY <1>2, IsDead, DroppedIsPassed DEF Removed, Untokened
<1>4. \A m \in Nodes : Live(m)' <=> Live(m)
  BY <1>1, <1>2, <1>3 DEF Live
<1>5. \A m \in Nodes : Children(m)' = Children(m)
  BY <1>1, <1>2, <1>3 DEF Children, PathNodeTypeOK
<1>6. \A m \in Nodes : RefPlaces(m)' = RefPlaces(m)
  BY <1>1, <1>5, SamePlaces
<1>7. PathNodeTypeOK' /\ EachDiesOnce'
  <2>. DEFINE L == Len(dying[t])
  <2>1. dying[t] \in Seq(Nodes) /\ L \in Nat \ {0} /\ DOMAIN dying[t] = 1 .. L
    BY <1>1 DEF PathNodeTypeOK
  <2>2. /\ dying'[t] = SubSeq(dying[t], 1, L - 1)
        /\ \A u \in Threads \ {t} : dying'[u] = dying[u] /\ dtor'[u] = dtor[u]
        /\ dtor'[t] = IF L = 1 THEN "idle" ELSE "free"
    BY <1>1 DEF PathNodeTypeOK
  <2>. HIDE DEF L
  <2>3. /\ dying'[t] \in Seq(Nodes) /\ Len(dying'[t]) = L - 1
        /\ DOMAIN dying'[t] = 1 .. (L - 1)
        /\ \A i \in 1 .. (L - 1) : dying'[t][i] = dying[t][i]
    BY <2>1, <2>2
  <2>4. dtor'[t] = "idle" <=> dying'[t] = <<>>
    BY <2>1, <2>2, <2>3
  <2>5. /\ dying' \in [Threads -> Seq(Nodes)]
        /\ dtor' \in [Threads -> {"idle", "remove", "token", "parent", "free"}]
    BY <1>1, <2>2, <2>3 DEF PathNodeTypeOK
  <2>6. PathNodeTypeOK'
    BY <1>1, <2>2, <2>4, <2>5 DEF PathNodeTypeOK
  <2>7. \A u \in Threads : \A i \in DOMAIN dying'[u] :
            i \in DOMAIN dying[u] /\ dying'[u][i] = dying[u][i]
    <3>1. ASSUME NEW u \in Threads, NEW i \in DOMAIN dying'[u]
          PROVE  i \in DOMAIN dying[u] /\ dying'[u][i] = dying[u][i]
      <4>1. CASE u = t
        <5>1. i \in 1 .. (L - 1)
          BY <2>3, <3>1, <4>1
        <5>2. i \in 1 .. L
          BY <2>1, <5>1
        <5>. QED  BY <2>1, <2>3, <4>1, <5>1, <5>2
      <4>2. CASE u # t
        BY <2>2, <3>1, <4>2
      <4>. QED  BY <4>1, <4>2
    <3>. QED  BY <3>1
  <2>8. EachDiesOnce'
    BY <2>7 DEF EachDiesOnce
  <2>. QED  BY <2>6, <2>8
<1>8. ReferredAreLive' /\ LiveAreCounted'
  BY <1>1, <1>4, <1>6 DEF ReferredAreLive, LiveAreCounted
<1>9. EntriesAreExact'
  BY <1>1, <1>2, <1>3 DEF EntriesAreExact, Key, PathNodeTypeOK
<1>10. LiveAreEntered' /\ PathsExtendParents' /\ PathsAreUnique'
  BY <1>1, <1>4 DEF LiveAreEntered, PathsExtendParents, PathsAreUnique, Key, PathOf
<1>11. DyingAreAllocated' /\ TokensMatch'
  BY <1>1, <1>2, <1>3 DEF DyingAreAllocated, TokensMatch
<1>. QED  BY <1>7, <1>8, <1>9, <1>10, <1>11

(* Every step keeps the invariant.                                         *)
LEMMA PathNodeStepKeepsInv ==
    PathNodeInv /\ [PathNodeNext]_pathNodeVars => PathNodeInv'
<1>. SUFFICES ASSUME PathNodeInv, [PathNodeNext]_pathNodeVars PROVE PathNodeInv'
  OBVIOUS
<1>1. CASE UNCHANGED pathNodeVars
  <2>1. /\ UNCHANGED <<table, allocated, parent, name, path, refCount, token,
                       held, dtor, dying>>
    BY <1>1 DEF pathNodeVars, nodeVars
  <2>2. /\ \A m \in Nodes : Dying(m)' <=> Dying(m)
        /\ \A m \in Nodes : \A P : Passed(m, P)' <=> Passed(m, P)
    BY <2>1, DeathsStay
  <2>3. \A m \in Nodes : Live(m)' <=> Live(m)
    BY <2>1, <2>2 DEF Live
  <2>4. \A m \in Nodes : RefPlaces(m)' = RefPlaces(m)
    BY <2>1, <2>2, DroppedIsPassed, SamePlaces
       DEF Children, PathNodeInv, PathNodeTypeOK
  <2>5. PathNodeTypeOK' /\ EachDiesOnce'
    BY <2>1 DEF PathNodeInv, PathNodeTypeOK, EachDiesOnce
  <2>6. DyingAreAllocated' /\ ReferredAreLive' /\ LiveAreCounted' /\ TokensMatch'
    BY <2>1, <2>2, <2>3, <2>4
       DEF PathNodeInv, DyingAreAllocated, ReferredAreLive, LiveAreCounted,
           TokensMatch, Untokened
  <2>7. EntriesAreExact'
    BY <2>1, <2>2 DEF PathNodeInv, PathNodeTypeOK, EntriesAreExact, Key, Removed
  <2>8. LiveAreEntered' /\ PathsExtendParents' /\ PathsAreUnique'
    BY <2>1, <2>3 DEF PathNodeInv, LiveAreEntered, PathsExtendParents,
                      PathsAreUnique, Key, PathOf
  <2>. QED  BY <2>5, <2>6, <2>7, <2>8 DEF PathNodeInv
<1>2. CASE PathNodeNext
  BY <1>2, FindKeepsInv, CreateKeepsInv, CopyKeepsInv, GetPathTokenKeepsInv,
     ReleaseKeepsInv, RemoveKeepsInv, RemovePathTokenKeepsInv,
     DropParentKeepsInv, FreeKeepsInv
     DEF PathNodeNext
<1>. QED  BY <1>1, <1>2

(* It holds of the empty table.                                            *)
LEMMA PathNodeInitInv == PathNodeInit => PathNodeInv
<1>. SUFFICES ASSUME PathNodeInit PROVE PathNodeInv
  OBVIOUS
<1>. USE DEF PathNodeInit
<1>1. <<>> \in Paths
  <2>1. <<>> \in [1 .. 0 -> Names]
    OBVIOUS
  <2>2. 0 \in 0 .. MaxDepth
    BY PathConstants
  <2>. QED  BY <2>1, <2>2 DEF Paths
<1>2. PathNodeTypeOK
  <2>1. name \in [Nodes -> Names]
    OBVIOUS
  <2>2. held \in [Threads -> [Nodes -> 0 .. MaxHeld]]
    BY PathConstants
  <2>3. path \in [Nodes -> Paths]
    BY <1>1
  <2>. QED  BY <2>1, <2>2, <2>3 DEF PathNodeTypeOK, Parents
<1>3. \A n \in Nodes : ~Live(n) /\ ~Dying(n)
  BY DEF Live, Dying
<1>4. \A n \in Nodes : Children(n) = {} /\ \A t \in Threads : held[t][n] = 0
  BY DEF Children
<1>5. \A n \in Nodes : RefPlaces(n) = {}
  BY <1>4 DEF RefPlaces
<1>6. EachDiesOnce
  BY DEF EachDiesOnce
<1>7. /\ DyingAreAllocated /\ ReferredAreLive /\ LiveAreCounted
      /\ LiveAreEntered /\ PathsExtendParents /\ PathsAreUnique
  BY <1>3, <1>5 DEF DyingAreAllocated, ReferredAreLive, LiveAreCounted,
                    LiveAreEntered, PathsExtendParents, PathsAreUnique
<1>8. EntriesAreExact /\ TokensMatch
  BY DEF EntriesAreExact, TokensMatch
<1>. QED  BY <1>2, <1>6, <1>7, <1>8 DEF PathNodeInv

(* What always holds of the nodes: each dies once, those with a place are  *)
(* alive and counted, the table is exact, and one path has one node.       *)
THEOREM PathNodeInvariant == PathNodeSpec => []PathNodeInv
BY PathNodeInitInv, PathNodeStepKeepsInv, PTL DEF PathNodeSpec

(* Paths compare by pointer: two nodes that are alive have two paths,      *)
(* whatever is destroyed and created again meanwhile.                      *)
THEOREM PathNodesAreUnique == PathNodeSpec => []PathsAreUnique
BY PathNodeInvariant, PTL DEF PathNodeInv

(* The string kept for a node is its path's, not an earlier node's at the  *)
(* same address (GetPathToken, ~Sdf_PathNode).                             *)
THEOREM PathTokensAreCurrent == PathNodeSpec => []TokensAreCurrent
<1>1. PathNodeInv => TokensAreCurrent
  BY DEF PathNodeInv, TokensMatch, TokensAreCurrent
<1>. QED  BY <1>1, PathNodeInvariant, PTL

(* A path in hand, and all its parents, are not being destroyed; nobody    *)
(* destroys a node twice.                                                  *)
THEOREM PathNodesInUseLive == PathNodeSpec => []HeldNodesLive
<1>1. ASSUME PathNodeInv  PROVE HeldNodesLive
  <2>1. \A t \in Threads, n \in Nodes : held[t][n] > 0 => Live(n)
    BY <1>1, AliveBecause
  <2>2. \A n \in Nodes : Live(n) /\ parent[n] # Root =>
            Live(parent[n]) /\ path[n] = Append(path[parent[n]], name[n])
    BY <1>1, AliveBecause DEF PathNodeInv, PathsExtendParents, PathOf
  <2>. QED  BY <1>1, <2>1, <2>2 DEF HeldNodesLive, PathNodeInv, EachDiesOnce
<1>. QED  BY <1>1, PathNodeInvariant, PTL

(* The table shows no freed node, and every one that is alive.             *)
THEOREM PathTableIsExact == PathNodeSpec => []TableExact
<1>1. PathNodeInv => TableExact
  BY DEF PathNodeInv, EntriesAreExact, LiveAreEntered, TableExact
<1>. QED  BY <1>1, PathNodeInvariant, PTL

(* Among some nodes one has the longest path.                              *)
LEMMA SomeLongest ==
    ASSUME NEW S \in SUBSET Nodes, S # {}, NEW len \in [S -> 0 .. MaxDepth]
    PROVE  \E n \in S : \A m \in S : len[m] <= len[n]
<1>. DEFINE above(n) == 1 .. (MaxDepth - len[n])
            T == {above(n) : n \in S}
<1>1. T \subseteq FiniteSubsetsOf(Nat) /\ T # {}
  <2>1. \A n \in S : MaxDepth - len[n] \in Nat
    BY PathConstants
  <2>2. \A n \in S : above(n) \subseteq Nat /\ IsFiniteSet(above(n))
    BY <2>1, FS_Interval
  <2>. QED  BY <2>2 DEF FiniteSubsetsOf
<1>2. PICK x \in T : \A y \in T : <<y, x>> \notin StrictSubsetOrdering(Nat)
  BY <1>1, FS_StrictSubsetOrderingWellFounded, WFMin
<1>3. PICK n \in S : x = above(n)
  OBVIOUS
<1>4. ASSUME NEW m \in S, len[m] > len[n]  PROVE FALSE
  <2>1. /\ MaxDepth - len[m] \in Nat /\ MaxDepth - len[n] \in Nat
        /\ MaxDepth - len[m] < MaxDepth - len[n]
    BY <1>4, PathConstants
  <2>2. above(m) \subseteq above(n) /\ above(n) \subseteq Nat
    BY <2>1
  <2>3. MaxDepth - len[n] \in above(n) /\ MaxDepth - len[n] \notin above(m)
    BY <2>1
  <2>4. <<above(m), above(n)>> \in StrictSubsetOrdering(Nat)
    BY <2>2, <2>3 DEF StrictSubsetOrdering
  <2>. QED  BY <1>2, <1>3, <2>4
<1>. QED  BY <1>4

(* When all paths are gone and all destructors done, so are the nodes,     *)
(* the entries and the strings.                                            *)
THEOREM PathNodesDoNotLeak == PathNodeSpec => []NothingLeaks
<1>1. ASSUME PathNodeInv  PROVE NothingLeaks
  <2>. USE <1>1 DEF PathNodeInv
  <2>. SUFFICES ASSUME \A t \in Threads :
                    dtor[t] = "idle" /\ \A n \in Nodes : held[t][n] = 0
                PROVE  /\ allocated = {}
                       /\ \A k \in Parents \X Names : table[k] = None
                       /\ \A n \in Nodes : token[n] = None
    BY DEF NothingLeaks
  <2>1. \A n \in allocated : n \in Nodes /\ Live(n)
    BY DEF Live, Dying, PathNodeTypeOK
  <2>2. ASSUME allocated # {}  PROVE FALSE
    <3>. DEFINE len == [n \in allocated |-> Len(path[n])]
    <3>1. len \in [allocated -> 0 .. MaxDepth]
      <4>1. \A s \in Paths : Len(s) \in 0 .. MaxDepth
        BY PathConstants DEF Paths
      <4>. QED  BY <2>1, <4>1 DEF PathNodeTypeOK
    <3>. HIDE DEF len
    <3>2. allocated \in SUBSET Nodes
      BY DEF PathNodeTypeOK
    <3>3. PICK n \in allocated : \A m \in allocated : len[m] <= len[n]
      BY <2>2, <3>1, <3>2, SomeLongest
    <3>4. PICK c \in Children(n) : TRUE
      <4>1. RefPlaces(n) # {}
        BY <2>1, <3>3 DEF LiveAreCounted
      <4>. QED  BY <2>1, <3>3, <4>1, PathConstants DEF RefPlaces
    <3>5. c \in allocated /\ parent[c] = n /\ n # Root
      BY <2>1, <3>3, <3>4, PathConstants DEF Children
    <3>6. path[c] = Append(path[n], name[c])
      BY <2>1, <3>5 DEF PathsExtendParents, PathOf
    <3>7. path[n] \in Seq(Names) /\ name[c] \in Names
      BY <2>1, <3>3, <3>5, PathsAreSequences DEF PathOf, Parents, PathNodeTypeOK
    <3>8. Len(path[c]) = Len(path[n]) + 1 /\ Len(path[n]) \in Nat
      BY <3>6, <3>7, AppendProperties, LenProperties
    <3>9. Len(path[c]) <= Len(path[n])
      BY <3>3, <3>5 DEF len
    <3>. QED  BY <3>8, <3>9
  <2>. QED  BY <2>2 DEF EntriesAreExact, TokensMatch
<1>. QED  BY <1>1, PathNodeInvariant, PTL
=============================================================================

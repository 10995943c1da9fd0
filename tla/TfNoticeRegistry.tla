-------------------------- MODULE TfNoticeRegistry --------------------------
(***************************************************************************)
(* Delivery of notices while listeners come and go                         *)
(* (pxr/base/tf/noticeRegistry.{h,cpp}, notice.{h,cpp}).                   *)
(*                                                                         *)
(* Threads send, register and revoke, also from within the handlers they   *)
(* run: a thread has a stack of calls.  Deliverers sit in lists; a send    *)
(* walks the lists of Chain (the sender's, then the global one, of a type, *)
(* then of its base types) without a lock, and takes nothing out of them.  *)
(* An entry is freed at once if nobody uses the registry, and otherwise    *)
(* marked, and freed by the last send to end.                              *)
(***************************************************************************)
EXTENDS Naturals, FiniteSets, SequencesExt

CONSTANTS
    Threads, Deliverers, End,
    Chain,            \* the lists a send walks, in order
    ListOf,           \* per deliverer, its list
    Registered,       \* the deliverers that are registered from the start
    Calls,            \* what threads do: subset of AllCalls
    MaxDepth,         \* bound: calls of one thread within each other
    WaitInHandlers,   \* whether handlers may call RevokeAndWait
    RevokeExpired     \* whether keys of expired listeners are revoked

AllCalls == {"send", "register", "revoke", "revokeAndWait", "expire", "throw"}

ASSUME NoticeAssumption ==
    /\ Chain \in Seq(Range(Chain)) \ {<<>>} /\ IsInjective(Chain)
    /\ ListOf \in [Deliverers -> Range(Chain)]
    /\ IsFiniteSet(Threads) /\ IsFiniteSet(Deliverers)
    /\ Registered \subseteq Deliverers
    /\ Calls \subseteq AllCalls
    /\ MaxDepth \in Nat
    /\ End \notin Deliverers
    /\ {WaitInHandlers, RevokeExpired} \subseteq BOOLEAN

VARIABLES
    lists,        \* per list, its deliverers from front to back
    userCount,    \* _userCount
    deadEntries,  \* _deadEntries
    state,        \* per deliverer: unborn, live or freed
    active, marked,   \* _active, _markedForRemoval
    busy,         \* _busy without its highest bit: deliveries under way
    waitBit,      \* that bit
    alive,        \* the listener exists
    stack,        \* per thread, its calls, the innermost first
    quiet         \* history: deliverers of which RevokeAndWait has returned

entryVars == <<state, active, marked>>
countVars == <<busy, waitBit>>
noticeVars ==
    <<lists, userCount, deadEntries, entryVars, countVars, alive, stack, quiet>>

----------------------------------------------------------------------------
(* Calls                                                                   *)

Frame(op, pc, d) ==
    [op |-> op, pc |-> pc, d |-> d, list |-> 1, due |-> {},
     heard |-> [x \in Deliverers |-> 0], threw |-> FALSE]

Top(t) == Head(stack[t])
InCall(t, pc) == stack[t] # <<>> /\ Top(t).pc = pc
Push(t, frame) == stack' = [stack EXCEPT ![t] = <<frame>> \o @]
Return(t) == stack' = [stack EXCEPT ![t] = Tail(@)]
Become(t, frame) == stack' = [stack EXCEPT ![t] = <<frame>> \o Tail(@)]
Proceed(t, pc) == Become(t, [Top(t) EXCEPT !.pc = pc])

(* Idle threads call, and so do handlers.                                  *)
MayCall(t) ==
    stack[t] = <<>> \/ (InCall(t, "handler") /\ Len(stack[t]) < MaxDepth)

Frames(t) == Range(stack[t])
AllFrames == UNION {Frames(t) : t \in Threads}

----------------------------------------------------------------------------
NoticeInit ==
    /\ lists = [l \in Range(Chain) |->
                    SetToSeq({d \in Registered : ListOf[d] = l})]
    /\ userCount = 0
    /\ deadEntries = <<>>
    /\ state = [d \in Deliverers |-> IF d \in Registered THEN "live" ELSE "unborn"]
    /\ active = [d \in Deliverers |-> TRUE]
    /\ marked = [d \in Deliverers |-> FALSE]
    /\ busy = [d \in Deliverers |-> 0]
    /\ waitBit = [d \in Deliverers |-> FALSE]
    /\ alive = [d \in Deliverers |-> TRUE]
    /\ stack = [t \in Threads |-> <<>>]
    /\ quiet = {}

(* What is left of the list s.                                             *)
Without(s, ds) ==
    LET left[i \in 0 .. Len(s)] == IF i = 0 THEN <<>>
                                   ELSE IF s[i] \in ds THEN left[i - 1]
                                   ELSE Append(left[i - 1], s[i])
    IN  left[Len(s)]

(* Deletes the deliverers that still exist and takes them out of the lists.*)
Free(ds) ==
    /\ state' = [d \in Deliverers |-> IF d \in ds THEN "freed" ELSE state[d]]
    /\ lists' = [l \in DOMAIN lists |-> Without(lists[l], ds)]

(* Deactivates and marks a deliverer and enters it among the dead, once.   *)
Retire(d) ==
    /\ active' = [active EXCEPT ![d] = FALSE]
    /\ marked' = [marked EXCEPT ![d] = TRUE]
    /\ deadEntries' = IF marked[d] THEN deadEntries ELSE Append(deadEntries, d)
    /\ UNCHANGED state

----------------------------------------------------------------------------
(* _Register: counted as a user while it puts the deliverer in front.      *)

Register(t, d) ==
    /\ "register" \in Calls
    /\ MayCall(t)
    /\ state[d] = "unborn" /\ \A f \in AllFrames : f.op # "register" \/ f.d # d
    /\ userCount' = userCount + 1
    /\ Push(t, Frame("register", "prepend", d))
    /\ UNCHANGED <<lists, deadEntries, entryVars, countVars, alive, quiet>>

Prepend(t) ==
    /\ InCall(t, "prepend")
    /\ LET d == Top(t).d IN
       /\ lists' = [lists EXCEPT ![ListOf[d]] = <<d>> \o @]
       /\ state' = [state EXCEPT ![d] = "live"]
    /\ Proceed(t, "decrement")
    /\ UNCHANGED <<userCount, deadEntries, active, marked, countVars, alive, quiet>>

(* The end of _Register and of a _Revoke that waited.                      *)
Decrement(t) ==
    /\ InCall(t, "decrement")
    /\ userCount' = userCount - 1
    /\ quiet' = IF Top(t).op = "revokeAndWait" THEN quiet \cup {Top(t).d} ELSE quiet
    /\ Return(t)
    /\ UNCHANGED <<lists, deadEntries, entryVars, countVars, alive>>

----------------------------------------------------------------------------
(* Revoke and RevokeAndWait                                                *)

(* The key is asked, without a lock, whether it is valid.  One thread at a *)
(* time revokes a key.                                                     *)
Revoke(t, d, op) ==
    /\ op \in Calls \cap {"revoke", "revokeAndWait"}
    /\ MayCall(t)
    /\ op = "revokeAndWait" => WaitInHandlers \/ stack[t] = <<>>
    /\ state[d] = "live" /\ active[d]
    /\ RevokeExpired \/ alive[d]
    /\ \A f \in AllFrames : f.op = "send" \/ f.d # d
    /\ Push(t, Frame(op, "lock", d))
    /\ UNCHANGED <<lists, userCount, deadEntries, entryVars, countVars, alive, quiet>>

(* _Revoke under _userCountMutex.                                          *)
RevokeNow(t) ==
    /\ InCall(t, "lock")
    /\ userCount = 0
    /\ Free({Top(t).d})
    /\ quiet' = IF Top(t).op = "revokeAndWait" THEN quiet \cup {Top(t).d} ELSE quiet
    /\ Return(t)
    /\ UNCHANGED <<userCount, deadEntries, active, marked, countVars, alive>>

RevokeLater(t) ==
    LET wait == Top(t).op = "revokeAndWait" IN
    /\ InCall(t, "lock")
    /\ userCount # 0
    /\ Retire(Top(t).d)
    /\ userCount' = userCount + IF wait THEN 1 ELSE 0
    /\ IF wait THEN Proceed(t, "setWaitBit") ELSE Return(t)
    /\ UNCHANGED <<lists, countVars, alive, quiet>>

(* _WaitForSendsToFinish.                                                  *)
SetWaitBit(t) ==
    /\ InCall(t, "setWaitBit")
    /\ LET d == Top(t).d IN
       /\ waitBit' = [waitBit EXCEPT ![d] = TRUE]
       /\ Proceed(t, IF busy[d] > 0 \/ waitBit[d] THEN "wait" ELSE "decrement")
    /\ UNCHANGED <<lists, userCount, deadEntries, entryVars, busy, alive, quiet>>

WaitUntilNotSending(t) ==
    /\ InCall(t, "wait")
    /\ busy[Top(t).d] = 0
    /\ Proceed(t, "decrement")
    /\ UNCHANGED <<lists, userCount, deadEntries, entryVars, countVars, alive, quiet>>

----------------------------------------------------------------------------
(* _Send and _Deliver                                                      *)

First(l) == IF lists[l] = <<>> THEN End ELSE Head(lists[l])

After(d) ==
    LET l == lists[ListOf[d]]
        i == CHOOSE i \in DOMAIN l : l[i] = d
    IN  IF i = Len(l) THEN End ELSE l[i + 1]

Advance(t) == Become(t, [Top(t) EXCEPT !.pc = "visit", !.d = After(Top(t).d)])

Send(t) ==
    /\ "send" \in Calls
    /\ MayCall(t)
    /\ userCount' = userCount + 1
    /\ Push(t, [Frame("send", "head", End) EXCEPT
                    !.due = {d \in Deliverers : state[d] = "live"}])
    /\ UNCHANGED <<lists, deadEntries, entryVars, countVars, alive, quiet>>

(* The head of the next list, taken under the list's lock.                 *)
GetHead(t) ==
    /\ InCall(t, "head")
    /\ Become(t, [Top(t) EXCEPT !.pc = "visit", !.d = First(Chain[Top(t).list])])
    /\ UNCHANGED <<lists, userCount, deadEntries, entryVars, countVars, alive, quiet>>

(* At the end of a list the next one follows; a deliverer is asked whether *)
(* it is active, without a lock.                                           *)
Visit(t) ==
    /\ InCall(t, "visit")
    /\ IF Top(t).d # End
       THEN Proceed(t, IF active[Top(t).d] THEN "enter" ELSE "mark")
       ELSE IF Top(t).list = Len(Chain) THEN Proceed(t, "cleanup")
       ELSE Become(t, [Top(t) EXCEPT !.pc = "head", !.list = @ + 1])
    /\ UNCHANGED <<lists, userCount, deadEntries, entryVars, countVars, alive, quiet>>

(* Faulty: does not look at the wait bit.                                  *)
EnterBlindly(t) ==
    /\ InCall(t, "enter")
    /\ busy' = [busy EXCEPT ![Top(t).d] = @ + 1]
    /\ Proceed(t, "call")
    /\ UNCHANGED <<lists, userCount, deadEntries, entryVars, waitBit, alive, quiet>>

(* _SendToListener counts a delivery, and takes it back if somebody waits. *)
Enter(t) ==
    /\ InCall(t, "enter")
    /\ busy' = [busy EXCEPT ![Top(t).d] = @ + 1]
    /\ Proceed(t, IF waitBit[Top(t).d] THEN "leave" ELSE "call")
    /\ UNCHANGED <<lists, userCount, deadEntries, entryVars, waitBit, alive, quiet>>

Leave(t) ==
    /\ \/ InCall(t, "leave")
       \/ InCall(t, "call") /\ ~alive[Top(t).d]
    /\ busy' = [busy EXCEPT ![Top(t).d] = @ - 1]
    /\ Proceed(t, "mark")
    /\ UNCHANGED <<lists, userCount, deadEntries, entryVars, waitBit, alive, quiet>>

Call(t) ==
    /\ InCall(t, "call")
    /\ alive[Top(t).d]
    /\ Become(t, [Top(t) EXCEPT !.pc = "handler", !.heard[Top(t).d] = @ + 1])
    /\ UNCHANGED <<lists, userCount, deadEntries, entryVars, countVars, alive, quiet>>

(* The handler returns, or throws out of the send.                         *)
HandlerReturns(t) ==
    /\ InCall(t, "handler")
    /\ busy' = [busy EXCEPT ![Top(t).d] = @ - 1]
    /\ Advance(t)
    /\ UNCHANGED <<lists, userCount, deadEntries, entryVars, waitBit, alive, quiet>>

(* Faulty: the count is given back on the regular way out only.            *)
HandlerThrowsBusy(t) ==
    /\ "throw" \in Calls
    /\ InCall(t, "handler")
    /\ Become(t, [Top(t) EXCEPT !.pc = "cleanup", !.threw = TRUE])
    /\ UNCHANGED <<lists, userCount, deadEntries, entryVars, countVars, alive, quiet>>

HandlerThrows(t) ==
    /\ "throw" \in Calls
    /\ InCall(t, "handler")
    /\ busy' = [busy EXCEPT ![Top(t).d] = @ - 1]
    /\ Become(t, [Top(t) EXCEPT !.pc = "cleanup", !.threw = TRUE])
    /\ UNCHANGED <<lists, userCount, deadEntries, entryVars, waitBit, alive, quiet>>

(* An inactive or expired deliverer is entered among the dead.             *)
Mark(t) ==
    /\ InCall(t, "mark")
    /\ Retire(Top(t).d)
    /\ Advance(t)
    /\ UNCHANGED <<lists, userCount, countVars, alive, quiet>>

(* Faulty: frees the dead whoever else uses the registry.                  *)
CleanupAlways(t) ==
    /\ InCall(t, "cleanup")
    /\ Free(Range(deadEntries)) /\ deadEntries' = <<>>
    /\ userCount' = userCount - 1
    /\ Return(t)
    /\ UNCHANGED <<active, marked, countVars, alive, quiet>>

(* The last user of the registry frees the dead.                           *)
Cleanup(t) ==
    /\ InCall(t, "cleanup")
    /\ IF userCount = 1 THEN Free(Range(deadEntries)) /\ deadEntries' = <<>>
       ELSE UNCHANGED <<state, lists, deadEntries>>
    /\ userCount' = userCount - 1
    /\ Return(t)
    /\ UNCHANGED <<active, marked, countVars, alive, quiet>>

----------------------------------------------------------------------------
(* A listener goes without having revoked, when nobody runs its handler.   *)
Expire(d) ==
    /\ "expire" \in Calls
    /\ state[d] = "live" /\ alive[d]
    /\ \A f \in AllFrames : f.d = d => f.pc # "handler" /\ f.op = "send"
    /\ alive' = [alive EXCEPT ![d] = FALSE]
    /\ UNCHANGED <<lists, userCount, deadEntries, entryVars, countVars, stack, quiet>>

Step(t) ==
    \/ Prepend(t) \/ Decrement(t)
    \/ RevokeNow(t) \/ RevokeLater(t) \/ SetWaitBit(t) \/ WaitUntilNotSending(t)
    \/ GetHead(t) \/ Visit(t) \/ Enter(t) \/ Leave(t) \/ Call(t) \/ Mark(t)
    \/ Cleanup(t)
    \/ HandlerReturns(t)

NoticeNext ==
    \/ \E t \in Threads : Step(t) \/ Send(t) \/ HandlerThrows(t)
    \/ \E t \in Threads, d \in Deliverers :
           Register(t, d) \/ Revoke(t, d, "revoke") \/ Revoke(t, d, "revokeAndWait")
    \/ \E d \in Deliverers : Expire(d)

NoticeSpec == NoticeInit /\ [][NoticeNext]_noticeVars

(* Threads run on, and handlers return: one makes no calls for ever.       *)
Fairness ==
    \A t \in Threads :
        /\ WF_noticeVars(Step(t))
        /\ \A n \in 1..MaxDepth : SF_noticeVars(Len(stack[t]) = n /\ HandlerReturns(t))

FairNoticeSpec == NoticeSpec /\ Fairness

----------------------------------------------------------------------------
(* Properties                                                              *)

(* "RevokeAndWait will not return while any threads are invoking the       *)
(* handler", and no thread invokes it thereafter, even one that had found  *)
(* the deliverer active before.                                            *)
RevokedStaysQuiet ==
    \A f \in AllFrames : f.pc = "handler" => f.d \notin quiet

(* Nobody is at a deliverer that was freed: no traversal, no delivery, no  *)
(* thread that waits for deliveries to end or was about to retire it.      *)
NothingFreedInUse == \A f \in AllFrames : f.d # End => state[f.d] # "freed"

(* A listener registered before a send and not revoked or gone at its end  *)
(* has heard it, and no listener hears it twice, although entries come and *)
(* go in the lists being walked.                                           *)
HeardOnce ==
    \A f \in AllFrames :
        /\ \A d \in Deliverers : f.heard[d] <= 1
        /\ f.op = "send" /\ f.pc = "cleanup" /\ ~f.threw =>
               \A d \in f.due : active[d] /\ alive[d] => f.heard[d] = 1

(* The registry knows how many calls use it, and an entry is among the     *)
(* dead exactly if it is marked, once, so that none is freed twice or kept *)
(* for ever.                                                               *)
BooksAreExact ==
    /\ userCount = FoldSet(LAMBDA t, n : n + Len(SelectSeq(stack[t],
                               LAMBDA f : f.pc # "lock")), 0, Threads)
    /\ \A d \in Deliverers : state[d] = "live" =>
           Cardinality({i \in DOMAIN deadEntries : deadEntries[i] = d}) =
               IF marked[d] THEN 1 ELSE 0

(* RevokeAndWait returns.                                                  *)
RevokesReturn ==
    \A t \in Threads : InCall(t, "wait") ~> ~InCall(t, "wait")

=============================================================================

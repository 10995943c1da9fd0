------------------------------- MODULE RWLock -------------------------------
(***************************************************************************)
(* What every reader/writer mutex of OpenUSD promises to its callers: any  *)
(* number of readers, or one writer; an upgrade lets nobody write in       *)
(* between; a downgrade lets nobody write in between.                      *)
(*                                                                         *)
(* The module is the abstract specification that TfSpinRWMutex and         *)
(* TfBigRWMutex are shown to implement.                                    *)
(***************************************************************************)
CONSTANT Threads

VARIABLE mode   \* what each thread holds, as its ScopedLock::_acqState says

Modes == {"none", "read", "write"}

TypeOK == mode \in [Threads -> Modes]

Init == mode = [t \in Threads |-> "none"]

OthersHold(t, held) == \A u \in Threads \ {t} : mode[u] \in held

GetRead(t) ==
    /\ mode[t] = "none"
    /\ OthersHold(t, {"none", "read"})
    /\ mode' = [mode EXCEPT ![t] = "read"]

GetWrite(t) ==
    /\ mode[t] = "none"
    /\ OthersHold(t, {"none"})
    /\ mode' = [mode EXCEPT ![t] = "write"]

Upgrade(t) ==
    /\ mode[t] = "read"
    /\ OthersHold(t, {"none"})
    /\ mode' = [mode EXCEPT ![t] = "write"]

Downgrade(t) ==
    /\ mode[t] = "write"
    /\ mode' = [mode EXCEPT ![t] = "read"]

Release(t) ==
    /\ mode[t] # "none"
    /\ mode' = [mode EXCEPT ![t] = "none"]

Next == \E t \in Threads :
    GetRead(t) \/ GetWrite(t) \/ Upgrade(t) \/ Downgrade(t) \/ Release(t)

Spec == Init /\ [][Next]_mode

=============================================================================

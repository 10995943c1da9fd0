--------------------------- MODULE UsdStageCache ---------------------------
(***************************************************************************)
(* UsdStage::Open through the caches bound by UsdStageCacheContexts: the   *)
(* look-up, the request with its pending list and mailboxes, publication   *)
(* (pxr/usd/usd/stageCache.{h,cpp}, stageCacheContext.*, and _OpenImpl,    *)
(* Usd_StageOpenRequest and the end of _InstantiateStage in stage.cpp).    *)
(*                                                                         *)
(* An open is one call of UsdStage::Open on its own thread.  The request   *)
(* object it makes for cache c is <<o, c>>; it lives on the stack of the   *)
(* open, and caches point to it while it is pending.  A stage is named by  *)
(* the request that manufactured it, or is one of Foreign, which clients   *)
(* insert themselves.  Other clients erase, clear, insert, swap and assign *)
(* caches meanwhile, whatever is pending in them.  A critical section is   *)
(* one action; the two mutexes of swap are taken one after the other.      *)
(*                                                                         *)
(* A swap or an assignment puts pending requests into the list of another  *)
(* cache, and a manufacture that throws leaves its request in the list: of *)
(* such a stray the pointer stays behind when the request is gone.  What   *)
(* RequestStage makes of a request that is gone is not defined; here it    *)
(* subscribes to it or passes it by.  Nor is what two threads make of the  *)
(* subscribers of a stray under two mutexes; here one comes after the      *)
(* other.                                                                  *)
(***************************************************************************)
EXTENDS Naturals, Sequences, FiniteSets

CONSTANTS
    Opens,        \* calls of UsdStage::Open
    Caches,
    Clients,      \* threads that swap and assign caches
    Foreign,      \* stages that no request manufactured
    None,
    Stack,        \* per open, the UsdStageCacheContexts of its thread
    Want,         \* per open, the session layer it asks for, or AnySession
    ForeignSession,   \* the session layers of Foreign
    AnySession,
    Calls,        \* what clients do to caches: subset of AllCalls
    Outcomes,     \* what manufacturing may come to
    MaxEvictions  \* bound: how often clients take stages out of caches

AllCalls == {"erase", "clear", "insert", "swap", "assign"}
Contexts == [kind : {"readWrite", "readOnly"}, cache : Caches]
                \cup [kind : {"block", "blockPopulation"}]

Requests == Opens \X (Caches \cup {None})   \* None: no cache to request from
Stages == Requests \cup Foreign

ASSUME OpensAssumption ==
    /\ Stack \in [Opens -> Seq(Contexts)]
    /\ Calls \subseteq AllCalls
    /\ Outcomes \subseteq {"made", "failed", "thrown"}
    /\ MaxEvictions \in Nat
    /\ None \notin Stages \cup Opens \cup Caches
    /\ Foreign \cap Requests = {}

VARIABLES
    stages,       \* _impl->stages: per cache, the stages it holds
    pending,      \* _impl->pendingRequests: per cache, in order
    mutex,        \* _mutex: None or the client that holds it across two steps
    subscribed,   \* _data->subscribed: per request, whose mailboxes it fills
    mailbox,      \* per open, its mailbox for the running request
    pc, at,       \* per open, where it is, and in which cache of its list
    made,         \* per open, the stage its running request manufactured
    published,    \* per open, how many caches it has published that stage to
    stage,        \* per open, the stage it returns
    client,       \* per client, where it is in swap or assignment
    tmp,          \* per client, the contents it copied for an assignment
    strays,       \* history: requests that came into another cache's list, or
                  \* whose manufacture threw
    failures,     \* history: the opens whose manufacture failed
    evictions     \* history: how often clients took stages out of caches

cacheVars == <<stages, pending, subscribed, strays>>
openVars == <<pc, mailbox, at, made, published, stage, failures>>
clientVars == <<client, tmp, mutex, evictions>>
vars == <<cacheVars, openVars, clientVars>>

Idle == [op |-> "idle"]
NoMail == [state |-> "unsubscribed", stage |-> None]

TypeOK ==
    /\ stages \in [Caches -> SUBSET Stages]
    /\ pending \in [Caches -> Seq(Requests)]
    /\ mutex \in [Caches -> Clients \cup {None}]
    /\ subscribed \in [Requests -> SUBSET Opens]
    /\ mailbox \in [Opens -> [state : {"unsubscribed", "subscribed", "delivered"},
                              stage : Stages \cup {None}]]
    /\ pc \in [Opens -> {"find", "request", "wait", "make", "publish",
                         "insert", "deliver", "done", "thrown"}]
    /\ at \in [Opens -> Nat]
    /\ made \in [Opens -> Requests \cup {None}]
    /\ published \in [Opens -> Nat]
    /\ stage \in [Opens -> Stages \cup {None}]
    /\ failures \subseteq Opens
    /\ strays \subseteq Requests
    /\ evictions \in 0..MaxEvictions

Init ==
    /\ stages = [c \in Caches |-> {}]
    /\ pending = [c \in Caches |-> <<>>]
    /\ mutex = [c \in Caches |-> None]
    /\ subscribed = [r \in Requests |-> {}]
    /\ mailbox = [o \in Opens |-> NoMail]
    /\ pc = [o \in Opens |-> "find"]
    /\ at = [o \in Opens |-> 1]
    /\ made = [o \in Opens |-> None]
    /\ stage = [o \in Opens |-> None]
    /\ published = [o \in Opens |-> 0]
    /\ failures = {}
    /\ strays = {}
    /\ client = [k \in Clients |-> Idle]
    /\ tmp = [k \in Clients |-> <<{}, <<>>>>]
    /\ evictions = 0

----------------------------------------------------------------------------
(* What is asked for and what satisfies it                                 *)

(* The contexts, innermost first, before the first of a blocking kind.     *)
Before(contexts, kinds) ==
    LET blocks == {i \in 1..Len(contexts) : contexts[i].kind \in kinds}
    IN  IF blocks = {} THEN contexts
        ELSE SubSeq(contexts, 1,
                    (CHOOSE i \in blocks : \A j \in blocks : i <= j) - 1)

(* The caches of the contexts of these kinds, in order.                    *)
CachesOf(contexts, kinds) ==
    LET upTo[i \in 0..Len(contexts)] ==
            IF i = 0 THEN <<>>
            ELSE IF contexts[i].kind \in kinds
            THEN Append(upTo[i - 1], contexts[i].cache) ELSE upTo[i - 1]
    IN  upTo[Len(contexts)]

(* Per open, the caches it looks in and those it requests from, in order. *)
Readable == [o \in Opens |->
    CachesOf(Before(Stack[o], {"block"}), {"readWrite", "readOnly"})]
Writable == [o \in Opens |->
    CachesOf(Before(Stack[o], {"block", "blockPopulation"}), {"readWrite"})]

(* Without a session layer in the request, a stage gets an anonymous one.  *)
SessionOf(s) ==
    IF s \in Foreign THEN ForeignSession[s]
    ELSE IF Want[s[1]] = AnySession THEN s ELSE Want[s[1]]

SatisfiedByStage(o, s) == Want[o] = AnySession \/ Want[o] = SessionOf(s)
SatisfiedByRequest(o, r) == Want[o] = AnySession \/ Want[o] = Want[r[1]]

MatchesIn(o, c) == {s \in stages[c] : SatisfiedByStage(o, s)}

----------------------------------------------------------------------------
(* UsdStage::Open                                                          *)

Cache(o) == Writable[o][at[o]]
Request(o) == <<o, IF Writable[o] = <<>> THEN None ELSE Cache(o)>>

Goto(o, place) == pc' = [pc EXCEPT ![o] = place]

(* The loop over the writable caches goes on, or _OpenImpl returns.        *)
NextCache(o, answer) ==
    /\ stage' = [stage EXCEPT ![o] = IF @ = None THEN answer ELSE @]
    /\ IF at[o] = Len(Writable[o]) THEN Goto(o, "done") /\ UNCHANGED at
       ELSE Goto(o, "request") /\ at' = [at EXCEPT ![o] = @ + 1]

(* A request is on the stack of RequestStage while it manufactures.        *)
IsLive(r) ==
    /\ pc[r[1]] \in {"make", "publish", "insert", "deliver"}
    /\ Request(r[1]) = r

Members(q) == {q[i] : i \in DOMAIN q}

(* Faulty: looks at the stages only.                                       *)
PendingForNobody(o, c) == {None}

(* What RequestStage may find among the pending requests: the first that   *)
(* will satisfy o, or one before it that is gone.                          *)
PendingFor(o, c) ==
    LET q == pending[c]
        fits == {i \in DOMAIN q : IsLive(q[i]) /\ SatisfiedByRequest(o, q[i])}
        found == {i \in DOMAIN q : (~IsLive(q[i]) \/ i \in fits)
                                     /\ \A j \in fits : i <= j}
    IN  {q[i] : i \in found} \cup (IF fits = {} THEN {None} ELSE {})

(* FindOneMatching in the next readable cache; after the last, manufacture *)
(* or request in the writable ones.                                        *)
FindOneMatching(o) ==
    /\ pc[o] = "find"
    /\ IF at[o] <= Len(Readable[o]) THEN
           LET c == Readable[o][at[o]] IN
           /\ mutex[c] = None
           /\ \/ \E s \in MatchesIn(o, c) :
                     /\ stage' = [stage EXCEPT ![o] = s]
                     /\ Goto(o, "done")
                     /\ UNCHANGED at
              \/ /\ MatchesIn(o, c) = {}
                 /\ at' = [at EXCEPT ![o] = @ + 1]
                 /\ UNCHANGED <<pc, stage>>
       ELSE /\ at' = [at EXCEPT ![o] = 1]
            /\ Goto(o, IF Writable[o] = <<>> THEN "make" ELSE "request")
            /\ UNCHANGED stage
    /\ UNCHANGED <<cacheVars, clientVars, mailbox, made, published, failures>>

(* The first critical section of RequestStage: a stage in the cache, or a  *)
(* subscription to a pending request, or a pending request of one's own.   *)
TakeCached(o, c) ==
    /\ \E s \in MatchesIn(o, c) : NextCache(o, s)
    /\ UNCHANGED <<pending, subscribed, mailbox>>

Subscribe(o, c) ==
    /\ MatchesIn(o, c) = {}
    /\ \E r \in PendingFor(o, c) \ {None} :
           subscribed' = [subscribed EXCEPT ![r] = @ \cup {o}]
    /\ mailbox' = [mailbox EXCEPT ![o].state = "subscribed"]
    /\ Goto(o, "wait")
    /\ UNCHANGED <<pending, at, stage>>

BecomePending(o, c) ==
    /\ MatchesIn(o, c) = {} /\ None \in PendingFor(o, c)
    /\ pending' = [pending EXCEPT ![c] = Append(@, Request(o))]
    /\ Goto(o, "make")
    /\ UNCHANGED <<subscribed, mailbox, at, stage>>

RequestStage(o) ==
    /\ pc[o] = "request"
    /\ mutex[Cache(o)] = None
    /\ \/ TakeCached(o, Cache(o))
       \/ Subscribe(o, Cache(o))
       \/ BecomePending(o, Cache(o))
    /\ UNCHANGED <<stages, strays, clientVars, made, published, failures>>

(* _Mailbox::Wait has seen the delivery.                                   *)
Wait(o) ==
    /\ pc[o] = "wait"
    /\ mailbox[o].state = "delivered"
    /\ NextCache(o, mailbox[o].stage)
    /\ mailbox' = [mailbox EXCEPT ![o] = NoMail]
    /\ UNCHANGED <<cacheVars, clientVars, made, published, failures>>

(* Manufacture up to the publication of the stage; the caller of           *)
(* Manufacture without a cache to request from has its answer.             *)
Manufacture(o) ==
    /\ pc[o] = "make"
    /\ \/ /\ "made" \in Outcomes
          /\ made' = [made EXCEPT ![o] = Request(o)]
          /\ IF Writable[o] = <<>>
             THEN stage' = [stage EXCEPT ![o] = made'[o]] /\ Goto(o, "done")
             ELSE UNCHANGED stage /\ Goto(o, "publish")
          /\ UNCHANGED <<failures, strays>>
       \/ /\ "failed" \in Outcomes
          /\ failures' = failures \cup {o}
          /\ Goto(o, IF Writable[o] = <<>> THEN "done" ELSE "deliver")
          /\ UNCHANGED <<made, stage, strays>>
       \/ /\ "thrown" \in Outcomes
          /\ failures' = failures \cup {o}
          /\ strays' = strays \cup {Request(o)}
          /\ Goto(o, "thrown")
          /\ UNCHANGED <<made, stage>>
    /\ UNCHANGED <<stages, pending, subscribed, clientVars, mailbox, at, published>>

Put(o, c) ==
    /\ mutex[c] = None
    /\ stages' = [stages EXCEPT ![c] = @ \cup {made[o]}]

(* The end of _InstantiateStage: one writable cache after another gets the *)
(* stage.                                                                  *)
Publish(o) ==
    /\ pc[o] = "publish"
    /\ Put(o, Writable[o][published[o] + 1])
    /\ published' = [published EXCEPT ![o] = @ + 1]
    /\ IF published'[o] = Len(Writable[o]) THEN Goto(o, "insert")
       ELSE UNCHANGED pc
    /\ UNCHANGED <<pending, subscribed, strays, clientVars, mailbox, at, made,
                   stage, failures>>

(* RequestStage inserts what it manufactured once more.                    *)
InsertMade(o) ==
    /\ pc[o] = "insert"
    /\ Put(o, Cache(o))
    /\ Goto(o, "deliver")
    /\ UNCHANGED <<pending, subscribed, strays, clientVars, mailbox, at, made,
                   published, stage, failures>>

(* Faulty: a failed manufacture answers nobody.                            *)
SendIfMade(o, r) ==
    mailbox' = [p \in Opens |->
        IF p \in subscribed[r] /\ made[o] # None
        THEN [state |-> "delivered", stage |-> made[o]] ELSE mailbox[p]]

Send(o, r) ==
    mailbox' = [p \in Opens |->
        IF p \in subscribed[r] THEN [state |-> "delivered", stage |-> made[o]]
        ELSE mailbox[p]]

(* Faulty: removes the first, whoever it is.                               *)
RemoveFirstPending(r, c) ==
    pending' = [pending EXCEPT ![c] = IF @ = <<>> THEN @ ELSE Tail(@)]

(* A request is in the list once at most.                                  *)
RemovePending(r, c) ==
    LET at_ == {i \in DOMAIN pending[c] : pending[c][i] = r}
        i == CHOOSE i \in at_ : TRUE
    IN  pending' = [pending EXCEPT ![c] =
            IF at_ = {} THEN @ ELSE SubSeq(@, 1, i - 1) \o SubSeq(@, i + 1, Len(@))]

(* The second critical section: every subscriber gets the stage, or null,  *)
(* and the request is pending no more.  Whoever manufactured is done.      *)
Deliver(o) ==
    LET r == Request(o) IN
    /\ pc[o] = "deliver"
    /\ mutex[Cache(o)] = None
    /\ Send(o, r)
    /\ RemovePending(r, Cache(o))
    /\ subscribed' = [subscribed EXCEPT ![r] = {}]
    /\ stage' = [stage EXCEPT ![o] = IF @ = None THEN made[o] ELSE @]
    /\ Goto(o, "done")
    /\ UNCHANGED <<stages, strays, clientVars, at, made, published, failures>>

OpenStep(o) ==
    \/ FindOneMatching(o) \/ RequestStage(o) \/ Wait(o) \/ Manufacture(o)
    \/ Publish(o) \/ InsertMade(o) \/ Deliver(o)

----------------------------------------------------------------------------
(* Other clients of the caches                                             *)

Evict == evictions < MaxEvictions /\ evictions' = evictions + 1

(* Erase by stage or id takes one, EraseAll those of a session layer or,   *)
(* of the root layer, all.                                                 *)
Erase(c) ==
    /\ "erase" \in Calls
    /\ mutex[c] = None
    /\ \E gone \in SUBSET stages[c] :
           /\ \/ gone = stages[c]
              \/ \E s \in stages[c] : gone = {s}
              \/ \E s \in stages[c] :
                     gone = {x \in stages[c] : SessionOf(x) = SessionOf(s)}
           /\ stages' = [stages EXCEPT ![c] = @ \ gone]
    /\ Evict
    /\ UNCHANGED <<pending, subscribed, strays, openVars, client, tmp, mutex>>

(* Clear exchanges the contents for new ones, the pending requests too.    *)
Clear(c) ==
    /\ "clear" \in Calls
    /\ mutex[c] = None
    /\ stages' = [stages EXCEPT ![c] = {}]
    /\ pending' = [pending EXCEPT ![c] = <<>>]
    /\ Evict
    /\ UNCHANGED <<subscribed, strays, openVars, client, tmp, mutex>>

Insert(c) ==
    /\ "insert" \in Calls
    /\ mutex[c] = None
    /\ \E s \in Foreign : stages' = [stages EXCEPT ![c] = @ \cup {s}]
    /\ UNCHANGED <<pending, subscribed, strays, openVars, clientVars>>

(* swap locks its own mutex, then that of the other cache.                 *)
SwapLock(k, c, d) ==
    /\ "swap" \in Calls /\ c # d
    /\ client[k] = Idle
    /\ mutex[c] = None
    /\ mutex' = [mutex EXCEPT ![c] = k]
    /\ client' = [client EXCEPT ![k] = [op |-> "swap", this |-> c, other |-> d]]
    /\ Evict
    /\ UNCHANGED <<cacheVars, openVars, tmp>>

Swap(k) ==
    /\ client[k].op = "swap"
    /\ LET c == client[k].this
           d == client[k].other
       IN  /\ mutex[d] = None
           /\ stages' = [stages EXCEPT ![c] = stages[d], ![d] = stages[c]]
           /\ pending' = [pending EXCEPT ![c] = pending[d], ![d] = pending[c]]
           /\ strays' = strays \cup Members(pending[c]) \cup Members(pending[d])
           /\ mutex' = [mutex EXCEPT ![c] = None]
    /\ client' = [client EXCEPT ![k] = Idle]
    /\ UNCHANGED <<subscribed, openVars, tmp, evictions>>

(* operator= copies the other cache, all of its contents, under its mutex, *)
(* and exchanges its own for the copy under its own.                       *)
Copy(k, c, d) ==
    /\ "assign" \in Calls /\ c # d
    /\ client[k] = Idle
    /\ mutex[d] = None
    /\ tmp' = [tmp EXCEPT ![k] = <<stages[d], pending[d]>>]
    /\ client' = [client EXCEPT ![k] = [op |-> "assign", this |-> c]]
    /\ Evict
    /\ UNCHANGED <<cacheVars, openVars, mutex>>

Assign(k) ==
    /\ client[k].op = "assign"
    /\ mutex[client[k].this] = None
    /\ stages' = [stages EXCEPT ![client[k].this] = tmp[k][1]]
    /\ pending' = [pending EXCEPT ![client[k].this] = tmp[k][2]]
    /\ strays' = strays \cup Members(tmp[k][2])
    /\ tmp' = [tmp EXCEPT ![k] = <<{}, <<>>>>]
    /\ client' = [client EXCEPT ![k] = Idle]
    /\ UNCHANGED <<subscribed, openVars, mutex, evictions>>

ClientStep(k) == Swap(k) \/ Assign(k)

Next ==
    \/ \E o \in Opens : OpenStep(o)
    \/ \E c \in Caches : Erase(c) \/ Clear(c) \/ Insert(c)
    \/ \E k \in Clients, c, d \in Caches : SwapLock(k, c, d) \/ Copy(k, c, d)
    \/ \E k \in Clients : ClientStep(k)

Spec == Init /\ [][Next]_vars

(* Threads that run, run on; manufacturing a stage ends.                   *)
Fairness ==
    /\ \A o \in Opens : WF_vars(OpenStep(o))
    /\ \A k \in Clients : WF_vars(ClientStep(k))

FairSpec == Spec /\ Fairness

----------------------------------------------------------------------------
(* Properties                                                              *)

(* What caches and requests point to is there, but for these requests: a   *)
(* pending request is one whose RequestStage still runs, and a subscribed  *)
(* mailbox belongs to a call that waits, for such a request.               *)
LiveBut(these) ==
    /\ \A c \in Caches : \A r \in Members(pending[c]) \ these : IsLive(r)
    /\ \A r \in Requests : \A o \in subscribed[r] :
           /\ pc[o] = "wait" /\ mailbox[o].state = "subscribed"
           /\ IsLive(r) \/ r \in these

(* Whatever clients do to the caches meanwhile, all pointers are live but  *)
(* those to strays; the mailboxes are live even of those.                  *)
PointersAreLive == LiveBut(strays)

(* "all operations other than construction and destruction may be          *)
(* performed concurrently": refuted, no matter whether manufacture throws. *)
AllPointersAreLive == LiveBut({})

(* "the stage is created only once": of all the opens that request the     *)
(* same from one cache, one manufactures, unless a client took its stage   *)
(* out of the cache again or a manufacture failed.                         *)
StageCreatedOnce ==
    evictions = 0 /\ failures = {} =>
        \A c \in Caches, o, p \in Opens :
            /\ made[o] = <<o, c>> /\ made[p] = <<p, c>>
            /\ Want[o] = Want[p]
            => o = p

(* Threads with the same contexts that open the same get the same stage,   *)
(* under the conditions above.                                             *)
SameStageForAll ==
    evictions = 0 /\ failures = {} =>
        \A o, p \in Opens :
            /\ Stack[o] = Stack[p] /\ Want[o] = Want[p]
            /\ made[o] # None /\ made[p] # None
            => o = p

(* An open returns a stage with the session layer it asked for, whoever    *)
(* made it, and returns null only where a manufacture has failed.          *)
AnswersSatisfy ==
    \A o \in Opens :
        /\ stage[o] # None => SatisfiedByStage(o, stage[o])
        /\ pc[o] = "done" /\ stage[o] = None => failures # {}

(* Clients that swap wait for each other's mutexes, in a ring.             *)
SwapsDeadlocked ==
    \E ring \in SUBSET Clients \ {{}} : \A k \in ring :
        client[k].op = "swap" /\ mutex[client[k].other] \in ring

Over(o) == pc[o] \in {"done", "thrown"}
WaitsForStray(o) == pc[o] = "wait" /\ \E r \in strays : o \in subscribed[r]

(* Whatever clients do to the caches meanwhile, every open returns that is *)
(* not waiting for a stray, unless swaps deadlock: nobody else waits for a *)
(* delivery that does not come.                                            *)
OpensReturn ==
    \A o \in Opens :
        pc[o] = "find" ~> Over(o) \/ WaitsForStray(o) \/ SwapsDeadlocked

(* All operations may be performed concurrently: refuted, for both reasons.*)
AllOpensReturn == \A o \in Opens : pc[o] = "find" ~> Over(o)
SwapsEnd == ~SwapsDeadlocked

=============================================================================

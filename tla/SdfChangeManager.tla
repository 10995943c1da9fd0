-------------------------- MODULE SdfChangeManager --------------------------
(* Edits of layers, the change blocks that gather them, and the rounds of   *)
(* notices by which stages and other listeners follow (pxr/usd/sdf/         *)
(* changeManager, the editing half of layer.cpp, UsdStage's listener).      *)
(* One thread: the manager's data are thread local, and a layer is edited   *)
(* by one thread at a time. What listeners do runs inside the sending of    *)
(* the round they hear, and may edit layers in its turn; rounds is the      *)
(* stack of the rounds being sent.                                          *)
EXTENDS SdfChangeList

CONSTANTS
  Layers,
  Listeners,   \* hear the notice of all layers (LayersDidChange)
  Stages,      \* hear the notice sent per layer
  Contents,    \* what the layers may hold at first
  Absent,
  Careless,    \* what client code does that not everything survives
  Room,        \* Room[l]: the paths that edits of l use
  Budget,      \* how many edits there may be, for the layers there are
  MaxClientRounds, MaxRounds  \* those begun outside of listeners, and all

ASSUME ManagerAssumption ==
  /\ Absent \notin Values \cup Listeners \cup Stages
  /\ IsFiniteSet(Listeners) /\ IsFiniteSet(Stages) /\ Listeners \cap Stages = {}
  /\ Careless \subseteq {"destroys", "stomps"}
  /\ Contents \subseteq [Layers -> [Paths -> Values \cup {Absent}]]
  /\ \A s \in Contents, l \in Layers, p, q \in Paths :
       s[l][p] # Absent /\ Under(p, q) => s[l][q] # Absent
  /\ Room \in [Layers -> SUBSET Paths]
  /\ DOMAIN Budget \subseteq SUBSET Layers /\ Range(Budget) \subseteq Nat
  /\ {MaxClientRounds, MaxRounds} \subseteq Nat

VARIABLES
  spec,        \* what the layers hold
  live,        \* the layers not yet destroyed
  stages,      \* the stages of this run
  block,       \* is an outermost change block open?
  changes,     \* what the thread has not sent, per layer; was: before that
  removals,    \* specs to remove if inert, by identity
  rounds,      \* being sent, the innermost last
  serial,      \* the last serial number taken
  heard,       \* the last serial number each stage has seen
  mirror,      \* what listeners and stages know of the layers
  missed,      \* history: what stages refuse to hear of, since they heard a
               \* later round first, and have not heard of again
  edits        \* how many there may still be

managerVars == << spec, live, stages, block, changes, removals, rounds, serial,
           heard, mirror, missed, edits >>

Followers == Listeners \cup stages

---------------------------------------------------------------------------
(* Editing one layer. An edit is a pair: what the layer then holds and its *)
(* change list.                                                            *)

Specs(c) == {p \in Paths : c[p] # Absent}
SubtreeOf(c, p) == {q \in Specs(c) : Under(q, p)}

IsBare(c, p) == c[p] = Bare

(* IsInert of a prim: no field that matters, children included.            *)
IsInert(c, p) == c[p] = Bare /\ SubtreeOf(c, p) = {p}

(* The specs below p and p, each once: SdfLayer::Traverse. The order does  *)
(* not matter, since each is told in an entry of its own.                  *)
Traverse(c, p) == SetToSeq(SubtreeOf(c, p))

CreateSpec(c, list, p, v) ==
  LET added == DidAddPrim(list, p, v = Bare)
  IN  [c |-> [c EXCEPT ![p] = v],
       list |-> IF v = Bare THEN added ELSE DidChangeInfo(added, p, Bare, v)]

SetField(c, list, p, v) ==
  [c |-> [c EXCEPT ![p] = v], list |-> DidChangeInfo(list, p, c[p], v)]

RemovalOfRoot(c, list, p) ==
  DidRemovePrim(list, p, \A q \in SubtreeOf(c, p) : c[q] = Bare)

(* Inert removals are about one path each, so a subtree of nothing but     *)
(* inert specs has them all reported.                                      *)
RemovalsOf(c, list, p) ==
  LET specs == Traverse(c, p)
      told[i \in 0 .. Len(specs)] ==
        IF i = 0 THEN list ELSE DidRemovePrim(told[i - 1], specs[i], TRUE)
  IN  IF \A q \in SubtreeOf(c, p) : c[q] = Bare THEN told[Len(specs)]
      ELSE DidRemovePrim(list, p, FALSE)

DeleteSpec(c, list, p) ==
  [c |-> [q \in Paths |-> IF Under(q, p) THEN Absent ELSE c[q]],
   list |-> RemovalsOf(c, list, p)]

MoveSpec(c, list, p, q) ==
  [c |-> [r \in Paths |->
            IF ReplacePrefix(r, q, p) \in Paths /\ Under(r, q)
            THEN c[ReplacePrefix(r, q, p)]
            ELSE IF Under(r, p) THEN Absent ELSE c[r]],
   list |-> IF Parent(p) = Parent(q)
            THEN DidChangePrimName(list, p, q) ELSE DidMovePrim(list, p, q)]

RemoveOneIfInert(e, p) ==
  IF IsInert(e.c, p) THEN DeleteSpec(e.c, e.list, p) ELSE e

(* _RemoveIfInert: a prim that is there and inert goes, and after it every *)
(* ancestor that this leaves inert.                                        *)
RemoveIfInert(c, list, p) ==
  LET done[i \in 0 .. Len(p)] ==
        IF i = 0 THEN [c |-> c, list |-> list]
        ELSE RemoveOneIfInert(done[i - 1], SubSeq(p, 1, Len(p) + 1 - i))
  IN  IF IsInert(c, p) THEN done[Len(p)] ELSE [c |-> c, list |-> list]

---------------------------------------------------------------------------
(* The changes of the thread, and sending them.                            *)

ListAt(ch, l) == SelectInSeq(ch, LAMBDA x : x.layer = l)

(* _GetListFor: the list of a layer begins with its first change.          *)
ListOf(ch, l) == IF ListAt(ch, l) = 0 THEN << >> ELSE ch[ListAt(ch, l)].list

WithList(ch, l, list, was) ==
  IF list = << >> THEN ch
  ELSE IF ListAt(ch, l) = 0
  THEN Append(ch, [layer |-> l, list |-> list, was |-> was])
  ELSE [ch EXCEPT ![ListAt(ch, l)].list = list]

(* The pending removals, each at the path its identity now has.            *)
ProcessOne(x, r) ==
  LET e == RemoveIfInert(x.s[r.layer], ListOf(x.ch, r.layer), r.path)
  IN  [s |-> [x.s EXCEPT ![r.layer] = e.c],
       ch |-> WithList(x.ch, r.layer, e.list, x.s[r.layer])]

Process(rs, s, ch) ==
  LET done[i \in 0 .. Len(rs)] ==
        IF i = 0 THEN [s |-> s, ch |-> ch] ELSE ProcessOne(done[i - 1], rs[i])
  IN  done[Len(rs)]

(* _SendNotices drops the layers that are gone.                            *)
OfLiveLayers(ch) ==
  LET kept[i \in 0 .. Len(ch)] ==
        IF i = 0 THEN << >>
        ELSE IF ch[i].layer \in live THEN Append(kept[i - 1], ch[i])
        ELSE kept[i - 1]
  IN  kept[Len(ch)]

(* The notices of a round, in order: about each layer alone, which say     *)
(* nothing of its content; to all listeners; and per layer to the stages.  *)
Notice(kind, who, l) == [kind |-> kind, to |-> who, layer |-> l]

Notices(ch) ==
  LET listener == SetToSeq(Listeners)
      stage == SetToSeq(stages)
  IN  [i \in DOMAIN ch |-> Notice("layer", Absent, ch[i].layer)]
      \o [i \in DOMAIN listener |-> Notice("all", listener[i], Absent)]
      \o FlattenSeq([i \in DOMAIN ch |->
           [j \in DOMAIN stage |-> Notice("stage", stage[j], ch[i].layer)]])

(* What a round tells: the changes that were sent, without what was before. *)
Told(ch) ==
  [i \in DOMAIN ch |-> [layer |-> ch[i].layer, list |-> ch[i].list]]

(* The changes are moved aside before the first notice.                    *)
Send(ch) ==
  LET told == Told(OfLiveLayers(ch))
  IN  /\ changes' = << >>
      /\ rounds' = IF told = << >> THEN rounds
                   ELSE Append(rounds, [changes |-> told, serial |-> 0,
                                        todo |-> Notices(told),
                                        running |-> FALSE])

---------------------------------------------------------------------------

ManagerInit ==
  /\ spec \in Contents
  /\ live \in DOMAIN Budget
  /\ stages \in SUBSET Stages
  /\ block = FALSE
  /\ changes = << >>
  /\ removals = << >>
  /\ rounds = << >>
  /\ serial = 0
  /\ heard = [s \in Stages |-> 0]
  /\ mirror = [f \in Followers |-> spec]
  /\ missed = {}
  /\ edits = Budget[live]

Round == Last(rounds)
Top == Len(rounds)
Due == Head(Round.todo)

(* Client code runs when nothing is being sent, or as a listener. A round  *)
(* that a listener begins has a later number than the one it answers: a    *)
(* stage that has still to hear the earlier one refuses it as a trespass.  *)
Acting == rounds # << >> => Round.running

Begun ==
  serial + Cardinality({i \in DOMAIN rounds : rounds[i].serial = 0})

MayEdit ==
  /\ Acting
  /\ edits > 0
  /\ ~block => Begun < IF rounds = << >> THEN MaxClientRounds ELSE MaxRounds

OpenBlock ==
  /\ MayEdit
  /\ ~block
  /\ block' = TRUE
  /\ UNCHANGED << spec, live, stages, changes, removals, rounds, serial,
                  heard, mirror, missed, edits >>

(* Every edit of a layer opens a block of its own. If it is the outermost  *)
(* its round is sent at once.                                              *)
Edit(l, e) ==
  LET ch == WithList(changes, l, e.list, spec[l])
  IN  /\ spec' = [spec EXCEPT ![l] = e.c]
      /\ edits' = edits - 1
      /\ IF block THEN changes' = ch /\ UNCHANGED rounds ELSE Send(ch)
      /\ UNCHANGED << live, stages, block, serial, heard, mirror, missed >>

Create(l, p, v) ==
  /\ MayEdit
  /\ l \in live
  /\ p \in Room[l]
  /\ spec[l][p] = Absent
  /\ Len(p) > 1 => spec[l][Parent(p)] # Absent
  /\ Edit(l, CreateSpec(spec[l], ListOf(changes, l), p, v))
  /\ UNCHANGED removals

Set(l, p, v) ==
  /\ MayEdit
  /\ l \in live
  /\ spec[l][p] \notin {Absent, v}
  /\ Edit(l, SetField(spec[l], ListOf(changes, l), p, v))
  /\ UNCHANGED removals

Delete(l, p) ==
  /\ MayEdit
  /\ l \in live
  /\ spec[l][p] # Absent
  /\ Edit(l, DeleteSpec(spec[l], ListOf(changes, l), p))
  /\ UNCHANGED removals

(* Identities move with their specs, those that there are: ids is where.   *)
(* One that is already there is stomped, and then names nothing.           *)
Moved(rs, l, p, q, ids) ==
  [i \in DOMAIN rs |->
     IF rs[i].layer # l THEN rs[i]
     ELSE IF rs[i].path \in ids
          THEN [rs[i] EXCEPT !.path = ReplacePrefix(@, p, q)]
     ELSE IF rs[i].path \in {ReplacePrefix(r, p, q) : r \in ids}
          THEN [rs[i] EXCEPT !.path = NoPath]
     ELSE rs[i]]

Move(l, p, q) ==
  LET from == SubtreeOf(spec[l], p)
      named == {p} \cup {r.path : r \in {x \in Range(removals) : x.layer = l}}
  IN  /\ MayEdit
      /\ l \in live
      /\ ~Under(p, q) /\ ~Under(q, p)
      /\ spec[l][p] # Absent /\ spec[l][q] = Absent
      /\ Len(q) > 1 => spec[l][Parent(q)] # Absent
      /\ \A r \in from : ReplacePrefix(r, p, q) \in Room[l]
      /\ \E ids \in SUBSET from :
           /\ named \cap from \subseteq ids
           /\ removals' = Moved(removals, l, p, q, ids)
      /\ "stomps" \notin Careless =>
           \A r \in Range(removals') : r.path # NoPath
      /\ Edit(l, MoveSpec(spec[l], ListOf(changes, l), p, q))

(* The pending removals are carried out while the block is still open;     *)
(* then the round is sent.                                                 *)
CloseWith(rs) ==
  LET done == Process(rs, spec, changes)
  IN  /\ spec' = done.s
      /\ removals' = << >>
      /\ block' = FALSE
      /\ Send(done.ch)

CloseBlock ==
  /\ block
  /\ Acting
  /\ CloseWith(removals)
  /\ UNCHANGED << live, stages, serial, heard, mirror, missed, edits >>

(* ScheduleRemoveIfInert: with the block, or now if there is none.         *)
Schedule(l, p) ==
  LET r == [layer |-> l, path |-> p]
  IN  /\ MayEdit
      /\ l \in live
      /\ spec[l][p] # Absent
      /\ r \notin Range(removals)
      /\ IF block
         THEN removals' = Append(removals, r)
              /\ UNCHANGED << spec, changes, rounds, block >>
         ELSE CloseWith(<< r >>)
      /\ edits' = edits - 1
      /\ UNCHANGED << live, stages, serial, heard, mirror, missed >>

(* The last reference to a layer goes; stages hold those they use.         *)
DestroyLayer(l) ==
  /\ Acting
  /\ stages = {}
  /\ l \in live
  /\ "destroys" \in Careless
       \/ (rounds = << >> /\ \A r \in Range(removals) : r.layer # l)
  /\ live' = live \ {l}
  /\ UNCHANGED << spec, stages, block, changes, removals, rounds, serial,
                  heard, mirror, missed, edits >>

---------------------------------------------------------------------------
(* Sending the innermost round.                                            *)

TakeNumber ==
  /\ rounds # << >> /\ ~Round.running
  /\ Round.serial = 0 /\ Due.kind # "layer"
  /\ serial' = serial + 1
  /\ rounds' = [rounds EXCEPT ![Top].serial = serial + 1]
  /\ UNCHANGED << spec, live, stages, block, changes, removals, heard,
                  mirror, missed, edits >>

(* Whoever hears a round reads again what it covers.                       *)
Reread(known) ==
  [l \in Layers |-> [p \in Paths |->
     IF l \in live /\ Covers(ListOf(Round.changes, l), p)
     THEN spec[l][p] ELSE known[l][p]]]

(* Has f still to hear of r? A notice that it listens to counts no more.   *)
Awaits(f, r) == \E i \in DOMAIN r.todo :
  r.todo[i].to = f /\ (i > 1 \/ ~r.running)

ToldOf(f, r) ==
  {x \in {f} \X Layers \X Paths : Covers(ListOf(r.changes, x[2]), x[3])}

(* What f will refuse, once it has heard the innermost round: the rounds   *)
(* around it that it has not heard have lower numbers.                     *)
Overtaken(f) ==
  UNION {ToldOf(f, rounds[i]) : i \in
           {j \in DOMAIN rounds : /\ j < Top
                                  /\ Awaits(f, rounds[j])
                                  /\ rounds[j].serial > heard[f]}}

(* UsdStage::_HandleLayersDidChange: one notice of a round is enough, and  *)
(* earlier rounds are refused.                                             *)
Deliver ==
  /\ rounds # << >> /\ ~Round.running /\ Round.todo # << >>
  /\ Due.kind # "layer" => Round.serial # 0
  /\ rounds' = [rounds EXCEPT ![Top].running = TRUE]
  /\ LET f == Due.to
     IN  CASE Due.kind = "layer" -> UNCHANGED << heard, mirror, missed >>
           [] Due.kind = "all" ->
                /\ mirror' = [mirror EXCEPT ![f] = Reread(@)]
                /\ UNCHANGED << heard, missed >>
           [] Due.kind = "stage" /\ Round.serial > heard[f] ->
                /\ mirror' = [mirror EXCEPT ![f] = Reread(@)]
                /\ heard' = [heard EXCEPT ![f] = Round.serial]
                /\ missed' = (missed \cup Overtaken(f)) \ ToldOf(f, Round)
           [] OTHER -> UNCHANGED << heard, mirror, missed >>
  /\ UNCHANGED << spec, live, stages, block, changes, removals, serial, edits >>

(* A listener returns, with the blocks it opened closed.                   *)
ReturnFromListener ==
  /\ rounds # << >> /\ Round.running /\ ~block
  /\ rounds' = [rounds EXCEPT ![Top].running = FALSE,
                              ![Top].todo = Tail(@)]
  /\ UNCHANGED << spec, live, stages, block, changes, removals, serial,
                  heard, mirror, missed, edits >>

EndRound ==
  /\ rounds # << >> /\ ~Round.running /\ Round.todo = << >>
  /\ rounds' = Front(rounds)
  /\ UNCHANGED << spec, live, stages, block, changes, removals, serial,
                  heard, mirror, missed, edits >>

ManagerNext ==
  \/ OpenBlock \/ CloseBlock
  \/ \E l \in Layers, p \in Paths :
       \/ \E v \in Values : Create(l, p, v) \/ Set(l, p, v)
       \/ Delete(l, p) \/ Schedule(l, p)
       \/ \E q \in Paths : Move(l, p, q)
  \/ \E l \in Layers : DestroyLayer(l)
  \/ TakeNumber \/ Deliver \/ ReturnFromListener \/ EndRound

ManagerSpec == ManagerInit /\ [][ManagerNext]_managerVars

---------------------------------------------------------------------------

ManagerTypeOK ==
  /\ spec \in [Layers -> [Paths -> Values \cup {Absent}]]
  /\ live \subseteq Layers /\ stages \subseteq Stages
  /\ block \in BOOLEAN
  /\ \A i \in DOMAIN changes : changes[i].layer \in Layers
  /\ \A i \in DOMAIN changes : changes[i].list \in Seq(Entry)
  /\ removals \in Seq([layer : Layers, path : Paths \cup {NoPath}])
  /\ serial \in Nat /\ heard \in [Stages -> Nat] /\ edits \in Nat
  /\ mirror \in [Followers -> [Layers -> [Paths -> Values \cup {Absent}]]]
  /\ missed \subseteq Stages \X Layers \X Paths

(* Has f still to hear of p in l? In what was not sent, or in a round whose *)
(* notice has not yet reached f.                                           *)
StillToHear(f, l, p) ==
  \/ Covers(ListOf(changes, l), p)
  \/ \E i \in DOMAIN rounds :
       Awaits(f, rounds[i]) /\ Covers(ListOf(rounds[i].changes, l), p)

FollowBut(these) ==
  \A f \in Followers, l \in live, p \in Paths :
    mirror[f][l][p] # spec[l][p] /\ << f, l, p >> \notin these => StillToHear(f, l, p)

(* Whatever a listener or a stage does not know of a layer is still on its *)
(* way to it: merging edits into one list, moving lists aside, and rounds  *)
(* inside rounds lose nothing (SdfChangeList, _SendNotices), but what a    *)
(* stage refuses for its number (_HandleLayersDidChange); that is lost for *)
(* the stage until a later round tells of the same again.                  *)
MirrorsFollow == FollowBut(missed)

(* "so that notice listeners can safely queue up more changes": refuted,   *)
(* a stage may lose the changes that they answer.                          *)
AllMirrorsFollow == FollowBut({})

(* A spec that was neither added, removed nor moved since has exactly its  *)
(* old and its new value in the list, or no info where nothing was set     *)
(* (DidChangeInfo, _MoveEntry).                                            *)
InfoExact ==
  \A x \in Range(changes) : \A p \in Paths :
    x.layer \in live /\ x.was[p] # Absent /\ ~Resynced(x.list, p) =>
      LET known == {e.infoChanged : e \in {f \in Range(x.list) : f.path = p}}
      IN  /\ known \subseteq {<< >>, << x.was[p], spec[x.layer][p] >>}
          /\ x.was[p] # spec[x.layer][p] => ~(known \subseteq {<< >>})

(* No notice goes to a layer that is no more (the filter of _SendNotices). *)
NotifiesOnlyLive ==
  rounds # << >> /\ ~Round.running /\ Round.todo # << >> =>
    Due.layer \in live \cup {Absent}

(* Closing a block removes only what has no opinion, and never a spec      *)
(* whose child stays (_ProcessRemoveIfInert, RemovePrimIfInert).           *)
CleanupTakesOnlyInert ==
  [][(block /\ ~block') =>
       \A l \in live, p \in Paths : spec'[l][p] # spec[l][p] =>
         /\ spec[l][p] = Bare /\ spec'[l][p] = Absent
         /\ SubtreeOf(spec'[l], p) = {}]_managerVars

(* What is to be removed when the block closes still names a layer.        *)
RemovalsAnswer ==
  \A r \in Range(removals) : r.path # NoPath /\ r.layer \in live
=============================================================================

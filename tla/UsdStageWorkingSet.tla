------------------------- MODULE UsdStageWorkingSet -------------------------
(***************************************************************************)
(* The working set of a UsdStage (pxr/usd/usd/stage.cpp): which payloads   *)
(* its load rules ask for, and which ones the stage has composed.  Load,   *)
(* Unload and LoadAndUnload change the rules and recompose only the        *)
(* subtrees they think have changed; SetLoadRules recomposes everything;   *)
(* an edit of a layer recomposes the subtree it touches.  The rules are    *)
(* UsdStageLoadRules, the composed payloads PcpCache::_includedPayloads.   *)
(*                                                                         *)
(* The scene is fixed and has neither inactive prims nor instances, except *)
(* in the rules of instance keys, which are computed for any prim.         *)
(***************************************************************************)
EXTENDS UsdStageLoadRules

CONSTANTS
  Paths,        \* the prim paths the scene may have, the root among them
  PayloadPrims, \* the prims that have a payload
  Source,       \* Source[p]: the prim whose payload brings p; Root: the layer
  Unused,       \* a prim name that no rule mentions
  MaxSet        \* bound on the paths given to one LoadAndUnload

\* The prim names in the paths of the scene.
PrimNames == UNION {Range(p) : p \in Paths}

ASSUME PathsAssumption ==
  /\ Root \in Paths /\ Paths \subseteq Seq(PrimNames) /\ Unused \notin PrimNames
  /\ \A p \in Paths : p # Root => Front(p) \in Paths
  /\ PayloadPrims \subseteq Paths \ {Root}
ASSUME SourceAssumption ==
  /\ Source \in [Paths -> PayloadPrims \cup {Root}] /\ Source[Root] = Root
  /\ \A p \in Paths \ {Root} : IsStrictPrefix(Source[p], p)
ASSUME MaxSetAssumption == MaxSet \in Nat \ {0}

VARIABLES
  rules,    \* UsdStage::_loadRules
  included  \* PcpCache::_includedPayloads

workingSetVars == <<rules, included>>

Under(path) == {p \in Paths : IsPrefix(path, p)}
Above(path) == {p \in Paths : IsStrictPrefix(p, path)}

-----------------------------------------------------------------------------
(* Composition.                                                            *)

\* A prim is on the stage when every prim on its path is: each is in the
\* stage's layers or is brought by a payload that is composed.
OnStage(p, incl) ==
  \A q \in Paths : IsPrefix(q, p) => Source[q] \in incl \cup {Root}

\* UsdPrim::IsLoaded: a prim with a payload is loaded when the payload is, one
\* without when its parent is, the pseudo-root always.
LoadablePrefixes(p) == {q \in PayloadPrims : IsPrefix(q, p)}
PrimIsLoaded(p, incl) ==
  \/ LoadablePrefixes(p) = {}
  \/ \E q \in LoadablePrefixes(p) :
       /\ \A r \in LoadablePrefixes(p) : Len(r) <= Len(q)
       /\ q \in incl

\* _Recompose of the subtrees at roots: Pcp computes the prim indexes of the
\* prims there from the top down, asking the load rules about each payload it
\* meets and noting the answer; of a prim that is no longer there it keeps
\* what it had.
Recomposed(roots, newRules, incl) ==
  LET touched == {p \in Paths : \E r \in roots : IsPrefix(r, p)}
      asked == (incl \ touched) \cup
               {p \in touched \cap PayloadPrims : IsLoaded(newRules, p)}
  IN {p \in PayloadPrims :
        p \in IF p \in touched /\ OnStage(p, asked) THEN asked ELSE incl}

-----------------------------------------------------------------------------
(* Operations of the stage.                                                *)

\* The rules already give what the call asks for: return without doing more.
IsNoOp(loadSet, unloadSet, withDescendants) ==
  \/ /\ unloadSet = {}
     /\ \A p \in loadSet : IF withDescendants
                           THEN IsLoadedWithAllDescendants(rules, p)
                           ELSE IsLoadedWithNoDescendants(rules, p)
  \/ /\ loadSet = {}
     /\ unloadSet # {}
     /\ \A p \in unloadSet : GetEffectiveRuleForPath(rules, p) = "NoneRule"

\* _IsValidForLoad: the path, or something between it and the root, is there.
IsValidForLoad(p) ==
  p = Root \/ \E q \in Paths \ {Root} : IsPrefix(q, p) /\ OnStage(q, included)

\* A fault of LoadRoot: the ancestors a load brings in are forgotten.
LoadRootIsPath(p) == p

\* Where loading p recomposes: below its closest ancestor that is on the stage
\* and loaded, the pseudo-root at the latest.
LoadRoot(p) ==
  IF p = Root THEN Root
  ELSE CHOOSE q \in Paths \ {Root} :
         /\ IsPrefix(q, p)
         /\ OnStage(Front(q), included) /\ PrimIsLoaded(Front(q), included)
         /\ \A r \in Above(p) :
              OnStage(r, included) /\ PrimIsLoaded(r, included) => Len(r) <= Len(Front(q))

\* The rules that a call leaves.
RulesAfter(loadSet, unloadSet, withDescendants) ==
  IF IsNoOp(loadSet, unloadSet, withDescendants) THEN rules
  ELSE LoadAndUnload(rules, {p \in loadSet : IsValidForLoad(p)}, unloadSet,
                     withDescendants)

LoadAndUnloadCall(loadSet, unloadSet, withDescendants) ==
  LET newRules == RulesAfter(loadSet, unloadSet, withDescendants)
      finalLoadSet == {p \in loadSet : IsValidForLoad(p)}
      roots == finalLoadSet \cup {LoadRoot(p) : p \in finalLoadSet} \cup unloadSet
      kept == {p \in included : \A r \in roots : ~ IsPrefix(r, p)}
  IN /\ rules' = newRules
     /\ included' = IF IsNoOp(loadSet, unloadSet, withDescendants) THEN included
                    ELSE Recomposed(roots, newRules, kept)

Load(p, withDescendants) == LoadAndUnloadCall({p}, {}, withDescendants)
UnloadCall(p) == LoadAndUnloadCall({}, {p}, TRUE)

SetLoadRules(newRules) ==
  /\ rules' = newRules
  /\ included' = Recomposed({Root}, newRules, included)

\* A layer is edited so that the prim at p changes significantly.
ResyncPrim(p) ==
  /\ included' = Recomposed({p}, rules, included)
  /\ UNCHANGED rules

-----------------------------------------------------------------------------
WorkingSetInit ==  \* UsdStage::Open with LoadAll or LoadNone
  \E initial \in {LoadAll, LoadNone} :
    /\ rules = initial
    /\ included = Recomposed({Root}, initial, {})

PathSets == {S \in SUBSET Paths : Cardinality(S) <= MaxSet}

LoadSome == \E p \in Paths, withDescendants \in BOOLEAN : Load(p, withDescendants)
UnloadSome == \E p \in Paths : UnloadCall(p)
LoadAndUnloadSome ==
  \E loadSet, unloadSet \in PathSets, withDescendants \in BOOLEAN :
    /\ loadSet # {} /\ unloadSet # {}
    /\ LoadAndUnloadCall(loadSet, unloadSet, withDescendants)
ResyncSome == \E p \in Paths : ResyncPrim(p)
SetSome ==
  \/ \E p \in Paths, rule \in RuleKinds : SetLoadRules(AddRule(rules, p, rule))
  \/ SetLoadRules(Minimize(rules))

WorkingSetNext == LoadSome \/ UnloadSome \/ LoadAndUnloadSome \/ ResyncSome \/ SetSome
WorkingSetSpec == WorkingSetInit /\ [][WorkingSetNext]_workingSetVars

\* What a stage does whose rules are never set directly.
NextByCalls == LoadSome \/ UnloadSome \/ LoadAndUnloadSome \/ ResyncSome
SpecByCalls == WorkingSetInit /\ [][NextByCalls]_workingSetVars

-----------------------------------------------------------------------------
(* Instance keys (Usd_InstanceKey, _MakeLoadRulesRelativeTo).              *)

\* A fault of RelativeRules: the rule in effect at path is not put at the root.
RelativeRulesBare(rs, path) ==
  [s \in {SubSeq(q, Len(path) + 1, Len(q)) : q \in RuledUnder(rs, path)} |-> rs[path \o s]]

\* The rules below path, moved to the root, under the rule in effect at path.
RelativeRules(rs, path) ==
  LET moved == {SubSeq(q, Len(path) + 1, Len(q)) : q \in RuledUnder(rs, path)}
  IN [s \in moved \cup {Root} |-> IF s = Root THEN GetEffectiveRuleForPath(rs, path)
                                              ELSE rs[path \o s]]
InstanceKey(rs, path) == Minimize(RelativeRules(rs, path))

-----------------------------------------------------------------------------
(* Properties.                                                             *)

\* Every path of the scene, and a child of each that no rule can mention:
\* what holds of it holds of any prim the rules do not name.
AllPaths == Paths \cup {Append(p, Unused) : p \in Paths}

\* The rules are about paths of the scene; only prims with payloads have
\* theirs composed.
WorkingSetTypeOK == rules \in RulesOver(Paths) /\ included \subseteq PayloadPrims

\* The two queries that decide whether a load may return early mean what they
\* say: IsLoadedWithAllDescendants holds exactly when the path and everything
\* below it is loaded, IsLoadedWithNoDescendants exactly when the path is
\* loaded and nothing below it is.
LoadQueriesExact ==
  \A p \in Paths :
    /\ IsLoadedWithAllDescendants(rules, p) <=>
         \A q \in AllPaths : IsPrefix(p, q) => IsLoaded(rules, q)
    /\ IsLoadedWithNoDescendants(rules, p) <=>
         \A q \in AllPaths : IsPrefix(p, q) => (IsLoaded(rules, q) <=> q = p)

\* Whatever was called before, a payload on the stage that the rules load is
\* composed: no call recomposes too little to find it.
RuledPayloadsAreComposed ==
  \A p \in PayloadPrims :
    OnStage(p, included) /\ IsLoaded(rules, p) => p \in included

\* The rules an instance key is made of say of the paths below the instance
\* what the stage's rules say of them (before they are minimized).
RelativeRulesFaithful ==
  \A p \in Paths, q \in AllPaths :
    IsPrefix(p, q) =>
      (IsLoaded(RelativeRules(rules, p), SubSeq(q, Len(p) + 1, Len(q))) <=> IsLoaded(rules, q))

Related(p, q) == IsPrefix(p, q) \/ IsPrefix(q, p)

\* What each call does to the rules, those that return early included. A load
\* unloads nothing, and what it adds lies on the path to what it loads or below
\* it; a load of something the stage has leaves all of that loaded, with all or
\* with nothing below it. An unload loads nothing, leaves its path unloaded and
\* unloads only above and below it. Below it something stays loaded only if the
\* call returned early, past a descendant that has a NoneRule of its own.
LoadsKeepTheirSide ==
  \A p \in Paths :
    LET all == RulesAfter({p}, {}, TRUE)
        alone == RulesAfter({p}, {}, FALSE)
        none == RulesAfter({}, {p}, TRUE)
    IN \A q \in AllPaths :
         /\ IsLoaded(rules, q) => IsLoaded(all, q)
         /\ IsLoaded(all, q) => IsLoaded(rules, q) \/ Related(p, q)
         /\ IsValidForLoad(p) /\ IsPrefix(p, q) =>
              IsLoaded(all, q) /\ (IsLoaded(alone, q) <=> q = p)
         /\ IsLoaded(none, q) => IsLoaded(rules, q) /\ q # p
         /\ IsLoaded(rules, q) => IsLoaded(none, q) \/ Related(p, q)
         /\ IsPrefix(p, q) /\ IsLoaded(none, q) =>
              /\ IsNoOp({}, {p}, TRUE)
              /\ \E r \in DOMAIN rules :
                    IsStrictPrefix(p, r) /\ IsPrefix(r, q) /\ rules[r] = "NoneRule"

-----------------------------------------------------------------------------
(* What the documentation says and the code does not do.                   *)

\* stage.h:562: Load loads "the prim at path, its ancestors, and all of its
\* descendants".  An ancestor whose nearest ruled descendant is unloaded stays
\* unloaded.
LoadLoadsAncestors ==
  [][\A p \in Paths : Load(p, TRUE) =>
       \A q \in Above(p) \ {Root} : IsLoaded(rules', q)]_workingSetVars

\* stage.h:573: Unload unloads "the prim and its descendants specified by path".
UnloadLeavesNothingBelow ==
  \A p, q \in Paths :
    IsPrefix(p, q) => ~ IsLoaded(RulesAfter({}, {p}, TRUE), q)

\* stage.cpp:2564, 2574: an Unload of paths whose effective rule is NoneRule
\* changes nothing because they are "already in the desired state", unloaded
\* with their descendants.
NoneMeansUnloadedBelow ==
  \A p \in Paths : GetEffectiveRuleForPath(rules, p) = "NoneRule" =>
    \A q \in Under(p) : ~ IsLoaded(rules, q)

\* stage.h:631: the load rules are those "governing payload inclusion" on the
\* stage: a payload on it is composed only if they load it.
ComposedPayloadsAreRuled ==
  \A p \in included : OnStage(p, included) => IsLoaded(rules, p)

\* stageLoadRules.h:131: Minimize makes the rules smaller "without changing
\* behavior".
MinimizeKeepsBehavior ==
  \A q \in AllPaths \ {Root} : IsLoaded(Minimize(rules), q) <=> IsLoaded(rules, q)

\* stage.cpp:5331: payloads are right below instances "because load rules are
\* included in instancing keys": prims with equal keys load the same things
\* below them.
EqualKeysLoadAlike ==
  \A p, q \in Paths \ {Root} :
    /\ InstanceKey(rules, p) = InstanceKey(rules, q)
    /\ ~ IsPrefix(p, q) /\ ~ IsPrefix(q, p)
    =>
    \A s \in {SubSeq(r, Len(p) + 1, Len(r)) : r \in Under(p)} :
      IsLoaded(rules, p \o s) <=> IsLoaded(rules, q \o s)

=============================================================================

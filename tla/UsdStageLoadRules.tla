------------------------- MODULE UsdStageLoadRules -------------------------
(***************************************************************************)
(* UsdStageLoadRules (pxr/usd/usd/stageLoadRules.h, .cpp): the rules that  *)
(* say which payloads a stage composes.  The class holds a vector of       *)
(* (path, rule) pairs sorted by path, with one rule per path; here it is a *)
(* function from the ruled paths to rules.  A path is the sequence of its  *)
(* prim names, <<>> being the absolute root path "/".  Every member        *)
(* function is an operator, a mutating one returning the new rules.        *)
(***************************************************************************)
EXTENDS Naturals, SequencesExt, FiniteSetsExt, Functions

Root == <<>>
RuleKinds == {"AllRule", "OnlyRule", "NoneRule"}

\* The rules that may be written about the paths in P.
RulesOver(P) == UNION {[R -> RuleKinds] : R \in SUBSET P}

LoadAll == [p \in {} |-> "AllRule"]
LoadNone == [p \in {Root} |-> "NoneRule"]

-----------------------------------------------------------------------------
(* SdfPathFindLongestPrefix and SdfPathFindPrefixedRange on the vector.    *)

RuledPrefixes(rules, path) == {q \in DOMAIN rules : IsPrefix(q, path)}

NearestRuled(rules, path) ==
  CHOOSE q \in RuledPrefixes(rules, path) :
    \A r \in RuledPrefixes(rules, path) : Len(r) <= Len(q)

RuledUnder(rules, path) == {q \in DOMAIN rules : IsPrefix(path, q)}

\* The ruled proper descendants of path that have no ruled path between them
\* and path: the entries GetEffectiveRuleForPath stops at as it skips
\* whatever is prefixed by an entry it has looked at.
DirectRuled(rules, path) ==
  {q \in RuledUnder(rules, path) \ {path} :
     \A r \in RuledUnder(rules, path) \ {path} : IsPrefix(r, q) => r = q}

-----------------------------------------------------------------------------
(* Queries.                                                                *)

\* A fault of GetEffectiveRuleForPath: the path's own OnlyRule is not looked at.
EffectiveForgetsOnly(rules, path) ==
  IF RuledPrefixes(rules, path) = {} \/ rules[NearestRuled(rules, path)] = "AllRule"
  THEN "AllRule"
  ELSE IF \E q \in DirectRuled(rules, path) : rules[q] # "NoneRule"
       THEN "OnlyRule" ELSE "NoneRule"

GetEffectiveRuleForPath(rules, path) ==
  IF RuledPrefixes(rules, path) = {} THEN "AllRule"
  ELSE LET near == NearestRuled(rules, path)
       IN CASE rules[near] = "AllRule" -> "AllRule"
            [] rules[near] = "OnlyRule" /\ near = path -> "OnlyRule"
            [] OTHER ->
                 IF \E q \in DirectRuled(rules, path) : rules[q] # "NoneRule"
                 THEN "OnlyRule" ELSE "NoneRule"

IsLoaded(rules, path) == GetEffectiveRuleForPath(rules, path) # "NoneRule"

IsLoadedWithAllDescendants(rules, path) ==
  /\ RuledPrefixes(rules, path) # {} => rules[NearestRuled(rules, path)] = "AllRule"
  /\ \A q \in RuledUnder(rules, path) : rules[q] = "AllRule"

IsLoadedWithNoDescendants(rules, path) ==
  /\ path \in DOMAIN rules
  /\ rules[path] = "OnlyRule"
  /\ \A q \in RuledUnder(rules, path) \ {path} : rules[q] = "NoneRule"

-----------------------------------------------------------------------------
(* Changes.                                                                *)

\* Faults of ReplaceUnder: one drops the rules above the paths instead of those
\* below them, one drops none.
ReplaceAbove(rules, paths, rule) ==
  [q \in {r \in DOMAIN rules : \A p \in paths : ~ IsPrefix(r, p)} \cup paths |->
     IF q \in paths THEN rule ELSE rules[q]]
\* LoadWithDescendants, LoadWithoutDescendants and Unload of each path of a
\* set, in the order of the set: ancestors come before their descendants, so
\* no path of the set loses its own rule to a later one.
ReplaceUnder(rules, paths, rule) ==
  [q \in {r \in DOMAIN rules : \A p \in paths : ~ IsPrefix(p, r)} \cup paths |->
     IF q \in paths THEN rule ELSE rules[q]]

LoadWithDescendants(rules, paths) == ReplaceUnder(rules, paths, "AllRule")
LoadWithoutDescendants(rules, paths) == ReplaceUnder(rules, paths, "OnlyRule")
Unload(rules, paths) == ReplaceUnder(rules, paths, "NoneRule")

\* LoadAndUnload: first every Unload, then every load.
LoadAndUnload(rules, loadSet, unloadSet, withDescendants) ==
  LET unloaded == Unload(rules, unloadSet)
  IN IF withDescendants THEN LoadWithDescendants(unloaded, loadSet)
                        ELSE LoadWithoutDescendants(unloaded, loadSet)

AddRule(rules, path, rule) ==
  [q \in DOMAIN rules \cup {path} |-> IF q = path THEN rule ELSE rules[q]]

\* The rule that Minimize compares an entry with: the one of the nearest
\* entry kept above it.  An entry dropped on the way has the rule of the one
\* above it, so the nearest ruled ancestor tells the same.
ParentRule(rules, path) ==
  LET above == RuledPrefixes(rules, path) \ {path}
  IN IF above = {} THEN "AllRule"
     ELSE rules[CHOOSE q \in above : \A r \in above : Len(r) <= Len(q)]

Minimize(rules) ==
  LET shown == IF Root \in DOMAIN rules /\ rules[Root] = "AllRule"
               THEN Restrict(rules, DOMAIN rules \ {Root}) ELSE rules
  IN IF Cardinality(DOMAIN shown) <= 1 THEN shown
     ELSE Restrict(shown, {q \in DOMAIN shown : shown[q] # ParentRule(shown, q)})

=============================================================================

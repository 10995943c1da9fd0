--------------------------- MODULE SdfChangeList ---------------------------
(* The change list of one layer (pxr/usd/sdf/changeList): a sequence of     *)
(* entries, each about a path, into which the edits of a round are merged.  *)
(* What an edit did is described by flags, by the path a prim came from and *)
(* by the old and the new value of its info; one field stands for all.      *)
EXTENDS Integers, FiniteSets, SequencesExt

CONSTANTS
  Paths,      \* paths of prims, as sequences of names
  Values,     \* what the fields of a spec hold
  Bare        \* no field that matters: the spec of an over

ASSUME PrimPathsAssumption ==
  /\ IsFiniteSet(Paths) /\ \A p \in Paths : p \in Seq(Range(p))
  /\ \A p \in Paths : p # << >> /\ (Len(p) > 1 => Front(p) \in Paths)
  /\ Bare \in Values

(* The empty path: SdfPath().                                              *)
NoPath == << >>

Under(p, q) == IsPrefix(q, p)
Parent(p) == Front(p)
ReplacePrefix(p, from, to) == to \o SubSeq(p, Len(from) + 1, Len(p))

AddFlags == {"didAddInertPrim", "didAddNonInertPrim"}
RemoveFlags == {"didRemoveInertPrim", "didRemoveNonInertPrim"}
Flags == AddFlags \cup RemoveFlags \cup {"didRename"}

Entry == [path : Paths, flags : SUBSET Flags, oldPath : Paths \cup {NoPath},
          infoChanged : {<< >>} \cup (Values \X Values)]

NewEntry(p) ==
  [path |-> p, flags |-> {}, oldPath |-> NoPath, infoChanged |-> << >>]

(* The last entry of a path, 0 if there is none.                           *)
FindEntry(list, p) == SelectLastInSeq(list, LAMBDA e : e.path = p)

HasEntry(list, p) == FindEntry(list, p) # 0

EntryOf(list, p) ==
  IF HasEntry(list, p) THEN list[FindEntry(list, p)] ELSE NewEntry(p)

(* The entry of p becomes e.                                               *)
Change(list, p, e) ==
  IF HasEntry(list, p) THEN [list EXCEPT ![FindEntry(list, p)] = e]
  ELSE Append(list, e)

GetEntry(list, p) == Change(list, p, EntryOf(list, p))

Flag(list, p, flag) ==
  Change(list, p, [EntryOf(list, p) EXCEPT !.flags = @ \cup {flag}])

(* A new entry for p if the last one has one of these flags: which of an   *)
(* addition and a removal came first can then be told.                     *)
Apart(list, p, flags) ==
  IF HasEntry(list, p) /\ list[FindEntry(list, p)].flags \cap flags # {}
  THEN Append(list, NewEntry(p)) ELSE list

(* The first of the old values is kept.                                    *)
DidChangeInfoAnew(list, p, old, new) ==
  Change(list, p, [EntryOf(list, p) EXCEPT !.infoChanged = << old, new >>])

DidChangeInfo(list, p, old, new) ==
  Change(list, p, [EntryOf(list, p) EXCEPT !.infoChanged =
    << IF @ = << >> THEN old ELSE @[1], new >>])

DidAddPrim(list, p, inert) ==
  Flag(Apart(list, p, RemoveFlags), p,
       IF inert THEN "didAddInertPrim" ELSE "didAddNonInertPrim")

DidRemovePrim(list, p, inert) ==
  Flag(Apart(list, p, AddFlags), p,
       IF inert THEN "didRemoveInertPrim" ELSE "didRemoveNonInertPrim")

(* The entry of old becomes that of new. An addition leaves a marker, an   *)
(* entry of its own, where it was; anything else leaves nothing.           *)
MoveEntry(list, old, new) ==
  LET i == FindEntry(list, old)
      tmp == EntryOf(list, old)
      left == IF i = 0 THEN list
              ELSE IF tmp.flags \cap AddFlags # {} /\ tmp.oldPath = NoPath
                   THEN [list EXCEPT ![i] = NewEntry(old)]
                   ELSE RemoveAt(list, i)
  IN  Change(left, new,
        [tmp EXCEPT !.path = new, !.flags = @ \cup {"didRename"},
                    !.oldPath = IF @ = NoPath THEN old ELSE @])

DidChangePrimName(list, old, new) ==
  MoveEntry(Apart(GetEntry(list, new), new, RemoveFlags), old, new)

DidMovePrim(list, old, new) ==
  LET added == DidAddPrim(DidRemovePrim(list, old, FALSE), new, FALSE)
  IN  Change(added, new, [EntryOf(added, new) EXCEPT !.oldPath = old])

---------------------------------------------------------------------------

(* What readers of the list take an entry to be about (PcpChanges): a      *)
(* rename and the addition or removal of a prim that is not inert are      *)
(* about the whole subtree, all else about the path alone.                 *)
Resyncs(e, p) ==
  \/ /\ e.flags \cap {"didAddNonInertPrim", "didRemoveNonInertPrim",
                      "didRename"} # {}
     /\ Under(p, e.path)
  \/ "didRename" \in e.flags /\ Under(p, e.oldPath)
  \/ e.flags \cap (AddFlags \cup RemoveFlags) # {} /\ p = e.path

Resynced(list, p) == \E e \in Range(list) : Resyncs(e, p)

Covers(list, p) ==
  \/ Resynced(list, p)
  \/ \E e \in Range(list) : e.path = p /\ e.infoChanged # << >>
=============================================================================

----------------------------- MODULE JsonPaths -----------------------------
(***************************************************************************)
(* JSON documents addressed by dotted paths (pkg/runtime/body.go): request *)
(* bodies, pages and collected streams are read and written through these. *)
(*                                                                         *)
(* A document is an object, an array, a leaf or null.  A path is a         *)
(* sequence of segments, each a key and an index into the array there, or  *)
(* NoIndex.                                                                *)
(***************************************************************************)
EXTENDS Integers, Sequences, SequencesExt

Object(fields) == [kind |-> "object", at |-> fields]

Array(items) == [kind |-> "array", at |-> items]

Leaf(text) == [kind |-> "leaf", at |-> text]

Null == [kind |-> "null", at |-> ""]

Absent == [kind |-> "absent", at |-> ""]

NoIndex == -1

Field(key) == [key |-> key, index |-> NoIndex]

Item(key, index) == [key |-> key, index |-> index]

Paths == Seq([key : STRING, index : Nat \cup {NoIndex}])

-----------------------------------------------------------------------------
(* getNestedSegs *)

Child(doc, seg) ==
    IF doc.kind # "object" THEN Absent
    ELSE IF seg.key \notin DOMAIN doc.at THEN Absent
    ELSE LET next == doc.at[seg.key]
         IN IF seg.index = NoIndex THEN next
            ELSE IF next.kind = "array" /\ seg.index + 1 \in DOMAIN next.at THEN next.at[seg.index + 1]
            ELSE Absent

\* What a path reaches after each of its segments.
Found(doc, path) ==
    LET found[k \in 0 .. Len(path)] == IF k = 0 THEN doc ELSE Child(found[k - 1], path[k])
    IN found

GetNested(doc, path) == Found(doc, path)[Len(path)]

-----------------------------------------------------------------------------
(* setNestedSegs.  Objects and arrays that are missing or null on the way   *)
(* are made; anything else in the way is a conflict.                       *)

Blank(doc) == doc.kind \in {"absent", "null"}

ObjectAt(node, seg) == IF Child(node, seg).kind = "object" THEN Child(node, seg) ELSE Object(<< >>)

\* The objects that the segments of a path are looked up in: segment k in the one of k - 1.
Along(doc, path) ==
    LET node[k \in 0 .. Len(path)] == IF k = 0 THEN doc ELSE ObjectAt(node[k - 1], path[k])
    IN node

Conflict(doc, path) ==
    \E k \in DOMAIN path :
        LET node == Along(doc, path)[k - 1]
            slot == Child(node, Field(path[k].key))
        IN \/ path[k].index # NoIndex /\ ~Blank(slot) /\ slot.kind # "array"
           \/ k < Len(path) /\ ~Blank(Child(node, path[k])) /\ Child(node, path[k]).kind # "object"

ItemsAt(node, key) == IF Child(node, Field(key)).kind = "array" THEN node.at[key].at ELSE <<>>

\* An array that is too short for its index is filled up with null.
Put(node, seg, doc) ==
    LET items == ItemsAt(node, seg.key)
        longer == [i \in DOMAIN items \cup 1 .. seg.index + 1 |->
                      IF i = seg.index + 1 THEN doc ELSE IF i \in DOMAIN items THEN items[i] ELSE Null]
        value == IF seg.index = NoIndex THEN doc ELSE Array(longer)
    IN Object([key \in DOMAIN node.at \cup {seg.key} |-> IF key = seg.key THEN value ELSE node.at[key]])

\* The objects of a path made anew around the value, from the last to the first.
Made(doc, path, value) ==
    LET made[j \in 0 .. Len(path)] ==
            IF j = 0 THEN value
            ELSE Put(Along(doc, path)[Len(path) - j], path[Len(path) - j + 1], made[j - 1])
    IN made

SetNested(doc, path, value) == Made(doc, path, value)[Len(path)]

\* Paths of which one reaches into what the other sets.
Overlap(p, q) ==
    \A k \in 1 .. (IF Len(p) < Len(q) THEN Len(p) ELSE Len(q)) :
        p[k].key = q[k].key /\ (p[k].index = q[k].index \/ NoIndex \in {p[k].index, q[k].index})
=============================================================================

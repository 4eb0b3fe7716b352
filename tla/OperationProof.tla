--------------------------- MODULE OperationProof ---------------------------
(***************************************************************************)
(* Proofs about OperationRun for any commands, any events of streamed      *)
(* responses, any number of items and any limits on pages, events, time    *)
(* and waits: first what its documents, bodies and streams are made of,    *)
(* then the inductive invariant, then the theorems.                        *)
(***************************************************************************)
EXTENDS OperationRun, FiniteSetTheorems, SequenceTheorems, NaturalsInduction, WellFoundedInduction, TLAPS

LEMMA Least ==
    ASSUME NEW T, T \subseteq Nat, T # {}
    PROVE  \E x \in T : \A y \in T : x <= y
<1> DEFINE R == OpToRel(<, Nat)
<1>1. IsWellFoundedOn(R, Nat)
  BY NatLessThanWellFounded
<1>2. \E x \in T : \A y \in T : ~ (<<y, x>> \in R)
  BY <1>1, WFMin
<1>3. PICK x \in T : \A y \in T : ~ (<<y, x>> \in R)
  BY <1>2
<1>4. ASSUME NEW y \in T PROVE x <= y
  <2>1. ~ (<<y, x>> \in R)
    BY <1>3
  <2>2. ~ (y < x)
    BY <2>1 DEF OpToRel
  <2> QED
    BY <2>2
<1> QED
  BY <1>4

\* What holds at 0 and goes on from each position to the next holds up to n.
LEMMA Climb ==
    ASSUME NEW n \in Nat, NEW S, 0 \in S, \A k \in 0 .. n : (k < n /\ k \in S) => k + 1 \in S
    PROVE  \A k \in 0 .. n : k \in S
<1> DEFINE T == {k \in 0 .. n : k \notin S}
<1> SUFFICES ASSUME T # {} PROVE FALSE
  OBVIOUS
<1>0. T \subseteq Nat
  OBVIOUS
<1>1. PICK x \in T : \A y \in T : x <= y
  <2> HIDE DEF T
  <2> QED
    BY <1>0, Least
<1>2. x # 0 /\ x - 1 \in 0 .. n /\ x - 1 \notin T
  BY <1>1
<1>3. x - 1 + 1 \in S
  BY <1>2, <1>1
<1> QED
  BY <1>3, <1>1

LEMMA FoundIs ==
    ASSUME NEW doc, NEW path, Len(path) \in Nat
    PROVE  /\ Found(doc, path)[0] = doc
           /\ \A k \in 1 .. Len(path) : Found(doc, path)[k] = Child(Found(doc, path)[k - 1], path[k])
<1> DEFINE n == Len(path)
           Stage(f, k) == IF k = 0 THEN doc ELSE Child(f[k - 1], path[k])
           S == {m \in 0 .. n : \E f : f = [k \in 0 .. m |-> Stage(f, k)]}
<1>1. 0 \in S
  <2> DEFINE g == [k \in 0 .. 0 |-> doc]
  <2>1. g = [k \in 0 .. 0 |-> Stage(g, k)]
    OBVIOUS
  <2>2. \E f : f = [k \in 0 .. 0 |-> Stage(f, k)]
    <3> HIDE DEF g, Stage
    <3> QED
      BY <2>1
  <2> QED
    BY <2>2
<1>2. ASSUME NEW m \in 0 .. n, m < n, m \in S PROVE m + 1 \in S
  <2>1. PICK f : f = [k \in 0 .. m |-> Stage(f, k)]
    BY <1>2
  <2> DEFINE g == [k \in 0 .. m + 1 |-> IF k = m + 1 THEN Child(f[m], path[m + 1]) ELSE f[k]]
  <2>2. ASSUME NEW k \in 0 .. m + 1 PROVE g[k] = Stage(g, k)
    <3>1. CASE k = m + 1
      BY <3>1
    <3>2. CASE k \in 0 .. m
      BY <3>2, <2>1
    <3> QED
      BY <3>1, <3>2
  <2>3. g = [k \in 0 .. m + 1 |-> Stage(g, k)]
    BY <2>2
  <2>4. \E h : h = [k \in 0 .. m + 1 |-> Stage(h, k)]
    <3> HIDE DEF g, Stage
    <3> QED
      BY <2>3
  <2>5. m + 1 \in 0 .. n
    BY <1>2
  <2> HIDE DEF g, Stage, n
  <2> QED
    BY <2>4, <2>5
<1>3. n \in S
  <2>1. n \in Nat /\ n \in 0 .. n
    OBVIOUS
  <2>2. \A k \in 0 .. n : (k < n /\ k \in S) => k + 1 \in S
    BY <1>2
  <2> HIDE DEF S, n
  <2> QED
    BY <1>1, <2>1, <2>2, Climb
<1>4. PICK f : f = [k \in 0 .. n |-> Stage(f, k)]
  BY <1>3
<1>5. Found(doc, path) = [k \in 0 .. n |-> Stage(Found(doc, path), k)]
  BY <1>4 DEF Found
<1> QED
  BY <1>5

LEMMA AlongIs ==
    ASSUME NEW doc, NEW path, Len(path) \in Nat
    PROVE  /\ Along(doc, path)[0] = doc
           /\ \A k \in 1 .. Len(path) : Along(doc, path)[k] = ObjectAt(Along(doc, path)[k - 1], path[k])
<1> DEFINE n == Len(path)
           Stage(f, k) == IF k = 0 THEN doc ELSE ObjectAt(f[k - 1], path[k])
           S == {m \in 0 .. n : \E f : f = [k \in 0 .. m |-> Stage(f, k)]}
<1>1. 0 \in S
  <2> DEFINE g == [k \in 0 .. 0 |-> doc]
  <2>1. g = [k \in 0 .. 0 |-> Stage(g, k)]
    OBVIOUS
  <2>2. \E f : f = [k \in 0 .. 0 |-> Stage(f, k)]
    <3> HIDE DEF g, Stage
    <3> QED
      BY <2>1
  <2> QED
    BY <2>2
<1>2. ASSUME NEW m \in 0 .. n, m < n, m \in S PROVE m + 1 \in S
  <2>1. PICK f : f = [k \in 0 .. m |-> Stage(f, k)]
    BY <1>2
  <2> DEFINE g == [k \in 0 .. m + 1 |-> IF k = m + 1 THEN ObjectAt(f[m], path[m + 1]) ELSE f[k]]
  <2>2. ASSUME NEW k \in 0 .. m + 1 PROVE g[k] = Stage(g, k)
    <3>1. CASE k = m + 1
      BY <3>1
    <3>2. CASE k \in 0 .. m
      BY <3>2, <2>1
    <3> QED
      BY <3>1, <3>2
  <2>3. g = [k \in 0 .. m + 1 |-> Stage(g, k)]
    BY <2>2
  <2>4. \E h : h = [k \in 0 .. m + 1 |-> Stage(h, k)]
    <3> HIDE DEF g, Stage
    <3> QED
      BY <2>3
  <2>5. m + 1 \in 0 .. n
    BY <1>2
  <2> HIDE DEF g, Stage, n
  <2> QED
    BY <2>4, <2>5
<1>3. n \in S
  <2>1. n \in Nat /\ n \in 0 .. n
    OBVIOUS
  <2>2. \A k \in 0 .. n : (k < n /\ k \in S) => k + 1 \in S
    BY <1>2
  <2> HIDE DEF S, n
  <2> QED
    BY <1>1, <2>1, <2>2, Climb
<1>4. PICK f : f = [k \in 0 .. n |-> Stage(f, k)]
  BY <1>3
<1>5. Along(doc, path) = [k \in 0 .. n |-> Stage(Along(doc, path), k)]
  BY <1>4 DEF Along
<1> QED
  BY <1>5

LEMMA MadeIs ==
    ASSUME NEW doc, NEW path, NEW value, Len(path) \in Nat
    PROVE  /\ Made(doc, path, value)[0] = value
           /\ \A j \in 1 .. Len(path) : Made(doc, path, value)[j] =
                Put(Along(doc, path)[Len(path) - j], path[Len(path) - j + 1], Made(doc, path, value)[j - 1])
<1> DEFINE n == Len(path)
           Stage(f, k) == IF k = 0 THEN value ELSE Put(Along(doc, path)[n - k], path[n - k + 1], f[k - 1])
           S == {m \in 0 .. n : \E f : f = [k \in 0 .. m |-> Stage(f, k)]}
<1>1. 0 \in S
  <2> DEFINE g == [k \in 0 .. 0 |-> value]
  <2>1. g = [k \in 0 .. 0 |-> Stage(g, k)]
    OBVIOUS
  <2>2. \E f : f = [k \in 0 .. 0 |-> Stage(f, k)]
    <3> HIDE DEF g, Stage
    <3> QED
      BY <2>1
  <2> QED
    BY <2>2
<1>2. ASSUME NEW m \in 0 .. n, m < n, m \in S PROVE m + 1 \in S
  <2>1. PICK f : f = [k \in 0 .. m |-> Stage(f, k)]
    BY <1>2
  <2> DEFINE g == [k \in 0 .. m + 1 |->
                     IF k = m + 1 THEN Put(Along(doc, path)[n - k], path[n - k + 1], f[m]) ELSE f[k]]
  <2>2. ASSUME NEW k \in 0 .. m + 1 PROVE g[k] = Stage(g, k)
    <3>1. CASE k = m + 1
      BY <3>1
    <3>2. CASE k \in 0 .. m
      BY <3>2, <2>1
    <3> QED
      BY <3>1, <3>2
  <2>3. g = [k \in 0 .. m + 1 |-> Stage(g, k)]
    BY <2>2
  <2>4. \E h : h = [k \in 0 .. m + 1 |-> Stage(h, k)]
    <3> HIDE DEF g, Stage
    <3> QED
      BY <2>3
  <2>5. m + 1 \in 0 .. n
    BY <1>2
  <2> HIDE DEF g, Stage, n
  <2> QED
    BY <2>4, <2>5
<1>3. n \in S
  <2>1. n \in Nat /\ n \in 0 .. n
    OBVIOUS
  <2>2. \A k \in 0 .. n : (k < n /\ k \in S) => k + 1 \in S
    BY <1>2
  <2> HIDE DEF S, n
  <2> QED
    BY <1>1, <2>1, <2>2, Climb
<1>4. PICK f : f = [k \in 0 .. n |-> Stage(f, k)]
  BY <1>3
<1>5. Made(doc, path, value) = [k \in 0 .. n |-> Stage(Made(doc, path, value), k)]
  BY <1>4 DEF Made
<1> QED
  BY <1>5

-----------------------------------------------------------------------------
(* One segment *)

IsSegment(seg) == seg.index \in Nat \cup {NoIndex}

LEMMA SegmentsOf ==
    ASSUME NEW p \in Paths
    PROVE  Len(p) \in Nat /\ DOMAIN p = 1 .. Len(p) /\ \A k \in 1 .. Len(p) : IsSegment(p[k])
<1>1. Len(p) \in Nat /\ DOMAIN p = 1 .. Len(p)
  BY DEF Paths
<1>2. ASSUME NEW k \in 1 .. Len(p) PROVE IsSegment(p[k])
  <2> DEFINE T == [key : STRING, index : Nat \cup {NoIndex}]
  <2>0. p \in Seq(T)
    BY DEF Paths
  <2>1. p[k] \in T
    <3> HIDE DEF T
    <3> QED
      BY <2>0
  <2> QED
    BY <2>1 DEF IsSegment
<1> QED
  BY <1>1, <1>2

LEMMA SegmentShape ==
    ASSUME NEW p \in Paths, NEW k \in 1 .. Len(p)
    PROVE  p[k] = [key |-> p[k].key, index |-> p[k].index]
<1> DEFINE T == [key : STRING, index : Nat \cup {NoIndex}]
<1>1. p \in Seq(T)
  BY DEF Paths
<1>2. p[k] \in T
  <2> HIDE DEF T
  <2> QED
    BY <1>1
<1> QED
  BY <1>2

LEMMA AbsentKind == Absent.kind # "object" /\ Null.kind # "object"
BY DEF Absent, Null

LEMMA ChildOfNone ==
    ASSUME NEW node, NEW seg, node.kind # "object" \/ node = Object(<< >>)
    PROVE  Child(node, seg) = Absent
BY DEF Child, Object

LEMMA PutIsObject ==
    ASSUME NEW node, NEW seg, NEW doc
    PROVE  Put(node, seg, doc).kind = "object"
BY DEF Put, Object

LEMMA SlotOf ==
    ASSUME NEW node, NEW seg, NEW doc, node.kind = "object"
    PROVE  /\ Put(node, seg, doc).kind = "object"
           /\ DOMAIN Put(node, seg, doc).at = DOMAIN node.at \cup {seg.key}
           /\ seg.index = NoIndex => Put(node, seg, doc).at[seg.key] = doc
           /\ seg.index # NoIndex => Put(node, seg, doc).at[seg.key].kind = "array"
           /\ \A key \in DOMAIN node.at \ {seg.key} : Put(node, seg, doc).at[key] = node.at[key]
BY DEF Put, Object, Array

LEMMA ItemsOf ==
    \A node, seg, doc : \A n \in Nat :
      node.kind = "object" /\ seg.index = n =>
        /\ DOMAIN Put(node, seg, doc).at[seg.key].at = DOMAIN ItemsAt(node, seg.key) \cup 1 .. n + 1
        /\ Put(node, seg, doc).at[seg.key].at[n + 1] = doc
        /\ \A i \in 1 .. n + 1 : i # n + 1 /\ i \notin DOMAIN ItemsAt(node, seg.key) =>
             Put(node, seg, doc).at[seg.key].at[i] = Null
        /\ \A i \in DOMAIN ItemsAt(node, seg.key) : i # n + 1 =>
             Put(node, seg, doc).at[seg.key].at[i] = ItemsAt(node, seg.key)[i]
<1> TAKE node, seg, doc
<1> TAKE n \in Nat
<1> HAVE node.kind = "object" /\ seg.index = n
<1> DEFINE old == ItemsAt(node, seg.key)
           new == Put(node, seg, doc).at[seg.key].at
<1>1. seg.index # NoIndex
  BY DEF NoIndex
<1>2. new = [i \in DOMAIN old \cup 1 .. n + 1 |->
               IF i = n + 1 THEN doc ELSE IF i \in DOMAIN old THEN old[i] ELSE Null]
  BY <1>1 DEF Put, Object, Array
<1> HIDE DEF old, new
<1>3. /\ DOMAIN new = DOMAIN old \cup 1 .. n + 1
      /\ new[n + 1] = doc
      /\ \A i \in 1 .. n + 1 : i # n + 1 /\ i \notin DOMAIN old => new[i] = Null
      /\ \A i \in DOMAIN old : i # n + 1 => new[i] = old[i]
  BY <1>2
<1> QED
  BY <1>3 DEF old, new

LEMMA PutThere ==
    ASSUME NEW node, NEW seg, NEW doc, node.kind = "object", IsSegment(seg)
    PROVE  Child(Put(node, seg, doc), seg) = doc
<1>1. CASE seg.index = NoIndex
  BY <1>1, SlotOf DEF Child
<1>2. CASE seg.index \in Nat
  <2>1. seg.index # NoIndex
    BY <1>2 DEF NoIndex
  <2>2. /\ seg.index + 1 \in DOMAIN Put(node, seg, doc).at[seg.key].at
        /\ Put(node, seg, doc).at[seg.key].at[seg.index + 1] = doc
    <3>1. PICK n \in Nat : seg.index = n
      BY <1>2
    <3>2. n + 1 \in DOMAIN Put(node, seg, doc).at[seg.key].at
      BY <3>1, ItemsOf
    <3>3. Put(node, seg, doc).at[seg.key].at[n + 1] = doc
      BY <3>1, ItemsOf
    <3> QED
      BY <3>1, <3>2, <3>3
  <2> QED
    BY <2>1, <2>2, SlotOf DEF Child
<1> QED
  BY <1>1, <1>2 DEF IsSegment

\* A segment beside the one that is set: another key, or another item of the same array.
Beside(seg, other) ==
    seg.key # other.key \/ (seg.index # other.index /\ NoIndex \notin {seg.index, other.index})

LEMMA PutBeside ==
    ASSUME NEW node, NEW seg, NEW doc, NEW other, node.kind = "object", IsSegment(seg), IsSegment(other),
           Beside(seg, other)
    PROVE  \/ Child(Put(node, seg, doc), other) = Child(node, other)
           \/ /\ Child(node, other) = Absent /\ Child(Put(node, seg, doc), other) = Null
              /\ other.index # NoIndex
<1>1. CASE seg.key # other.key
  <2>1. CASE other.key \in DOMAIN node.at
    BY <1>1, <2>1, SlotOf DEF Child
  <2>2. CASE other.key \notin DOMAIN node.at
    BY <1>1, <2>2, SlotOf DEF Child
  <2> QED
    BY <2>1, <2>2
<1>2. CASE seg.key = other.key /\ seg.index # other.index /\ NoIndex \notin {seg.index, other.index}
  <2>1. seg.index \in Nat /\ other.index \in Nat /\ seg.index # NoIndex /\ other.index # NoIndex
    BY <1>2 DEF IsSegment
  <2> DEFINE items == ItemsAt(node, seg.key)
             new == Put(node, seg, doc)
  <2>2. PICK m \in Nat, n \in Nat : seg.index = m /\ other.index = n /\ m # n
    BY <1>2, <2>1
  <2>3. /\ DOMAIN new.at[seg.key].at = DOMAIN items \cup 1 .. m + 1
        /\ \A i \in 1 .. m + 1 : i # m + 1 /\ i \notin DOMAIN items => new.at[seg.key].at[i] = Null
        /\ \A i \in DOMAIN items : i # m + 1 => new.at[seg.key].at[i] = items[i]
    BY <2>2, ItemsOf
  <2>4. Child(new, other) = IF n + 1 \in DOMAIN new.at[seg.key].at
                            THEN new.at[seg.key].at[n + 1] ELSE Absent
    BY <1>2, <2>1, <2>2, SlotOf DEF Child
  <2>5. Child(node, other) = IF n + 1 \in DOMAIN items THEN items[n + 1] ELSE Absent
    <3>1. CASE seg.key \notin DOMAIN node.at
      <4>1. items = <<>>
        BY <3>1 DEF ItemsAt, Child, Field, Absent
      <4> QED
        BY <3>1, <4>1, <1>2 DEF Child
    <3>2. CASE seg.key \in DOMAIN node.at /\ node.at[seg.key].kind = "array"
      BY <3>2, <1>2, <2>2 DEF Child, Field, ItemsAt, NoIndex
    <3>3. CASE seg.key \in DOMAIN node.at /\ node.at[seg.key].kind # "array"
      <4>1. items = <<>>
        BY <3>3 DEF ItemsAt, Child, Field, NoIndex
      <4>2. Child(node, other) = Absent
        BY <3>3, <2>1, <1>2 DEF Child
      <4> QED
        BY <4>1, <4>2
    <3> QED
      BY <3>1, <3>2, <3>3
  <2>6. n + 1 # m + 1 /\ n + 1 \in Nat \ {0}
    BY <2>2
  <2>7. \/ Child(new, other) = Child(node, other)
        \/ Child(node, other) = Absent /\ Child(new, other) = Null
    <3> HIDE DEF items, new
    <3>1. CASE n + 1 \in DOMAIN items
      BY <3>1, <2>3, <2>4, <2>5, <2>6
    <3>2. CASE n + 1 \notin DOMAIN items
      BY <3>2, <2>3, <2>4, <2>5, <2>6
    <3> QED
      BY <3>1, <3>2
  <2> QED
    BY <2>1, <2>7
<1> QED
  BY <1>1, <1>2 DEF Beside

-----------------------------------------------------------------------------
(* Paths *)

\* What is at depth k of a document in which a path was set.
Layer(doc, path, value, k) == Made(doc, path, value)[Len(path) - k]

LEMMA LayerEnds ==
    ASSUME NEW doc, NEW p \in Paths, NEW value
    PROVE  /\ Layer(doc, p, value, Len(p)) = value
           /\ Layer(doc, p, value, 0) = SetNested(doc, p, value)
<1>1. Len(p) \in Nat
  BY SegmentsOf
<1>2. Layer(doc, p, value, Len(p)) = value
  BY <1>1, MadeIs DEF Layer
<1>3. Layer(doc, p, value, 0) = SetNested(doc, p, value)
  BY <1>1 DEF Layer, SetNested
<1> QED
  BY <1>2, <1>3

LEMMA AlongKind ==
    ASSUME NEW doc, NEW p \in Paths, doc.kind = "object", NEW k \in 0 .. Len(p)
    PROVE  Along(doc, p)[k].kind = "object"
<1>1. Len(p) \in Nat
  BY SegmentsOf
<1>2. CASE k = 0
  BY <1>2, <1>1, AlongIs
<1>3. CASE k \in 1 .. Len(p)
  BY <1>3, <1>1, AlongIs DEF ObjectAt, Object
<1> QED
  BY <1>2, <1>3

LEMMA Layers ==
    ASSUME NEW doc, NEW p \in Paths, NEW value, doc.kind = "object"
    PROVE  \A k \in 0 .. Len(p) - 1 :
             /\ Layer(doc, p, value, k) = Put(Along(doc, p)[k], p[k + 1], Layer(doc, p, value, k + 1))
             /\ Layer(doc, p, value, k).kind = "object"
<1> DEFINE n == Len(p)
<1>1. n \in Nat
  BY SegmentsOf
<1>5. ASSUME NEW k \in 0 .. n - 1
      PROVE  Layer(doc, p, value, k) = Put(Along(doc, p)[k], p[k + 1], Layer(doc, p, value, k + 1))
  <2>1. n - k \in 1 .. n /\ n - (n - k) = k /\ n - k - 1 = n - (k + 1)
    BY <1>1
  <2> QED
    BY <2>1, <1>1, MadeIs DEF Layer
<1>6. ASSUME NEW k \in 0 .. n - 1 PROVE Layer(doc, p, value, k).kind = "object"
  BY <1>5, PutIsObject
<1> QED
  BY <1>5, <1>6

\* Where two paths agree, reading the one follows the objects made for the other.
LEMMA AgreesBefore ==
    ASSUME NEW doc, NEW p \in Paths, NEW q \in Paths,
           NEW e \in Nat, e <= Len(p), e <= Len(q), \A k \in 1 .. e : p[k] = q[k]
    PROVE  \/ Found(doc, q)[e] = Along(doc, p)[e]
           \/ Found(doc, q)[e].kind # "object" /\ Along(doc, p)[e] = Object(<< >>)
<1> DEFINE A(k) == Along(doc, p)[k]
           Good(k) == \/ Found(doc, q)[k] = A(k)
                      \/ Found(doc, q)[k].kind # "object" /\ A(k) = Object(<< >>)
           S == {k \in 0 .. e : Good(k)}
<1>1. Len(p) \in Nat /\ Len(q) \in Nat
  BY SegmentsOf
<1>2. Good(0)
  BY <1>1, FoundIs, AlongIs
<1>3. ASSUME NEW k \in 0 .. e, k < e, Good(k) PROVE Good(k + 1)
  <2>1. k + 1 \in 1 .. e /\ k + 1 \in 1 .. Len(q) /\ k + 1 \in 1 .. Len(p) /\ k + 1 - 1 = k
    BY <1>1, <1>3
  <2>2. Found(doc, q)[k + 1] = Child(Found(doc, q)[k], p[k + 1])
    BY <1>1, <2>1, FoundIs
  <2>3. A(k + 1) = ObjectAt(A(k), p[k + 1])
    BY <2>1, <1>1, AlongIs
  <2>4. Child(Found(doc, q)[k], p[k + 1]) = Child(A(k), p[k + 1])
    BY <1>3, ChildOfNone
  <2> QED
    BY <2>2, <2>3, <2>4 DEF ObjectAt
<1>4. e \in S
  <2>1. 0 \in S
    BY <1>2
  <2>2. \A k \in 0 .. e : (k < e /\ k \in S) => k + 1 \in S
    BY <1>3
  <2>3. e \in 0 .. e
    OBVIOUS
  <2> HIDE DEF S
  <2> QED
    BY <2>1, <2>2, <2>3, Climb
<1> QED
  BY <1>4

LEMMA AgreesAfter ==
    ASSUME NEW doc, NEW p \in Paths, NEW q \in Paths, NEW value, doc.kind = "object",
           NEW e \in Nat, e <= Len(p), e <= Len(q), \A k \in 1 .. e : p[k] = q[k]
    PROVE  Found(SetNested(doc, p, value), q)[e] = Layer(doc, p, value, e)
<1> DEFINE new == SetNested(doc, p, value)
           L(k) == Layer(doc, p, value, k)
           A(k) == Along(doc, p)[k]
           S == {k \in 0 .. e : Found(new, q)[k] = L(k)}
<1>1. Len(p) \in Nat /\ Len(q) \in Nat /\ \A k \in 1 .. Len(p) : IsSegment(p[k])
  BY SegmentsOf
<1>2. Found(new, q)[0] = L(0)
  BY <1>1, FoundIs, LayerEnds
<1>3. ASSUME NEW k \in 0 .. e, k < e, Found(new, q)[k] = L(k) PROVE Found(new, q)[k + 1] = L(k + 1)
  <2>1. k + 1 \in 1 .. e /\ k + 1 \in 1 .. Len(q) /\ k + 1 \in 1 .. Len(p) /\ k \in 0 .. Len(p) - 1 /\ k + 1 - 1 = k
    BY <1>1, <1>3
  <2>2. p[k + 1] = q[k + 1] /\ IsSegment(p[k + 1])
    BY <1>1, <2>1
  <2>3. Found(new, q)[k + 1] = Child(Found(new, q)[k], p[k + 1])
    BY <1>1, <2>1, <2>2, FoundIs
  <2>4. A(k).kind = "object"
    BY <2>1, <1>1, AlongKind
  <2>5. L(k) = Put(A(k), p[k + 1], L(k + 1))
    BY <2>1, Layers
  <2> QED
    BY <2>2, <2>3, <2>4, <2>5, <1>3, PutThere
<1>4. e \in S
  <2>1. 0 \in S
    BY <1>2
  <2>2. \A k \in 0 .. e : (k < e /\ k \in S) => k + 1 \in S
    BY <1>3
  <2>3. e \in 0 .. e
    OBVIOUS
  <2> HIDE DEF S
  <2> QED
    BY <2>1, <2>2, <2>3, Climb
<1> QED
  BY <1>4

LEMMA AgreesTo ==
    ASSUME NEW doc, NEW p \in Paths, NEW q \in Paths, NEW value, doc.kind = "object",
           NEW e \in Nat, e < Len(p), e < Len(q), \A k \in 1 .. e : p[k] = q[k]
    PROVE  /\ Along(doc, p)[e].kind = "object"
           /\ Found(SetNested(doc, p, value), q)[e + 1] =
                Child(Put(Along(doc, p)[e], p[e + 1], Layer(doc, p, value, e + 1)), q[e + 1])
           /\ Found(doc, q)[e + 1] = Child(Along(doc, p)[e], q[e + 1])
<1>1. Len(p) \in Nat /\ Len(q) \in Nat
  BY SegmentsOf
<1>2. e \in 0 .. e /\ e <= Len(p) /\ e <= Len(q) /\ e \in 0 .. Len(p) - 1 /\ e + 1 \in 1 .. Len(q) /\ e + 1 - 1 = e
  BY <1>1
<1>3. /\ Found(SetNested(doc, p, value), q)[e] = Layer(doc, p, value, e)
      /\ \/ Found(doc, q)[e] = Along(doc, p)[e]
         \/ Found(doc, q)[e].kind # "object" /\ Along(doc, p)[e] = Object(<< >>)
  BY <1>2, AgreesBefore, AgreesAfter
<1>4. Along(doc, p)[e].kind = "object"
  BY <1>1, <1>2, AlongKind
<1>5. Layer(doc, p, value, e) = Put(Along(doc, p)[e], p[e + 1], Layer(doc, p, value, e + 1))
  BY <1>2, Layers
<1>6. Found(SetNested(doc, p, value), q)[e + 1] = Child(Found(SetNested(doc, p, value), q)[e], q[e + 1])
  BY <1>1, <1>2, FoundIs
<1>7. Found(doc, q)[e + 1] = Child(Found(doc, q)[e], q[e + 1])
  BY <1>1, <1>2, FoundIs
<1>8. Child(Found(doc, q)[e], q[e + 1]) = Child(Along(doc, p)[e], q[e + 1])
  BY <1>2, <1>3, ChildOfNone
<1> QED
  BY <1>2, <1>3, <1>4, <1>5, <1>6, <1>7, <1>8

\* What is set is there.
LEMMA SetThenGet ==
    ASSUME NEW doc, NEW p \in Paths, NEW value, doc.kind = "object"
    PROVE  GetNested(SetNested(doc, p, value), p) = value
<1>1. Len(p) \in Nat /\ Len(p) \in 0 .. Len(p)
  BY SegmentsOf
<1>2. Found(SetNested(doc, p, value), p)[Len(p)] = Layer(doc, p, value, Len(p))
  BY <1>1, AgreesAfter
<1>3. Layer(doc, p, value, Len(p)) = value
  BY LayerEnds
<1> QED
  BY <1>1, <1>2, <1>3 DEF GetNested

LEMMA SetIsObject ==
    ASSUME NEW doc, NEW p \in Paths, NEW value, doc.kind = "object", p # <<>>
    PROVE  SetNested(doc, p, value).kind = "object"
<1>1. 0 \in 0 .. Len(p) - 1
  BY DEF Paths
<1> QED
  BY <1>1, Layers, LayerEnds

\* From a place on, reading depends only on what is there; below what is no object there
\* is nothing.
LEMMA SameBelow ==
    ASSUME NEW doc, NEW other, NEW q \in Paths, NEW d \in Nat, d <= Len(q),
           Found(doc, q)[d] = Found(other, q)[d]
    PROVE  GetNested(doc, q) = GetNested(other, q)
<1> DEFINE n == Len(q) - d
           S == {k \in 0 .. n : Found(doc, q)[d + k] = Found(other, q)[d + k]}
<1>1. Len(q) \in Nat /\ n \in Nat
  BY SegmentsOf
<1>2. 0 \in S
  BY <1>1
<1>3. ASSUME NEW k \in 0 .. n, k < n, k \in S PROVE k + 1 \in S
  <2>1. d + (k + 1) \in 1 .. Len(q) /\ d + (k + 1) - 1 = d + k
    BY <1>1, <1>3
  <2>2. Found(doc, q)[d + (k + 1)] = Child(Found(doc, q)[d + k], q[d + (k + 1)])
    BY <1>1, <2>1, FoundIs
  <2>3. Found(other, q)[d + (k + 1)] = Child(Found(other, q)[d + k], q[d + (k + 1)])
    BY <1>1, <2>1, FoundIs
  <2> QED
    BY <2>2, <2>3, <1>3, <1>1
<1>4. n \in S
  <2>1. \A k \in 0 .. n : (k < n /\ k \in S) => k + 1 \in S
    BY <1>3
  <2>2. n \in 0 .. n
    BY <1>1
  <2> HIDE DEF S, n
  <2> QED
    BY <1>1, <1>2, <2>1, <2>2, Climb
<1>5. d + n = Len(q)
  BY <1>1
<1> QED
  BY <1>4, <1>5 DEF GetNested

LEMMA NothingBelow ==
    ASSUME NEW doc, NEW q \in Paths, NEW d \in Nat, d < Len(q), Found(doc, q)[d].kind # "object"
    PROVE  GetNested(doc, q) = Absent
<1> DEFINE n == Len(q) - (d + 1)
           S == {k \in 0 .. n : Found(doc, q)[d + 1 + k] = Absent}
<1>1. Len(q) \in Nat /\ n \in Nat
  BY SegmentsOf
<1>2. 0 \in S
  <2>1. d + 1 + 0 \in 1 .. Len(q) /\ d + 1 + 0 - 1 = d
    BY <1>1
  <2> QED
    BY <2>1, <1>1, FoundIs, ChildOfNone
<1>3. ASSUME NEW k \in 0 .. n, k < n, k \in S PROVE k + 1 \in S
  <2>1. d + 1 + (k + 1) \in 1 .. Len(q) /\ d + 1 + (k + 1) - 1 = d + 1 + k
    BY <1>1, <1>3
  <2>2. Found(doc, q)[d + 1 + (k + 1)] = Child(Found(doc, q)[d + 1 + k], q[d + 1 + (k + 1)])
    BY <1>1, <2>1, FoundIs
  <2> QED
    BY <2>2, <1>3, <1>1, AbsentKind, ChildOfNone
<1>4. n \in S
  <2>1. \A k \in 0 .. n : (k < n /\ k \in S) => k + 1 \in S
    BY <1>3
  <2>2. n \in 0 .. n
    BY <1>1
  <2> HIDE DEF S, n
  <2> QED
    BY <1>1, <1>2, <2>1, <2>2, Climb
<1>5. d + 1 + n = Len(q)
  BY <1>1
<1> QED
  BY <1>4, <1>5 DEF GetNested

LEMMA LeastSplit ==
    ASSUME NEW p \in Paths, NEW q \in Paths, ~Overlap(p, q)
    PROVE  \E d \in 1 .. Len(p) \cap 1 .. Len(q) :
             /\ Beside(p[d], q[d])
             /\ \A k \in 1 .. d - 1 : ~Beside(p[k], q[k])
<1> DEFINE T == {k \in 1 .. Len(p) \cap 1 .. Len(q) : Beside(p[k], q[k])}
<1>1. Len(p) \in Nat /\ Len(q) \in Nat
  BY SegmentsOf
<1>2. T # {} /\ T \subseteq Nat
  BY <1>1 DEF Overlap, Beside
<1>3. PICK d \in T : \A k \in T : d <= k
  <2> HIDE DEF T
  <2> QED
    BY <1>2, Least
<1>4. d \in 1 .. Len(p) \cap 1 .. Len(q) /\ Beside(p[d], q[d])
  OBVIOUS
<1>5. ASSUME NEW k \in 1 .. d - 1 PROVE ~Beside(p[k], q[k])
  <2>1. k \in 1 .. Len(p) \cap 1 .. Len(q) /\ ~(d <= k)
    BY <1>1, <1>4
  <2> QED
    BY <2>1, <1>3
<1> QED
  BY <1>4, <1>5

LEMMA LeastMixed ==
    ASSUME NEW p \in Paths, NEW q \in Paths, NEW e \in Nat, e <= Len(p), e <= Len(q),
           \A k \in 1 .. e : ~Beside(p[k], q[k]), ~(\A k \in 1 .. e : p[k] = q[k])
    PROVE  \E m \in 1 .. e :
             /\ \A k \in 1 .. m - 1 : p[k] = q[k]
             /\ p[m].key = q[m].key
             /\ \/ p[m].index = NoIndex /\ q[m].index # NoIndex
                \/ p[m].index # NoIndex /\ q[m].index = NoIndex
<1> DEFINE T == {k \in 1 .. e : p[k] # q[k]}
<1>1. Len(p) \in Nat /\ Len(q) \in Nat
  BY SegmentsOf
<1>2. T # {} /\ T \subseteq Nat
  OBVIOUS
<1>3. PICK m \in T : \A k \in T : m <= k
  <2> HIDE DEF T
  <2> QED
    BY <1>2, Least
<1>4. m \in 1 .. e /\ p[m] # q[m] /\ m \in 1 .. Len(p) /\ m \in 1 .. Len(q)
  BY <1>1
<1>5. ASSUME NEW k \in 1 .. m - 1 PROVE p[k] = q[k]
  <2>1. k \in 1 .. e /\ ~(m <= k)
    BY <1>1, <1>4
  <2> QED
    BY <2>1, <1>3
<1>6. p[m].key = q[m].key /\ (p[m].index = q[m].index \/ NoIndex \in {p[m].index, q[m].index})
  BY <1>4 DEF Beside
<1>7. p[m].index # q[m].index
  <2>1. p[m] = [key |-> p[m].key, index |-> p[m].index]
    BY <1>4, SegmentShape
  <2>2. q[m] = [key |-> q[m].key, index |-> q[m].index]
    BY <1>4, SegmentShape
  <2> QED
    BY <2>1, <2>2, <1>6, <1>4
<1> QED
  BY <1>4, <1>5, <1>6, <1>7

\* Setting a path without a conflict leaves a path that does not overlap with it as it is,
\* except an item that was not there, which may become null.
LEMMA SetKeepsOthers ==
    ASSUME NEW doc, NEW p \in Paths, NEW q \in Paths, NEW value, doc.kind = "object",
           ~Overlap(p, q), ~Conflict(doc, p)
    PROVE  \/ GetNested(SetNested(doc, p, value), q) = GetNested(doc, q)
           \/ GetNested(doc, q) = Absent /\ q[Len(q)].index # NoIndex
<1> DEFINE new == SetNested(doc, p, value)
           L(k) == Layer(doc, p, value, k)
           A(k) == Along(doc, p)[k]
<1>1. Len(p) \in Nat /\ Len(q) \in Nat /\ DOMAIN p = 1 .. Len(p)
  BY SegmentsOf
<1>2. PICK d \in 1 .. Len(p) \cap 1 .. Len(q) :
         Beside(p[d], q[d]) /\ \A k \in 1 .. d - 1 : ~Beside(p[k], q[k])
  BY LeastSplit
<1>3. CASE \A k \in 1 .. d - 1 : p[k] = q[k]
  <2>1. d \in Nat /\ d <= Len(q)
    BY <1>1, <1>2
  <2>2. PICK e \in Nat : d = e + 1 /\ e < Len(p) /\ e < Len(q) /\ \A k \in 1 .. e : p[k] = q[k]
    <3>1. d - 1 \in Nat /\ d = d - 1 + 1 /\ d - 1 < Len(p) /\ d - 1 < Len(q)
      BY <1>1, <1>2
    <3> QED
      BY <3>1, <1>3
  <2>3. A(e).kind = "object"
    BY <2>2, AgreesTo
  <2>5. Found(new, q)[d] = Child(Put(A(e), p[d], L(d)), q[d])
    BY <2>2, AgreesTo
  <2>6. Found(doc, q)[d] = Child(A(e), q[d])
    BY <2>2, AgreesTo
  <2>7. IsSegment(p[d]) /\ IsSegment(q[d])
    BY <1>2, SegmentsOf
  <2>8. \/ Found(new, q)[d] = Found(doc, q)[d]
        \/ Found(doc, q)[d] = Absent /\ Found(new, q)[d] = Null /\ q[d].index # NoIndex
    BY <2>3, <2>5, <2>6, <2>7, <1>2, PutBeside
  <2>9. CASE Found(new, q)[d] = Found(doc, q)[d]
    BY <2>1, <2>9, SameBelow
  <2>10. CASE Found(doc, q)[d] = Absent /\ Found(new, q)[d] = Null /\ q[d].index # NoIndex /\ d < Len(q)
    BY <2>1, <2>10, AbsentKind, NothingBelow
  <2>11. CASE Found(doc, q)[d] = Absent /\ q[d].index # NoIndex /\ ~(d < Len(q))
    <3>1. d = Len(q)
      BY <2>1, <2>11, <1>1
    <3> QED
      BY <3>1, <2>11 DEF GetNested
  <2> QED
    BY <2>8, <2>9, <2>10, <2>11
<1>4. CASE ~(\A k \in 1 .. d - 1 : p[k] = q[k])
  <2>1. d - 1 \in Nat /\ d - 1 <= Len(p) /\ d - 1 <= Len(q)
    BY <1>1, <1>2
  <2>2. PICK m \in 1 .. d - 1 :
          /\ \A k \in 1 .. m - 1 : p[k] = q[k]
          /\ p[m].key = q[m].key
          /\ \/ p[m].index = NoIndex /\ q[m].index # NoIndex
             \/ p[m].index # NoIndex /\ q[m].index = NoIndex
    BY <2>1, <1>2, <1>4, LeastMixed
  <2>3. m \in Nat /\ m < Len(q) /\ m < Len(p) /\ m \in DOMAIN p /\ m \in 0 .. Len(p) - 1
    BY <1>1, <1>2, <2>2
  <2>4. PICK e \in Nat : /\ m = e + 1 /\ e = m - 1 /\ e < Len(p) /\ e < Len(q)
                         /\ \A k \in 1 .. e : p[k] = q[k]
    <3>1. m - 1 \in Nat /\ m = m - 1 + 1 /\ m - 1 < Len(p) /\ m - 1 < Len(q)
      BY <1>1, <1>2, <2>2
    <3> QED
      BY <3>1, <2>2
  <2>5. A(e).kind = "object"
    BY <2>4, AgreesTo
  <2>7. L(m).kind = "object"
    BY <2>3, Layers
  <2>8. Found(new, q)[m] = Child(Put(A(e), p[m], L(m)), q[m])
    BY <2>4, AgreesTo, SMTT(60)
  <2>9. Found(doc, q)[m] = Child(A(e), q[m])
    BY <2>4, AgreesTo
  <2>10. Found(doc, q)[m].kind # "object" /\ Found(new, q)[m].kind # "object"
    <3> DEFINE node == A(e)
               slot == Child(node, Field(p[m].key))
    <3>1. /\ p[m].index # NoIndex => Blank(slot) \/ slot.kind = "array"
          /\ Blank(Child(node, p[m])) \/ Child(node, p[m]).kind = "object"
      BY <2>3, <2>4 DEF Conflict
    <3> HIDE DEF node
    <3>2. CASE p[m].index = NoIndex /\ q[m].index # NoIndex
      <4>1. Child(node, q[m]) = Absent
        BY <3>1, <3>2, <2>2 DEF Child, Blank, Absent
      <4>2. Child(Put(node, p[m], L(m)), q[m]) = Absent
        BY <3>2, <2>2, <2>5, <2>7, SlotOf DEF Child, node
      <4> QED
        BY <4>1, <4>2, <2>8, <2>9, AbsentKind DEF node
    <3>3. CASE p[m].index # NoIndex /\ q[m].index = NoIndex
      <4>1. Child(node, q[m]) = slot /\ slot.kind # "object"
        BY <3>1, <3>3, <2>2 DEF Child, Field, Blank
      <4>2. Child(Put(node, p[m], L(m)), q[m]).kind = "array"
        BY <3>3, <2>2, <2>5, SlotOf DEF Child, node
      <4> QED
        BY <4>1, <4>2, <2>8, <2>9, SMTT(60) DEF node
    <3> QED
      BY <3>2, <3>3, <2>2
  <2> QED
    BY <2>10, <2>3, NothingBelow
<1> QED
  BY <1>3, <1>4

\* What is at a path can be set anew.
LEMMA PresentNoConflict ==
    ASSUME NEW doc, NEW p \in Paths, doc.kind = "object", GetNested(doc, p) # Absent
    PROVE  ~Conflict(doc, p)
<1> SUFFICES ASSUME Conflict(doc, p) PROVE FALSE
  OBVIOUS
<1>1. Len(p) \in Nat /\ DOMAIN p = 1 .. Len(p)
  BY SegmentsOf
<1> DEFINE node(k) == Along(doc, p)[k - 1]
           slot(k) == Child(node(k), Field(p[k].key))
<1>2. PICK k \in 1 .. Len(p) :
        \/ p[k].index # NoIndex /\ ~Blank(slot(k)) /\ slot(k).kind # "array"
        \/ k < Len(p) /\ ~Blank(Child(node(k), p[k])) /\ Child(node(k), p[k]).kind # "object"
  BY <1>1 DEF Conflict
<1>3. k - 1 \in Nat /\ k - 1 <= Len(p) /\ k - 1 \in 0 .. k - 1 /\ k - 1 < Len(p) /\ k \in Nat
  BY <1>1
<1>4. Found(doc, p)[k - 1].kind = "object"
  BY <1>3, NothingBelow
<1>5. Found(doc, p)[k - 1] = node(k)
  <2>1. \/ Found(doc, p)[k - 1] = Along(doc, p)[k - 1]
        \/ Found(doc, p)[k - 1].kind # "object" /\ Along(doc, p)[k - 1] = Object(<< >>)
    BY <1>3, AgreesBefore
  <2> QED
    BY <2>1, <1>4
<1>6. Found(doc, p)[k] = Child(node(k), p[k])
  BY <1>1, <1>5, FoundIs
<1>7. Found(doc, p)[k].kind # "object" /\ (k = Len(p) => Found(doc, p)[k] = Absent)
  <2> HIDE DEF node
  <2>1. CASE p[k].index # NoIndex /\ ~Blank(slot(k)) /\ slot(k).kind # "array"
    <3>1. Child(node(k), p[k]) = Absent
      BY <2>1, <1>2 DEF Child, Field, Blank, Absent
    <3> QED
      BY <3>1, <1>6, AbsentKind, SMTT(60)
  <2>2. CASE k < Len(p) /\ Child(node(k), p[k]).kind # "object"
    <3>1. Found(doc, p)[k].kind # "object"
      BY <2>2, <1>6
    <3>2. k # Len(p)
      <4> DEFINE n == Len(p)
      <4>1. k \in 1 .. n /\ k < n
        BY <2>2
      <4> HIDE DEF n
      <4>2. n \in Nat
        BY <1>1 DEF n
      <4> QED
        BY <4>1, <4>2 DEF n
    <3> QED
      BY <3>1, <3>2
  <2> QED
    BY <2>1, <2>2, <1>2
<1>8. CASE k = Len(p)
  BY <1>7, <1>8 DEF GetNested
<1>9. CASE k < Len(p)
  BY <1>7, <1>9, <1>3, NothingBelow
<1>10. k = Len(p) \/ k < Len(p)
  <2> HIDE DEF node, slot
  <2>1. k \in Int /\ k <= Len(p) /\ Len(p) \in Int
    BY <1>1
  <2> QED
    BY <2>1
<1> QED
  BY <1>8, <1>9, <1>10

IsList(f, n) == n \in Nat /\ f = [i \in 1 .. n |-> f[i]]

LEMMA ListIs ==
    ASSUME NEW n \in Nat, NEW f, f = [i \in 1 .. n |-> f[i]]
    PROVE  f \in Seq({f[i] : i \in 1 .. n}) /\ Len(f) = n /\ DOMAIN f = 1 .. n
<1> DEFINE S == {f[i] : i \in 1 .. n}
<1>1. \A i \in 1 .. n : f[i] \in S
  OBVIOUS
<1> HIDE DEF S
<1>2. f \in Seq(S) /\ Len(f) = n
  BY <1>1
<1> QED
  BY <1>2 DEF S

LEMMA Joined ==
    ASSUME NEW n \in Nat, NEW f, f = [i \in 1 .. n |-> f[i]],
           NEW m \in Nat, NEW g, g = [i \in 1 .. m |-> g[i]]
    PROVE  /\ Len(f \o g) = n + m /\ f \o g = [i \in 1 .. n + m |-> (f \o g)[i]]
           /\ \A i \in 1 .. n : (f \o g)[i] = f[i]
           /\ \A i \in 1 .. m : (f \o g)[n + i] = g[i]
<1> DEFINE S == {f[i] : i \in 1 .. n} \cup {g[i] : i \in 1 .. m}
<1>1. (\A i \in 1 .. n : f[i] \in S) /\ (\A i \in 1 .. m : g[i] \in S)
  OBVIOUS
<1> HIDE DEF S
<1>2. f \in Seq(S) /\ Len(f) = n /\ g \in Seq(S) /\ Len(g) = m
  BY <1>1
<1>3. f \o g \in Seq(S) /\ Len(f \o g) = n + m
  BY <1>2
<1>4. f \o g = [i \in 1 .. n + m |-> (f \o g)[i]]
  BY <1>3
<1>5. \A i \in 1 .. n : (f \o g)[i] = f[i]
  BY <1>2
<1>6. \A i \in 1 .. m : (f \o g)[n + i] = g[i]
  BY <1>2
<1> QED
  BY <1>3, <1>4, <1>5, <1>6

-----------------------------------------------------------------------------
(* Assignments *)

LEMMA AssignedIs ==
    ASSUME NEW flags, NEW prefix, NEW doc, NEW list, Len(list) \in Nat
    PROVE  /\ Assigned(flags, prefix, doc, list)[0] = Body("json", doc)
           /\ \A k \in 1 .. Len(list) :
                Assigned(flags, prefix, doc, list)[k] =
                  Assign(flags, prefix, Assigned(flags, prefix, doc, list)[k - 1], list[k])
<1> DEFINE n == Len(list)
           Stage(f, k) == IF k = 0 THEN Body("json", doc) ELSE Assign(flags, prefix, f[k - 1], list[k])
           S == {m \in 0 .. n : \E f : f = [k \in 0 .. m |-> Stage(f, k)]}
<1>1. 0 \in S
  <2> DEFINE g == [k \in 0 .. 0 |-> Body("json", doc)]
  <2>1. g = [k \in 0 .. 0 |-> Stage(g, k)]
    OBVIOUS
  <2>2. \E f : f = [k \in 0 .. 0 |-> Stage(f, k)]
    <3> HIDE DEF g, Stage
    <3> QED
      BY <2>1
  <2> QED
    BY <2>2
<1>2. ASSUME NEW m \in 0 .. n, m < n, m \in S PROVE m + 1 \in S
  <2>1. PICK f : f = [k \in 0 .. m |-> Stage(f, k)]
    BY <1>2
  <2> DEFINE g == [k \in 0 .. m + 1 |-> IF k = m + 1 THEN Assign(flags, prefix, f[m], list[m + 1]) ELSE f[k]]
  <2>2. ASSUME NEW k \in 0 .. m + 1 PROVE g[k] = Stage(g, k)
    <3>1. CASE k = m + 1
      BY <3>1
    <3>2. CASE k \in 0 .. m
      BY <3>2, <2>1
    <3> QED
      BY <3>1, <3>2
  <2>3. g = [k \in 0 .. m + 1 |-> Stage(g, k)]
    BY <2>2
  <2>4. \E h : h = [k \in 0 .. m + 1 |-> Stage(h, k)]
    <3> HIDE DEF g, Stage
    <3> QED
      BY <2>3
  <2>5. m + 1 \in 0 .. n
    BY <1>2
  <2> HIDE DEF g, Stage, n
  <2> QED
    BY <2>4, <2>5
<1>3. n \in S
  <2>1. n \in Nat /\ n \in 0 .. n
    OBVIOUS
  <2>2. \A k \in 0 .. n : (k < n /\ k \in S) => k + 1 \in S
    BY <1>2
  <2> HIDE DEF S, n
  <2> QED
    BY <1>1, <2>1, <2>2, Climb
<1>4. PICK f : f = [k \in 0 .. n |-> Stage(f, k)]
  BY <1>3
<1>5. Assigned(flags, prefix, doc, list) = [k \in 0 .. n |-> Stage(Assigned(flags, prefix, doc, list), k)]
  BY <1>4 DEF Assigned
<1> QED
  BY <1>5

\* The arguments of an assigned body: every assignment has a path, and the body is an object.
IsAssignments(list) == Len(list) \in Nat /\ \A k \in 1 .. Len(list) : list[k].path \in Paths

LEMMA PathsJoin ==
    ASSUME NEW p \in Paths, NEW q \in Paths
    PROVE  /\ p \o q \in Paths /\ Len(p \o q) = Len(p) + Len(q)
           /\ \A k \in 1 .. Len(p) : (p \o q)[k] = p[k]
           /\ \A k \in 1 .. Len(q) : (p \o q)[Len(p) + k] = q[k]
<1> DEFINE T == [key : STRING, index : Nat \cup {NoIndex}]
<1>1. p \in Seq(T) /\ q \in Seq(T)
  BY DEF Paths
<1>2. p \o q \in Seq(T)
  <2> HIDE DEF T
  <2> QED
    BY <1>1
<1>3. p \o q \in Paths
  BY <1>2 DEF Paths
<1> HIDE DEF T
<1>4. /\ Len(p \o q) = Len(p) + Len(q)
      /\ \A k \in 1 .. Len(p) : (p \o q)[k] = p[k]
      /\ \A k \in 1 .. Len(q) : (p \o q)[Len(p) + k] = q[k]
  BY <1>1
<1> QED
  BY <1>3, <1>4

LEMMA PathLength ==
    ASSUME NEW p \in Paths
    PROVE  Len(p) \in Nat /\ (p # <<>> => Len(p) # 0)
<1> DEFINE T == [key : STRING, index : Nat \cup {NoIndex}]
<1>1. p \in Seq(T)
  BY DEF Paths
<1> HIDE DEF T
<1> QED
  BY <1>1

LEMMA FieldPath ==
    ASSUME NEW name \in STRING
    PROVE  <<Field(name)>> \in Paths /\ Len(<<Field(name)>>) = 1 /\ <<Field(name)>>[1] = Field(name)
<1> DEFINE T == [key : STRING, index : Nat \cup {NoIndex}]
           f == Field(name)
<1>1. f \in T
  BY DEF Field
<1>2. <<f>> \in Seq(T) /\ Len(<<f>>) = 1 /\ <<f>>[1] = f
  <2> HIDE DEF T, f
  <2> QED
    BY <1>1
<1> QED
  BY <1>2 DEF Paths

\* A body under way: an object, or a refusal.
IsUnderWay(body) ==
    \/ body.kind = "json" /\ body.fails = "" /\ body.doc.kind = "object"
    \/ body.kind = "none" /\ body.fails # ""

LEMMA BodyIsUnderWay ==
    ASSUME NEW base, base.kind = "object"
    PROVE  IsUnderWay(Body("json", base)) /\ Body("json", base).doc = base
BY DEF Body, IsUnderWay

LEMMA OneAssignment ==
    ASSUME NEW flags, NEW prefix \in Paths, NEW body, IsUnderWay(body), NEW a, a.path \in Paths
    PROVE  LET after == Assign(flags, prefix, body, a)
           IN /\ IsUnderWay(after)
              /\ after.kind = "json" =>
                   /\ body.kind = "json" /\ a.path # <<>> /\ a.path[1].key \notin flags
                   /\ ~Conflict(body.doc, prefix \o a.path)
                   /\ after.doc = SetNested(body.doc, prefix \o a.path, a.doc)
<1> DEFINE after == Assign(flags, prefix, body, a)
           whole == prefix \o a.path
           new == SetNested(body.doc, whole, a.doc)
<1>0. "not an assignment" # "" /\ "flag and assignment" # "" /\ "conflict" # "" /\ "none" # "json"
  OBVIOUS
<1>1. CASE body.fails # ""
  <2>1. after = body
    BY <1>1 DEF Assign
  <2>2. body.kind = "none"
    BY <1>1 DEF IsUnderWay
  <2> QED
    BY <2>1, <2>2, <1>0
<1>2. CASE body.fails = "" /\ (a.path = <<>> \/ a.path[1].key \in flags \/ Conflict(body.doc, whole))
  <2>1. \E why : why # "" /\ after = Refused(why)
    BY <1>0, <1>2, Zenon DEF Assign
  <2>2. after.kind = "none" /\ after.fails # ""
    <3>1. PICK why : why # "" /\ after = Refused(why)
      BY <2>1
    <3> HIDE DEF after
    <3> QED
      BY <3>1 DEF Refused
  <2> QED
    BY <2>2, <1>0 DEF IsUnderWay
<1>3. CASE body.fails = "" /\ a.path # <<>> /\ a.path[1].key \notin flags /\ ~Conflict(body.doc, whole)
  <2>1. after = Body("json", new)
    BY <1>3 DEF Assign
  <2>2. after.kind = "json" /\ after.fails = "" /\ after.doc = new
    <3> HIDE DEF after, new
    <3> QED
      BY <2>1 DEF Body
  <2>3. body.kind = "json" /\ body.doc.kind = "object"
    BY <1>3 DEF IsUnderWay
  <2>4. whole \in Paths /\ whole # <<>>
    <3>1. whole \in Paths /\ Len(whole) = Len(prefix) + Len(a.path)
      BY PathsJoin
    <3>2. Len(a.path) # 0 /\ Len(a.path) \in Nat /\ Len(prefix) \in Nat
      BY <1>3, PathLength
    <3> QED
      BY <3>1, <3>2
  <2>5. new.kind = "object"
    BY <2>3, <2>4, SetIsObject
  <2> QED
    BY <2>2, <2>3, <2>5, <1>3 DEF IsUnderWay
<1> QED
  BY <1>1, <1>2, <1>3

\* What a successful body went through: each assignment set its path, without a conflict.
LEMMA AssignSteps ==
    ASSUME NEW flags, NEW prefix \in Paths, NEW base, base.kind = "object", NEW list, IsAssignments(list),
           AssignAll(flags, prefix, base, list).kind = "json"
    PROVE  /\ Assigned(flags, prefix, base, list)[0].doc = base
           /\ \A k \in 1 .. Len(list) :
                /\ Assigned(flags, prefix, base, list)[k - 1].doc.kind = "object"
                /\ list[k].path # <<>> /\ list[k].path[1].key \notin flags
                /\ ~Conflict(Assigned(flags, prefix, base, list)[k - 1].doc, prefix \o list[k].path)
                /\ Assigned(flags, prefix, base, list)[k].doc =
                     SetNested(Assigned(flags, prefix, base, list)[k - 1].doc, prefix \o list[k].path, list[k].doc)
<1> DEFINE n == Len(list)
           B(k) == Assigned(flags, prefix, base, list)[k]
           S == {k \in 0 .. n : IsUnderWay(B(k))}
           R == {k \in 0 .. n : B(n - k).kind = "json"}
<1>1. n \in Nat /\ \A k \in 1 .. n : list[k].path \in Paths
  BY DEF IsAssignments
<1>2. B(0) = Body("json", base) /\ \A k \in 1 .. n : B(k) = Assign(flags, prefix, B(k - 1), list[k])
  BY <1>1, AssignedIs
<1>3. B(0).doc = base /\ IsUnderWay(B(0))
  <2>1. B(0) = Body("json", base)
    BY <1>2
  <2> QED
    BY <2>1, BodyIsUnderWay
<1> HIDE DEF B
<1>4. \A k \in 0 .. n : k \in S
  <2>1. 0 \in S
    BY <1>1, <1>3
  <2>2. ASSUME NEW k \in 0 .. n, k < n, k \in S PROVE k + 1 \in S
    <3>1. k + 1 \in 1 .. n /\ k + 1 - 1 = k /\ k + 1 \in 0 .. n /\ IsUnderWay(B(k))
      BY <1>1, <2>2
    <3>2. B(k + 1) = Assign(flags, prefix, B(k), list[k + 1]) /\ list[k + 1].path \in Paths
      BY <3>1, <1>2, <1>1
    <3>3. IsUnderWay(B(k + 1))
      BY <3>1, <3>2, OneAssignment
    <3> QED
      BY <3>1, <3>3
  <2> HIDE DEF S, n
  <2> QED
    BY <1>1, <2>1, <2>2, Climb
<1>5. \A k \in 0 .. n : IsUnderWay(B(k))
  BY <1>4
<1>6. \A k \in 0 .. n : k \in R
  <2>1. 0 \in R
    <3>1. B(n).kind = "json"
      BY DEF AssignAll, B
    <3> QED
      BY <3>1, <1>1
  <2>2. ASSUME NEW k \in 0 .. n, k < n, k \in R PROVE k + 1 \in R
    <3>1. n - k \in 1 .. n /\ n - k - 1 \in 0 .. n /\ n - (k + 1) = n - k - 1 /\ k + 1 \in 0 .. n /\ B(n - k).kind = "json"
      BY <1>1, <2>2
    <3>2. B(n - k) = Assign(flags, prefix, B(n - k - 1), list[n - k]) /\ list[n - k].path \in Paths
      BY <3>1, <1>2, <1>1
    <3>3. B(n - k - 1).kind = "json"
      BY <3>1, <3>2, <1>5, OneAssignment
    <3> QED
      BY <3>1, <3>3
  <2> HIDE DEF R, n
  <2> QED
    BY <1>1, <2>1, <2>2, Climb
<1>7. ASSUME NEW k \in 0 .. n PROVE B(k).kind = "json" /\ B(k).doc.kind = "object"
  <2>1. n - k \in 0 .. n /\ n - (n - k) = k
    BY <1>1
  <2>2. B(k).kind = "json"
    <3>1. n - k \in R
      BY <2>1, <1>6
    <3> QED
      BY <3>1, <2>1
  <2> QED
    BY <2>2, <1>5 DEF IsUnderWay
<1>8. ASSUME NEW k \in 1 .. n
      PROVE  /\ B(k - 1).doc.kind = "object"
             /\ list[k].path # <<>> /\ list[k].path[1].key \notin flags
             /\ ~Conflict(B(k - 1).doc, prefix \o list[k].path)
             /\ B(k).doc = SetNested(B(k - 1).doc, prefix \o list[k].path, list[k].doc)
  <2>1. k - 1 \in 0 .. n /\ k \in 0 .. n
    BY <1>1
  <2>2. B(k) = Assign(flags, prefix, B(k - 1), list[k]) /\ list[k].path \in Paths /\ B(k).kind = "json"
    BY <1>1, <1>2, <1>7, <2>1
  <2>3. IsUnderWay(B(k - 1))
    BY <2>1, <1>5
  <2>4. B(k - 1).doc.kind = "object"
    BY <2>1, <1>7
  <2> QED
    BY <2>2, <2>3, <2>4, OneAssignment
<1> QED
  BY <1>3, <1>7, <1>8 DEF B

Succeeds(flags, prefix, base, list) ==
    /\ prefix \in Paths /\ base.kind = "object" /\ IsAssignments(list)
    /\ AssignAll(flags, prefix, base, list).kind = "json"

LEMMA AssignStep ==
    ASSUME NEW flags, NEW prefix, NEW base, NEW list, Succeeds(flags, prefix, base, list), NEW k \in 1 .. Len(list)
    PROVE  /\ list[k].path \in Paths /\ list[k].path # <<>> /\ list[k].path[1].key \notin flags
           /\ prefix \o list[k].path \in Paths
           /\ Assigned(flags, prefix, base, list)[k - 1].doc.kind = "object"
           /\ ~Conflict(Assigned(flags, prefix, base, list)[k - 1].doc, prefix \o list[k].path)
           /\ Assigned(flags, prefix, base, list)[k].doc =
                SetNested(Assigned(flags, prefix, base, list)[k - 1].doc, prefix \o list[k].path, list[k].doc)
<1>1. /\ prefix \in Paths /\ base.kind = "object" /\ IsAssignments(list)
      /\ AssignAll(flags, prefix, base, list).kind = "json"
  BY DEF Succeeds
<1>2. Len(list) \in Nat /\ list[k].path \in Paths /\ k - 1 \in 0 .. Len(list)
  BY <1>1 DEF IsAssignments
<1>3. prefix \o list[k].path \in Paths
  BY <1>1, <1>2, PathsJoin
<1>5. /\ Assigned(flags, prefix, base, list)[k - 1].doc.kind = "object"
      /\ list[k].path # <<>> /\ list[k].path[1].key \notin flags
      /\ ~Conflict(Assigned(flags, prefix, base, list)[k - 1].doc, prefix \o list[k].path)
      /\ Assigned(flags, prefix, base, list)[k].doc =
           SetNested(Assigned(flags, prefix, base, list)[k - 1].doc, prefix \o list[k].path, list[k].doc)
  BY <1>1, AssignSteps
<1> QED
  BY <1>2, <1>3, <1>5

LEMMA AssignStart ==
    ASSUME NEW flags, NEW prefix, NEW base, NEW list, Succeeds(flags, prefix, base, list)
    PROVE  Assigned(flags, prefix, base, list)[0].doc = base /\ Len(list) \in Nat /\ 0 \in 0 .. Len(list)
<1>1. /\ prefix \in Paths /\ base.kind = "object" /\ IsAssignments(list)
      /\ AssignAll(flags, prefix, base, list).kind = "json"
  BY DEF Succeeds
<1>2. Assigned(flags, prefix, base, list)[0].doc = base
  BY <1>1, AssignSteps
<1>3. Len(list) \in Nat
  BY <1>1 DEF IsAssignments
<1> QED
  BY <1>2, <1>3

LEMMA OverlapBelow ==
    ASSUME NEW r \in Paths, NEW p \in Paths, NEW q \in Paths, ~Overlap(p, q)
    PROVE  ~Overlap(r \o p, r \o q)
<1>1. PICK d \in 1 .. Len(p) \cap 1 .. Len(q) : Beside(p[d], q[d])
  BY LeastSplit
<1>2. Len(r) \in Nat /\ Len(p) \in Nat /\ Len(q) \in Nat
  BY PathLength
<1>3. /\ Len(r \o p) = Len(r) + Len(p) /\ (r \o p)[Len(r) + d] = p[d]
      /\ Len(r \o q) = Len(r) + Len(q) /\ (r \o q)[Len(r) + d] = q[d]
  BY PathsJoin
<1> DEFINE e == Len(r) + d
           rp == r \o p
           rq == r \o q
<1>4. e \in 1 .. Len(rp) /\ e \in 1 .. Len(rq) /\ Beside(rp[e], rq[e]) /\ Len(rp) \in Nat /\ Len(rq) \in Nat
  BY <1>1, <1>2, <1>3
<1> HIDE DEF e, rp, rq
<1>5. ~Overlap(rp, rq)
  BY <1>4 DEF Overlap, Beside
<1> QED
  BY <1>5 DEF rp, rq

\* What is at a path after an assignment stays there when no later one reaches into it.
LEMMA Remains ==
    ASSUME NEW flags, NEW prefix, NEW base, NEW list, Succeeds(flags, prefix, base, list),
           NEW q \in Paths, NEW i \in 0 .. Len(list), NEW x,
           x = GetNested(Assigned(flags, prefix, base, list)[i].doc, q),
           x # Absent \/ q[Len(q)].index = NoIndex,
           \A k \in i + 1 .. Len(list) : ~Overlap(prefix \o list[k].path, q)
    PROVE  GetNested(AssignAll(flags, prefix, base, list).doc, q) = x
<1> DEFINE n == Len(list)
           m == n - i
           B(k) == Assigned(flags, prefix, base, list)[k]
           S == {k \in 0 .. m : GetNested(B(i + k).doc, q) = x}
<1>1. n \in Nat /\ m \in Nat /\ i \in Nat
  BY DEF Succeeds, IsAssignments
<1>2. 0 \in S
  BY <1>1
<1>3. ASSUME NEW k \in 0 .. m, k < m, k \in S PROVE k + 1 \in S
  <2>1. PICK j \in 1 .. n : j = i + (k + 1) /\ j - 1 = i + k /\ j \in i + 1 .. n /\ j - 1 \in 0 .. n
    <3>1. i + (k + 1) \in 1 .. n /\ i + (k + 1) - 1 = i + k /\ i + (k + 1) \in i + 1 .. n /\ i + (k + 1) - 1 \in 0 .. n
      BY <1>1, <1>3
    <3> QED
      BY <3>1
  <2>2. /\ B(j - 1).doc.kind = "object"
        /\ ~Conflict(B(j - 1).doc, prefix \o list[j].path)
        /\ B(j).doc = SetNested(B(j - 1).doc, prefix \o list[j].path, list[j].doc)
    BY <2>1, AssignStep
  <2>3. prefix \o list[j].path \in Paths /\ ~Overlap(prefix \o list[j].path, q)
    BY <2>1, AssignStep
  <2>4. GetNested(B(j - 1).doc, q) = x
    BY <2>1, <1>3
  <2> DEFINE whole == prefix \o list[j].path
             old == B(j - 1).doc
  <2>5. \/ GetNested(SetNested(old, whole, list[j].doc), q) = GetNested(old, q)
        \/ GetNested(old, q) = Absent /\ q[Len(q)].index # NoIndex
    <3>1. old.kind = "object" /\ ~Conflict(old, whole) /\ whole \in Paths /\ ~Overlap(whole, q)
      BY <2>2, <2>3
    <3> HIDE DEF old, whole
    <3> QED
      BY <3>1, SetKeepsOthers
  <2>6. GetNested(B(j).doc, q) = x
    BY <2>2, <2>4, <2>5
  <2> QED
    BY <2>1, <2>6, <1>1, <1>3
<1>4. m \in S
  <2>1. m \in 0 .. m /\ \A k \in 0 .. m : (k < m /\ k \in S) => k + 1 \in S
    BY <1>1, <1>3
  <2> HIDE DEF S, m
  <2> QED
    BY <1>1, <1>2, <2>1, Climb
<1>5. i + m = n
  BY <1>1
<1> QED
  BY <1>4, <1>5 DEF AssignAll

\* An assignment that no later one reaches into is held by the body.
LEMMA AssignmentHeld ==
    ASSUME NEW flags, NEW prefix, NEW base, NEW list, Succeeds(flags, prefix, base, list),
           NEW i \in 1 .. Len(list), list[i].doc # Absent,
           \A k \in i + 1 .. Len(list) : ~Overlap(list[k].path, list[i].path)
    PROVE  GetNested(AssignAll(flags, prefix, base, list).doc, prefix \o list[i].path) = list[i].doc
<1> DEFINE q == prefix \o list[i].path
<1>1. Len(list) \in Nat /\ list[i].path \in Paths /\ q \in Paths /\ i \in 0 .. Len(list) /\ i - 1 \in 0 .. Len(list)
  BY AssignStep DEF Succeeds, IsAssignments
<1>2. /\ Assigned(flags, prefix, base, list)[i - 1].doc.kind = "object"
      /\ Assigned(flags, prefix, base, list)[i].doc =
           SetNested(Assigned(flags, prefix, base, list)[i - 1].doc, q, list[i].doc)
  BY AssignStep
<1>3. GetNested(Assigned(flags, prefix, base, list)[i].doc, q) = list[i].doc
  <2> HIDE DEF q
  <2> QED
    BY <1>1, <1>2, SetThenGet
<1>4. \A k \in i + 1 .. Len(list) : ~Overlap(prefix \o list[k].path, q)
  <2> TAKE k \in i + 1 .. Len(list)
  <2>1. list[k].path \in Paths
    BY <1>1 DEF Succeeds, IsAssignments
  <2> QED
    BY <1>1, <2>1, OverlapBelow DEF Succeeds
<1> QED
  <2> DEFINE x == list[i].doc
  <2>1. x = GetNested(Assigned(flags, prefix, base, list)[i].doc, q) /\ x # Absent
    BY <1>3
  <2> HIDE DEF q, x
  <2>2. GetNested(AssignAll(flags, prefix, base, list).doc, q) = x
    BY <1>1, <2>1, <1>4, Remains
  <2> QED
    BY <2>2 DEF q, x

-----------------------------------------------------------------------------
(* The assignments of an input *)

Texts == Seq([path : Paths, text : STRING])

\* Variables, then --set, then --set-str.
Order(input) == Quoted(input.vars) \o Assignments(input)

LEMMA TextsShape ==
    ASSUME NEW list \in Texts
    PROVE  Len(list) \in Nat /\ DOMAIN list = 1 .. Len(list) /\ \A i \in 1 .. Len(list) : list[i].path \in Paths
<1> DEFINE T == [path : Paths, text : STRING]
<1>1. list \in Seq(T)
  BY DEF Texts
<1>2. Len(list) \in Nat /\ DOMAIN list = 1 .. Len(list) /\ \A i \in 1 .. Len(list) : list[i] \in T
  <2> HIDE DEF T
  <2> QED
    BY <1>1
<1> QED
  BY <1>2

LEMMA ValuesPresent ==
    ASSUME NEW text
    PROVE  Leaf(text) # Absent /\ InferValue(text) # Absent
<1>1. Leaf(text).kind = "leaf" /\ Absent.kind = "absent"
  BY DEF Leaf, Absent
<1>2. InferValue(text).kind \in {"null", "array", "typed", "leaf"}
  BY <1>1 DEF InferValue, Null, Array
<1> QED
  BY <1>1, <1>2

LEMMA QuotedShape ==
    ASSUME NEW list \in Texts
    PROVE  /\ Quoted(list) = [i \in 1 .. Len(list) |-> Quoted(list)[i]]
           /\ \A i \in 1 .. Len(list) :
                Quoted(list)[i].path = list[i].path /\ Quoted(list)[i].doc = Leaf(list[i].text)
BY TextsShape DEF Quoted

LEMMA InferredShape ==
    ASSUME NEW list \in Texts
    PROVE  /\ Inferred(list) = [i \in 1 .. Len(list) |-> Inferred(list)[i]]
           /\ \A i \in 1 .. Len(list) :
                Inferred(list)[i].path = list[i].path /\ Inferred(list)[i].doc = InferValue(list[i].text)
BY TextsShape DEF Inferred

LEMMA OrderShape ==
    ASSUME NEW input, input.vars \in Texts, input.set \in Texts, input.setStr \in Texts
    PROVE  /\ Len(Order(input)) = Len(input.vars) + Len(input.set) + Len(input.setStr)
           /\ \A i \in 1 .. Len(input.vars) :
                Order(input)[i] = Quoted(input.vars)[i]
           /\ \A i \in 1 .. Len(input.set) :
                Order(input)[Len(input.vars) + i] = Inferred(input.set)[i]
           /\ \A i \in 1 .. Len(input.setStr) :
                Order(input)[Len(input.vars) + Len(input.set) + i] = Quoted(input.setStr)[i]
<1>1. Len(input.vars) \in Nat /\ Len(input.set) \in Nat /\ Len(input.setStr) \in Nat
  BY TextsShape
<1>2. Order(input) = Quoted(input.vars) \o (Inferred(input.set) \o Quoted(input.setStr))
  BY DEF Order, Assignments
<1>3. /\ Quoted(input.vars) = [i \in 1 .. Len(input.vars) |-> Quoted(input.vars)[i]]
      /\ Quoted(input.setStr) = [i \in 1 .. Len(input.setStr) |-> Quoted(input.setStr)[i]]
  BY QuotedShape
<1>4. Inferred(input.set) = [i \in 1 .. Len(input.set) |-> Inferred(input.set)[i]]
  BY InferredShape
<1> DEFINE v == Len(input.vars)
           s == Len(input.set)
           t == Len(input.setStr)
           Q == Quoted(input.vars)
           I == Inferred(input.set)
           T == Quoted(input.setStr)
           O == Order(input)
<1> HIDE DEF v, s, t, Q, I, T, O
<1>5. /\ v \in Nat /\ s \in Nat /\ t \in Nat /\ O = Q \o (I \o T)
      /\ IsList(Q, v) /\ IsList(I, s) /\ IsList(T, t)
  BY <1>1, <1>2, <1>3, <1>4 DEF v, s, t, Q, I, T, O, IsList
<1> DEFINE A == I \o T
<1>6. /\ Len(A) = s + t /\ IsList(A, s + t)
      /\ \A i \in 1 .. s : A[i] = I[i]
      /\ \A i \in 1 .. t : A[s + i] = T[i]
  <2>1. I = [i \in 1 .. s |-> I[i]] /\ T = [i \in 1 .. t |-> T[i]]
    BY <1>5 DEF IsList
  <2>2. /\ Len(I \o T) = s + t /\ I \o T = [i \in 1 .. s + t |-> (I \o T)[i]]
        /\ \A i \in 1 .. s : (I \o T)[i] = I[i]
        /\ \A i \in 1 .. t : (I \o T)[s + i] = T[i]
    BY <1>5, <2>1, Joined, SMTT(60)
  <2>3. s + t \in Nat
    BY <1>5
  <2> QED
    BY <2>2, <2>3 DEF IsList
<1>7. s + t \in Nat /\ O = Q \o A
  BY <1>5
<1> HIDE DEF A
<1>8. Len(O) = v + (s + t)
  BY <1>5, <1>6, <1>7, Joined DEF IsList
<1>9. \A i \in 1 .. v : O[i] = Q[i]
  BY <1>5, <1>6, <1>7, Joined DEF IsList
<1>10. \A i \in 1 .. s + t : O[v + i] = A[i]
  <2> DEFINE m == s + t
  <2>1. m \in Nat /\ IsList(A, m) /\ O = Q \o A
    BY <1>6, <1>7
  <2> HIDE DEF m
  <2>2. \A i \in 1 .. m : O[v + i] = A[i]
    BY <2>1, <1>5, Joined DEF IsList
  <2> QED
    BY <2>2 DEF m
<1>11. \A i \in 1 .. s : O[v + i] = I[i]
  <2> TAKE i \in 1 .. s
  <2>1. i \in 1 .. s + t
    BY <1>5
  <2> QED
    BY <2>1, <1>6, <1>10
<1>12. \A i \in 1 .. t : O[v + s + i] = T[i]
  <2> TAKE i \in 1 .. t
  <2>1. s + i \in 1 .. s + t /\ v + s + i = v + (s + i)
    BY <1>5
  <2> QED
    BY <2>1, <1>6, <1>10
<1>13. /\ Len(O) = v + s + t
       /\ \A i \in 1 .. v : O[i] = Q[i]
       /\ \A i \in 1 .. s : O[v + i] = I[i]
       /\ \A i \in 1 .. t : O[v + s + i] = T[i]
  BY <1>5, <1>8, <1>9, <1>11, <1>12, SMTT(60)
<1> QED
  BY <1>13 DEF v, s, t, Q, I, T, O

\* Where an assignment of the order comes from.
LEMMA OrderFrom ==
    ASSUME NEW input, input.vars \in Texts, input.set \in Texts, input.setStr \in Texts,
           NEW k \in 1 .. Len(Order(input))
    PROVE  \/ \E i \in 1 .. Len(input.vars) : k = i /\ Order(input)[k].path = input.vars[i].path
           \/ \E i \in 1 .. Len(input.set) :
                k = Len(input.vars) + i /\ Order(input)[k].path = input.set[i].path
           \/ \E i \in 1 .. Len(input.setStr) :
                k = Len(input.vars) + Len(input.set) + i /\ Order(input)[k].path = input.setStr[i].path
<1> DEFINE v == Len(input.vars)
           s == Len(input.set)
           t == Len(input.setStr)
           O == Order(input)
<1>1. v \in Nat /\ s \in Nat /\ t \in Nat /\ Len(O) = v + s + t
  BY TextsShape, OrderShape
<1>2. \A i \in 1 .. v : O[i].path = input.vars[i].path
  <2> TAKE i \in 1 .. v
  <2>1. O[i] = Quoted(input.vars)[i]
    BY OrderShape
  <2>2. Quoted(input.vars)[i].path = input.vars[i].path
    BY QuotedShape
  <2> HIDE DEF O, v
  <2> QED
    BY <2>1, <2>2
<1>3. \A i \in 1 .. s : O[v + i].path = input.set[i].path
  <2> TAKE i \in 1 .. s
  <2>1. O[v + i] = Inferred(input.set)[i]
    BY OrderShape
  <2>2. Inferred(input.set)[i].path = input.set[i].path
    BY InferredShape
  <2> HIDE DEF O, v
  <2> QED
    BY <2>1, <2>2
<1>4. \A i \in 1 .. t : O[v + s + i].path = input.setStr[i].path
  <2> TAKE i \in 1 .. t
  <2>1. O[v + s + i] = Quoted(input.setStr)[i]
    BY OrderShape
  <2>2. Quoted(input.setStr)[i].path = input.setStr[i].path
    BY QuotedShape
  <2> HIDE DEF O, v, s
  <2> QED
    BY <2>1, <2>2
<1> HIDE DEF v, s, t
<1>5. \/ k \in 1 .. v
      \/ \E i \in 1 .. s : k = v + i
      \/ \E i \in 1 .. t : k = v + s + i
  <2>1. k \in 1 .. v + s + t
    BY <1>1
  <2> HIDE DEF O
  <2>2. CASE k > v /\ k <= v + s
    <3>1. k - v \in 1 .. s /\ k = v + (k - v)
      BY <1>1, <2>1, <2>2
    <3> QED
      BY <3>1
  <2>3. CASE k > v + s
    <3>1. k - (v + s) \in 1 .. t /\ k = v + s + (k - (v + s))
      BY <1>1, <2>1, <2>3
    <3> QED
      BY <3>1
  <2> QED
    BY <1>1, <2>1, <2>2, <2>3
<1> QED
  BY <1>2, <1>3, <1>4, <1>5 DEF v, s, t

LEMMA OrderIsAssignments ==
    ASSUME NEW input, input.vars \in Texts, input.set \in Texts, input.setStr \in Texts
    PROVE  IsAssignments(Order(input))
<1>1. Len(Order(input)) \in Nat
  BY TextsShape, OrderShape
<1>2. ASSUME NEW k \in 1 .. Len(Order(input)) PROVE Order(input)[k].path \in Paths
  BY OrderFrom, TextsShape, ZenonT(60)
<1> QED
  BY <1>1, <1>2 DEF IsAssignments

Reached(list, from, path) == \E j \in from .. Len(list) : Overlap(list[j].path, path)

\* No later assignment of the list reaches into this one.
Final(list, i) == ~Reached(list, i + 1, list[i].path)

LEMMA SetStrHeld ==
    ASSUME NEW input, input.vars \in Texts, input.set \in Texts, input.setStr \in Texts,
           NEW flags, NEW prefix, NEW base, Succeeds(flags, prefix, base, Order(input)),
           NEW i \in 1 .. Len(input.setStr), Final(input.setStr, i)
    PROVE  GetNested(AssignAll(flags, prefix, base, Order(input)).doc, prefix \o input.setStr[i].path) =
             Leaf(input.setStr[i].text)
<1> DEFINE v == Len(input.vars)
           s == Len(input.set)
           t == Len(input.setStr)
           O == Order(input)
           d == v + s + i
<1>1. v \in Nat /\ s \in Nat /\ t \in Nat /\ Len(O) = v + s + t
  BY TextsShape, OrderShape
<1>2. O[d].path = input.setStr[i].path /\ O[d].doc = Leaf(input.setStr[i].text)
  <2>1. O[d] = Quoted(input.setStr)[i]
    BY OrderShape
  <2>2. Quoted(input.setStr)[i].path = input.setStr[i].path /\ Quoted(input.setStr)[i].doc = Leaf(input.setStr[i].text)
    BY QuotedShape
  <2> QED
    BY <2>1, <2>2
<1>3. ASSUME NEW k \in d + 1 .. Len(O) PROVE ~Overlap(O[k].path, O[d].path)
  <2>1. k \in 1 .. Len(O) /\ k > v + s + i /\ i \in Nat
    <3>1. i \in 1 .. t /\ k \in v + s + i + 1 .. Len(O)
      OBVIOUS
    <3> HIDE DEF v, s, t, O
    <3> QED
      BY <1>1, <3>1
  <2>2. \/ \E j \in 1 .. v : k = j
        \/ \E j \in 1 .. s : k = v + j
        \/ \E j \in 1 .. t : k = v + s + j /\ O[k].path = input.setStr[j].path
    BY <2>1, OrderFrom
  <2>3. PICK j \in 1 .. t : k = v + s + j /\ O[k].path = input.setStr[j].path
    <3> HIDE DEF v, s, t, O
    <3> QED
      BY <2>1, <2>2, <1>1
  <2>4. j \in i + 1 .. t
    <3> HIDE DEF v, s, t, O
    <3> QED
      BY <2>1, <2>3, <1>1
  <2> QED
    BY <2>3, <2>4, <1>2 DEF Reached, Final
<1>4. d \in 1 .. Len(O) /\ O[d].doc # Absent
  <2>1. O[d].doc # Absent
    BY <1>2, ValuesPresent
  <2> HIDE DEF v, s, O
  <2> QED
    BY <1>1, <2>1 DEF t
<1> HIDE DEF O, d
<1>5. GetNested(AssignAll(flags, prefix, base, O).doc, prefix \o O[d].path) = O[d].doc
  BY <1>3, <1>4, AssignmentHeld DEF O
<1> QED
  BY <1>2, <1>5 DEF O

LEMMA SetHeld ==
    ASSUME NEW input, input.vars \in Texts, input.set \in Texts, input.setStr \in Texts,
           NEW flags, NEW prefix, NEW base, Succeeds(flags, prefix, base, Order(input)),
           NEW i \in 1 .. Len(input.set), Final(input.set, i),
           ~Reached(input.setStr, 1, input.set[i].path)
    PROVE  GetNested(AssignAll(flags, prefix, base, Order(input)).doc, prefix \o input.set[i].path) =
             InferValue(input.set[i].text)
<1> DEFINE v == Len(input.vars)
           s == Len(input.set)
           t == Len(input.setStr)
           O == Order(input)
           d == v + i
<1>1. v \in Nat /\ s \in Nat /\ t \in Nat /\ Len(O) = v + s + t
  BY TextsShape, OrderShape
<1>2. O[d].path = input.set[i].path /\ O[d].doc = InferValue(input.set[i].text)
  <2>1. O[d] = Inferred(input.set)[i]
    BY OrderShape
  <2>2. Inferred(input.set)[i].path = input.set[i].path /\ Inferred(input.set)[i].doc = InferValue(input.set[i].text)
    BY InferredShape
  <2> QED
    BY <2>1, <2>2
<1>3. ASSUME NEW k \in d + 1 .. Len(O) PROVE ~Overlap(O[k].path, O[d].path)
  <2>1. k \in 1 .. Len(O) /\ k > v + i /\ i \in Nat
    <3>1. i \in 1 .. s /\ k \in v + i + 1 .. Len(O)
      OBVIOUS
    <3> HIDE DEF v, s, t, O
    <3> QED
      BY <1>1, <3>1
  <2>2. \/ \E j \in 1 .. v : k = j
        \/ \E j \in 1 .. s : k = v + j /\ O[k].path = input.set[j].path
        \/ \E j \in 1 .. t : k = v + s + j /\ O[k].path = input.setStr[j].path
    BY <2>1, OrderFrom
  <2>3. \/ \E j \in i + 1 .. s : O[k].path = input.set[j].path
        \/ \E j \in 1 .. t : O[k].path = input.setStr[j].path
    <3> HIDE DEF v, s, t, O
    <3> QED
      BY <2>1, <2>2, <1>1
  <2> QED
    BY <2>3, <1>2 DEF Reached, Final
<1>4. d \in 1 .. Len(O) /\ O[d].doc # Absent
  <2>1. O[d].doc # Absent
    BY <1>2, ValuesPresent
  <2> HIDE DEF v, t, O
  <2> QED
    BY <1>1, <2>1 DEF s
<1> HIDE DEF O, d
<1>5. GetNested(AssignAll(flags, prefix, base, O).doc, prefix \o O[d].path) = O[d].doc
  BY <1>3, <1>4, AssignmentHeld DEF O
<1> QED
  BY <1>2, <1>5 DEF O

LEMMA VariableHeld ==
    ASSUME NEW input, input.vars \in Texts, input.set \in Texts, input.setStr \in Texts,
           NEW flags, NEW prefix, NEW base, Succeeds(flags, prefix, base, Order(input)),
           NEW i \in 1 .. Len(input.vars), Final(input.vars, i),
           ~Reached(input.set, 1, input.vars[i].path), ~Reached(input.setStr, 1, input.vars[i].path)
    PROVE  GetNested(AssignAll(flags, prefix, base, Order(input)).doc, prefix \o input.vars[i].path) =
             Leaf(input.vars[i].text)
<1> DEFINE v == Len(input.vars)
           s == Len(input.set)
           t == Len(input.setStr)
           O == Order(input)
<1>1. v \in Nat /\ s \in Nat /\ t \in Nat /\ Len(O) = v + s + t
  BY TextsShape, OrderShape
<1>2. O[i].path = input.vars[i].path /\ O[i].doc = Leaf(input.vars[i].text)
  <2>1. O[i] = Quoted(input.vars)[i]
    BY OrderShape
  <2>2. Quoted(input.vars)[i].path = input.vars[i].path /\ Quoted(input.vars)[i].doc = Leaf(input.vars[i].text)
    BY QuotedShape
  <2> QED
    BY <2>1, <2>2
<1>3. ASSUME NEW k \in i + 1 .. Len(O) PROVE ~Overlap(O[k].path, O[i].path)
  <2>1. k \in 1 .. Len(O) /\ k > i /\ i \in Nat
    <3>1. i \in 1 .. v /\ k \in i + 1 .. Len(O)
      OBVIOUS
    <3> HIDE DEF v, s, t, O
    <3> QED
      BY <1>1, <3>1
  <2>2. \/ \E j \in 1 .. v : k = j /\ O[k].path = input.vars[j].path
        \/ \E j \in 1 .. s : O[k].path = input.set[j].path
        \/ \E j \in 1 .. t : O[k].path = input.setStr[j].path
    BY <2>1, OrderFrom
  <2>3. \/ \E j \in i + 1 .. v : O[k].path = input.vars[j].path
        \/ \E j \in 1 .. s : O[k].path = input.set[j].path
        \/ \E j \in 1 .. t : O[k].path = input.setStr[j].path
    <3> HIDE DEF v, s, t, O
    <3> QED
      BY <2>1, <2>2, <1>1
  <2> QED
    BY <2>3, <1>2 DEF Reached, Final
<1>4. i \in 1 .. Len(O) /\ O[i].doc # Absent
  <2>1. O[i].doc # Absent
    BY <1>2, ValuesPresent
  <2> HIDE DEF s, t, O
  <2> QED
    BY <1>1, <2>1 DEF v
<1> HIDE DEF O
<1>5. GetNested(AssignAll(flags, prefix, base, O).doc, prefix \o O[i].path) = O[i].doc
  BY <1>3, <1>4, AssignmentHeld DEF O
<1> QED
  BY <1>2, <1>5 DEF O

-----------------------------------------------------------------------------
(* The body that is sent *)

LEMMA GetField ==
    ASSUME NEW x, NEW name \in STRING
    PROVE  GetNested(x, <<Field(name)>>) = Child(x, Field(name))
<1> DEFINE p == <<Field(name)>>
<1>1. Len(p) = 1 /\ p[1] = Field(name) /\ 1 \in 1 .. 1 /\ 1 - 1 = 0
  BY FieldPath
<1> HIDE DEF p
<1>2. Found(x, p)[0] = x /\ Found(x, p)[1] = Child(Found(x, p)[0], p[1])
  <2>1. Len(p) \in Nat /\ 1 \in 1 .. Len(p)
    BY <1>1
  <2>2. Found(x, p)[0] = x
    BY <2>1, FoundIs
  <2>3. Found(x, p)[1] = Child(Found(x, p)[1 - 1], p[1])
    BY <2>1, FoundIs
  <2> QED
    BY <1>1, <2>2, <2>3
<1> QED
  BY <1>1, <1>2 DEF GetNested, p

LEMMA SetThenBelow ==
    ASSUME NEW x, x.kind = "object", NEW p \in Paths, NEW value, NEW name \in STRING
    PROVE  GetNested(SetNested(x, p, value), p \o <<Field(name)>>) = Child(value, Field(name))
<1> DEFINE f == <<Field(name)>>
           q == p \o f
           new == SetNested(x, p, value)
           n == Len(p)
<1>1. f \in Paths /\ Len(f) = 1 /\ f[1] = Field(name) /\ 1 \in 1 .. 1
  BY FieldPath
<1> HIDE DEF f
<1>2. n \in Nat /\ q \in Paths /\ Len(q) = n + 1 /\ q[n + 1] = Field(name) /\ \A k \in 1 .. n : p[k] = q[k]
  <2>1. n \in Nat
    BY PathLength
  <2>2. q \in Paths /\ Len(q) = n + Len(f)
    BY <1>1, PathsJoin
  <2>3. \A k \in 1 .. n : q[k] = p[k]
    BY <1>1, PathsJoin
  <2>4. \A k \in 1 .. Len(f) : q[n + k] = f[k]
    BY <1>1, PathsJoin
  <2> HIDE DEF n, q
  <2> QED
    BY <1>1, <2>1, <2>2, <2>3, <2>4
<1> HIDE DEF q
<1>3. Found(new, q)[n] = Layer(x, p, value, n)
  BY <1>2, AgreesAfter
<1>4. Layer(x, p, value, n) = value
  BY LayerEnds
<1>5. Found(new, q)[n + 1] = Child(Found(new, q)[n], q[n + 1])
  <2> HIDE DEF new
  <2>1. n + 1 \in 1 .. Len(q) /\ n + 1 - 1 = n /\ Len(q) \in Nat
    BY <1>2
  <2> QED
    BY <2>1, FoundIs
<1>6. GetNested(new, q) = Child(value, Field(name))
  BY <1>2, <1>3, <1>4, <1>5 DEF GetNested
<1> QED
  BY <1>6 DEF q, f

\* What the assignments of a JSON body start from, by the case of its specification.
Flags(spec, input) == IF spec.template = NoTemplate THEN DOMAIN input.fields ELSE {}

Prefix(spec) == IF spec.template = NoTemplate THEN <<>> ELSE spec.mergePath

Base(spec, input) == IF spec.template = NoTemplate THEN Object(input.fields) ELSE Envelope(spec, input)

FileFits(spec, input) == spec.mergePath # <<>> /\ ~Conflict(spec.template, spec.mergePath)

LEMMA InputTexts ==
    ASSUME NEW spec, NEW input, WellFormedBody(spec, input)
    PROVE  input.vars \in Texts /\ input.set \in Texts /\ input.setStr \in Texts
BY DEF WellFormedBody, Texts

LEMMA NoVariables ==
    ASSUME NEW input, input.vars \in Texts, input.set \in Texts, input.setStr \in Texts, input.vars = <<>>
    PROVE  Order(input) = Assignments(input)
<1> DEFINE S == Seq({Assignments(input)[i] : i \in 1 .. Len(input.set) + Len(input.setStr)})
           Q == Quoted(input.vars)
           A == Assignments(input)
<1>1. Len(input.set) \in Nat /\ Len(input.setStr) \in Nat
  BY TextsShape
<1>2. /\ IsList(Inferred(input.set), Len(input.set)) /\ IsList(Quoted(input.setStr), Len(input.setStr))
  BY <1>1, InferredShape, QuotedShape DEF IsList
<1>3. IsList(A, Len(input.set) + Len(input.setStr))
  <2> DEFINE I == Inferred(input.set)
             T == Quoted(input.setStr)
             s == Len(input.set)
             t == Len(input.setStr)
  <2>1. A = I \o T /\ IsList(I, s) /\ IsList(T, t)
    BY <1>2 DEF Assignments
  <2> HIDE DEF I, T, s, t, A
  <2>2. s \in Nat /\ t \in Nat /\ A = [i \in 1 .. s + t |-> A[i]]
    BY <2>1, Joined DEF IsList
  <2>3. IsList(A, s + t)
    BY <2>2 DEF IsList
  <2> QED
    BY <2>3 DEF s, t
<1>4. Q = <<>>
  BY DEF Quoted
<1> DEFINE n == Len(input.set) + Len(input.setStr)
<1>5. n \in Nat
  <2> DEFINE s == Len(input.set)
             t == Len(input.setStr)
  <2>1. s \in Nat /\ t \in Nat
    BY <1>1
  <2> HIDE DEF s, t
  <2>2. s + t \in Nat
    BY <2>1
  <2> QED
    BY <2>2 DEF s, t
<1> HIDE DEF A, Q, n
<1>6. <<>> \o A = A
  <2>1. A \in Seq({A[i] : i \in 1 .. n})
    BY <1>3, <1>5, ListIs DEF IsList, n
  <2> QED
    BY <2>1
<1> QED
  BY <1>4, <1>6 DEF Order, Q, A

LEMMA EnvelopeIsObject ==
    ASSUME NEW spec, NEW input, WellFormedBody(spec, input), spec.template # NoTemplate,
           input.file # NoFile => FileFits(spec, input)
    PROVE  Envelope(spec, input).kind = "object"
<1>1. spec.template.kind = "object" /\ spec.mergePath \in Paths
  BY DEF WellFormedBody
<1>2. CASE input.file = NoFile
  BY <1>1, <1>2 DEF Envelope
<1>3. CASE input.file # NoFile
  <2> DEFINE x == spec.template
             p == spec.mergePath
             y == IF input.file = EmptyFile THEN Null ELSE input.file
  <2>1. Envelope(spec, input) = SetNested(x, p, y)
    BY <1>3 DEF Envelope
  <2>2. x.kind = "object" /\ p \in Paths /\ p # <<>>
    BY <1>1, <1>3 DEF FileFits
  <2> HIDE DEF x, p, y
  <2> QED
    BY <2>1, <2>2, SetIsObject
<1> QED
  BY <1>2, <1>3

\* The document that is sent as JSON is what the assignments make of the base.
LEMMA JsonBody ==
    ASSUME NEW spec, NEW input, WellFormedBody(spec, input), RequestBody(spec, input).kind = "json"
    PROVE  /\ RequestBody(spec, input) =
                AssignAll(Flags(spec, input), Prefix(spec), Base(spec, input), Order(input))
           /\ Succeeds(Flags(spec, input), Prefix(spec), Base(spec, input), Order(input))
           /\ spec.template # NoTemplate /\ input.file # NoFile => FileFits(spec, input)
<1>1. \A why : Refused(why).kind = "none" /\ "none" # "json"
  BY DEF Refused
<1>2. \A x : Body("none", x).kind # "json" /\ Body("multipart", x).kind # "json" /\ Body("form", x).kind # "json"
             /\ Body("file", x).kind # "json"
  BY DEF Body
<1>3. RequestBody(spec, input) = ResolveBody(spec, input) /\ ResolveBody(spec, input).kind = "json"
  <2> HIDE DEF Refused
  <2> QED
    BY <1>1, Zenon DEF RequestBody
<1>4. input.vars \in Texts /\ input.set \in Texts /\ input.setStr \in Texts
  BY InputTexts
<1>5. IsAssignments(Order(input)) /\ <<>> \in Paths /\ spec.mergePath \in Paths
  BY <1>4, OrderIsAssignments DEF WellFormedBody, Paths
<1>6. CASE spec.template # NoTemplate
  <2>1. ResolveBody(spec, input) = EnvelopeBody(spec, input)
    BY <1>1, <1>2, <1>3, <1>6, Zenon DEF ResolveBody
  <2>2. input.file # NoFile => FileFits(spec, input)
    BY <1>1, <1>3, <2>1, Zenon DEF EnvelopeBody, FileFits
  <2>3. EnvelopeBody(spec, input) = AssignAll({}, spec.mergePath, Envelope(spec, input), Order(input))
    BY <1>1, <1>3, <2>1, Zenon DEF EnvelopeBody, Order
  <2>4. Envelope(spec, input).kind = "object"
    BY <1>6, <2>2, EnvelopeIsObject
  <2>5. Flags(spec, input) = {} /\ Prefix(spec) = spec.mergePath /\ Base(spec, input) = Envelope(spec, input)
    BY <1>6 DEF Flags, Prefix, Base
  <2> QED
    BY <1>3, <1>5, <2>1, <2>2, <2>3, <2>4, <2>5 DEF Succeeds
<1>7. CASE spec.template = NoTemplate
  <2>1. ResolveBody(spec, input) = BuiltBody(spec, input)
    BY <1>1, <1>2, <1>3, <1>7, Zenon DEF ResolveBody
  <2>2. Order(input) = Assignments(input)
    BY <1>4, <1>7, NoVariables DEF WellFormedBody
  <2>3. BuiltBody(spec, input) = AssignAll(DOMAIN input.fields, <<>>, Object(input.fields), Order(input))
    BY <1>1, <1>3, <2>1, <2>2, Zenon DEF BuiltBody
  <2>4. Object(input.fields).kind = "object"
    BY DEF Object
  <2>5. Flags(spec, input) = DOMAIN input.fields /\ Prefix(spec) = <<>> /\ Base(spec, input) = Object(input.fields)
    BY <1>7 DEF Flags, Prefix, Base
  <2> QED
    BY <1>3, <1>5, <1>7, <2>1, <2>3, <2>4, <2>5 DEF Succeeds
<1> QED
  BY <1>6, <1>7

\* Typed fields: no assignment has the key of a flag.
LEMMA FlagHeld ==
    ASSUME NEW flags, flags \subseteq STRING, NEW base, NEW list, Succeeds(flags, <<>>, base, list), NEW name \in flags
    PROVE  GetNested(AssignAll(flags, <<>>, base, list).doc, <<Field(name)>>) = Child(base, Field(name))
<1> DEFINE q == <<Field(name)>>
           x == Child(base, Field(name))
<1>1. q \in Paths /\ Len(q) = 1 /\ q[1] = Field(name) /\ q[Len(q)].index = NoIndex /\ 1 \in 1 .. 1
  BY FieldPath DEF Field
<1>2. Len(list) \in Nat /\ IsAssignments(list)
  BY DEF Succeeds, IsAssignments
<1>3. Assigned(flags, <<>>, base, list)[0].doc = base /\ 0 \in 0 .. Len(list)
  BY AssignStart
<1>4. x = GetNested(Assigned(flags, <<>>, base, list)[0].doc, q)
  BY <1>3, GetField
<1>5. ASSUME NEW k \in 0 + 1 .. Len(list) PROVE ~Overlap(<<>> \o list[k].path, q)
  <2> DEFINE p == list[k].path
  <2>1. k \in 1 .. Len(list)
    BY <1>2
  <2>2. p \in Paths /\ p # <<>> /\ p[1].key \notin flags
    BY <2>1, AssignStep
  <2> HIDE DEF p, q
  <2>3. <<>> \in Paths /\ Len(<<>>) = 0
    BY DEF Paths
  <2> DEFINE r == <<>> \o p
  <2>4. Len(p) \in Nat /\ Len(p) # 0
    BY <2>2, PathLength
  <2>5. Len(r) = Len(<<>>) + Len(p) /\ \A j \in 1 .. Len(p) : r[Len(<<>>) + j] = p[j]
    BY <2>2, <2>3, PathsJoin
  <2> HIDE DEF r
  <2>6. Len(r) = Len(p) /\ r[1] = p[1]
    BY <2>3, <2>4, <2>5
  <2>7. 1 \in 1 .. (IF Len(r) < Len(q) THEN Len(r) ELSE Len(q))
    BY <1>1, <2>4, <2>6
  <2>8. r[1].key # q[1].key
    <3>1. q[1].key = name
      BY <1>1 DEF Field
    <3> QED
      BY <3>1, <2>2, <2>6
  <2>9. ~Overlap(r, q)
    BY <2>7, <2>8 DEF Overlap
  <2> QED
    BY <2>9 DEF r, p, q
<1>6. Succeeds(flags, <<>>, base, list)
  OBVIOUS
<1> HIDE DEF q, x
<1>7. GetNested(AssignAll(flags, <<>>, base, list).doc, q) = x
  BY <1>1, <1>3, <1>4, <1>5, <1>6, Remains, ZenonT(60)
<1> QED
  BY <1>7 DEF q, x

\* What a path does not start with stays out of its reach.
LEMMA OtherKey ==
    ASSUME NEW p \in Paths, p # <<>>, NEW key \in STRING, p[1].key # key
    PROVE  ~Overlap(p, <<Field(key)>>)
<1> DEFINE q == <<Field(key)>>
<1>1. q[1].key = key /\ Len(q) = 1
  BY FieldPath DEF Field
<1> HIDE DEF q
<1>2. Len(p) \in Nat /\ Len(p) # 0
  BY PathLength
<1>3. 1 \in 1 .. (IF Len(p) < Len(q) THEN Len(p) ELSE Len(q))
  BY <1>1, <1>2
<1> QED
  BY <1>1, <1>3 DEF Overlap, q

\* The keys of a template beside the place that its assignments go to.
LEMMA TemplateHeld ==
    ASSUME NEW prefix \in Paths, prefix # <<>>, NEW base, NEW list, Succeeds({}, prefix, base, list),
           NEW key \in STRING, prefix[1].key # key
    PROVE  GetNested(AssignAll({}, prefix, base, list).doc, <<Field(key)>>) = Child(base, Field(key))
<1> DEFINE q == <<Field(key)>>
           x == Child(base, Field(key))
<1>1. q \in Paths /\ q[Len(q)].index = NoIndex
  BY FieldPath DEF Field
<1>2. Len(list) \in Nat /\ IsAssignments(list)
  BY DEF Succeeds, IsAssignments
<1>3. Assigned({}, prefix, base, list)[0].doc = base /\ 0 \in 0 .. Len(list)
  BY AssignStart
<1>4. x = GetNested(Assigned({}, prefix, base, list)[0].doc, q)
  BY <1>3, GetField
<1>5. ASSUME NEW k \in 0 + 1 .. Len(list) PROVE ~Overlap(prefix \o list[k].path, q)
  <2>1. k \in 1 .. Len(list)
    BY <1>2
  <2>2. list[k].path \in Paths
    BY <2>1, AssignStep
  <2> DEFINE r == prefix \o list[k].path
  <2>3. r \in Paths /\ Len(r) = Len(prefix) + Len(list[k].path) /\ \A j \in 1 .. Len(prefix) : r[j] = prefix[j]
    BY <2>2, PathsJoin
  <2>4. Len(prefix) \in Nat /\ Len(prefix) # 0 /\ Len(list[k].path) \in Nat
    BY <2>2, PathLength
  <2>5. r \in Paths /\ r # <<>> /\ r[1].key # key
    <3> HIDE DEF r
    <3> QED
      BY <2>3, <2>4
  <2> HIDE DEF r
  <2>6. ~Overlap(r, q)
    BY <2>5, OtherKey
  <2> QED
    BY <2>6 DEF r
<1>6. Succeeds({}, prefix, base, list)
  OBVIOUS
<1> HIDE DEF q, x
<1>7. GetNested(AssignAll({}, prefix, base, list).doc, q) = x
  BY <1>1, <1>3, <1>4, <1>5, <1>6, Remains
<1> QED
  BY <1>7 DEF q, x

LEMMA EnvelopeHeld ==
    ASSUME NEW spec, NEW input, WellFormedBody(spec, input), spec.template # NoTemplate,
           input.file # NoFile => FileFits(spec, input),
           spec.mergePath # <<>>, NEW key \in STRING, spec.mergePath[1].key # key
    PROVE  Child(Envelope(spec, input), Field(key)) = Child(spec.template, Field(key))
<1>1. spec.template.kind = "object" /\ spec.mergePath \in Paths
  BY DEF WellFormedBody
<1>2. CASE input.file = NoFile
  BY <1>2 DEF Envelope
<1>3. CASE input.file # NoFile
  <2> DEFINE x == spec.template
             p == spec.mergePath
             y == IF input.file = EmptyFile THEN Null ELSE input.file
             q == <<Field(key)>>
  <2>1. Envelope(spec, input) = SetNested(x, p, y)
    BY <1>3 DEF Envelope
  <2>2. x.kind = "object" /\ p \in Paths /\ ~Conflict(x, p) /\ ~Overlap(p, q)
    BY <1>1, <1>3, OtherKey DEF FileFits
  <2>3. q \in Paths /\ q[Len(q)].index = NoIndex
    BY FieldPath DEF Field
  <2> HIDE DEF x, p, y, q
  <2>4. GetNested(SetNested(x, p, y), q) = GetNested(x, q)
    BY <2>2, <2>3, SetKeepsOthers
  <2> QED
    BY <2>1, <2>4, GetField DEF q, x
<1> QED
  BY <1>2, <1>3

\* A file that is an object, merged into the template.
LEMMA FileHeld ==
    ASSUME NEW spec, NEW input, WellFormedBody(spec, input), spec.template # NoTemplate,
           input.file.kind = "object", FileFits(spec, input),
           Succeeds({}, spec.mergePath, Envelope(spec, input), Order(input)),
           NEW key \in STRING, key \in DOMAIN input.file.at,
           ~Reached(input.vars, 1, <<Field(key)>>), ~Reached(input.set, 1, <<Field(key)>>),
           ~Reached(input.setStr, 1, <<Field(key)>>)
    PROVE  GetNested(AssignAll({}, spec.mergePath, Envelope(spec, input), Order(input)).doc,
                     spec.mergePath \o <<Field(key)>>) = input.file.at[key]
<1> DEFINE f == <<Field(key)>>
           p == spec.mergePath
           q == p \o f
           x == input.file.at[key]
           O == Order(input)
           base == Envelope(spec, input)
<1>1. spec.template.kind = "object" /\ p \in Paths /\ f \in Paths /\ Len(f) = 1 /\ f[1] = Field(key)
  BY FieldPath DEF WellFormedBody
<1>2. base = SetNested(spec.template, p, input.file)
  <2>1. NoFile.kind = "absent" /\ EmptyFile.kind = "blank"
    BY DEF NoFile, Absent, EmptyFile
  <2>2. input.file # NoFile /\ input.file # EmptyFile
    BY <2>1
  <2> QED
    BY <2>2 DEF Envelope
<1>3. GetNested(base, q) = x
  <2>1. GetNested(base, q) = Child(input.file, Field(key))
    BY <1>1, <1>2, SetThenBelow
  <2>2. Child(input.file, Field(key)) = x
    BY DEF Child, Field
  <2> QED
    BY <2>1, <2>2
<1>4. q \in Paths /\ q[Len(q)].index = NoIndex
  <2> HIDE DEF p, f
  <2>1. q \in Paths /\ Len(q) = Len(p) + Len(f)
    BY <1>1, PathsJoin
  <2>2. \A k \in 1 .. Len(f) : q[Len(p) + k] = f[k]
    BY <1>1, PathsJoin
  <2>3. Len(p) \in Nat
    BY <1>1, PathLength
  <2> HIDE DEF q
  <2>4. q[Len(q)] = Field(key)
    BY <2>1, <2>2, <2>3, <1>1
  <2> QED
    BY <2>1, <2>4 DEF Field
<1>5. Len(O) \in Nat /\ IsAssignments(O) /\ p \in Paths
  BY DEF Succeeds, IsAssignments
<1>50. Succeeds({}, p, base, O)
  OBVIOUS
<1>6. Assigned({}, p, base, O)[0].doc = base /\ 0 \in 0 .. Len(O)
  <2> HIDE DEF base, O, p
  <2> QED
    BY <1>50, AssignStart
<1>7. ASSUME NEW k \in 0 + 1 .. Len(O) PROVE ~Overlap(p \o O[k].path, q)
  <2>1. k \in 1 .. Len(O)
    BY <1>5
  <2>2. input.vars \in Texts /\ input.set \in Texts /\ input.setStr \in Texts
    BY InputTexts
  <2>3. \/ \E i \in 1 .. Len(input.vars) : O[k].path = input.vars[i].path
        \/ \E i \in 1 .. Len(input.set) : O[k].path = input.set[i].path
        \/ \E i \in 1 .. Len(input.setStr) : O[k].path = input.setStr[i].path
    BY <2>1, <2>2, OrderFrom, ZenonT(60)
  <2>4. ~Overlap(O[k].path, f)
    BY <2>3 DEF Reached
  <2>5. O[k].path \in Paths
    BY <2>1, <1>5 DEF IsAssignments
  <2> QED
    BY <1>1, <1>5, <2>4, <2>5, OverlapBelow
<1>8. x = GetNested(Assigned({}, p, base, O)[0].doc, q)
  BY <1>3, <1>6
<1> HIDE DEF q, x, p, base, O
<1>9. GetNested(AssignAll({}, p, base, O).doc, q) = x
  BY <1>4, <1>50, <1>6, <1>7, <1>8, Remains
<1> QED
  BY <1>9 DEF q, x, p, base, O

LEMMA BodyHolding ==
    ASSUME NEW spec, NEW input, WellFormedBody(spec, input)
    PROVE  BodyHolds(spec, input)
<1> DEFINE body == RequestBody(spec, input)
           prefix == Prefix(spec)
<1> SUFFICES ASSUME body.kind = "json" PROVE BodyHolds(spec, input)
  BY DEF BodyHolds
<1>1. /\ body = AssignAll(Flags(spec, input), Prefix(spec), Base(spec, input), Order(input))
      /\ Succeeds(Flags(spec, input), Prefix(spec), Base(spec, input), Order(input))
      /\ spec.template # NoTemplate /\ input.file # NoFile => FileFits(spec, input)
  BY JsonBody
<1>2. input.vars \in Texts /\ input.set \in Texts /\ input.setStr \in Texts
  BY InputTexts
<1>3. DOMAIN input.setStr = 1 .. Len(input.setStr) /\ DOMAIN input.set = 1 .. Len(input.set)
      /\ DOMAIN input.vars = 1 .. Len(input.vars)
  BY <1>2, TextsShape
<1>4. prefix = IF spec.template = NoTemplate THEN <<>> ELSE spec.mergePath
  BY DEF Prefix
<1>5. ASSUME NEW i \in DOMAIN input.setStr
      PROVE  \/ Reached(input.setStr, i + 1, input.setStr[i].path)
             \/ GetNested(body.doc, prefix \o input.setStr[i].path) = Leaf(input.setStr[i].text)
  BY <1>1, <1>2, <1>3, SetStrHeld DEF Final
<1>6. ASSUME NEW i \in DOMAIN input.set
      PROVE  \/ Reached(input.set, i + 1, input.set[i].path)
             \/ Reached(input.setStr, 1, input.set[i].path)
             \/ GetNested(body.doc, prefix \o input.set[i].path) = InferValue(input.set[i].text)
  BY <1>1, <1>2, <1>3, SetHeld DEF Final
<1>7. ASSUME NEW i \in DOMAIN input.vars
      PROVE  \/ Reached(input.vars, i + 1, input.vars[i].path)
             \/ Reached(input.set, 1, input.vars[i].path)
             \/ Reached(input.setStr, 1, input.vars[i].path)
             \/ GetNested(body.doc, prefix \o input.vars[i].path) = Leaf(input.vars[i].text)
  BY <1>1, <1>2, <1>3, VariableHeld DEF Final
<1>8. ASSUME NEW name \in DOMAIN input.fields
      PROVE  GetNested(body.doc, prefix \o <<Field(name)>>) = input.fields[name]
  <2>1. spec.template = NoTemplate
    BY DEF WellFormedBody
  <2>2. DOMAIN input.fields \subseteq STRING
    BY DEF WellFormedBody, Object
  <2>3. Flags(spec, input) = DOMAIN input.fields /\ prefix = <<>> /\ Base(spec, input) = Object(input.fields)
    BY <2>1 DEF Flags, Prefix, Base
  <2>4. GetNested(body.doc, <<Field(name)>>) = Child(Object(input.fields), Field(name))
    BY <1>1, <2>2, <2>3, FlagHeld
  <2>5. Child(Object(input.fields), Field(name)) = input.fields[name]
    BY DEF Child, Object, Field
  <2>6. prefix \o <<Field(name)>> = <<Field(name)>>
    BY <2>3
  <2> QED
    BY <2>4, <2>5, <2>6
<1>9. ASSUME spec.template # NoTemplate, prefix # <<>>,
             NEW key \in DOMAIN spec.template.at \ {prefix[k].key : k \in DOMAIN prefix}
      PROVE  Child(body.doc, Field(key)) = spec.template.at[key]
  <2>1. Flags(spec, input) = {} /\ prefix = spec.mergePath /\ Base(spec, input) = Envelope(spec, input)
    BY <1>9 DEF Flags, Prefix, Base
  <2>2. spec.template.kind = "object" /\ key \in STRING /\ prefix \in Paths
    BY <1>9, <2>1 DEF WellFormedBody
  <2>3. prefix[1].key # key
    <3>1. Len(prefix) \in Nat /\ Len(prefix) # 0 /\ DOMAIN prefix = 1 .. Len(prefix)
      BY <2>2, <1>9, PathLength, SegmentsOf
    <3>2. 1 \in DOMAIN prefix
      BY <3>1
    <3> QED
      BY <3>2
  <2>4. GetNested(body.doc, <<Field(key)>>) = Child(Envelope(spec, input), Field(key))
    BY <1>1, <1>9, <2>1, <2>2, <2>3, TemplateHeld
  <2>5. Child(Envelope(spec, input), Field(key)) = Child(spec.template, Field(key))
    BY <1>1, <1>9, <2>1, <2>2, <2>3, EnvelopeHeld
  <2>6. Child(spec.template, Field(key)) = spec.template.at[key]
    BY <2>2 DEF Child, Field
  <2> QED
    BY <2>2, <2>4, <2>5, <2>6, GetField
<1>90. input.file.kind = "object" => input.file # NoFile
  <2>1. NoFile.kind = "absent"
    BY DEF NoFile, Absent
  <2> QED
    BY <2>1
<1>10. ASSUME input.file.kind = "object", spec.template # NoTemplate, NEW key \in DOMAIN input.file.at
       PROVE  \/ Reached(input.set, 1, <<Field(key)>>)
              \/ Reached(input.setStr, 1, <<Field(key)>>)
              \/ Reached(input.vars, 1, <<Field(key)>>)
              \/ GetNested(body.doc, prefix \o <<Field(key)>>) = input.file.at[key]
  <2>1. Flags(spec, input) = {} /\ prefix = spec.mergePath /\ Base(spec, input) = Envelope(spec, input)
    BY <1>10 DEF Flags, Prefix, Base
  <2>2. key \in STRING
    BY <1>10 DEF WellFormedBody
  <2>3. FileFits(spec, input)
    BY <1>1, <1>10, <1>90
  <2>4. Succeeds({}, spec.mergePath, Envelope(spec, input), Order(input))
    BY <1>1, <2>1
  <2>5. CASE ~Reached(input.set, 1, <<Field(key)>>) /\ ~Reached(input.setStr, 1, <<Field(key)>>)
             /\ ~Reached(input.vars, 1, <<Field(key)>>)
    <3>1. GetNested(AssignAll({}, spec.mergePath, Envelope(spec, input), Order(input)).doc,
                    spec.mergePath \o <<Field(key)>>) = input.file.at[key]
      BY <1>10, <2>2, <2>3, <2>4, <2>5, FileHeld
    <3> QED
      BY <1>1, <2>1, <3>1
  <2> QED
    BY <2>5
<1> HIDE DEF body
<1> QED
  BY <1>4, <1>5, <1>6, <1>7, <1>8, <1>9, <1>10 DEF BodyHolds, Reached, body

-----------------------------------------------------------------------------
(* Values that are picked *)

PickedTo(list, places) ==
    LET picked[k \in 0 .. Len(list)] ==
            IF k = 0 THEN <<>> ELSE IF k \in places THEN Append(picked[k - 1], list[k]) ELSE picked[k - 1]
    IN picked

LEMMA PickedIs ==
    ASSUME NEW list, NEW places, Len(list) \in Nat
    PROVE  /\ PickedTo(list, places)[0] = <<>>
           /\ \A k \in 1 .. Len(list) :
                PickedTo(list, places)[k] =
                  IF k \in places THEN Append(PickedTo(list, places)[k - 1], list[k])
                  ELSE PickedTo(list, places)[k - 1]
           /\ Picked(list, places) = PickedTo(list, places)[Len(list)]
<1> DEFINE n == Len(list)
           Add(x, k) == IF k \in places THEN Append(x, list[k]) ELSE x
           Stage(f, k) == IF k = 0 THEN <<>> ELSE Add(f[k - 1], k)
           S == {m \in 0 .. n : \E f : f = [k \in 0 .. m |-> Stage(f, k)]}
<1>1. 0 \in S
  <2> DEFINE g == [k \in 0 .. 0 |-> <<>>]
  <2>1. g = [k \in 0 .. 0 |-> Stage(g, k)]
    OBVIOUS
  <2>2. \E f : f = [k \in 0 .. 0 |-> Stage(f, k)]
    <3> HIDE DEF g, Stage
    <3> QED
      BY <2>1
  <2> QED
    BY <2>2
<1>2. ASSUME NEW m \in 0 .. n, m < n, m \in S PROVE m + 1 \in S
  <2>1. PICK f : f = [k \in 0 .. m |-> Stage(f, k)]
    BY <1>2
  <2> DEFINE g == [k \in 0 .. m + 1 |-> IF k = m + 1 THEN Add(f[m], m + 1) ELSE f[k]]
  <2> HIDE DEF Add
  <2>2. ASSUME NEW k \in 0 .. m + 1 PROVE g[k] = Stage(g, k)
    <3>1. CASE k = m + 1
      BY <3>1
    <3>2. CASE k \in 0 .. m
      BY <3>2, <2>1
    <3> QED
      BY <3>1, <3>2
  <2>3. g = [k \in 0 .. m + 1 |-> Stage(g, k)]
    BY <2>2
  <2>4. \E h : h = [k \in 0 .. m + 1 |-> Stage(h, k)]
    <3> HIDE DEF g, Stage
    <3> QED
      BY <2>3
  <2>5. m + 1 \in 0 .. n
    BY <1>2
  <2> HIDE DEF g, Stage, n
  <2> QED
    BY <2>4, <2>5
<1>3. n \in S
  <2>1. n \in Nat /\ n \in 0 .. n
    OBVIOUS
  <2>2. \A k \in 0 .. n : (k < n /\ k \in S) => k + 1 \in S
    BY <1>2
  <2> HIDE DEF S, n
  <2> QED
    BY <1>1, <2>1, <2>2, Climb
<1>4. PICK f : f = [k \in 0 .. n |-> Stage(f, k)]
  BY <1>3
<1>5. PickedTo(list, places) = [k \in 0 .. n |-> Stage(PickedTo(list, places), k)]
  BY <1>4 DEF PickedTo
<1>6. Picked(list, places) = PickedTo(list, places)[n]
  BY DEF Picked, PickedTo
<1>7. PickedTo(list, places)[0] = <<>>
  BY <1>5
<1>8. ASSUME NEW k \in 1 .. n PROVE PickedTo(list, places)[k] = Add(PickedTo(list, places)[k - 1], k)
  <2> HIDE DEF Add
  <2> QED
    BY <1>5
<1> QED
  BY <1>6, <1>7, <1>8

\* What is picked from a list with one more element.
LEMMA PickedNext ==
    ASSUME NEW n \in Nat, NEW list, Len(list) = n, NEW longer, Len(longer) = n + 1,
           \A i \in 1 .. n : longer[i] = list[i],
           NEW places, NEW more, \A i \in 1 .. n : i \in places <=> i \in more
    PROVE  Picked(longer, more) =
             IF n + 1 \in more THEN Append(Picked(list, places), longer[n + 1]) ELSE Picked(list, places)
<1> DEFINE P == PickedTo(list, places)
           Q == PickedTo(longer, more)
           S == {k \in 0 .. n : Q[k] = P[k]}
<1>1. P[0] = <<>> /\ Picked(list, places) = P[n]
      /\ \A k \in 1 .. n : P[k] = IF k \in places THEN Append(P[k - 1], list[k]) ELSE P[k - 1]
  BY PickedIs
<1>2. Q[0] = <<>> /\ Picked(longer, more) = Q[n + 1]
      /\ \A k \in 1 .. n + 1 : Q[k] = IF k \in more THEN Append(Q[k - 1], longer[k]) ELSE Q[k - 1]
  BY PickedIs
<1> HIDE DEF P, Q
<1>3. 0 \in S
  BY <1>1, <1>2
<1>4. ASSUME NEW k \in 0 .. n, k < n, k \in S PROVE k + 1 \in S
  <2>1. k + 1 \in 1 .. n /\ k + 1 \in 1 .. n + 1 /\ k + 1 - 1 = k /\ Q[k] = P[k]
    BY <1>4
  <2>2. longer[k + 1] = list[k + 1] /\ (k + 1 \in places <=> k + 1 \in more)
    BY <2>1
  <2>3. P[k + 1] = IF k + 1 \in places THEN Append(P[k], list[k + 1]) ELSE P[k]
    BY <1>1, <2>1
  <2>4. Q[k + 1] = IF k + 1 \in more THEN Append(Q[k], longer[k + 1]) ELSE Q[k]
    BY <1>2, <2>1
  <2>5. Q[k + 1] = P[k + 1]
    BY <2>1, <2>2, <2>3, <2>4
  <2> QED
    BY <2>1, <2>5
<1>5. n \in S
  <2>1. \A k \in 0 .. n : (k < n /\ k \in S) => k + 1 \in S
    BY <1>4
  <2>2. n \in 0 .. n
    OBVIOUS
  <2> HIDE DEF S
  <2> QED
    BY <1>3, <2>1, <2>2, Climb
<1>6. Q[n] = P[n]
  BY <1>5
<1>7. n + 1 \in 1 .. n + 1 /\ n + 1 - 1 = n
  OBVIOUS
<1> QED
  BY <1>1, <1>2, <1>6, <1>7

\* What is picked comes from the places.
LEMMA PickedFrom ==
    ASSUME NEW list, Len(list) \in Nat, NEW places, NEW T, \A i \in 1 .. Len(list) : i \in places => list[i] \in T
    PROVE  Picked(list, places) \in Seq(T)
<1> DEFINE n == Len(list)
           P == PickedTo(list, places)
           S == {k \in 0 .. n : P[k] \in Seq(T)}
<1>1. P[0] = <<>> /\ Picked(list, places) = P[n]
      /\ \A k \in 1 .. n : P[k] = IF k \in places THEN Append(P[k - 1], list[k]) ELSE P[k - 1]
  BY PickedIs
<1> HIDE DEF P
<1>2. 0 \in S
  <2>1. <<>> \in Seq(T) /\ 0 \in 0 .. n
    OBVIOUS
  <2> QED
    BY <1>1, <2>1
<1>3. ASSUME NEW k \in 0 .. n, k < n, k \in S PROVE k + 1 \in S
  <2>1. k + 1 \in 1 .. n /\ k + 1 - 1 = k /\ P[k] \in Seq(T)
    BY <1>3
  <2>2. P[k + 1] = IF k + 1 \in places THEN Append(P[k], list[k + 1]) ELSE P[k]
    BY <1>1, <2>1
  <2>3. P[k + 1] \in Seq(T)
    <3>1. CASE k + 1 \in places
      <4>1. list[k + 1] \in T
        BY <2>1, <3>1
      <4> QED
        BY <2>1, <2>2, <3>1, <4>1
    <3> QED
      BY <2>1, <2>2, <3>1
  <2> QED
    BY <2>1, <2>3
<1>4. n \in S
  <2>1. \A k \in 0 .. n : (k < n /\ k \in S) => k + 1 \in S
    BY <1>3
  <2>2. n \in Nat /\ n \in 0 .. n
    OBVIOUS
  <2> HIDE DEF S, n
  <2> QED
    BY <1>2, <2>1, <2>2, Climb
<1> QED
  BY <1>1, <1>4

-----------------------------------------------------------------------------
(* Fields *)

LEMMA ReducedIs ==
    ASSUME NEW policy, NEW event, NEW payload, NEW taken, Len(policy.fields) \in Nat
    PROVE  /\ Reduced(policy, event, payload, taken)[0] = taken
           /\ \A k \in 1 .. Len(policy.fields) :
                Reduced(policy, event, payload, taken)[k] =
                  ReduceField(event, payload, Reduced(policy, event, payload, taken)[k - 1], policy.fields[k])
<1> DEFINE n == Len(policy.fields)
           Stage(f, k) == IF k = 0 THEN taken ELSE ReduceField(event, payload, f[k - 1], policy.fields[k])
           S == {m \in 0 .. n : \E f : f = [k \in 0 .. m |-> Stage(f, k)]}
<1>1. 0 \in S
  <2> DEFINE g == [k \in 0 .. 0 |-> taken]
  <2>1. g = [k \in 0 .. 0 |-> Stage(g, k)]
    OBVIOUS
  <2>2. \E f : f = [k \in 0 .. 0 |-> Stage(f, k)]
    <3> HIDE DEF g, Stage
    <3> QED
      BY <2>1
  <2> QED
    BY <2>2
<1>2. ASSUME NEW m \in 0 .. n, m < n, m \in S PROVE m + 1 \in S
  <2>1. PICK f : f = [k \in 0 .. m |-> Stage(f, k)]
    BY <1>2
  <2> DEFINE g == [k \in 0 .. m + 1 |->
                     IF k = m + 1 THEN ReduceField(event, payload, f[m], policy.fields[m + 1]) ELSE f[k]]
  <2>2. ASSUME NEW k \in 0 .. m + 1 PROVE g[k] = Stage(g, k)
    <3>1. CASE k = m + 1
      BY <3>1
    <3>2. CASE k \in 0 .. m
      BY <3>2, <2>1
    <3> QED
      BY <3>1, <3>2
  <2>3. g = [k \in 0 .. m + 1 |-> Stage(g, k)]
    BY <2>2
  <2>4. \E h : h = [k \in 0 .. m + 1 |-> Stage(h, k)]
    <3> HIDE DEF g, Stage
    <3> QED
      BY <2>3
  <2>5. m + 1 \in 0 .. n
    BY <1>2
  <2> HIDE DEF g, Stage, n
  <2> QED
    BY <2>4, <2>5
<1>3. n \in S
  <2>1. n \in Nat /\ n \in 0 .. n
    OBVIOUS
  <2>2. \A k \in 0 .. n : (k < n /\ k \in S) => k + 1 \in S
    BY <1>2
  <2> HIDE DEF S, n
  <2> QED
    BY <1>1, <2>1, <2>2, Climb
<1>4. PICK f : f = [k \in 0 .. n |-> Stage(f, k)]
  BY <1>3
<1>5. Reduced(policy, event, payload, taken) = [k \in 0 .. n |-> Stage(Reduced(policy, event, payload, taken), k)]
  BY <1>4 DEF Reduced
<1> QED
  BY <1>5

IsTaken(t) == t = [doc |-> t.doc, live |-> t.live, state |-> t.state] /\ t.doc.kind = "object"

\* What an event leaves as it is in a field, and what it makes of it.
Passed(field, event, payload, x) ==
    \/ event \notin field.events \/ FieldValue(field, payload) = Absent
    \/ field.reduce = "first" /\ x # Absent

Reduction(field, event, payload, x) ==
    IF Passed(field, event, payload, x) THEN x ELSE Combine(field.reduce, x, FieldValue(field, payload))

LEMMA TakenFails ==
    ASSUME NEW t, IsTaken(t), NEW s
    PROVE  LET u == [t EXCEPT !.state = s]
           IN IsTaken(u) /\ u.state = s /\ u.doc = t.doc /\ u.live = t.live
<1> DEFINE x == t.doc
           l == t.live
           z == t.state
<1>1. t = [doc |-> x, live |-> l, state |-> z] /\ x.kind = "object"
  BY DEF IsTaken
<1> HIDE DEF x, l, z
<1> QED
  BY <1>1 DEF IsTaken

LEMMA TakenSets ==
    ASSUME NEW t, IsTaken(t), NEW y, y.kind = "object"
    PROVE  LET u == [t EXCEPT !.doc = y]
           IN IsTaken(u) /\ u.state = t.state /\ u.doc = y /\ u.live = t.live
<1> DEFINE x == t.doc
           l == t.live
           z == t.state
<1>1. t = [doc |-> x, live |-> l, state |-> z]
  BY DEF IsTaken
<1> HIDE DEF x, l, z
<1> QED
  BY <1>1 DEF IsTaken

LEMMA TakenShows ==
    ASSUME NEW t, IsTaken(t), NEW y
    PROVE  LET u == [t EXCEPT !.live = y]
           IN IsTaken(u) /\ u.state = t.state /\ u.doc = t.doc /\ u.live = y
<1> DEFINE x == t.doc
           l == t.live
           z == t.state
<1>1. t = [doc |-> x, live |-> l, state |-> z] /\ x.kind = "object"
  BY DEF IsTaken
<1> HIDE DEF x, l, z
<1> QED
  BY <1>1 DEF IsTaken

LEMMA ReduceStep ==
    ASSUME NEW event, NEW payload, NEW t, IsTaken(t), NEW field, field.to \in Paths, field.to # <<>>
    PROVE  LET r == ReduceField(event, payload, t, field)
               x == GetNested(t.doc, field.to)
           IN /\ IsTaken(r) /\ r.live = t.live
              /\ r.state \in {t.state, "failed"}
              /\ r.state = "on" => t.state = "on"
              /\ r.state = "on" =>
                   \/ Passed(field, event, payload, x) /\ r.doc = t.doc
                   \/ /\ ~Passed(field, event, payload, x) /\ ~Conflict(t.doc, field.to)
                      /\ Reduction(field, event, payload, x) # NotJSON
                      /\ r.doc = SetNested(t.doc, field.to, Reduction(field, event, payload, x))
<1> DEFINE r == ReduceField(event, payload, t, field)
           x == GetNested(t.doc, field.to)
           made == Combine(field.reduce, x, FieldValue(field, payload))
           new == SetNested(t.doc, field.to, made)
<1>1. CASE t.state # "on" \/ Passed(field, event, payload, x)
  <2>1. r = t
    BY <1>1, Zenon DEF ReduceField, Passed
  <2> QED
    BY <2>1, <1>1
<1>2. CASE t.state = "on" /\ ~Passed(field, event, payload, x) /\ (made = NotJSON \/ Conflict(t.doc, field.to))
  <2>1. r = [t EXCEPT !.state = "failed"]
    BY <1>2, Zenon DEF ReduceField, Passed
  <2> QED
    BY <2>1, TakenFails
<1>3. CASE t.state = "on" /\ ~Passed(field, event, payload, x) /\ made # NotJSON /\ ~Conflict(t.doc, field.to)
  <2>1. r = [t EXCEPT !.doc = new]
    <3>1. r = [t EXCEPT !.doc = SetNested(@, field.to, made)]
      BY <1>3, Zenon DEF ReduceField, Passed
    <3> HIDE DEF made
    <3> QED
      BY <3>1
  <2>2. new.kind = "object"
    BY SetIsObject DEF IsTaken
  <2>3. Reduction(field, event, payload, x) = made
    BY <1>3 DEF Reduction
  <2> HIDE DEF r, made, new
  <2>4. IsTaken(r) /\ r.state = t.state /\ r.doc = new /\ r.live = t.live
    BY <2>1, <2>2, TakenSets
  <2> QED
    BY <2>3, <2>4, <1>3 DEF new, r
<1> QED
  BY <1>1, <1>2, <1>3

LEMMA ReduceSteps ==
    ASSUME NEW policy, IsPolicy(policy), NEW event, NEW payload, NEW taken, IsTaken(taken)
    PROVE  \A k \in 0 .. Len(policy.fields) :
             /\ IsTaken(Reduced(policy, event, payload, taken)[k])
             /\ Reduced(policy, event, payload, taken)[k].live = taken.live
             /\ Reduced(policy, event, payload, taken)[k].state \in {taken.state, "failed"}
<1> DEFINE n == Len(policy.fields)
           T(k) == Reduced(policy, event, payload, taken)[k]
           S == {k \in 0 .. n : IsTaken(T(k)) /\ T(k).live = taken.live /\ T(k).state \in {taken.state, "failed"}}
<1>1. n \in Nat /\ \A k \in 1 .. n : policy.fields[k].to \in Paths /\ policy.fields[k].to # <<>>
  BY DEF IsPolicy
<1>2. T(0) = taken /\ \A k \in 1 .. n : T(k) = ReduceField(event, payload, T(k - 1), policy.fields[k])
  BY <1>1, ReducedIs
<1> HIDE DEF T
<1>3. 0 \in S
  BY <1>1, <1>2
<1>4. ASSUME NEW k \in 0 .. n, k < n, k \in S PROVE k + 1 \in S
  <2>1. k + 1 \in 1 .. n /\ k + 1 - 1 = k /\ k + 1 \in 0 .. n
    BY <1>1, <1>4
  <2>2. T(k + 1) = ReduceField(event, payload, T(k), policy.fields[k + 1])
    BY <1>2, <2>1
  <2>3. IsTaken(T(k)) /\ T(k).live = taken.live /\ T(k).state \in {taken.state, "failed"}
    BY <1>4
  <2>4. policy.fields[k + 1].to \in Paths /\ policy.fields[k + 1].to # <<>>
    BY <1>1, <2>1
  <2>5. IsTaken(T(k + 1)) /\ T(k + 1).live = taken.live /\ T(k + 1).state \in {taken.state, "failed"}
    BY <2>2, <2>3, <2>4, ReduceStep
  <2> QED
    BY <2>1, <2>5
<1>5. \A k \in 0 .. n : k \in S
  <2>1. \A k \in 0 .. n : (k < n /\ k \in S) => k + 1 \in S
    BY <1>4
  <2> HIDE DEF S, n
  <2> QED
    BY <1>1, <1>3, <2>1, Climb
<1> QED
  BY <1>5 DEF T

\* A reduction that goes on has gone on at each field.
LEMMA ReduceGoesOn ==
    ASSUME NEW policy, IsPolicy(policy), NEW event, NEW payload, NEW taken, IsTaken(taken),
           Reduce(policy, event, payload, taken).state = "on"
    PROVE  \A k \in 0 .. Len(policy.fields) : Reduced(policy, event, payload, taken)[k].state = "on"
<1> DEFINE n == Len(policy.fields)
           T(k) == Reduced(policy, event, payload, taken)[k]
           R == {k \in 0 .. n : T(n - k).state = "on"}
<1>1. n \in Nat /\ \A k \in 1 .. n : policy.fields[k].to \in Paths /\ policy.fields[k].to # <<>>
  BY DEF IsPolicy
<1>2. \A k \in 1 .. n : T(k) = ReduceField(event, payload, T(k - 1), policy.fields[k])
  BY <1>1, ReducedIs
<1>3. \A k \in 0 .. n : IsTaken(T(k))
  BY ReduceSteps
<1>4. T(n).state = "on"
  BY DEF Reduce
<1> HIDE DEF T
<1>5. 0 \in R
  BY <1>1, <1>4
<1>6. ASSUME NEW k \in 0 .. n, k < n, k \in R PROVE k + 1 \in R
  <2>1. PICK j \in 1 .. n : j = n - k /\ j - 1 = n - (k + 1) /\ j - 1 \in 0 .. n
    <3>1. n - k \in 1 .. n /\ n - k - 1 = n - (k + 1) /\ n - k - 1 \in 0 .. n
      BY <1>1, <1>6
    <3> QED
      BY <3>1
  <2>2. T(j) = ReduceField(event, payload, T(j - 1), policy.fields[j]) /\ T(j).state = "on" /\ IsTaken(T(j - 1))
    BY <2>1, <1>2, <1>3, <1>6
  <2>3. policy.fields[j].to \in Paths /\ policy.fields[j].to # <<>>
    BY <1>1
  <2>4. T(j - 1).state = "on"
    BY <2>2, <2>3, ReduceStep
  <2>5. k + 1 \in 0 .. n
    BY <1>1, <1>6
  <2> QED
    BY <2>1, <2>4, <2>5
<1>7. \A k \in 0 .. n : k \in R
  <2>1. \A k \in 0 .. n : (k < n /\ k \in R) => k + 1 \in R
    BY <1>6
  <2> HIDE DEF R, n
  <2> QED
    BY <1>1, <1>5, <2>1, Climb
<1>8. ASSUME NEW k \in 0 .. n PROVE T(k).state = "on"
  <2>1. n - k \in 0 .. n /\ n - (n - k) = k
    BY <1>1
  <2>2. n - k \in R
    BY <2>1, <1>7
  <2> QED
    BY <2>1, <2>2
<1> QED
  BY <1>8 DEF T

\* What one field does to what is at a place.
LEMMA ReduceAt ==
    ASSUME NEW policy, IsPolicy(policy), Apart(policy.fields), NEW event, NEW payload, NEW taken, IsTaken(taken),
           Reduce(policy, event, payload, taken).state = "on",
           NEW k \in 1 .. Len(policy.fields), NEW j \in 1 .. Len(policy.fields)
    PROVE  LET place == policy.fields[k].to
               before == GetNested(Reduced(policy, event, payload, taken)[j - 1].doc, place)
               after == GetNested(Reduced(policy, event, payload, taken)[j].doc, place)
           IN /\ after = IF j = k THEN Reduction(policy.fields[k], event, payload, before) ELSE before
              /\ j = k => \/ Passed(policy.fields[k], event, payload, before)
                         \/ Reduction(policy.fields[k], event, payload, before) # NotJSON
<1> DEFINE n == Len(policy.fields)
           t == Reduced(policy, event, payload, taken)[j - 1]
           r == Reduced(policy, event, payload, taken)[j]
           p == policy.fields[j].to
           q == policy.fields[k].to
           x == GetNested(t.doc, p)
           y == Reduction(policy.fields[j], event, payload, x)
<1>1. n \in Nat /\ j - 1 \in 0 .. n /\ j \in 0 .. n
  BY DEF IsPolicy
<1>2. p \in Paths /\ p # <<>> /\ q \in Paths
  BY DEF IsPolicy
<1>3. r = ReduceField(event, payload, t, policy.fields[j]) /\ IsTaken(t) /\ r.state = "on"
  BY <1>1, ReducedIs, ReduceSteps, ReduceGoesOn
<1>4. \/ Passed(policy.fields[j], event, payload, x) /\ r.doc = t.doc
      \/ ~Passed(policy.fields[j], event, payload, x) /\ ~Conflict(t.doc, p) /\ r.doc = SetNested(t.doc, p, y)
         /\ y # NotJSON
  <2> HIDE DEF t, r
  <2> QED
    BY <1>2, <1>3, ReduceStep
<1>5. t.doc.kind = "object"
  BY <1>3 DEF IsTaken
<1>6. q[Len(q)].index = NoIndex /\ (j # k => ~Overlap(p, q))
  BY DEF Apart
<1>7. CASE Passed(policy.fields[j], event, payload, x) /\ r.doc = t.doc
  <2>1. y = x
    BY <1>7 DEF Reduction
  <2> HIDE DEF t, r, y
  <2> QED
    BY <1>7, <2>1 DEF t, r, y
<1>8. CASE ~Conflict(t.doc, p) /\ r.doc = SetNested(t.doc, p, y) /\ y # NotJSON
  <2>1. CASE j = k
    <3> DEFINE base == t.doc
    <3>1. base.kind = "object" /\ r.doc = SetNested(base, p, y)
      BY <1>5, <1>8
    <3> HIDE DEF base, y, p, r
    <3>2. GetNested(r.doc, p) = y
      BY <3>1, <1>2, SetThenGet
    <3> QED
      BY <1>8, <3>2, <2>1 DEF y, p, r
  <2>2. CASE j # k
    <3> DEFINE base == t.doc
    <3>1. base.kind = "object" /\ r.doc = SetNested(base, p, y) /\ ~Conflict(base, p) /\ ~Overlap(p, q)
      BY <1>5, <1>6, <1>8, <2>2
    <3> HIDE DEF base, y, p, r, q
    <3>2. GetNested(r.doc, q) = GetNested(base, q)
      BY <3>1, <1>2, <1>6, SetKeepsOthers
    <3> QED
      BY <3>2, <2>2 DEF base, r, q
  <2> QED
    BY <2>1, <2>2
<1> QED
  BY <1>4, <1>7, <1>8

\* A field holds what its own reduction makes of what it held.
LEMMA ReduceHolds ==
    ASSUME NEW policy, IsPolicy(policy), Apart(policy.fields), NEW event, NEW payload, NEW taken, IsTaken(taken),
           Reduce(policy, event, payload, taken).state = "on", NEW k \in 1 .. Len(policy.fields)
    PROVE  LET x == GetNested(taken.doc, policy.fields[k].to)
               y == Reduction(policy.fields[k], event, payload, x)
           IN /\ GetNested(Reduce(policy, event, payload, taken).doc, policy.fields[k].to) = y
              /\ Passed(policy.fields[k], event, payload, x) \/ y # NotJSON
<1> DEFINE n == Len(policy.fields)
           G(j) == GetNested(Reduced(policy, event, payload, taken)[j].doc, policy.fields[k].to)
           x == GetNested(taken.doc, policy.fields[k].to)
           y == Reduction(policy.fields[k], event, payload, x)
           S == {j \in 0 .. n : G(j) = IF j < k THEN x ELSE y}
<1>1. n \in Nat /\ 0 \in 0 .. n
  BY DEF IsPolicy
<1>2. Reduced(policy, event, payload, taken)[0] = taken
  BY <1>1, ReducedIs
<1>3. 0 \in S
  BY <1>1, <1>2
<1>4. \A j \in 1 .. n : G(j) = IF j = k THEN Reduction(policy.fields[k], event, payload, G(j - 1)) ELSE G(j - 1)
  BY ReduceAt
<1>5. ASSUME NEW j \in 0 .. n, j < n, j \in S PROVE j + 1 \in S
  <2> HIDE DEF G
  <2>1. j + 1 \in 1 .. n /\ j + 1 - 1 = j /\ j + 1 \in 0 .. n /\ G(j) = IF j < k THEN x ELSE y
    BY <1>1, <1>5
  <2>2. G(j + 1) = IF j + 1 = k THEN Reduction(policy.fields[k], event, payload, G(j)) ELSE G(j)
    BY <1>4, <2>1
  <2>3. k \in Nat /\ n \in Nat /\ j \in Nat
    BY <1>1
  <2>4. CASE j + 1 = k
    <3>1. G(j) = x /\ ~(j + 1 < k)
      BY <2>1, <2>3, <2>4
    <3>2. G(j + 1) = y
      BY <2>2, <2>4, <3>1
    <3> QED
      BY <2>1, <3>1, <3>2
  <2>5. CASE j + 1 # k
    <3>1. j < k <=> j + 1 < k
      BY <2>3, <2>5
    <3>2. G(j + 1) = IF j + 1 < k THEN x ELSE y
      BY <2>1, <2>2, <2>5, <3>1
    <3> QED
      BY <2>1, <3>2
  <2> QED
    BY <2>4, <2>5
<1>6. \A j \in 0 .. n : j \in S
  <2>1. \A j \in 0 .. n : (j < n /\ j \in S) => j + 1 \in S
    BY <1>5
  <2> HIDE DEF S, n
  <2> QED
    BY <1>1, <1>3, <2>1, Climb
<1>7. n \in 0 .. n /\ ~(n < k) /\ k - 1 \in 0 .. n /\ k - 1 < k
  BY <1>1
<1>8. Passed(policy.fields[k], event, payload, G(k - 1)) \/ Reduction(policy.fields[k], event, payload, G(k - 1)) # NotJSON
  BY ReduceAt
<1> HIDE DEF y, G
<1>9. G(n) = y /\ G(k - 1) = x
  BY <1>6, <1>7
<1> QED
  BY <1>9, <1>8 DEF Reduce, y, G

-----------------------------------------------------------------------------
(* What events say *)

LEMMA DecodeEvent ==
    ASSUME NEW e, IsEvent(e), e.data # <<>>
    PROVE  Decode(e.data) = e.payload
<1>1. CASE e.data = <<NotJSON>> /\ e.payload = NotJSON
  <2> DEFINE x == NotJSON
             d == <<x>>
  <2>1. x.kind = "garbage"
    BY DEF NotJSON
  <2>2. Len(d) = 1 /\ d[1] = x
    OBVIOUS
  <2> HIDE DEF x, d
  <2>3. Decode(d) = NotJSON
    BY <2>1, <2>2 DEF Decode, NoDocument
  <2> QED
    BY <1>1, <2>3 DEF d, x
<1>2. CASE e.payload.kind \notin NoDocument /\ e.data = <<e.payload>>
  BY <1>2 DEF Decode
<1>3. CASE e.payload.kind \notin NoDocument /\ e.data = <<Half("left", e.payload), Half("right", e.payload)>>
  <2> DEFINE l == Half("left", e.payload)
             r == Half("right", e.payload)
             d == <<l, r>>
  <2>1. l.kind = "left" /\ r.kind = "right" /\ l.at = e.payload /\ r.at = e.payload
    BY DEF Half
  <2>2. Len(d) = 2 /\ d[1] = l /\ d[2] = r
    OBVIOUS
  <2> HIDE DEF l, r, d
  <2>3. Decode(d) = e.payload
    BY <2>1, <2>2 DEF Decode
  <2> QED
    BY <1>3, <2>3 DEF d, l, r
<1> QED
  BY <1>1, <1>2, <1>3 DEF IsEvent

LEMMA NameOf ==
    ASSUME NEW policy, NEW e, IsEvent(e), Named(policy, e), e.payload # NotJSON
    PROVE  EventName(policy, e.event, e.payload) = e.name
<1>1. CASE e.event # ""
  BY <1>1 DEF EventName, IsEvent
<1>2. CASE e.event = "" /\ policy.namePath = <<>>
  BY <1>2 DEF EventName, Named
<1>3. CASE e.event = "" /\ policy.namePath # <<>>
  <2> DEFINE name == GetNested(e.payload, policy.namePath)
  <2>1. name = Leaf(e.name) \/ (name.kind # "leaf" /\ e.name = "")
    BY <1>3 DEF Named
  <2>2. EventName(policy, e.event, e.payload) = IF name.kind = "leaf" THEN name.at ELSE ""
    BY <1>3 DEF EventName
  <2> HIDE DEF name
  <2>3. name = Leaf(e.name) => name.kind = "leaf" /\ name.at = e.name
    BY DEF Leaf
  <2> QED
    BY <2>1, <2>2, <2>3
<1> QED
  BY <1>1, <1>2, <1>3

LEMMA LongerText ==
    ASSUME NEW n \in Nat, NEW f, NEW g, NEW z,
           \A i \in 1 .. n : g[i] = f[i], g[n + 1] = z
    PROVE  Append([i \in 1 .. n |-> f[i]], z) = [i \in 1 .. n + 1 |-> g[i]]
<1> DEFINE S == {f[i] : i \in 1 .. n} \cup {z}
           F == [i \in 1 .. n |-> f[i]]
<1>1. F \in [1 .. n -> S] /\ z \in S
  OBVIOUS
<1> HIDE DEF S
<1>2. F \in Seq(S) /\ Len(F) = n
  BY <1>1
<1> HIDE DEF F
<1>3. Append(F, z) \in Seq(S) /\ Len(Append(F, z)) = n + 1 /\ Append(F, z)[n + 1] = z
      /\ \A i \in 1 .. n : Append(F, z)[i] = F[i]
  BY <1>1, <1>2
<1>4. \A i \in 1 .. n : F[i] = f[i]
  BY DEF F
<1>5. Append(F, z) = [i \in 1 .. n + 1 |-> Append(F, z)[i]]
  <2> DEFINE h == Append(F, z)
             m == n + 1
  <2>1. h \in Seq(S) /\ Len(h) = m /\ m \in Nat
    BY <1>3
  <2> HIDE DEF h, m
  <2>2. h = [i \in 1 .. m |-> h[i]]
    BY <2>1
  <2> QED
    BY <2>2 DEF h, m
<1>6. \A i \in 1 .. n + 1 : Append(F, z)[i] = g[i]
  BY <1>3, <1>4
<1> QED
  BY <1>5, <1>6 DEF F

\* One more value.
LEMMA GatheredNext ==
    ASSUME NEW field, field.reduce \in {"first", "last", "concat", "append"},
           NEW T, Absent \notin T, NEW values \in Seq(T), NEW v \in T
    PROVE  LET x == Gathered(field, values)
               y == Combine(field.reduce, x, v)
           IN /\ (field.reduce = "first" /\ x # Absent) => Gathered(field, Append(values, v)) = x
              /\ (~(field.reduce = "first" /\ x # Absent) /\ y # NotJSON) => Gathered(field, Append(values, v)) = y
<1> DEFINE n == Len(values)
           longer == Append(values, v)
           x == Gathered(field, values)
           y == Combine(field.reduce, x, v)
<1>1. /\ n \in Nat /\ longer \in Seq(T) /\ Len(longer) = n + 1 /\ longer # <<>> /\ longer[n + 1] = v
      /\ \A i \in 1 .. n : longer[i] = values[i]
      /\ values # <<>> => n # 0 /\ values[1] \in T /\ longer[1] = values[1]
      /\ values = <<>> => n = 0
  <2>1. n \in Nat /\ (values = <<>> => n = 0)
    OBVIOUS
  <2>2. longer \in Seq(T) /\ Len(longer) = n + 1 /\ longer[n + 1] = v
    OBVIOUS
  <2>3. \A i \in 1 .. n : longer[i] = values[i]
    OBVIOUS
  <2>4. values # <<>> => n # 0 /\ values[1] \in T
    OBVIOUS
  <2> HIDE DEF longer, n
  <2>5. longer # <<>>
    <3>1. Len(longer) # 0
      BY <2>1, <2>2
    <3> QED
      BY <3>1
  <2>6. values # <<>> => longer[1] = values[1]
    BY <2>1, <2>3, <2>4
  <2> QED
    BY <2>1, <2>2, <2>3, <2>4, <2>5, <2>6
<1>2. v # Absent /\ Absent.kind = "absent"
  BY DEF Absent
<1> HIDE DEF longer
<1>3. CASE field.reduce = "first"
  <2>1. Gathered(field, longer) = longer[1]
    BY <1>1, <1>3 DEF Gathered
  <2>2. CASE values = <<>>
    <3>1. x = Absent /\ y = v /\ longer[1] = v
      BY <1>1, <1>3, <2>2 DEF Gathered, Combine
    <3> QED
      BY <2>1, <3>1 DEF longer
  <2>3. CASE values # <<>>
    <3>1. x = values[1] /\ x # Absent
      BY <1>1, <1>3, <2>3 DEF Gathered
    <3> HIDE DEF x
    <3> QED
      BY <1>1, <1>3, <2>1, <2>3, <3>1 DEF longer, x
  <2> QED
    BY <2>2, <2>3
<1>4. CASE field.reduce = "last"
  <2>1. Gathered(field, longer) = longer[n + 1]
    BY <1>1, <1>4 DEF Gathered
  <2>2. y = v
    BY <1>4 DEF Combine
  <2> QED
    BY <1>1, <1>4, <2>1, <2>2 DEF longer
<1>5. CASE field.reduce = "append"
  <2>1. Gathered(field, longer) = Array(longer)
    BY <1>1, <1>5 DEF Gathered
  <2>2. y = Array(longer)
    <3>1. CASE values = <<>>
      <4>1. x = Absent /\ longer = <<v>>
        BY <3>1 DEF Gathered, longer
      <4> HIDE DEF x
      <4> QED
        BY <1>5, <4>1 DEF Combine
    <3>2. CASE values # <<>>
      <4>1. x = Array(values)
        BY <1>5, <3>2 DEF Gathered
      <4>2. x.kind = "array" /\ x.at = values
        BY <4>1 DEF Array
      <4> HIDE DEF x
      <4> QED
        BY <1>2, <1>5, <4>2 DEF Combine, longer
    <3> QED
      BY <3>1, <3>2
  <2> QED
    BY <1>5, <2>1, <2>2 DEF longer
<1>6. CASE field.reduce = "concat"
  <2> DEFINE f == [i \in 1 .. n |-> values[i].at]
  <2>1. Gathered(field, longer) = Text([i \in 1 .. n + 1 |-> longer[i].at])
    BY <1>1, <1>6 DEF Gathered
  <2>2. Parts(x) = f
    <3>1. CASE values = <<>>
      <4>1. x = Absent /\ n = 0
        BY <1>1, <3>1 DEF Gathered
      <4>2. Parts(x) = <<>> /\ f = <<>>
        BY <1>2, <4>1 DEF Parts
      <4> QED
        BY <4>2
    <3>2. CASE values # <<>>
      <4>1. x = Text(f)
        BY <1>6, <3>2 DEF Gathered
      <4>2. x.kind = "text" /\ x.at = f
        BY <4>1 DEF Text
      <4> HIDE DEF x
      <4> QED
        BY <4>2 DEF Parts
    <3> QED
      BY <3>1, <3>2
  <2>3. y # NotJSON => y = Text(Append(f, v.at))
    BY <1>6, <2>2 DEF Combine
  <2>4. Append(f, v.at) = [i \in 1 .. n + 1 |-> longer[i].at]
    <3> DEFINE F == [i \in 1 .. n |-> values[i].at]
               G == [i \in 1 .. n + 1 |-> longer[i].at]
    <3>1. \A i \in 1 .. n : G[i] = F[i]
      BY <1>1
    <3>2. G[n + 1] = v.at
      BY <1>1
    <3>3. F = [i \in 1 .. n |-> F[i]] /\ G = [i \in 1 .. n + 1 |-> G[i]]
      OBVIOUS
    <3> HIDE DEF F, G
    <3>4. Append([i \in 1 .. n |-> F[i]], v.at) = [i \in 1 .. n + 1 |-> G[i]]
      BY <1>1, <3>1, <3>2, LongerText
    <3> QED
      BY <3>3, <3>4 DEF F, G
  <2> QED
    BY <1>6, <2>1, <2>3, <2>4 DEF longer
<1> QED
  BY <1>3, <1>4, <1>5, <1>6

\* The values of one more event.
LEMMA ValuesForNext ==
    ASSUME NEW field, NEW S, NEW events \in Seq(S), NEW e \in S
    PROVE  ValuesFor(field, Append(events, e)) =
             IF e.name \in field.events /\ FieldValue(field, e.payload) # Absent
             THEN Append(ValuesFor(field, events), FieldValue(field, e.payload))
             ELSE ValuesFor(field, events)
<1> DEFINE n == Len(events)
           longer == Append(events, e)
           m == n + 1
           all == [i \in 1 .. n |-> FieldValue(field, events[i].payload)]
           more == [i \in 1 .. m |-> FieldValue(field, longer[i].payload)]
           places == {i \in 1 .. n : events[i].name \in field.events /\ all[i] # Absent}
           wider == {i \in 1 .. m : longer[i].name \in field.events /\ more[i] # Absent}
<1>1. n \in Nat /\ m \in Nat /\ Len(longer) = m
  OBVIOUS
<1>2. longer[m] = e
  OBVIOUS
<1>3. \A i \in 1 .. n : longer[i] = events[i]
  OBVIOUS
<1>4. ValuesFor(field, events) = Picked(all, places)
  BY DEF ValuesFor
<1>5. ValuesFor(field, longer) = Picked(more, wider)
  BY <1>1 DEF ValuesFor
<1> HIDE DEF longer, n
<1>6. Len(all) = n /\ Len(more) = n + 1
  BY <1>1
<1>7. \A i \in 1 .. n : more[i] = all[i]
  BY <1>1, <1>3
<1>8. more[n + 1] = FieldValue(field, e.payload)
  BY <1>1, <1>2
<1>9. n + 1 \in wider <=> e.name \in field.events /\ FieldValue(field, e.payload) # Absent
  BY <1>1, <1>2, <1>8
<1>10. \A i \in 1 .. n : i \in places <=> i \in wider
  BY <1>1, <1>3, <1>7
<1> HIDE DEF all, more, places, wider, m
<1>11. Picked(more, wider) = IF n + 1 \in wider THEN Append(Picked(all, places), more[n + 1]) ELSE Picked(all, places)
  BY <1>1, <1>6, <1>7, <1>10, PickedNext
<1> QED
  BY <1>4, <1>5, <1>8, <1>9, <1>11 DEF longer

LEMMA ValuesForFrom ==
    ASSUME NEW field, NEW S, NEW events \in Seq(S)
    PROVE  ValuesFor(field, events) \in Seq({FieldValue(field, e.payload) : e \in S} \ {Absent})
<1> DEFINE n == Len(events)
           T == {FieldValue(field, e.payload) : e \in S} \ {Absent}
           all == [i \in 1 .. n |-> FieldValue(field, events[i].payload)]
           places == {i \in 1 .. n : events[i].name \in field.events /\ all[i] # Absent}
<1>1. n \in Nat /\ \A i \in 1 .. n : events[i] \in S
  OBVIOUS
<1>2. ValuesFor(field, events) = Picked(all, places)
  BY DEF ValuesFor
<1>3. \A i \in 1 .. n : i \in places => all[i] \in T
  BY <1>1
<1>4. Len(all) = n
  BY <1>1
<1> HIDE DEF all, places, T, n
<1>5. Picked(all, places) \in Seq(T)
  BY <1>1, <1>3, <1>4, PickedFrom
<1> QED
  BY <1>2, <1>5 DEF T

LEMMA ShownNext ==
    ASSUME NEW policy, NEW S, NEW events \in Seq(S), NEW e \in S
    PROVE  Shown(policy, Append(events, e)) =
             IF e.name \in policy.liveEvents /\ Value(e.payload, policy.liveFrom) # Absent
             THEN Append(Shown(policy, events), Value(e.payload, policy.liveFrom))
             ELSE Shown(policy, events)
<1> DEFINE n == Len(events)
           longer == Append(events, e)
           m == n + 1
           all == [i \in 1 .. n |-> Value(events[i].payload, policy.liveFrom)]
           more == [i \in 1 .. m |-> Value(longer[i].payload, policy.liveFrom)]
           places == {i \in 1 .. n : events[i].name \in policy.liveEvents /\ all[i] # Absent}
           wider == {i \in 1 .. m : longer[i].name \in policy.liveEvents /\ more[i] # Absent}
<1>1. n \in Nat /\ m \in Nat /\ Len(longer) = m
  OBVIOUS
<1>2. longer[m] = e
  OBVIOUS
<1>3. \A i \in 1 .. n : longer[i] = events[i]
  OBVIOUS
<1>4. Shown(policy, events) = Picked(all, places)
  BY DEF Shown
<1>5. Shown(policy, longer) = Picked(more, wider)
  BY <1>1 DEF Shown
<1> HIDE DEF longer, n
<1>6. Len(all) = n /\ Len(more) = n + 1
  BY <1>1
<1>7. \A i \in 1 .. n : more[i] = all[i]
  BY <1>1, <1>3
<1>8. more[n + 1] = Value(e.payload, policy.liveFrom)
  BY <1>1, <1>2
<1>9. n + 1 \in wider <=> e.name \in policy.liveEvents /\ Value(e.payload, policy.liveFrom) # Absent
  BY <1>1, <1>2, <1>8
<1>10. \A i \in 1 .. n : i \in places <=> i \in wider
  BY <1>1, <1>3, <1>7
<1> HIDE DEF all, more, places, wider, m
<1>11. Picked(more, wider) = IF n + 1 \in wider THEN Append(Picked(all, places), more[n + 1]) ELSE Picked(all, places)
  BY <1>1, <1>6, <1>7, <1>10, PickedNext
<1> QED
  BY <1>4, <1>5, <1>8, <1>9, <1>11 DEF longer

LEMMA NothingPicked ==
    ASSUME NEW field, NEW policy
    PROVE  ValuesFor(field, <<>>) = <<>> /\ Shown(policy, <<>>) = <<>>
<1> DEFINE none == <<>>
<1>1. Len(none) = 0 /\ none \in Seq({0})
  OBVIOUS
<1>2. ASSUME NEW list, Len(list) = 0, NEW places PROVE Picked(list, places) = <<>>
  BY <1>2, PickedIs
<1>3. ValuesFor(field, none) = <<>>
  <2> DEFINE all == [i \in 1 .. Len(none) |-> FieldValue(field, none[i].payload)]
             places == {i \in 1 .. Len(none) : none[i].name \in field.events /\ all[i] # Absent}
  <2>1. Len(all) = 0
    BY <1>1
  <2>2. ValuesFor(field, none) = Picked(all, places)
    BY DEF ValuesFor
  <2> HIDE DEF all, places, none
  <2> QED
    BY <1>2, <2>1, <2>2
<1>4. Shown(policy, none) = <<>>
  <2> DEFINE all == [i \in 1 .. Len(none) |-> Value(none[i].payload, policy.liveFrom)]
             places == {i \in 1 .. Len(none) : none[i].name \in policy.liveEvents /\ all[i] # Absent}
  <2>1. Len(all) = 0
    BY <1>1
  <2>2. Shown(policy, none) = Picked(all, places)
    BY DEF Shown
  <2> HIDE DEF all, places, none
  <2> QED
    BY <1>2, <2>1, <2>2
<1> QED
  BY <1>3, <1>4

\* Nothing is at any place of an empty object.
LEMMA EmptyHolds ==
    ASSUME NEW p \in Paths, p # <<>>
    PROVE  GetNested(Object(<< >>), p) = Absent
<1> DEFINE doc == Object(<< >>)
           first == 1
<1>1. Len(p) \in Nat /\ Len(p) # 0 /\ first \in 1 .. Len(p)
  BY SegmentsOf
<1>2. Found(doc, p)[1] = Absent
  <2>1. Found(doc, p)[1] = Child(Found(doc, p)[0], p[1]) /\ Found(doc, p)[0] = doc
    BY <1>1, FoundIs
  <2>2. DOMAIN doc.at = {} /\ doc.kind = "object"
    BY DEF Object
  <2> HIDE DEF doc
  <2>3. Child(doc, p[1]) = Absent
    BY <2>2 DEF Child
  <2> QED
    BY <2>1, <2>3
<1> HIDE DEF doc
<1>3. CASE Len(p) = 1
  BY <1>2, <1>3 DEF GetNested, doc
<1>4. CASE first < Len(p)
  <2>1. Found(doc, p)[first].kind # "object" /\ first \in Nat
    BY <1>2, AbsentKind
  <2> HIDE DEF first
  <2> QED
    BY <1>4, <2>1, NothingBelow DEF doc
<1>5. Len(p) = 1 \/ first < Len(p)
  <2> DEFINE n == Len(p)
  <2> HIDE DEF n
  <2> QED
    BY <1>1 DEF n
<1> QED
  BY <1>3, <1>4, <1>5

-----------------------------------------------------------------------------
(* What is collected of the events so far *)

Heard(policy, live, events, taken) ==
    /\ Apart(policy.fields) => \A k \in 1 .. Len(policy.fields) :
         GetNested(taken.doc, policy.fields[k].to) =
           Gathered(policy.fields[k], ValuesFor(policy.fields[k], events))
    /\ taken.live = IF live THEN Shown(policy, events) ELSE <<>>

\* Before the first event.
LEMMA HeardNothing ==
    ASSUME NEW policy, IsPolicy(policy), NEW live
    PROVE  IsTaken(NoResponse.taken) /\ Heard(policy, live, <<>>, NoResponse.taken)
<1> DEFINE t == NoResponse.taken
<1>1. t = [doc |-> Object(<< >>), live |-> <<>>, state |-> "on"]
  BY DEF NoResponse
<1>2. IsTaken(t)
  BY <1>1 DEF IsTaken, Object
<1>3. ASSUME NEW k \in 1 .. Len(policy.fields)
      PROVE  GetNested(t.doc, policy.fields[k].to) = Gathered(policy.fields[k], ValuesFor(policy.fields[k], <<>>))
  <2>1. policy.fields[k].to \in Paths /\ policy.fields[k].to # <<>>
    BY DEF IsPolicy
  <2>2. GetNested(t.doc, policy.fields[k].to) = Absent
    BY <1>1, <2>1, EmptyHolds
  <2>3. ValuesFor(policy.fields[k], <<>>) = <<>>
    BY NothingPicked
  <2>4. Gathered(policy.fields[k], ValuesFor(policy.fields[k], <<>>)) = Absent
    BY <2>3 DEF Gathered
  <2> QED
    BY <2>2, <2>4
<1>4. t.live = <<>> /\ Shown(policy, <<>>) = <<>>
  BY <1>1, NothingPicked
<1> QED
  BY <1>2, <1>3, <1>4 DEF Heard

\* A field after one more event.
LEMMA FieldNext ==
    ASSUME NEW field, field.reduce \in {"first", "last", "concat", "append"},
           NEW S, NEW events \in Seq(S), NEW e \in S, NEW x, x = Gathered(field, ValuesFor(field, events)),
           Passed(field, e.name, e.payload, x) \/ Reduction(field, e.name, e.payload, x) # NotJSON
    PROVE  Reduction(field, e.name, e.payload, x) = Gathered(field, ValuesFor(field, Append(events, e)))
<1> DEFINE T == {FieldValue(field, s.payload) : s \in S} \ {Absent}
           v == FieldValue(field, e.payload)
           values == ValuesFor(field, events)
           y == Combine(field.reduce, x, v)
<1>1. values \in Seq(T)
  BY ValuesForFrom
<1>2. ValuesFor(field, Append(events, e)) =
        IF e.name \in field.events /\ v # Absent THEN Append(values, v) ELSE values
  BY ValuesForNext
<1>3. CASE e.name \notin field.events \/ v = Absent
  BY <1>2, <1>3 DEF Reduction, Passed
<1>4. CASE e.name \in field.events /\ v # Absent
  <2>1. v \in T /\ Absent \notin T
    BY <1>4
  <2>2. ValuesFor(field, Append(events, e)) = Append(values, v)
    BY <1>2, <1>4
  <2> HIDE DEF T, v, values
  <2>3. /\ (field.reduce = "first" /\ x # Absent) => Gathered(field, Append(values, v)) = x
        /\ (~(field.reduce = "first" /\ x # Absent) /\ y # NotJSON) => Gathered(field, Append(values, v)) = y
    BY <1>1, <2>1, GatheredNext DEF values
  <2>4. CASE field.reduce = "first" /\ x # Absent
    BY <2>2, <2>3, <2>4 DEF Reduction, Passed
  <2>5. CASE ~(field.reduce = "first" /\ x # Absent)
    <3>1. ~Passed(field, e.name, e.payload, x)
      BY <1>4, <2>5 DEF Passed, v
    <3>2. Reduction(field, e.name, e.payload, x) = y
      BY <3>1 DEF Reduction, v
    <3> QED
      BY <2>2, <2>3, <2>5, <3>1, <3>2
  <2> QED
    BY <2>4, <2>5
<1> QED
  BY <1>3, <1>4

LEMMA LiveOf ==
    ASSUME NEW policy, NEW event, NEW payload, NEW t, IsTaken(t)
    PROVE  LET r == Live(policy, event, payload, t)
           IN /\ IsTaken(r) /\ r.state = t.state /\ r.doc = t.doc
              /\ t.state = "on" => r.live = IF event \in policy.liveEvents /\ Value(payload, policy.liveFrom) # Absent
                                            THEN Append(t.live, Value(payload, policy.liveFrom)) ELSE t.live
<1> DEFINE r == Live(policy, event, payload, t)
           heard == t.state = "on" /\ event \in policy.liveEvents /\ Value(payload, policy.liveFrom) # Absent
           more == Append(t.live, Value(payload, policy.liveFrom))
<1>1. CASE heard
  <2>1. r = [t EXCEPT !.live = more]
    BY <1>1 DEF Live
  <2> HIDE DEF r, more
  <2>2. IsTaken(r) /\ r.state = t.state /\ r.doc = t.doc /\ r.live = more
    BY <2>1, TakenShows
  <2> QED
    BY <1>1, <2>2 DEF r, more
<1>2. CASE ~heard
  <2>1. r = t
    BY <1>2 DEF Live
  <2> QED
    BY <1>2, <2>1
<1> QED
  BY <1>1, <1>2

LEMMA TerminalOf ==
    ASSUME NEW policy, NEW event, NEW t, IsTaken(t), Terminal(policy, event, t).state # "failed"
    PROVE  LET r == Terminal(policy, event, t)
           IN /\ IsTaken(r) /\ r.doc = t.doc /\ r.live = t.live
              /\ t.state = "on" =>
                   /\ event \notin policy.errors
                   /\ r.state \in {"on", "paused", "stopped"}
                   /\ r.state = "on" <=> event \notin policy.stops \cup policy.pauses
<1> DEFINE r == Terminal(policy, event, t)
<1>1. CASE t.state # "on"
  BY <1>1 DEF Terminal
<1>2. CASE t.state = "on" /\ event \in policy.errors
  <2>1. r = [t EXCEPT !.state = "failed"]
    BY <1>2, Zenon DEF Terminal
  <2> QED
    BY <2>1, TakenFails
<1>3. CASE t.state = "on" /\ event \in policy.pauses \ policy.errors
  <2>1. r = [t EXCEPT !.state = "paused"]
    BY <1>3 DEF Terminal
  <2> HIDE DEF r
  <2>2. IsTaken(r) /\ r.state = "paused" /\ r.doc = t.doc /\ r.live = t.live
    BY <2>1, TakenFails
  <2> QED
    BY <1>3, <2>2 DEF r
<1>4. CASE t.state = "on" /\ event \in policy.stops \ (policy.pauses \cup policy.errors)
  <2>1. r = [t EXCEPT !.state = "stopped"]
    BY <1>4 DEF Terminal
  <2> HIDE DEF r
  <2>2. IsTaken(r) /\ r.state = "stopped" /\ r.doc = t.doc /\ r.live = t.live
    BY <2>1, TakenFails
  <2> QED
    BY <1>4, <2>2 DEF r
<1>5. CASE t.state = "on" /\ event \notin policy.errors \cup policy.pauses \cup policy.stops
  <2>1. r = t
    BY <1>5 DEF Terminal
  <2> QED
    BY <1>5, <2>1
<1> QED
  BY <1>1, <1>2, <1>3, <1>4, <1>5

\* An event that does not fail the stream is collected, and ends it where the policy says so.
LEMMA HandleHeard ==
    ASSUME NEW policy, IsPolicy(policy), NEW live, NEW S, NEW events \in Seq(S), NEW e \in S,
           IsEvent(e), e.data # <<>>, Named(policy, e),
           NEW t, IsTaken(t), t.state = "on", Heard(policy, live, events, t),
           Handle(policy, live, t, e.event, e.data).state # "failed"
    PROVE  LET r == Handle(policy, live, t, e.event, e.data)
           IN /\ IsTaken(r) /\ Heard(policy, live, Append(events, e), r)
              /\ e.payload # NotJSON /\ e.name \notin policy.errors
              /\ r.state \in {"on", "paused", "stopped"}
              /\ r.state = "on" <=> e.name \notin policy.stops \cup policy.pauses
<1> DEFINE r == Handle(policy, live, t, e.event, e.data)
           u == Reduce(policy, e.name, e.payload, t)
           w == IF live THEN Live(policy, e.name, e.payload, u) ELSE u
           n == Len(policy.fields)
           shown == e.name \in policy.liveEvents /\ Value(e.payload, policy.liveFrom) # Absent
<1>1. Decode(e.data) = e.payload
  BY DecodeEvent
<1>2. e.payload # NotJSON
  <2>1. ASSUME e.payload = NotJSON PROVE FALSE
    <3>1. r = [t EXCEPT !.state = "failed"]
      BY <1>1, <2>1, Zenon DEF Handle
    <3> QED
      BY <3>1, TakenFails
  <2> QED
    BY <2>1
<1>3. EventName(policy, e.event, e.payload) = e.name
  BY <1>2, NameOf
<1>4. r = Terminal(policy, e.name, w)
  BY <1>1, <1>2, <1>3, Zenon DEF Handle
<1>5. IsTaken(u) /\ u.live = t.live /\ u.state \in {"on", "failed"}
  <2>1. n \in 0 .. n
    BY DEF IsPolicy
  <2> QED
    BY <2>1, ReduceSteps DEF Reduce
<1> HIDE DEF u
<1>6. /\ IsTaken(w) /\ w.state = u.state /\ w.doc = u.doc
      /\ u.state = "on" => w.live = IF live /\ shown THEN Append(t.live, Value(e.payload, policy.liveFrom)) ELSE t.live
  <2>1. CASE live
    BY <1>5, <2>1, LiveOf
  <2>2. CASE ~live
    BY <1>5, <2>2
  <2> QED
    BY <2>1, <2>2
<1> HIDE DEF w
<1>7. w.state = "on"
  <2>1. ASSUME w.state # "on" PROVE FALSE
    <3>1. r = w
      BY <1>4, <2>1 DEF Terminal
    <3> QED
      BY <3>1, <2>1, <1>5, <1>6
  <2> QED
    BY <2>1
<1>8. /\ IsTaken(r) /\ r.doc = w.doc /\ r.live = w.live
      /\ e.name \notin policy.errors /\ r.state \in {"on", "paused", "stopped"}
      /\ r.state = "on" <=> e.name \notin policy.stops \cup policy.pauses
  <2> HIDE DEF r
  <2>1. Terminal(policy, e.name, w).state # "failed"
    BY <1>4 DEF r
  <2> QED
    BY <1>4, <1>6, <1>7, <2>1, TerminalOf
<1> HIDE DEF r
<1>9. ASSUME Apart(policy.fields), NEW k \in 1 .. n
      PROVE  GetNested(r.doc, policy.fields[k].to) =
               Gathered(policy.fields[k], ValuesFor(policy.fields[k], Append(events, e)))
  <2> DEFINE field == policy.fields[k]
             x == GetNested(t.doc, field.to)
             y == Reduction(field, e.name, e.payload, x)
  <2>1. field.reduce \in {"first", "last", "concat", "append"}
    BY DEF IsPolicy
  <2>2. x = Gathered(field, ValuesFor(field, events))
    BY <1>9 DEF Heard
  <2>3. Reduce(policy, e.name, e.payload, t).state = "on"
    BY <1>6, <1>7 DEF u
  <2>4. /\ GetNested(u.doc, field.to) = y
        /\ Passed(field, e.name, e.payload, x) \/ y # NotJSON
    BY <1>9, <2>3, ReduceHolds DEF u
  <2> HIDE DEF x, field
  <2>5. y = Gathered(field, ValuesFor(field, Append(events, e)))
    BY <2>1, <2>2, <2>4, FieldNext
  <2> QED
    BY <1>6, <1>8, <2>4, <2>5 DEF field
<1>10. r.live = IF live THEN Shown(policy, Append(events, e)) ELSE <<>>
  <2>1. t.live = IF live THEN Shown(policy, events) ELSE <<>>
    BY DEF Heard
  <2>2. Shown(policy, Append(events, e)) =
          IF shown THEN Append(Shown(policy, events), Value(e.payload, policy.liveFrom)) ELSE Shown(policy, events)
    BY ShownNext
  <2> HIDE DEF shown
  <2> QED
    BY <1>6, <1>7, <1>8, <2>1, <2>2
<1>11. Heard(policy, live, Append(events, e), r)
  BY <1>9, <1>10 DEF Heard
<1> QED
  BY <1>2, <1>8, <1>11 DEF r

-----------------------------------------------------------------------------
(* Lines *)

LEMMA DataOf ==
    ASSUME NEW e, IsEvent(e)
    PROVE  /\ Len(e.data) \in 0 .. 2 /\ e.data = [i \in 1 .. Len(e.data) |-> e.data[i]]
           /\ e.data # <<>> <=> Len(e.data) # 0
           /\ Len(e.data) = 1 => <<e.data[1]>> = e.data /\ e.data # <<>>
<1>1. \A x, y : <<x>> = [i \in 1 .. Len(<<x>>) |-> <<x>>[i]] /\ Len(<<x>>) = 1
                /\ <<x, y>> = [i \in 1 .. Len(<<x, y>>) |-> <<x, y>>[i]] /\ Len(<<x, y>>) = 2
  OBVIOUS
<1>2. <<>> = [i \in 1 .. Len(<<>>) |-> <<>>[i]] /\ Len(<<>>) = 0
  OBVIOUS
<1>3. e.data = <<>> \/ (\E x : e.data = <<x>>) \/ \E x, y : e.data = <<x, y>>
  BY DEF IsEvent
<1> DEFINE d == e.data
<1>4. CASE d = <<>>
  BY <1>2, <1>4
<1>5. CASE \E x : d = <<x>>
  <2>1. PICK x : d = <<x>>
    BY <1>5
  <2>2. d = [i \in 1 .. Len(d) |-> d[i]] /\ Len(d) = 1 /\ d[1] = x
    BY <2>1, <1>1
  <2> QED
    BY <2>1, <2>2
<1>6. CASE \E x, y : d = <<x, y>>
  <2>1. PICK x, y : d = <<x, y>>
    BY <1>6
  <2>2. d = [i \in 1 .. Len(d) |-> d[i]] /\ Len(d) = 2
    BY <2>1, <1>1
  <2> QED
    BY <2>2
<1> QED
  BY <1>3, <1>4, <1>5, <1>6

ReaderIs(reader, event, data) == reader = [event |-> event, data |-> data]

\* What the reader has before line k of an event.
Before(e, k) ==
    /\ k \in 1 .. LinesOf(e)
    /\ NDJSON => Len(e.data) = 1 /\ e.event = ""
    /\ (~NDJSON /\ k = 1) => response.reader = NothingRead
    /\ (~NDJSON /\ k # 1) => ReaderIs(response.reader, e.event, [i \in 1 .. k - 2 |-> e.data[i]])

\* The line that ends an event hands it over whole, every other line hands nothing over.
LEMMA LineTaken ==
    ASSUME NEW e, IsEvent(e), NEW k, Before(e, k)
    PROVE  Taken(LineOf(e, k)) =
             IF k = LinesOf(e) /\ e.data # <<>>
             THEN Handle(cmd.policy, Flag("stream"), response.taken, e.event, e.data) ELSE response.taken
<1> DEFINE line == LineOf(e, k)
           d == e.data
           n == Len(d)
<1>1. n \in 0 .. 2 /\ d = [i \in 1 .. n |-> d[i]] /\ (d # <<>> <=> n # 0) /\ (n = 1 => <<d[1]>> = d)
  BY DataOf
<1>2. CASE NDJSON
  <2>1. n = 1 /\ e.event = "" /\ k = 1 /\ LinesOf(e) = 1
    <3>1. LinesOf(e) = 1
      BY <1>2 DEF LinesOf
    <3>2. n = 1 /\ e.event = ""
      BY <1>2 DEF Before
    <3>3. k \in 1 .. LinesOf(e)
      BY DEF Before
    <3>4. k = 1
      BY <3>1, <3>3
    <3> QED
      BY <3>1, <3>2, <3>4
  <2>2. line.doc = d[1]
    BY <1>2 DEF LineOf
  <2>3. <<line.doc>> = d
    BY <1>1, <2>1, <2>2
  <2> HIDE DEF line, n, d
  <2>4. Taken(line) = Handle(cmd.policy, Flag("stream"), response.taken, e.event, d)
    BY <1>2, <2>1, <2>3 DEF Taken
  <2>5. k = LinesOf(e) /\ e.data # <<>>
    <3>1. k = LinesOf(e)
      BY <2>1
    <3>2. d # <<>>
      <4>1. n = 1 => d # <<>>
        BY DataOf DEF n, d
      <4> HIDE DEF n, d
      <4> QED
        BY <2>1, <4>1, Zenon
    <3> QED
      BY <3>1, <3>2 DEF d
  <2>6. Taken(LineOf(e, k)) = Handle(cmd.policy, Flag("stream"), response.taken, e.event, e.data)
    BY <2>4 DEF line, d
  <2> QED
    BY <2>5, <2>6, Zenon
<1>3. CASE ~NDJSON
  <2>1. LinesOf(e) = n + 2 /\ k \in 1 .. n + 2
    BY <1>3 DEF Before, LinesOf
  <2>2. CASE k # n + 2
    <3>1. line.field # "blank"
      <4>1. k = 1 \/ k \in 2 .. n + 1
        BY <1>1, <2>1, <2>2
      <4> QED
        BY <1>3, <4>1 DEF LineOf
    <3> HIDE DEF line, n, d
    <3>2. Taken(line) = response.taken
      BY <1>3, <3>1, Zenon DEF Taken, Completes
    <3> QED
      BY <2>1, <2>2, <3>2 DEF line
  <2>3. CASE k = n + 2
    <3>1. line.field = "blank"
      <4>1. k # 1 /\ ~(k \in 2 .. n + 1)
        BY <1>1, <2>3
      <4> HIDE DEF n, d
      <4> QED
        BY <1>3, <4>1 DEF LineOf, n, d
    <3>2. ReaderIs(response.reader, e.event, [i \in 1 .. n |-> d[i]])
      <4>1. k # 1 /\ k - 2 = n
        BY <1>1, <2>3
      <4>2. ReaderIs(response.reader, e.event, [i \in 1 .. k - 2 |-> d[i]])
        BY <1>3, <4>1 DEF Before
      <4> HIDE DEF n, d
      <4> QED
        BY <4>1, <4>2
    <3> HIDE DEF line, n, d
    <3>3. response.reader.event = e.event /\ response.reader.data = d
      BY <1>1, <3>2 DEF ReaderIs
    <3>4. Taken(line) = IF d # <<>> THEN Handle(cmd.policy, Flag("stream"), response.taken, e.event, d)
                        ELSE response.taken
      BY <1>3, <3>1, <3>3, Zenon DEF Taken, Completes
    <3> QED
      BY <2>1, <2>3, <3>4 DEF line, d
  <2> QED
    BY <2>2, <2>3
<1> QED
  BY <1>2, <1>3

LEMMA ReaderSets ==
    ASSUME NEW r, NEW event, NEW data, ReaderIs(r, event, data), NEW x
    PROVE  /\ ReaderIs([r EXCEPT !.event = x], x, data)
           /\ ReaderIs([r EXCEPT !.data = Append(@, x)], event, Append(data, x))
BY SMTT(60) DEF ReaderIs

\* The reader after a line.
LEMMA LineRead ==
    ASSUME NEW e, IsEvent(e), NEW k, Before(e, k), ~NDJSON
    PROVE  LET reader == ReadLine(response.reader, LineOf(e, k))
           IN IF k = LinesOf(e) THEN reader = NothingRead
              ELSE ReaderIs(reader, e.event, [i \in 1 .. k - 1 |-> e.data[i]])
<1> DEFINE line == LineOf(e, k)
           d == e.data
           n == Len(d)
           reader == ReadLine(response.reader, line)
<1>1. n \in 0 .. 2
  BY DataOf
<1>2. LinesOf(e) = n + 2 /\ k \in 1 .. n + 2
  BY DEF Before, LinesOf
<1>3. CASE k = 1
  <2>1. line.field = "event" /\ line.text = e.event
    BY <1>3 DEF LineOf
  <2>2. response.reader = [event |-> "", data |-> <<>>]
    BY <1>3 DEF Before, NothingRead
  <2>3. k - 1 = 0 /\ [i \in 1 .. k - 1 |-> d[i]] = <<>> /\ k # LinesOf(e)
    BY <1>1, <1>2, <1>3
  <2> HIDE DEF line
  <2>4. reader = [response.reader EXCEPT !.event = e.event]
    BY <2>1 DEF ReadLine
  <2>5. ReaderIs(reader, e.event, <<>>)
    <3>1. ReaderIs(response.reader, "", <<>>)
      BY <2>2 DEF ReaderIs
    <3> HIDE DEF reader
    <3> QED
      BY <2>4, <3>1, ReaderSets
  <2> HIDE DEF reader, n, d
  <2> QED
    BY <2>3, <2>5 DEF reader, line, d
<1>4. CASE k \in 2 .. n + 1
  <2>1. line.field = "data" /\ line.doc = d[k - 1]
    BY <1>4 DEF LineOf
  <2>2. PICK m \in Nat : m = k - 2
    BY <1>1, <1>4
  <2>3. k # 1 /\ k - 1 = m + 1 /\ k # LinesOf(e)
    BY <1>1, <1>2, <1>4, <2>2
  <2> DEFINE so == [i \in 1 .. m |-> d[i]]
  <2>4. ReaderIs(response.reader, e.event, so)
    BY <2>2, <2>3 DEF Before
  <2> HIDE DEF line
  <2>5. reader = [response.reader EXCEPT !.data = Append(@, line.doc)]
    BY <2>1 DEF ReadLine
  <2>6. ReaderIs(reader, e.event, Append(so, d[m + 1]))
    <3>1. line.doc = d[m + 1]
      BY <2>1, <2>3
    <3> HIDE DEF so, reader, d
    <3> QED
      BY <2>4, <2>5, <3>1, ReaderSets
  <2>7. Append(so, d[m + 1]) = [i \in 1 .. m + 1 |-> d[i]]
    <3> HIDE DEF d
    <3>1. \A i \in 1 .. m : d[i] = d[i]
      OBVIOUS
    <3> QED
      BY <3>1, LongerText
  <2> HIDE DEF reader, so, n, d
  <2> QED
    BY <2>3, <2>6, <2>7 DEF reader, line, d
<1>5. CASE k = n + 2
  <2>1. line.field = "blank"
    <3>1. k # 1 /\ ~(k \in 2 .. n + 1)
      BY <1>1, <1>5
    <3> HIDE DEF n
    <3> QED
      BY <3>1 DEF LineOf, n
  <2> HIDE DEF line
  <2>2. reader = NothingRead
    BY <2>1 DEF ReadLine
  <2> QED
    BY <1>2, <1>5, <2>2 DEF line
<1>6. k = 1 \/ k \in 2 .. n + 1 \/ k = n + 2
  BY <1>1, <1>2
<1> QED
  BY <1>3, <1>4, <1>5, <1>6

-----------------------------------------------------------------------------
(* A stream that is under way, and one that was read to its end              *)

Quiet(policy, events) ==
    \A i \in 1 .. Len(events) : events[i].payload # NotJSON /\ events[i].name \notin policy.errors

\* What the reader has of the event that is being written.
Reading ==
    \/ response.line = 0 /\ response.reader = NothingRead
    \/ /\ ~NDJSON /\ response.writing \in StreamEvents /\ Named(cmd.policy, response.writing)
       /\ response.line \in 1 .. LinesOf(response.writing) - 1
       /\ ReaderIs(response.reader, response.writing.event,
                   [i \in 1 .. response.line - 1 |-> response.writing.data[i]])

\* None of the events so far ends the stream, and all are collected.
UnderWay ==
    /\ DOMAIN response = {"events", "writing", "line", "end", "reader", "taken"}
    /\ response.events \in Seq(StreamEvents) /\ Reading
    /\ IsTaken(response.taken) /\ response.taken.state = "on"
    /\ Heard(cmd.policy, Flag("stream"), response.events, response.taken)
    /\ Quiet(cmd.policy, response.events)
    /\ \A i \in 1 .. Len(response.events) :
         response.events[i].name \notin cmd.policy.stops \cup cmd.policy.pauses

\* What StreamWhole says of a stream that was read to its end.
WholeStream ==
    LET policy == cmd.policy
        events == response.events
        ends == {i \in 1 .. Len(events) : events[i].name \in policy.stops \cup policy.pauses}
    IN /\ ends = {Len(events)} \/ (ends = {} /\ response.end = "eof" /\ ~policy.requireStop)
       /\ Quiet(policy, events) /\ Heard(policy, Flag("stream"), events, response.taken)

\* The line that is read next.
LEMMA NextLine ==
    ASSUME UnderWay, OperationAssumption, StreamLine
    PROVE  \E e \in StreamEvents : \E k \in Nat :
             /\ IsEvent(e) /\ Named(cmd.policy, e) /\ Before(e, k) /\ Transfer(e, k)
             /\ NDJSON => response.line = 0
<1>1. \A e \in StreamEvents : IsEvent(e)
  BY OperationAssumption
<1>2. CASE response.line = 0 /\ \E e \in StreamEvents :
             Named(cmd.policy, e) /\ (NDJSON => Len(e.data) = 1 /\ e.event = "") /\ Transfer(e, 1)
  <2>1. PICK e \in StreamEvents :
          Named(cmd.policy, e) /\ (NDJSON => Len(e.data) = 1 /\ e.event = "") /\ Transfer(e, 1)
    BY <1>2
  <2>2. Len(e.data) \in 0 .. 2
    BY <1>1, DataOf
  <2>3. LinesOf(e) \in Nat /\ LinesOf(e) >= 1
    BY <2>2 DEF LinesOf
  <2>4. 1 \in 1 .. LinesOf(e)
    BY <2>3
  <2>5. response.line = 0 => response.reader = NothingRead
    <3>1. ~(0 \in 1 .. LinesOf(response.writing) - 1)
      OBVIOUS
    <3> QED
      BY <3>1 DEF UnderWay, Reading
  <2>6. Before(e, 1)
    BY <1>2, <2>1, <2>4, <2>5, Zenon DEF Before
  <2> QED
    BY <1>1, <1>2, <2>1, <2>6
<1>3. CASE response.line # 0 /\ Transfer(response.writing, response.line + 1)
  <2> DEFINE e == response.writing
             k == response.line + 1
             l == response.line
  <2>1. /\ ~NDJSON /\ e \in StreamEvents /\ Named(cmd.policy, e) /\ l \in 1 .. LinesOf(e) - 1
        /\ ReaderIs(response.reader, e.event, [i \in 1 .. l - 1 |-> e.data[i]])
    BY <1>3 DEF UnderWay, Reading
  <2>2. Len(e.data) \in 0 .. 2
    BY <1>1, <2>1, DataOf
  <2>3. LinesOf(e) \in Nat
    BY <2>2 DEF LinesOf
  <2> HIDE DEF l
  <2>4. l + 1 \in 1 .. LinesOf(e) /\ l + 1 # 1 /\ l + 1 - 2 = l - 1 /\ l + 1 \in Nat /\ l \in Nat
    BY <2>1, <2>3
  <2> HIDE DEF e
  <2>5. Before(e, l + 1)
    <3> DEFINE m == l + 1
    <3>1. m \in 1 .. LinesOf(e) /\ m # 1 /\ m - 2 = l - 1
      BY <2>4
    <3> HIDE DEF m
    <3>2. ReaderIs(response.reader, e.event, [i \in 1 .. m - 2 |-> e.data[i]])
      BY <2>1, <3>1
    <3>3. Before(e, m)
      BY <2>1, <3>1, <3>2, Zenon DEF Before
    <3> QED
      BY <3>3 DEF m
  <2> QED
    BY <1>1, <1>3, <2>1, <2>4, <2>5 DEF e, l
<1> QED
  BY <1>2, <1>3 DEF StreamLine

LEMMA QuietNext ==
    ASSUME NEW policy, NEW S, NEW events \in Seq(S), NEW e \in S, Quiet(policy, events),
           e.payload # NotJSON, e.name \notin policy.errors
    PROVE  Quiet(policy, Append(events, e))
<1> DEFINE n == Len(events)
           longer == Append(events, e)
<1>1. n \in Nat /\ Len(longer) = n + 1 /\ longer[n + 1] = e
  OBVIOUS
<1>2. \A i \in 1 .. n : longer[i] = events[i]
  OBVIOUS
<1> HIDE DEF longer
<1>3. ASSUME NEW i \in 1 .. n + 1 PROVE longer[i].payload # NotJSON /\ longer[i].name \notin policy.errors
  <2>1. CASE i \in 1 .. n
    BY <1>2, <2>1 DEF Quiet
  <2>2. CASE i = n + 1
    BY <1>1, <2>2
  <2> QED
    BY <1>1, <2>1, <2>2
<1> QED
  BY <1>1, <1>3 DEF Quiet, longer

\* The events that end a stream, after one more event.
LEMMA EndsNext ==
    ASSUME NEW S, NEW events \in Seq(S), NEW e \in S, NEW final,
           \A i \in 1 .. Len(events) : events[i].name \notin final
    PROVE  /\ Append(events, e) \in Seq(S) /\ Len(Append(events, e)) = Len(events) + 1
           /\ e.name \notin final =>
                \A i \in 1 .. Len(Append(events, e)) : Append(events, e)[i].name \notin final
           /\ e.name \in final =>
                {i \in 1 .. Len(Append(events, e)) : Append(events, e)[i].name \in final} = {Len(Append(events, e))}
<1> DEFINE n == Len(events)
           longer == Append(events, e)
<1>1. n \in Nat /\ Len(longer) = n + 1 /\ longer[n + 1] = e /\ longer \in Seq(S)
  OBVIOUS
<1>2. \A i \in 1 .. n : longer[i] = events[i]
  OBVIOUS
<1> HIDE DEF longer
<1>3. \A i \in 1 .. n + 1 : i \in 1 .. n \/ i = n + 1
  BY <1>1
<1>4. \A i \in 1 .. n : longer[i].name \notin final
  BY <1>2
<1> QED
  BY <1>1, <1>3, <1>4 DEF longer

LEMMA ProceedTo ==
    ASSUME NEW state, Proceed(state)
    PROVE  /\ state = "on" => at' = "streaming"
           /\ state = "failed" => at' = "done" /\ result' = "failed"
           /\ state \in {"paused", "stopped"} => at' \in {"persist", "commit"}
           /\ state # "failed" => result' = result
BY DEF Proceed, Go, Stop, Answered

\* Reading one more line.
LEMMA LineKept ==
    ASSUME UnderWay, IsPolicy(cmd.policy), cmd' = cmd, NEW e \in StreamEvents, IsEvent(e), Named(cmd.policy, e),
           NEW k \in Nat, Before(e, k), Transfer(e, k)
    PROVE  \/ at' = "streaming" /\ UnderWay'
           \/ at' \in {"persist", "commit"} /\ WholeStream'
           \/ at' = "done" /\ result' = "failed"
<1> DEFINE line == LineOf(e, k)
           last == k = LinesOf(e)
           t == response.taken
           live == Flag("stream")
           events == response.events
           T == Taken(line)
           final == cmd.policy.stops \cup cmd.policy.pauses
           written == last /\ e.data # <<>>
           more == Append(events, e)
<1>1. /\ response'.events = IF written THEN more ELSE events
      /\ response'.writing = IF last THEN NoEvent ELSE e
      /\ response'.line = IF last THEN 0 ELSE k
      /\ response'.reader = IF NDJSON THEN NothingRead ELSE ReadLine(response.reader, line)
      /\ response'.taken = T
      /\ Proceed(T.state)
  BY Zenon DEF Transfer
<1>2. T = IF written THEN Handle(cmd.policy, live, t, e.event, e.data) ELSE t
  BY LineTaken, Zenon
<1>3. DOMAIN response' = {"events", "writing", "line", "end", "reader", "taken"}
  <2> HIDE DEF line, last, T
  <2> QED
    BY DEF Transfer
<1>4. /\ events \in Seq(StreamEvents) /\ IsTaken(t) /\ t.state = "on" /\ Heard(cmd.policy, live, events, t)
      /\ Quiet(cmd.policy, events) /\ \A i \in 1 .. Len(events) : events[i].name \notin final
  BY Zenon DEF UnderWay
<1>5. Flag("stream")' = live /\ NDJSON' = NDJSON
  BY DEF Flag, NDJSON
<1>6. Reading'
  <2>1. k \in 1 .. LinesOf(e)
    BY DEF Before
  <2>2. CASE NDJSON
    <3>1. last
      <4>1. LinesOf(e) = 1
        BY <2>2 DEF LinesOf
      <4> QED
        BY <2>1, <4>1
    <3>2. response'.line = 0 /\ response'.reader = NothingRead
      BY <1>1, <2>2, <3>1
    <3> QED
      BY <3>2 DEF Reading
  <2>3. CASE ~NDJSON /\ last
    <3>1. ReadLine(response.reader, line) = NothingRead
      BY <2>3, LineRead, Zenon
    <3>2. response'.line = 0 /\ response'.reader = NothingRead
      BY <1>1, <2>3, <3>1, Zenon
    <3> QED
      BY <3>2 DEF Reading
  <2>4. CASE ~NDJSON /\ ~last
    <3>1. ReaderIs(ReadLine(response.reader, line), e.event, [i \in 1 .. k - 1 |-> e.data[i]])
      BY <2>4, LineRead, Zenon
    <3>2. response'.line = k /\ response'.writing = e
          /\ ReaderIs(response'.reader, e.event, [i \in 1 .. k - 1 |-> e.data[i]])
      BY <1>1, <2>4, <3>1, Zenon
    <3>3. LinesOf(e)' = LinesOf(e) /\ Named(cmd.policy, e)'
      BY <1>5 DEF LinesOf, Named
    <3>4. k \in 1 .. LinesOf(e) - 1
      <4>1. Len(e.data) \in 0 .. 2
        BY DataOf
      <4>2. LinesOf(e) \in Nat
        BY <4>1 DEF LinesOf
      <4> QED
        BY <2>1, <2>4, <4>2
    <3>5. LinesOf(response.writing)' = LinesOf(e)
      BY <3>2, <2>4, <1>5 DEF LinesOf
    <3>6. Named(cmd.policy, response.writing)'
      BY <3>2 DEF Named
    <3> QED
      BY <2>4, <1>5, <3>2, <3>4, <3>5, <3>6, Zenon DEF Reading
  <2> QED
    BY <2>2, <2>3, <2>4
<1> HIDE DEF T, t, live, events, final, more, written
<1>7. CASE ~written
  <2>1. T = t /\ response'.taken = t /\ response'.events = events
    BY <1>1, <1>2, <1>7, Zenon
  <2>2. at' = "streaming"
    BY <1>1, <1>4, <2>1, ProceedTo
  <2>3. UnderWay'
    BY <1>4, <1>5, <1>6, <1>3, <2>1, Zenon DEF UnderWay, final
  <2> QED
    BY <2>2, <2>3
<1>8. CASE written /\ T.state = "failed"
  BY <1>1, <1>8, ProceedTo
<1>9. CASE written /\ T.state # "failed"
  <2>1. T = Handle(cmd.policy, live, t, e.event, e.data) /\ e.data # <<>>
    BY <1>2, <1>9, Zenon DEF written
  <2>2. /\ IsTaken(T) /\ Heard(cmd.policy, live, more, T)
        /\ e.payload # NotJSON /\ e.name \notin cmd.policy.errors
        /\ T.state \in {"on", "paused", "stopped"}
        /\ T.state = "on" <=> e.name \notin final
    <3> DEFINE p == cmd.policy
               r == Handle(p, live, t, e.event, e.data)
    <3>1. IsPolicy(p) /\ Heard(p, live, events, t) /\ Named(p, e) /\ r.state # "failed" /\ T = r
      BY <1>4, <1>9, <2>1
    <3> HIDE DEF p
    <3>2. /\ IsTaken(r) /\ Heard(p, live, Append(events, e), r)
          /\ e.payload # NotJSON /\ e.name \notin p.errors
          /\ r.state \in {"on", "paused", "stopped"}
          /\ r.state = "on" <=> e.name \notin p.stops \cup p.pauses
      BY <1>4, <2>1, <3>1, HandleHeard
    <3> HIDE DEF r
    <3> QED
      BY <3>1, <3>2 DEF p, final, more
  <2>3. Quiet(cmd.policy, more)
    BY <1>4, <2>2, QuietNext DEF more
  <2>4. /\ more \in Seq(StreamEvents)
        /\ e.name \notin final => \A i \in 1 .. Len(more) : more[i].name \notin final
        /\ e.name \in final => {i \in 1 .. Len(more) : more[i].name \in final} = {Len(more)}
    BY <1>4, EndsNext, Zenon DEF more
  <2>5. response'.taken = T /\ response'.events = more
    BY <1>1, <1>9, Zenon
  <2>6. CASE T.state = "on"
    <3>1. at' = "streaming"
      BY <1>1, <2>6, ProceedTo
    <3>2. \A i \in 1 .. Len(more) : more[i].name \notin final
      BY <2>2, <2>4, <2>6
    <3>3. UnderWay'
      BY <1>5, <1>6, <1>3, <2>2, <2>3, <2>4, <2>5, <2>6, <3>2, Zenon DEF UnderWay, final
    <3> QED
      BY <3>1, <3>3
  <2>7. CASE T.state \in {"paused", "stopped"}
    <3>1. at' \in {"persist", "commit"}
      BY <1>1, <2>7, ProceedTo
    <3>2. {i \in 1 .. Len(more) : more[i].name \in final} = {Len(more)}
      BY <2>2, <2>4, <2>7
    <3>3. WholeStream'
      BY <1>5, <2>2, <2>3, <2>5, <3>2, Zenon DEF WholeStream, final
    <3> QED
      BY <3>1, <3>3
  <2> QED
    BY <2>2, <2>6, <2>7
<1> QED
  BY <1>7, <1>8, <1>9

\* A line that is cut off is no document.
LEMMA CutLine ==
    ASSUME NEW policy, NEW live, NEW t, IsTaken(t)
    PROVE  Handle(policy, live, t, "", <<Half("left", Absent)>>).state = "failed"
<1> DEFINE x == Half("left", Absent)
           d == <<x>>
<1>1. x.kind = "left" /\ Len(d) = 1 /\ d[1] = x
  BY DEF Half
<1> HIDE DEF x, d
<1>2. Decode(d) = NotJSON
  BY <1>1 DEF Decode, NoDocument
<1>3. Handle(policy, live, t, "", d) = [t EXCEPT !.state = "failed"]
  BY <1>2, Zenon DEF Handle
<1>4. [t EXCEPT !.state = "failed"].state = "failed"
  BY TakenFails, Zenon
<1>5. Handle(policy, live, t, "", d).state = "failed"
  BY <1>3, <1>4, Zenon
<1> QED
  BY <1>5 DEF d, x

\* The end of the response.
LEMMA EndKept ==
    ASSUME UnderWay, cmd' = cmd, StreamEnds
    PROVE  \/ at' \in {"persist", "commit"} /\ WholeStream'
           \/ at' = "done" /\ result' = "failed"
<1> DEFINE t == response.taken
           events == response.events
           left(cut) == IF cut THEN Handle(cmd.policy, Flag("stream"), t, "", <<Half("left", Absent)>>) ELSE t
           final == cmd.policy.stops \cup cmd.policy.pauses
<1>1. PICK end \in {"eof", "broken"}, cut \in {FALSE, NDJSON} :
        /\ response' = [response EXCEPT !.taken = AtEnd(cmd.policy, left(cut), end), !.end = end]
        /\ Proceed(AtEnd(cmd.policy, left(cut), end).state)
  BY Zenon DEF StreamEnds
<1> DEFINE u == left(cut)
           r == AtEnd(cmd.policy, u, end)
<1>2. /\ events \in Seq(StreamEvents) /\ IsTaken(t) /\ t.state = "on"
      /\ Heard(cmd.policy, Flag("stream"), events, t)
      /\ Quiet(cmd.policy, events) /\ \A i \in 1 .. Len(events) : events[i].name \notin final
  BY Zenon DEF UnderWay
<1>3. DOMAIN response = {"events", "writing", "line", "end", "reader", "taken"}
  BY Zenon DEF UnderWay
<1>4. u.state = "failed" \/ u = t
  <2>1. CASE cut
    BY <1>2, <2>1, CutLine
  <2>2. CASE ~cut
    BY <2>2
  <2> QED
    BY <2>1, <2>2
<1>5. Proceed(r.state)
  BY <1>1
<1>6. response' = [response EXCEPT !.taken = r, !.end = end]
  BY <1>1
<1> HIDE DEF u
<1>7. CASE u.state = "failed"
  <2>1. r = u
    BY <1>7 DEF AtEnd
  <2> QED
    BY <1>5, <1>7, <2>1, ProceedTo
<1>8. CASE u = t
  <2>1. CASE end # "eof" \/ cmd.policy.requireStop
    <3>1. r = [t EXCEPT !.state = "failed"]
      BY <1>2, <1>8, <2>1 DEF AtEnd
    <3> HIDE DEF r, t
    <3>2. r.state = "failed"
      BY <1>2, <3>1, TakenFails
    <3> QED
      BY <1>5, <3>2, ProceedTo
  <2>2. CASE end = "eof" /\ ~cmd.policy.requireStop
    <3>1. r = [t EXCEPT !.state = "stopped"]
      BY <1>2, <1>8, <2>2 DEF AtEnd
    <3> HIDE DEF r, t, events, final
    <3>2. IsTaken(r) /\ r.state = "stopped" /\ r.doc = t.doc /\ r.live = t.live
      BY <1>2, <3>1, TakenFails
    <3>3. at' \in {"persist", "commit"}
      BY <1>5, <3>2, ProceedTo
    <3>4. Heard(cmd.policy, Flag("stream"), events, r)
      BY <1>2, <3>2 DEF Heard
    <3> HIDE DEF r
    <3>5. response'.taken = r /\ response'.events = events /\ response'.end = end
      BY <1>6, <1>3 DEF events
    <3>6. {i \in 1 .. Len(events) : events[i].name \in final} = {}
      BY <1>2
    <3>7. Flag("stream")' = Flag("stream")
      BY DEF Flag
    <3>8. WholeStream'
      BY <1>2, <2>2, <3>4, <3>5, <3>6, <3>7, Zenon DEF WholeStream, final
    <3> QED
      BY <3>3, <3>8
  <2> QED
    BY <1>1, <2>1, <2>2
<1> QED
  BY <1>4, <1>7, <1>8

-----------------------------------------------------------------------------
(* The inductive invariant                                                  *)

Places ==
    {"start", "create", "invoke", "schema", "send", "streaming", "poll", "polling", "backoff", "persist",
     "commit", "unlink", "rename", "done", "killed"}

\* Places before the last page, and places after the first request to the target was allowed.
Early == {"start", "create", "invoke", "schema", "send"}

Asking == {"send", "streaming", "poll", "polling", "backoff", "persist", "commit", "unlink", "rename"}

Shapes ==
    /\ cmd \in Commands /\ at \in Places
    /\ page \in [count : 0 .. MaxPages, next : Nat \cup {End}, got : Seq(Nat)]
    /\ poll \in [time : 0 .. PollTimeout, due : Nat, backoff : 1 .. MaxBackoff]
    /\ sent \subseteq {"schema", "schema accepted", "schema refused", "target", "poll"}
    /\ disk \in [path : {"none", "other", "part", "whole"}, temp : {"none", "part", "whole"}]
    /\ stored \in BOOLEAN /\ interrupted \in BOOLEAN

Allowed == ~Usage /\ ~Flag("dry-run") /\ (cmd.public \/ cmd.login = "valid")

NeedsSchema == cmd.schema /\ RequestBody(cmd.spec, cmd.input).kind # "none"

SchemaTook == NeedsSchema => "schema accepted" \in sent

\* What is known before a request: no usage error after the start, no dry run and no missing
\* login from the schema on, and a schema that took the body where the service has one.
Requests ==
    /\ at \notin {"start", "done", "killed"} => ~Usage
    /\ at # "done" => result = "none"
    /\ at \in Asking \cup {"schema"} => Allowed
    /\ at \in Asking => SchemaTook
    /\ "target" \in sent =>
         /\ Allowed /\ SchemaTook
         /\ at \in Asking \cup {"done", "killed"}
         /\ result \notin {"usage", "dry-run", "not authenticated"}

Complete == page.count = MaxPages \/ cmd.start + Len(page.got) >= Items

\* The pages so far are the items before the position asked for next.
PagesSoFar ==
    /\ Mode = "pages" => at \notin {"poll", "polling", "backoff"}
    /\ at \in Early => page.next \in Nat /\ page.count < MaxPages
    /\ (Mode = "pages" /\ cmd.heeds) =>
         /\ page.got = After(cmd.start, Len(page.got))
         /\ at \in Early => page.next = cmd.start + Len(page.got)
         /\ (at \in {"persist", "commit", "unlink", "rename"} \/ Ended("ok")) => Complete

\* The temporary file is whole from the last byte of the response on, and the path has it
\* only from the link or the rename on.
Files ==
    /\ Flag("to-file") => Mode = "file"
    /\ (at \in {"invoke", "schema", "send"} /\ Flag("to-file") /\ ~Flag("dry-run")) => disk.temp = "part"
    /\ (at \in {"persist", "commit", "rename"} /\ Flag("to-file")) => disk.temp = "whole"
    /\ at \in {"create", "unlink", "rename"} => Flag("to-file")
    /\ at \in {"poll", "polling", "backoff"} => ~Flag("to-file")
    /\ at = "rename" => ~cmd.links
    /\ at = "unlink" => disk.path = "whole"
    /\ disk.path = "whole" => at \in {"unlink", "killed"} \/ Ended("ok")
    /\ (Ended("ok") /\ Flag("to-file")) => disk.path = "whole"
    /\ disk.path # "part"
    /\ at = "done" => disk.temp = "none"

Streams ==
    /\ at = "streaming" => Mode = "collect" /\ UnderWay
    /\ at \in Early => response = NoResponse
    /\ Mode = "collect" =>
         /\ at \notin {"poll", "polling", "backoff", "unlink", "rename"}
         /\ (at \in {"persist", "commit"} \/ Ended("ok")) => WholeStream

IInv == Shapes /\ Requests /\ PagesSoFar /\ Files /\ Streams

-----------------------------------------------------------------------------
(* Constants, and the command, which no step changes                        *)

LEMMA Constants ==
    /\ Items \in Nat \ {0} /\ PageSize \in Nat \ {0} /\ MaxPages \in Nat \ {0}
    /\ PollTimeout \in Nat \ {0} /\ MaxBackoff \in Nat \ {0} /\ MaxEvents \in Nat \ {0}
BY OperationAssumption

LEMMA CommandShape ==
    ASSUME NEW c \in Commands
    PROVE  /\ c.start \in Nat
           /\ "to-file" \in c.flags => c.kind = "binary" /\ {"all", "wait"} \cap c.flags = {}
<1>1. WellFormed(c)
  BY OperationAssumption
<1>2. c.start \in Nat /\ c.flags \subseteq FlagsOf(c.kind)
  BY <1>1 DEF WellFormed
<1> QED
  BY <1>2 DEF FlagsOf

LEMMA CommandStays == [Next]_vars => cmd' = cmd
BY DEF Next, Step, Check, CreateFile, Invoke, CheckSchema, FailedRequest, SendPlain, FetchPage,
       OpenStream, StreamLine, StreamEnds, CutStream, ReadFile, Submit, Poll, PollAnswered, PollCut, Backoff, Persist, Commit, Unlink,
       Rename, Tick, Interrupt, Kill, OtherCreates, vars

LEMMA CommandFixes ==
    ASSUME cmd' = cmd
    PROVE  /\ Mode' = Mode /\ Usage' = Usage /\ Allowed' = Allowed /\ NeedsSchema' = NeedsSchema
           /\ \A name : Flag(name)' = Flag(name)
<1>1. \A name : Flag(name)' = Flag(name)
  BY DEF Flag
<1>2. Mode' = Mode
  BY DEF Mode, Flag
<1>3. Bound' = Bound
  BY DEF Bound, HasBody
<1>4. Usage' = Usage
  BY <1>3 DEF Usage, Flag
<1>5. Allowed' = Allowed
  BY <1>4 DEF Allowed, Flag
<1>6. NeedsSchema' = NeedsSchema
  BY DEF NeedsSchema
<1> QED
  BY <1>1, <1>2, <1>4, <1>5, <1>6

\* A line of a stream, or its end, goes on, goes to the output or fails.
LEMMA StreamSteps ==
    ASSUME StreamLine \/ StreamEnds
    PROVE  /\ at = "streaming" /\ UNCHANGED <<cmd, page, poll, sent, stored, interrupted>>
           /\ \/ at' \in {"streaming", "persist", "commit"} /\ UNCHANGED <<result, disk>>
              \/ at' = "done" /\ result' = "failed" /\ disk' = [disk EXCEPT !.temp = "none"]
<1>1. at = "streaming" /\ UNCHANGED <<cmd, page, poll, sent, stored, interrupted>>
  BY DEF StreamLine, StreamEnds
<1>2. \E state : Proceed(state)
  <2>1. CASE StreamLine
    BY <2>1, Zenon DEF StreamLine, Transfer
  <2>2. CASE StreamEnds
    BY <2>2, Zenon DEF StreamEnds
  <2> QED
    BY <2>1, <2>2
<1> QED
  BY <1>1, <1>2 DEF Proceed, Go, Stop, Answered

-----------------------------------------------------------------------------
(* Pages *)

LEMMA AfterShape ==
    ASSUME NEW pos \in Nat, NEW n \in Nat
    PROVE  After(pos, n) \in Seq(Nat) /\ Len(After(pos, n)) = n
BY DEF After

LEMMA JoinShape ==
    ASSUME NEW f \in Seq(Nat), NEW g \in Seq(Nat)
    PROVE  /\ f \o g \in Seq(Nat) /\ Len(f \o g) = Len(f) + Len(g)
           /\ \A i \in 1 .. Len(f) : (f \o g)[i] = f[i]
           /\ \A i \in 1 .. Len(g) : (f \o g)[Len(f) + i] = g[i]
OBVIOUS

\* A sequence that begins with one and goes on with another is the two joined.
LEMMA Joins ==
    ASSUME NEW f \in Seq(Nat), NEW g \in Seq(Nat), NEW h \in Seq(Nat),
           Len(h) = Len(f) + Len(g),
           \A i \in 1 .. Len(f) : f[i] = h[i], \A i \in 1 .. Len(g) : g[i] = h[Len(f) + i]
    PROVE  f \o g = h
<1> DEFINE n == Len(f)
           m == Len(g)
<1>0. n \in Nat /\ m \in Nat
  OBVIOUS
<1>1. f \o g \in Seq(Nat) /\ Len(f \o g) = n + m
  BY JoinShape
<1>2. ASSUME NEW i \in 1 .. n + m PROVE (f \o g)[i] = h[i]
  <2>1. CASE i \in 1 .. n
    BY <2>1, JoinShape
  <2>2. CASE i \in n + 1 .. n + m
    <3>0. i - n \in 1 .. m /\ i = n + (i - n)
      <4> HIDE DEF n, m
      <4> QED
        BY <1>0, <2>2
    <3>1. PICK j \in 1 .. m : i = n + j
      BY <3>0
    <3>2. (f \o g)[n + j] = g[j]
      BY JoinShape
    <3> QED
      BY <3>1, <3>2
  <2> QED
    BY <1>0, <2>1, <2>2
<1>3. Len(f \o g) = Len(h)
  BY <1>1
<1>4. \A i \in 1 .. Len(f \o g) : (f \o g)[i] = h[i]
  BY <1>1, <1>2
<1> QED
  BY <1>1, <1>3, <1>4, SeqEqual

\* Items after a position, and items after those, are the items after the position.
LEMMA AfterJoins ==
    ASSUME NEW pos \in Nat, NEW n \in Nat, NEW m \in Nat
    PROVE  After(pos, n) \o After(pos + n, m) = After(pos, n + m)
<1>1. /\ After(pos, n) \in Seq(Nat) /\ Len(After(pos, n)) = n
      /\ After(pos + n, m) \in Seq(Nat) /\ Len(After(pos + n, m)) = m
      /\ After(pos, n + m) \in Seq(Nat) /\ Len(After(pos, n + m)) = n + m
  BY AfterShape, SMTT(60)
<1>2. \A i \in 1 .. n : After(pos, n)[i] = After(pos, n + m)[i]
  BY DEF After
<1>3. ASSUME NEW i \in 1 .. m PROVE After(pos + n, m)[i] = After(pos, n + m)[n + i]
  <2>1. After(pos + n, m)[i] = pos + n + i
    BY DEF After
  <2>2. After(pos, n + m)[n + i] = pos + (n + i)
    BY DEF After
  <2> QED
    BY <2>1, <2>2
<1> DEFINE f == After(pos, n)
           g == After(pos + n, m)
           h == After(pos, n + m)
<1>4. /\ f \in Seq(Nat) /\ g \in Seq(Nat) /\ h \in Seq(Nat)
      /\ Len(f) = n /\ Len(g) = m /\ Len(h) = n + m
      /\ \A i \in 1 .. n : f[i] = h[i]
      /\ \A i \in 1 .. m : g[i] = h[n + i]
  BY <1>1, <1>2, <1>3
<1> HIDE DEF f, g, h
<1>5. /\ Len(h) = Len(f) + Len(g)
      /\ \A i \in 1 .. Len(f) : f[i] = h[i]
      /\ \A i \in 1 .. Len(g) : g[i] = h[Len(f) + i]
  BY <1>4
<1>6. f \o g = h
  BY <1>4, <1>5, Joins
<1> QED
  BY <1>6 DEF f, g, h

\* A page holds items after its position, and what follows it starts where they end; there is
\* nothing more only when they are the last.
LEMMA PageAnswered ==
    ASSUME NEW pos \in Nat, page.next \in Nat, NEW answer \in Pages(pos)
    PROVE  /\ \E n \in Nat : answer.items = After(pos, n)
           /\ NextPage(answer) \in Nat \cup {End}
           /\ page.next = pos =>
                \/ NextPage(answer) = pos + Len(answer.items)
                \/ NextPage(answer) = End /\ pos + Len(answer.items) >= Items
<1> DEFINE left == IF pos < Items THEN Items - pos ELSE 0
           honest(n) == IF n < left THEN pos + n ELSE End
           most == IF PageSize < left THEN PageSize ELSE left
<1>1. left \in Nat /\ most \in Nat /\ (\A n \in Nat : n >= left => pos + n >= Items)
  BY Constants
<1>2. ASSUME NEW n \in Nat PROVE honest(n) = pos + n \/ (honest(n) = End /\ pos + n >= Items)
  <2>1. n < left \/ n >= left
    BY <1>1
  <2> HIDE DEF left
  <2> QED
    BY <1>1, <2>1
<1>3. \A n \in Nat : honest(n) \in Nat \cup {End}
  BY <1>2
<1>4. CASE cmd.strategy = "cursor"
  <2>1. PICK n \in 0 .. most :
          answer = [items |-> After(pos, n), token |-> honest(n), hasNext |-> "absent"]
    BY <1>4 DEF Pages
  <2>2. NextPage(answer) = honest(n) /\ answer.items = After(pos, n) /\ n \in Nat
    BY <1>1, <1>4, <2>1 DEF NextPage
  <2> HIDE DEF honest
  <2> QED
    BY <1>2, <1>3, <2>2, AfterShape
<1>5. CASE cmd.strategy = "body-cursor"
  <2>1. PICK n \in 0 .. most, told \in BOOLEAN :
          answer = [items |-> After(pos, n), token |-> IF told THEN pos + n ELSE honest(n),
                    hasNext |-> IF ~told THEN "absent" ELSE IF n < left THEN "yes" ELSE "no"]
    BY <1>5 DEF Pages
  <2>2. n \in Nat /\ answer.items = After(pos, n)
    BY <1>1, <2>1
  <2>3. NextPage(answer) = IF answer.hasNext = "no" THEN End ELSE answer.token
    BY <1>5 DEF NextPage
  <2>4. CASE told /\ n < left
    BY <2>1, <2>2, <2>3, <2>4, AfterShape
  <2>5. CASE told /\ ~(n < left)
    <3>1. answer.hasNext = "no"
      BY <2>1, <2>5
    <3>2. n >= left
      BY <1>1, <2>2, <2>5
    <3>3. Len(answer.items) = n /\ pos + n >= Items
      BY <1>1, <2>2, <3>2, AfterShape
    <3> QED
      BY <2>2, <2>3, <3>1, <3>3
  <2>6. CASE ~told
    <3>1. NextPage(answer) = honest(n)
      BY <2>1, <2>3, <2>6
    <3> HIDE DEF honest
    <3> QED
      BY <1>2, <1>3, <2>2, <3>1, AfterShape
  <2> QED
    BY <2>4, <2>5, <2>6
<1>6. CASE cmd.strategy \notin {"cursor", "body-cursor"}
  <2>1. PICK n \in (IF left = 0 THEN 0 ELSE 1) .. most :
          answer = [items |-> After(pos, n), token |-> End, hasNext |-> "absent"]
    BY <1>6 DEF Pages
  <2>2. NextPage(answer) = IF answer.items = <<>> THEN End ELSE page.next + Len(answer.items)
    BY <1>6 DEF NextPage
  <2>3. n \in Nat /\ answer.items = After(pos, n) /\ (n = 0 => left = 0)
    BY <1>1, <2>1
  <2>4. Len(answer.items) = n /\ (answer.items = <<>> <=> n = 0)
    BY <2>3, AfterShape
  <2>5. CASE n = 0
    BY <1>1, <2>2, <2>3, <2>4, <2>5
  <2>6. CASE n # 0
    BY <2>2, <2>3, <2>4, <2>6
  <2> QED
    BY <2>5, <2>6
<1> QED
  BY <1>4, <1>5, <1>6

-----------------------------------------------------------------------------
(* The shapes of the state *)

LEMMA InitShapes == Init => Shapes
<1> SUFFICES ASSUME Init PROVE Shapes
  OBVIOUS
<1>1. cmd \in Commands /\ at \in Places
  BY DEF Init, Places
<1>2. page \in [count : 0 .. MaxPages, next : Nat \cup {End}, got : Seq(Nat)]
  BY <1>1, Constants, CommandShape DEF Init
<1>3. poll \in [time : 0 .. PollTimeout, due : Nat, backoff : 1 .. MaxBackoff]
  BY Constants DEF Init
<1>4. disk \in [path : {"none", "other", "part", "whole"}, temp : {"none", "part", "whole"}]
  BY DEF Init
<1>5. sent \subseteq {"schema", "schema accepted", "schema refused", "target", "poll"}
      /\ stored \in BOOLEAN /\ interrupted \in BOOLEAN
  BY DEF Init
<1> QED
  BY <1>1, <1>2, <1>3, <1>4, <1>5 DEF Shapes

LEMMA PollShape ==
    ASSUME Shapes
    PROVE  poll.time \in 0 .. PollTimeout /\ poll.due \in Nat /\ poll.backoff \in 1 .. MaxBackoff
BY DEF Shapes

LEMMA ShapesKept ==
    ASSUME Shapes, PagesSoFar, [Next]_vars
    PROVE  Shapes'
<1>1. CASE Check
  BY <1>1 DEF Check, Go, Stop, fetched, Shapes, Places
<1>2. CASE CreateFile
  BY <1>2 DEF CreateFile, Stop, fetched, Shapes, Places
<1>3. CASE Invoke
  BY <1>3 DEF Invoke, Go, Stop, fetched, Shapes, Places
<1>4. CASE CheckSchema
  BY <1>4 DEF CheckSchema, Go, Stop, Leaves, fetched, Shapes, Places
<1>5. CASE FailedRequest("schema", "schema")
  BY <1>5 DEF FailedRequest, Stop, Leaves, fetched, Shapes, Places
<1>6. CASE SendPlain
  BY <1>6 DEF SendPlain, Go, Answered, Leaves, fetched, Shapes, Places
<1>7. CASE FetchPage
  <2> DEFINE pos == IF cmd.heeds THEN page.next ELSE cmd.start
  <2>1. PICK answer \in Pages(pos) :
          page' = [count |-> page.count + 1, next |-> NextPage(answer), got |-> page.got \o answer.items]
    BY <1>7 DEF FetchPage
  <2>2. page.next \in Nat /\ page.count < MaxPages /\ pos \in Nat
    BY <1>7, CommandShape DEF FetchPage, PagesSoFar, Early, Shapes
  <2> HIDE DEF pos
  <2>3. NextPage(answer) \in Nat \cup {End} /\ (\E n \in Nat : answer.items = After(pos, n))
    BY <2>2, PageAnswered
  <2>4. answer.items \in Seq(Nat)
    BY <2>2, <2>3, AfterShape
  <2>5. page.got \o answer.items \in Seq(Nat)
    BY <2>4, JoinShape DEF Shapes
  <2>6. page.count \in 0 .. MaxPages
    BY DEF Shapes
  <2>7. page.count + 1 \in 0 .. MaxPages
    BY <2>2, <2>6, Constants
  <2>8. page' \in [count : 0 .. MaxPages, next : Nat \cup {End}, got : Seq(Nat)]
    BY <2>1, <2>3, <2>5, <2>7
  <2>9. /\ cmd' = cmd /\ UNCHANGED <<poll, stored, interrupted>> /\ sent' = sent \cup {"target"}
        /\ at' \in {"send", "persist", "commit"} /\ disk' = disk
    BY <1>7 DEF FetchPage, Leaves, Answered, Go
  <2> QED
    BY <2>8, <2>9 DEF Shapes, Places
<1>8. CASE OpenStream
  BY <1>8 DEF OpenStream, Leaves, Go, fetched, Shapes, Places
<1>9. CASE StreamLine \/ StreamEnds
  BY <1>9, StreamSteps DEF Shapes, Places
<1>10. CASE CutStream
  BY <1>10 DEF CutStream, Stop, fetched, Shapes, Places
<1>11. CASE ReadFile
  BY <1>11 DEF ReadFile, Go, Answered, Leaves, fetched, Shapes, Places
<1>12. CASE FailedRequest("send", "target")
  BY <1>12 DEF FailedRequest, Stop, Leaves, fetched, Shapes, Places
<1>13. CASE Submit
  BY <1>13 DEF Submit, Go, Stop, Answered, Leaves, fetched, Shapes, Places
<1>14. CASE Poll
  BY <1>14 DEF Poll, Go, Stop, fetched, Shapes, Places, Expired
<1>15. CASE PollAnswered
  <2>1. poll.time + poll.backoff \in Nat
    BY PollShape
  <2>2. poll' = poll \/ poll' = [poll EXCEPT !.due = poll.time + poll.backoff]
    BY <1>15 DEF PollAnswered
  <2>3. poll' \in [time : 0 .. PollTimeout, due : Nat, backoff : 1 .. MaxBackoff]
    BY <2>1, <2>2 DEF Shapes
  <2> QED
    BY <1>15, <2>3 DEF PollAnswered, Go, Stop, Answered, Shapes, Places
<1>16. CASE PollCut
  BY <1>16 DEF PollCut, Stop, fetched, Shapes, Places, Expired
<1>17. CASE Backoff
  <2>1. (IF 2 * poll.backoff > MaxBackoff THEN MaxBackoff ELSE 2 * poll.backoff) \in 1 .. MaxBackoff
    BY PollShape, Constants
  <2>2. poll' = [poll EXCEPT !.backoff = IF 2 * poll.backoff > MaxBackoff THEN MaxBackoff ELSE 2 * poll.backoff]
    BY <1>17 DEF Backoff
  <2>3. poll' \in [time : 0 .. PollTimeout, due : Nat, backoff : 1 .. MaxBackoff]
    BY <2>1, <2>2 DEF Shapes
  <2> QED
    BY <1>17, <2>3 DEF Backoff, Go, Shapes, Places
<1>18. CASE Persist
  BY <1>18 DEF Persist, Go, Stop, fetched, Shapes, Places
<1>19. CASE Commit
  BY <1>19 DEF Commit, Go, Stop, fetched, Shapes, Places
<1>20. CASE Unlink
  BY <1>20 DEF Unlink, Stop, fetched, Shapes, Places
<1>21. CASE Rename
  <2>1. disk.temp \in {"none", "part", "whole"}
    BY DEF Shapes
  <2>2. disk' \in [path : {"none", "other", "part", "whole"}, temp : {"none", "part", "whole"}]
    <3>1. CASE disk' = [path |-> disk.temp, temp |-> "none"]
      BY <2>1, <3>1
    <3>2. CASE disk' = [disk EXCEPT !.temp = "none"]
      BY <3>2 DEF Shapes
    <3> QED
      BY <1>21, <3>1, <3>2 DEF Rename, Stop
  <2>3. UNCHANGED <<cmd, page, poll, sent, stored, interrupted>> /\ at' = "done"
    BY <1>21 DEF Rename, Stop, fetched
  <2> QED
    BY <2>2, <2>3 DEF Shapes, Places
<1>22. CASE Tick
  <2>1. poll.time + 1 \in 0 .. PollTimeout
    BY <1>22, PollShape, Constants DEF Tick, Expired
  <2>2. poll' = [poll EXCEPT !.time = poll.time + 1]
    BY <1>22 DEF Tick
  <2>3. poll' \in [time : 0 .. PollTimeout, due : Nat, backoff : 1 .. MaxBackoff]
    BY <2>1, <2>2 DEF Shapes
  <2> QED
    BY <1>22, <2>3 DEF Tick, Shapes
<1>23. CASE Interrupt
  BY <1>23 DEF Interrupt, fetched, Shapes, Places, Running
<1>24. CASE Kill
  BY <1>24 DEF Kill, fetched, Shapes, Places, Running
<1>25. CASE OtherCreates
  BY <1>25 DEF OtherCreates, fetched, Shapes, Places
<1>26. CASE UNCHANGED vars
  BY <1>26, Constants DEF vars, fetched, Shapes
<1> QED
  BY <1>1, <1>2, <1>3, <1>4, <1>5, <1>6, <1>7, <1>8, <1>9, <1>10, <1>11, <1>12, <1>13, <1>14, <1>15, <1>16,
     <1>17, <1>18, <1>19, <1>20, <1>21, <1>22, <1>23, <1>24, <1>25, <1>26 DEF Next, Step

-----------------------------------------------------------------------------
(* Requests *)

LEMMA InitRequests == Init => Requests
BY DEF Init, Requests, Asking

LEMMA RequestsKept ==
    ASSUME Requests, [Next]_vars
    PROVE  Requests'
<1>1. cmd' = cmd
  BY CommandStays
<1>2. Usage' = Usage /\ Allowed' = Allowed /\ NeedsSchema' = NeedsSchema
  BY <1>1, CommandFixes
<1>3. CASE Check
  BY <1>3, <1>2 DEF Check, Go, Stop, Requests, Asking, SchemaTook
<1>4. CASE CreateFile
  BY <1>4, <1>2 DEF CreateFile, Stop, Requests, Asking, SchemaTook
<1>5. CASE Invoke
  BY <1>5, <1>2 DEF Invoke, Go, Stop, Requests, Asking, SchemaTook, Allowed, NeedsSchema
<1>6. CASE CheckSchema
  BY <1>6, <1>2 DEF CheckSchema, Go, Stop, Leaves, Requests, Asking, SchemaTook, NeedsSchema
<1>7. CASE FailedRequest("schema", "schema")
  BY <1>7, <1>2 DEF FailedRequest, Stop, Leaves, Requests, Asking, SchemaTook
<1>8. CASE SendPlain
  BY <1>8, <1>2 DEF SendPlain, Go, Answered, Leaves, Requests, Asking, SchemaTook
<1>9. CASE FetchPage
  BY <1>9, <1>2 DEF FetchPage, Go, Answered, Leaves, Requests, Asking, SchemaTook
<1>10. CASE OpenStream
  BY <1>10, <1>2 DEF OpenStream, Leaves, Go, fetched, Requests, Asking, SchemaTook
<1>11. CASE StreamLine \/ StreamEnds
  BY <1>11, <1>2, StreamSteps DEF Requests, Asking, SchemaTook
<1>12. CASE CutStream
  BY <1>12, <1>2 DEF CutStream, Stop, fetched, Requests, Asking, SchemaTook
<1>13. CASE ReadFile
  BY <1>13, <1>2 DEF ReadFile, Go, Answered, Leaves, Requests, Asking, SchemaTook
<1>14. CASE FailedRequest("send", "target")
  BY <1>14, <1>2 DEF FailedRequest, Stop, Leaves, Requests, Asking, SchemaTook
<1>15. CASE Submit
  BY <1>15, <1>2 DEF Submit, Go, Stop, Answered, Leaves, Requests, Asking, SchemaTook
<1>16. CASE Poll
  BY <1>16, <1>2 DEF Poll, Go, Stop, Requests, Asking, SchemaTook
<1>17. CASE PollAnswered
  BY <1>17, <1>2 DEF PollAnswered, Go, Stop, Answered, Requests, Asking, SchemaTook
<1>18. CASE PollCut
  BY <1>18, <1>2 DEF PollCut, Stop, Requests, Asking, SchemaTook
<1>19. CASE Backoff
  BY <1>19, <1>2 DEF Backoff, Go, Requests, Asking, SchemaTook
<1>20. CASE Persist
  BY <1>20, <1>2 DEF Persist, Go, Stop, Requests, Asking, SchemaTook
<1>21. CASE Commit
  BY <1>21, <1>2 DEF Commit, Go, Stop, Requests, Asking, SchemaTook
<1>22. CASE Unlink
  BY <1>22, <1>2 DEF Unlink, Stop, Requests, Asking, SchemaTook
<1>23. CASE Rename
  BY <1>23, <1>2 DEF Rename, Stop, Requests, Asking, SchemaTook
<1>24. CASE Tick
  BY <1>24, <1>2 DEF Tick, Requests, Asking, SchemaTook
<1>25. CASE Interrupt
  BY <1>25, <1>2 DEF Interrupt, Requests, Asking, SchemaTook, Running
<1>26. CASE Kill
  BY <1>26, <1>2 DEF Kill, Requests, Asking, SchemaTook, Running
<1>27. CASE OtherCreates
  BY <1>27, <1>2 DEF OtherCreates, Requests, Asking, SchemaTook
<1>28. CASE UNCHANGED vars
  BY <1>28, <1>2 DEF vars, fetched, Requests, Asking, SchemaTook
<1> QED
  BY <1>3, <1>4, <1>5, <1>6, <1>7, <1>8, <1>9, <1>10, <1>11, <1>12, <1>13, <1>14, <1>15, <1>16, <1>17, <1>18,
     <1>19, <1>20, <1>21, <1>22, <1>23, <1>24, <1>25, <1>26, <1>27, <1>28 DEF Next, Step

-----------------------------------------------------------------------------
(* The items of the pages *)

LEMMA InitPagesSoFar == Init => PagesSoFar
<1> SUFFICES ASSUME Init PROVE PagesSoFar
  OBVIOUS
<1>1. page.next = cmd.start /\ page.count = 0 /\ page.got = <<>> /\ cmd.start \in Nat /\ at = "start"
  BY CommandShape DEF Init
<1>2. After(cmd.start, 0) = <<>>
  BY DEF After
<1>3. page.got = After(cmd.start, Len(page.got)) /\ page.next = cmd.start + Len(page.got)
  BY <1>1, <1>2
<1> QED
  BY <1>1, <1>3, Constants DEF PagesSoFar, Early, Ended

LEMMA PagesKept ==
    ASSUME Shapes, PagesSoFar, Files, Streams, [Next]_vars
    PROVE  PagesSoFar'
<1>1. cmd' = cmd
  BY CommandStays
<1>2. Mode' = Mode
  BY <1>1, CommandFixes
<1>3. CASE Check
  BY <1>3, <1>1, <1>2 DEF Check, Go, Stop, PagesSoFar, Early, Complete, Ended, fetched
<1>4. CASE CreateFile
  BY <1>4, <1>1, <1>2 DEF CreateFile, Stop, PagesSoFar, Early, Complete, Ended, fetched
<1>5. CASE Invoke
  BY <1>5, <1>1, <1>2 DEF Invoke, Go, Stop, PagesSoFar, Early, Complete, Ended, fetched
<1>6. CASE CheckSchema
  BY <1>6, <1>1, <1>2 DEF CheckSchema, Go, Stop, PagesSoFar, Early, Complete, Ended, fetched
<1>7. CASE FailedRequest("schema", "schema")
  BY <1>7, <1>1, <1>2 DEF FailedRequest, Stop, PagesSoFar, Early, Complete, Ended, fetched
<1>8. CASE SendPlain
  BY <1>8, <1>1, <1>2 DEF SendPlain, Go, Answered, PagesSoFar, Early, Complete, Ended, fetched
<1>9. CASE FetchPage
  <2> DEFINE pos == IF cmd.heeds THEN page.next ELSE cmd.start
  <2>1. PICK answer \in Pages(pos) :
          /\ page' = [count |-> page.count + 1, next |-> NextPage(answer), got |-> page.got \o answer.items]
          /\ IF NextPage(answer) = End \/ page.count + 1 = MaxPages THEN Answered ELSE Go("send")
    BY <1>9 DEF FetchPage
  <2>2. /\ page.next \in Nat /\ page.count < MaxPages /\ cmd.start \in Nat
        /\ page.count \in Nat /\ page.got \in Seq(Nat)
    <3>1. page.next \in Nat /\ page.count < MaxPages
      BY <1>9 DEF FetchPage, PagesSoFar, Early
    <3>2. page.count \in 0 .. MaxPages /\ page.got \in Seq(Nat) /\ cmd \in Commands
      BY DEF Shapes
    <3> QED
      BY <3>1, <3>2, CommandShape
  <2>3. PICK n \in Nat : answer.items = After(pos, n)
    BY <2>2, PageAnswered
  <2>4. NextPage(answer) \in Nat \cup {End}
    BY <2>2, PageAnswered
  <2>5. page'.count = page.count + 1 /\ page'.next = NextPage(answer) /\ page'.got = page.got \o answer.items
    BY <2>1
  <2>6. \/ at' = "send" /\ NextPage(answer) # End /\ page.count + 1 # MaxPages
        \/ at' \in {"persist", "commit"} /\ (NextPage(answer) = End \/ page.count + 1 = MaxPages)
    BY <2>1 DEF Answered, Go
  <2>7. at' \notin {"poll", "polling", "backoff", "done"}
    BY <2>6
  <2>8. at' \in Early => page'.next \in Nat /\ page'.count < MaxPages
    BY <2>2, <2>4, <2>5, <2>6, Constants DEF Early, End
  <2>9. ASSUME cmd.heeds
        PROVE  /\ page'.got = After(cmd.start, Len(page'.got))
               /\ at' \in Early => page'.next = cmd.start + Len(page'.got)
               /\ at' \in {"persist", "commit", "unlink", "rename"} =>
                    page'.count = MaxPages \/ cmd.start + Len(page'.got) >= Items
    <3> DEFINE so == Len(page.got)
    <3>1. page.got = After(cmd.start, so) /\ page.next = cmd.start + so /\ pos = cmd.start + so
      BY <1>9, <2>9 DEF FetchPage, PagesSoFar, Early
    <3>2. so \in Nat
      BY <2>2
    <3> HIDE DEF so, pos
    <3>3. page'.got = After(cmd.start, so + n)
      <4>1. page'.got = After(cmd.start, so) \o After(cmd.start + so, n)
        BY <2>3, <2>5, <3>1
      <4> QED
        BY <2>2, <3>2, <4>1, AfterJoins, ZenonT(60)
    <3>4. Len(page'.got) = so + n
      BY <2>2, <3>2, <3>3, AfterShape
    <3>5. Len(answer.items) = n
      BY <2>2, <2>3, <3>1, <3>2, AfterShape
    <3>6. \/ NextPage(answer) = pos + n
          \/ NextPage(answer) = End /\ pos + n >= Items
      BY <2>2, <3>1, <3>5, PageAnswered
    <3>7. page'.got = After(cmd.start, Len(page'.got))
      BY <3>3, <3>4
    <3>8. cmd.start + Len(page'.got) = pos + n
      BY <2>2, <3>1, <3>2, <3>4
    <3>9. at' \in Early => page'.next = cmd.start + Len(page'.got)
      BY <2>5, <2>6, <3>6, <3>8 DEF Early
    <3>10. pos + n \in Nat
      BY <2>2, <3>1, <3>2
    <3>11. NextPage(answer) = End => pos + n >= Items
      BY <3>6, <3>10 DEF End
    <3>12. at' \in {"persist", "commit", "unlink", "rename"} =>
             page'.count = MaxPages \/ cmd.start + Len(page'.got) >= Items
      BY <2>5, <2>6, <3>8, <3>11
    <3> QED
      BY <3>7, <3>9, <3>12
  <2> QED
    BY <1>1, <1>2, <2>7, <2>8, <2>9 DEF PagesSoFar, Complete, Ended
<1>10. CASE OpenStream
  BY <1>10, <1>1, <1>2 DEF OpenStream, Leaves, Go, fetched, PagesSoFar, Early, Complete, Ended
<1>11. CASE StreamLine \/ StreamEnds
  BY <1>11, <1>1, <1>2, StreamSteps DEF Streams, PagesSoFar, Early, Complete, Ended
<1>12. CASE CutStream
  BY <1>12, <1>1, <1>2 DEF CutStream, Stop, fetched, PagesSoFar, Early, Complete, Ended
<1>13. CASE ReadFile
  BY <1>13, <1>1, <1>2 DEF ReadFile, Go, Answered, PagesSoFar, Early, Complete, Ended, fetched
<1>14. CASE FailedRequest("send", "target")
  BY <1>14, <1>1, <1>2 DEF FailedRequest, Stop, PagesSoFar, Early, Complete, Ended, fetched
<1>15. CASE Submit
  BY <1>15, <1>1, <1>2 DEF Submit, Go, Stop, Answered, PagesSoFar, Early, Complete, Ended, fetched
<1>16. CASE Poll
  BY <1>16, <1>1, <1>2 DEF Poll, Go, Stop, PagesSoFar, Early, Complete, Ended, fetched
<1>17. CASE PollAnswered
  BY <1>17, <1>1, <1>2 DEF PollAnswered, Go, Stop, Answered, PagesSoFar, Early, Complete, Ended
<1>18. CASE PollCut
  BY <1>18, <1>1, <1>2 DEF PollCut, Stop, PagesSoFar, Early, Complete, Ended, fetched
<1>19. CASE Backoff
  BY <1>19, <1>1, <1>2 DEF Backoff, Go, PagesSoFar, Early, Complete, Ended
<1>20. CASE Persist
  BY <1>20, <1>1, <1>2 DEF Persist, Go, Stop, PagesSoFar, Early, Complete, Ended, fetched
<1>21. CASE Commit
  BY <1>21, <1>1, <1>2 DEF Commit, Go, Stop, PagesSoFar, Early, Complete, Ended, fetched
<1>22. CASE Unlink
  BY <1>22, <1>1, <1>2 DEF Unlink, Stop, PagesSoFar, Early, Complete, Ended, fetched
<1>23. CASE Rename
  BY <1>23, <1>1, <1>2 DEF Rename, Stop, PagesSoFar, Early, Complete, Ended, fetched
<1>24. CASE Tick
  BY <1>24, <1>1, <1>2 DEF Tick, PagesSoFar, Early, Complete, Ended
<1>25. CASE Interrupt
  BY <1>25, <1>1, <1>2 DEF Interrupt, PagesSoFar, Early, Complete, Ended, fetched, Running
<1>26. CASE Kill
  BY <1>26, <1>1, <1>2 DEF Kill, PagesSoFar, Early, Complete, Ended, fetched, Running
<1>27. CASE OtherCreates
  BY <1>27, <1>1, <1>2 DEF OtherCreates, PagesSoFar, Early, Complete, Ended, fetched
<1>28. CASE UNCHANGED vars
  BY <1>28, <1>1, <1>2 DEF vars, fetched, PagesSoFar, Early, Complete, Ended
<1> QED
  BY <1>3, <1>4, <1>5, <1>6, <1>7, <1>8, <1>9, <1>10, <1>11, <1>12, <1>13, <1>14, <1>15, <1>16, <1>17, <1>18,
     <1>19, <1>20, <1>21, <1>22, <1>23, <1>24, <1>25, <1>26, <1>27, <1>28 DEF Next, Step

-----------------------------------------------------------------------------
(* The downloaded file *)

LEMMA ToFileMode ==
    ASSUME Shapes, Flag("to-file")
    PROVE  Mode = "file"
<1>1. cmd.kind = "binary" /\ ~Flag("all") /\ ~Flag("wait")
  BY CommandShape DEF Shapes, Flag
<1> QED
  BY <1>1 DEF Mode

LEMMA InitFiles == Init => Files
<1> SUFFICES ASSUME Init PROVE Files
  OBVIOUS
<1>1. Flag("to-file") => Mode = "file"
  BY InitShapes, ToFileMode
<1>2. at = "start" /\ disk.path \in {"none", "other"}
  BY DEF Init
<1> QED
  BY <1>1, <1>2 DEF Files, Ended

LEMMA FilesKept ==
    ASSUME Shapes, Requests, Files, Streams, [Next]_vars
    PROVE  Files'
<1>1. cmd' = cmd
  BY CommandStays
<1>2. Mode' = Mode /\ (\A name : Flag(name)' = Flag(name))
  BY <1>1, CommandFixes
<1>3. /\ DOMAIN disk = {"path", "temp"} /\ disk = [path |-> disk.path, temp |-> disk.temp]
      /\ disk.path \in {"none", "other", "part", "whole"} /\ disk.temp \in {"none", "part", "whole"}
  BY DEF Shapes
<1>4. CASE Check
  BY <1>4, <1>1, <1>2, <1>3 DEF Check, Go, Stop, Files, Ended
<1>5. CASE CreateFile
  BY <1>5, <1>1, <1>2, <1>3 DEF CreateFile, Stop, Files, Ended
<1>6. CASE Invoke
  BY <1>6, <1>1, <1>2, <1>3 DEF Invoke, Go, Stop, Files, Ended
<1>7. CASE CheckSchema
  BY <1>7, <1>1, <1>2, <1>3 DEF CheckSchema, Go, Stop, Files, Ended
<1>8. CASE FailedRequest("schema", "schema")
  BY <1>8, <1>1, <1>2, <1>3 DEF FailedRequest, Stop, Files, Ended
<1>9. CASE SendPlain
  BY <1>9, <1>1, <1>2, <1>3 DEF SendPlain, Go, Answered, Files, Ended
<1>10. CASE FetchPage
  BY <1>10, <1>1, <1>2, <1>3 DEF FetchPage, Go, Answered, Files, Ended
<1>11. CASE OpenStream
  BY <1>11, <1>1, <1>2, <1>3 DEF OpenStream, Leaves, Go, fetched, Files, Ended
<1>12. CASE StreamLine \/ StreamEnds
  BY <1>12, <1>1, <1>2, <1>3, StreamSteps DEF Streams, Files, Ended
<1>13. CASE CutStream
  BY <1>13, <1>1, <1>2, <1>3 DEF CutStream, Stop, fetched, Files, Ended
<1>14. CASE ReadFile
  BY <1>14, <1>1, <1>2, <1>3 DEF ReadFile, Go, Answered, Files, Ended
<1>15. CASE FailedRequest("send", "target")
  BY <1>15, <1>1, <1>2, <1>3 DEF FailedRequest, Stop, Files, Ended
<1>16. CASE Submit
  BY <1>16, <1>1, <1>2, <1>3 DEF Submit, Go, Stop, Answered, Files, Ended
<1>17. CASE Poll
  BY <1>17, <1>1, <1>2, <1>3 DEF Poll, Go, Stop, Files, Ended
<1>18. CASE PollAnswered
  BY <1>18, <1>1, <1>2, <1>3 DEF PollAnswered, Go, Stop, Answered, Files, Ended
<1>19. CASE PollCut
  BY <1>19, <1>1, <1>2, <1>3 DEF PollCut, Stop, Files, Ended
<1>20. CASE Backoff
  BY <1>20, <1>1, <1>2, <1>3 DEF Backoff, Go, Files, Ended
<1>21. CASE Persist
  BY <1>21, <1>1, <1>2, <1>3 DEF Persist, Go, Stop, Files, Ended
<1>22. CASE Commit
  BY <1>22, <1>1, <1>2, <1>3 DEF Commit, Go, Stop, Files, Ended
<1>23. CASE Unlink
  BY <1>23, <1>1, <1>2, <1>3 DEF Unlink, Stop, Files, Ended
<1>24. CASE Rename
  <2>1. at = "rename" /\ at' = "done" /\ Flag("to-file") /\ disk.temp = "whole" /\ disk.path # "whole"
    BY <1>24, <1>3 DEF Rename, Stop, Files, Ended
  <2>2. CASE result' = "ok" /\ disk' = [path |-> disk.temp, temp |-> "none"]
    <3>1. disk'.path = "whole" /\ disk'.temp = "none"
      BY <2>1, <2>2
    <3> QED
      BY <1>1, <1>2, <2>1, <2>2, <3>1 DEF Files, Ended
  <2>3. CASE Stop("not written")
    <3>1. disk'.path = disk.path /\ disk'.temp = "none" /\ result' = "not written"
      BY <1>3, <2>3 DEF Stop
    <3> QED
      BY <1>1, <1>2, <2>1, <3>1 DEF Files, Ended
  <2> QED
    BY <1>24, <2>2, <2>3 DEF Rename
<1>25. CASE Tick
  BY <1>25, <1>1, <1>2, <1>3 DEF Tick, Files, Ended
<1>26. CASE Interrupt
  BY <1>26, <1>1, <1>2, <1>3 DEF Interrupt, Files, Ended, Running
<1>27. CASE Kill
  BY <1>27, <1>1, <1>2, <1>3 DEF Kill, Files, Ended, Running
<1>28. CASE OtherCreates
  BY <1>28, <1>1, <1>2, <1>3 DEF OtherCreates, Files, Ended, Running
<1>29. CASE UNCHANGED vars
  BY <1>29, <1>1, <1>2, <1>3 DEF vars, fetched, Files, Ended
<1> QED
  BY <1>4, <1>5, <1>6, <1>7, <1>8, <1>9, <1>10, <1>11, <1>12, <1>13, <1>14, <1>15, <1>16, <1>17, <1>18,
     <1>19, <1>20, <1>21, <1>22, <1>23, <1>24, <1>25, <1>26, <1>27, <1>28, <1>29 DEF Next, Step

-----------------------------------------------------------------------------
(* Streams *)

\* The steps of the other commands.
ElsewhereStep ==
    \/ Check \/ CreateFile \/ Invoke \/ CheckSchema \/ FailedRequest("schema", "schema")
    \/ SendPlain \/ FetchPage \/ ReadFile \/ FailedRequest("send", "target")
    \/ Submit \/ Poll \/ PollAnswered \/ PollCut \/ Backoff \/ Tick

LEMMA InitStreams == Init => Streams
BY DEF Init, Streams, Early, Ended

LEMMA StreamsKept ==
    ASSUME Shapes, Files, Streams, [Next]_vars
    PROVE  Streams'
<1>1. cmd' = cmd
  BY CommandStays
<1>2. Mode' = Mode /\ Flag("stream")' = Flag("stream")
  BY <1>1, CommandFixes
<1>3. Mode = "collect" => IsPolicy(cmd.policy)
  <2>1. Mode = "collect" => cmd.kind = "stream"
    BY DEF Mode
  <2>2. WellFormed(cmd)
    BY OperationAssumption DEF Shapes
  <2> QED
    BY <2>1, <2>2 DEF WellFormed
<1>4. Mode = "collect" => ~Flag("to-file")
  BY DEF Files
<1>5. ASSUME response' = response
      PROVE  UnderWay' = UnderWay /\ WholeStream' = WholeStream
  <2>1. NDJSON' = NDJSON /\ LinesOf(response.writing)' = LinesOf(response.writing)
        /\ Named(cmd.policy, response.writing)' = Named(cmd.policy, response.writing)
    BY <1>1, <1>5 DEF NDJSON, LinesOf, Named
  <2>2. Reading' = Reading
    BY <1>1, <1>5, <2>1 DEF Reading
  <2> QED
    BY <1>1, <1>2, <1>5, <2>2 DEF UnderWay, WholeStream
<1>6. CASE ElsewhereStep
  <2>1. response' = response
    BY <1>6 DEF ElsewhereStep, Check, CreateFile, Invoke, CheckSchema, FailedRequest, SendPlain, FetchPage,
       ReadFile, Submit, Poll, PollAnswered, PollCut, Backoff, Tick, fetched
  <2>2. /\ at' # "streaming" /\ (at' \in Early => at \in Early)
        /\ Mode = "collect" =>
             /\ at' \notin {"poll", "polling", "backoff", "unlink", "rename", "persist", "commit"}
             /\ ~Ended("ok")'
    BY <1>6, <1>4 DEF ElsewhereStep, Check, CreateFile, Invoke, CheckSchema, FailedRequest, SendPlain, FetchPage,
       ReadFile, Submit, Poll, PollAnswered, PollCut, Backoff, Tick, Go, Stop, Answered, Early, Streams, Ended
  <2> QED
    BY <1>2, <2>1, <2>2 DEF Streams
<1>7. CASE OpenStream
  <2>1. Mode = "collect" /\ at' = "streaming" /\ response' = response /\ response = NoResponse
    BY <1>7 DEF OpenStream, Go, fetched, Streams, Early
  <2>2. UnderWay
    <3>1. IsTaken(response.taken) /\ Heard(cmd.policy, Flag("stream"), <<>>, response.taken)
      BY <1>3, <2>1, HeardNothing
    <3>2. response.events = <<>> /\ response.line = 0 /\ response.reader = NothingRead
          /\ response.taken.state = "on" /\ DOMAIN response = {"events", "writing", "line", "end", "reader", "taken"}
      BY <2>1 DEF NoResponse
    <3>3. Quiet(cmd.policy, <<>>)
      BY DEF Quiet
    <3> QED
      BY <3>1, <3>2, <3>3 DEF UnderWay, Reading
  <2> QED
    BY <1>2, <1>5, <2>1, <2>2 DEF Streams, Early, Ended
<1>8. CASE StreamLine \/ StreamEnds
  <2>1. Mode = "collect" /\ UnderWay /\ IsPolicy(cmd.policy)
    BY <1>3, <1>8, StreamSteps DEF Streams
  <2>2. \/ at' = "streaming" /\ UnderWay'
        \/ at' \in {"persist", "commit"} /\ WholeStream'
        \/ at' = "done" /\ result' = "failed"
    <3>1. CASE StreamLine
      <4>1. PICK e \in StreamEvents, k \in Nat :
              IsEvent(e) /\ Named(cmd.policy, e) /\ Before(e, k) /\ Transfer(e, k)
        BY <2>1, <3>1, OperationAssumption, NextLine
      <4> QED
        BY <1>1, <2>1, <4>1, LineKept
    <3>2. CASE StreamEnds
      BY <1>1, <2>1, <3>2, EndKept
    <3> QED
      BY <1>8, <3>1, <3>2
  <2> QED
    BY <1>2, <2>1, <2>2 DEF Streams, Early, Ended
<1>9. CASE CutStream
  BY <1>2, <1>9 DEF CutStream, Stop, Streams, Early, Ended
<1>10. CASE Persist
  <2>1. response' = response
    BY <1>10 DEF Persist, fetched
  <2>2. at = "persist" /\ (at' = "commit" \/ (at' = "done" /\ result' = "failed"))
    BY <1>10 DEF Persist, Go, Stop
  <2> QED
    BY <1>2, <1>5, <2>1, <2>2 DEF Streams, Early, Ended
<1>11. CASE Commit
  <2>1. response' = response
    BY <1>11 DEF Commit, fetched
  <2>2. at = "commit" /\ at' \in {"done", "unlink", "rename"} /\ (at' # "done" => Flag("to-file"))
    BY <1>11 DEF Commit, Go, Stop
  <2> QED
    BY <1>2, <1>4, <1>5, <2>1, <2>2 DEF Streams, Early, Ended
<1>12. CASE Unlink \/ Rename
  <2>1. Mode # "collect" /\ at' = "done"
    BY <1>12 DEF Unlink, Rename, Stop, Streams
  <2> QED
    BY <1>2, <2>1 DEF Streams, Early
<1>13. CASE Interrupt \/ OtherCreates \/ UNCHANGED vars
  <2>1. UNCHANGED <<at, response, result>>
    BY <1>13 DEF Interrupt, OtherCreates, vars, fetched
  <2> QED
    BY <1>2, <1>5, <2>1 DEF Streams, Ended
<1>14. CASE Kill
  BY <1>2, <1>14 DEF Kill, Streams, Early, Ended
<1> QED
  BY <1>6, <1>7, <1>8, <1>9, <1>10, <1>11, <1>12, <1>13, <1>14 DEF Next, Step, ElsewhereStep

-----------------------------------------------------------------------------
(* Parameters *)

PossibleWays == {"flag", "argument", "env", "file", "stdin"}

LEMMA OneWay ==
    ASSUME NEW S, S \subseteq PossibleWays, ~(Cardinality(S) > 1), NEW w \in S
    PROVE  S = {w} /\ (CHOOSE x \in S : TRUE) = w
<1>1. IsFiniteSet(PossibleWays)
  <2>1. IsFiniteSet({"flag"} \cup {"argument"})
    BY FS_Singleton, FS_AddElement
  <2>2. IsFiniteSet((({"flag"} \cup {"argument"}) \cup {"env"}) \cup {"file"})
    BY <2>1, FS_AddElement
  <2>3. IsFiniteSet(((({"flag"} \cup {"argument"}) \cup {"env"}) \cup {"file"}) \cup {"stdin"})
    BY <2>2, FS_AddElement
  <2>4. ((({"flag"} \cup {"argument"}) \cup {"env"}) \cup {"file"}) \cup {"stdin"} = PossibleWays
    BY DEF PossibleWays
  <2> QED
    BY <2>3, <2>4
<1>2. IsFiniteSet(S)
  BY <1>1, FS_Subset
<1>3. Cardinality(S) \in Nat /\ Cardinality(S) # 0
  BY <1>2, FS_CardinalityType, FS_EmptySet
<1>4. Cardinality(S) = 1
  BY <1>3
<1>5. PICK x : S = {x}
  BY <1>2, <1>4, FS_Singleton
<1> QED
  BY <1>5

LEMMA UnboundFails == \A why : Unbound(why).fails = why
BY DEF Unbound

\* The values of a flag that is read as a number or a boolean are numbers or booleans in the
\* specification.
LEMMA ReadTypes ==
    ASSUME NEW raw
    PROVE  LET type == ItemType(FlagType(Parameter(raw)))
           IN /\ type = "int64" => raw.type \in {"integer", "integer-array"}
              /\ type = "bool" => raw.type \in {"boolean", "boolean-array"}
<1> DEFINE type == ItemType(FlagType(Parameter(raw)))
<1>1. Parameter(raw).goType = GoType(raw)
  BY DEF Parameter
<1>2. GoType(raw) \in {"int64", "[]int64"} => raw.type \in {"integer", "integer-array"}
  BY DEF GoType, VariableType
<1>3. GoType(raw) \in {"bool", "[]bool"} => raw.type \in {"boolean", "boolean-array"}
  BY DEF GoType, VariableType
<1>4. type = "int64" => GoType(raw) \in {"int64", "[]int64"}
  BY <1>1 DEF ItemType, FlagType
<1>5. type = "bool" => GoType(raw) \in {"bool", "[]bool"}
  BY <1>1 DEF ItemType, FlagType
<1> QED
  BY <1>2, <1>3, <1>4, <1>5

\* A flag reads what it takes as the specification means it.
LEMMA ReadMeansSame ==
    ASSUME NEW meant, NEW type, NEW text, Takes(type, text),
           type = "int64" => meant \in {"integer", "integer-array"},
           type = "bool" => meant \in {"boolean", "boolean-array"}
    PROVE  Meaning(meant, ReadAs(type, text)) = Meaning(meant, text)
<1>1. CASE type = "int64"
  <2>1. text \in DOMAIN Number /\ ReadAs(type, text) = Number[text]
    BY <1>1 DEF Takes, ReadAs
  <2>2. Number[text] \in DOMAIN Number /\ Number[Number[text]] = Number[text]
    BY <2>1 DEF Number
  <2>3. Meaning(meant, Number[text]) = Number[Number[text]] /\ Meaning(meant, text) = Number[text]
    BY <1>1, <2>1, <2>2 DEF Meaning
  <2> QED
    BY <2>1, <2>2, <2>3
<1>2. CASE type = "bool"
  <2>1. text \in DOMAIN Truth /\ ReadAs(type, text) = Truth[text]
    BY <1>2 DEF Takes, ReadAs
  <2>2. Truth[text] \in DOMAIN Truth /\ Truth[Truth[text]] = Truth[text]
    BY <2>1 DEF Truth
  <2>3. Meaning(meant, Truth[text]) = Truth[Truth[text]] /\ Meaning(meant, text) = Truth[text]
    BY <1>2, <2>1, <2>2 DEF Meaning
  <2> QED
    BY <2>1, <2>2, <2>3
<1>3. CASE type \notin {"int64", "bool"}
  BY <1>3 DEF ReadAs
<1> QED
  BY <1>1, <1>2, <1>3

\* A default of its type is the text its flag has before it is set.
LEMMA DefaultKept ==
    ASSUME NEW raw, HasDefault(raw)
    PROVE  /\ Parameter(raw).goType \notin Lists
           /\ DefaultText(Parameter(raw)) = raw.default
<1> DEFINE param == Parameter(raw)
<1>1. param.goType = GoType(raw) /\ param.default = raw.default
  BY DEF Parameter
<1>2. /\ GoType(raw) \notin Lists
      /\ GoType(raw) = "int64" => raw.type = "integer"
      /\ GoType(raw) = "float64" => raw.type = "number"
      /\ GoType(raw) = "bool" => raw.type = "boolean"
  BY DEF GoType, HasDefault, VariableType, Lists
<1>3. FlagType(param) \in {GoType(raw), "string"}
  BY <1>1 DEF FlagType
<1>4. /\ raw.type \in {"integer", "number"} => raw.default \in DecimalTexts
      /\ raw.type = "boolean" => raw.default \in {"true", "false"}
  BY DEF HasDefault
<1> HIDE DEF param
<1>5. DefaultText(param) = raw.default
  BY <1>1, <1>2, <1>3, <1>4 DEF DefaultText
<1> QED
  BY <1>1, <1>2, <1>5 DEF param
BoundTexts(params, given, contexts) ==
    [i \in Changed(params, given, contexts) |-> TextsOf(params, given, contexts, i)]

\* Values that are bound were given in one way each, as texts their flags take, none that is
\* required is missing, and each parameter that has a value has its texts.
LEMMA BindSucceeds ==
    ASSUME NEW params, NEW given, NEW contexts, NEW hasBody, Bind(params, given, contexts, hasBody).fails = ""
    PROVE  /\ \A i \in DOMAIN params : ~(Cardinality(Ways(given, i)) > 1)
           /\ \A i \in DOMAIN params : \A w \in Ways(given, i) : Parses(params[i], given[i][w])
           /\ Missing(params, given, contexts, hasBody) = {}
           /\ Bind(params, given, contexts, hasBody).texts = BoundTexts(params, given, contexts)
<1> DEFINE refusals == BindRefusals(params, given)
           bound == Bind(params, given, contexts, hasBody)
<1>1. refusals \subseteq {"twice", "parse", "empty"}
  BY DEF BindRefusals
<1>2. ASSUME refusals # {} PROVE FALSE
  <2>1. bound = Unbound(CHOOSE why \in refusals : TRUE)
    BY <1>2 DEF Bind
  <2>2. (CHOOSE why \in refusals : TRUE) \in refusals
    BY <1>2
  <2> HIDE DEF refusals
  <2>3. (CHOOSE why \in refusals : TRUE) \in {"twice", "parse", "empty"}
    BY <1>1, <2>2
  <2>4. bound.fails \in {"twice", "parse", "empty"}
    BY <2>1, <2>3, UnboundFails
  <2> QED
    BY <2>4
<1>3. ASSUME NEW i \in DOMAIN params, Cardinality(Ways(given, i)) > 1 PROVE FALSE
  <2>1. "twice" \in refusals
    BY <1>3 DEF BindRefusals
  <2> QED
    BY <1>2, <2>1
<1>4. ASSUME NEW i \in DOMAIN params, NEW w \in Ways(given, i), ~Parses(params[i], given[i][w]) PROVE FALSE
  <2>1. "parse" \in refusals
    BY <1>4 DEF BindRefusals
  <2> QED
    BY <1>2, <2>1
<1>5. ASSUME Missing(params, given, contexts, hasBody) # {} PROVE FALSE
  <2>1. bound.fails = "required"
    BY <1>2, <1>5, UnboundFails DEF Bind
  <2> QED
    BY <2>1
<1>6. bound.texts = BoundTexts(params, given, contexts)
  BY <1>2, <1>5 DEF Bind, BoundTexts
<1> QED
  BY <1>3, <1>4, <1>5, <1>6

LEMMA ParameterOf ==
    ASSUME NEW raw
    PROVE  /\ Parameter(raw).in = raw.in /\ Parameter(raw).name = raw.name
           /\ Parameter(raw).goType = GoType(raw) /\ Parameter(raw).default = raw.default
           /\ raw.in = "path" => Parameter(raw).required
BY DEF Parameter

LEMMA EntryOf ==
    ASSUME NEW raw, NEW param, param = Parameter(raw), NEW texts
    PROVE  /\ Entry(param, texts).in = raw.in /\ Entry(param, texts).name = raw.name
           /\ Entry(param, texts).texts = texts
BY ParameterOf DEF Entry

SameTexts(t, u) == DOMAIN t = DOMAIN u /\ \A k \in DOMAIN u : t[k] = u[k]

\* What a value becomes in the request stands where the specification has the parameter; a
\* path always gets a value, and every other place the texts as they are.
LEMMA PlacedWhole ==
    ASSUME NEW raw, NEW param, param = Parameter(raw), NEW texts
    PROVE  /\ \A e \in Placed(param, texts) : e.in = raw.in /\ e.name = raw.name
           /\ raw.in = "path" => Placed(param, texts) # {}
           /\ (DOMAIN texts # {} /\ (GoType(raw) \notin Lists => DOMAIN texts = 1 .. 1)) =>
                \E e \in Placed(param, texts) : SameTexts(e.texts, texts)
<1>1. param.in = raw.in /\ param.goType = GoType(raw)
  BY ParameterOf
<1>2. SameTexts(texts, texts)
  BY DEF SameTexts
<1>3. DOMAIN texts # {} => texts # <<>>
  OBVIOUS
<1>4. CASE raw.in = "query"
  <2>1. Placed(param, texts) = QueryEntries(param, texts)
    BY <1>1, <1>4 DEF Placed
  <2>2. GoType(raw) \in {"[]string", "int64", "bool", "string"}
    BY <1>4 DEF GoType
  <2>3. texts # <<>> => QueryEntries(param, texts) = {Entry(param, texts)}
    BY <1>1, <2>2 DEF QueryEntries
  <2>4. texts = <<>> => QueryEntries(param, texts) = {}
    BY DEF QueryEntries
  <2> QED
    BY <1>2, <1>3, <1>4, <2>1, <2>3, <2>4, EntryOf
<1>5. CASE raw.in \in {"header", "cookie"}
  <2>1. Placed(param, texts) = {Entry(param, <<texts[1]>>)}
    BY <1>1, <1>5, Zenon DEF Placed
  <2>2. GoType(raw) \notin Lists
    BY <1>5 DEF GoType, Lists
  <2>3. DOMAIN texts = 1 .. 1 => SameTexts(<<texts[1]>>, texts)
    BY DEF SameTexts
  <2> QED
    BY <1>5, <2>1, <2>2, <2>3, EntryOf
<1>6. CASE raw.in = "path" /\ texts = <<>>
  <2>1. PICK open : Placed(param, texts) = {Entry(param, open)}
    BY <1>1, <1>6, Zenon DEF Placed
  <2> QED
    BY <1>3, <1>6, <2>1, EntryOf
<1>7. CASE raw.in \notin {"query", "header", "cookie"} /\ ~(raw.in = "path" /\ texts = <<>>)
  <2>1. Placed(param, texts) = {Entry(param, texts)}
    BY <1>1, <1>7, Zenon DEF Placed
  <2> QED
    BY <1>2, <2>1, EntryOf
<1> QED
  BY <1>4, <1>5, <1>6, <1>7

\* Texts that a flag takes are sent as texts of the same meaning.
LEMMA GivenSame ==
    ASSUME NEW raw, NEW texts, Parses(Parameter(raw), texts)
    PROVE  MeansSame(raw.type, [k \in DOMAIN texts |-> ReadAs(ItemType(FlagType(Parameter(raw))), texts[k])], texts)
<1> DEFINE type == ItemType(FlagType(Parameter(raw)))
<1>1. /\ type = "int64" => raw.type \in {"integer", "integer-array"}
      /\ type = "bool" => raw.type \in {"boolean", "boolean-array"}
  BY ReadTypes
<1>2. \A k \in DOMAIN texts : Takes(type, texts[k])
  BY DEF Parses
<1> HIDE DEF type
<1>3. ASSUME NEW k \in DOMAIN texts PROVE Meaning(raw.type, ReadAs(type, texts[k])) = Meaning(raw.type, texts[k])
  BY <1>1, <1>2, ReadMeansSame
<1>4. MeansSame(raw.type, [k \in DOMAIN texts |-> ReadAs(type, texts[k])], texts)
  BY <1>3 DEF MeansSame
<1> QED
  BY <1>4 DEF type

\* What is said of a parameter of a well-formed command is what it is sent with.
LEMMA SaidIsSent ==
    ASSUME NEW c, WellFormed(c), NEW params, NEW i \in DOMAIN c.raws, i \in DOMAIN params,
           params[i] = Parameter(c.raws[i]), ~(Cardinality(Ways(c.given, i)) > 1),
           \A w \in Ways(c.given, i) : Parses(params[i], c.given[i][w]),
           NEW texts \in Said(c.raws, c.given, c.contexts, i)
    PROVE  LET sending == TextsOf(params, c.given, c.contexts, i)
           IN /\ i \in Changed(params, c.given, c.contexts)
              /\ DOMAIN sending # {} /\ (GoType(c.raws[i]) \notin Lists => DOMAIN sending = 1 .. 1)
              /\ MeansSame(c.raws[i].type, sending, texts)
<1> DEFINE raw == c.raws[i]
           given == c.given
           contexts == c.contexts
           sending == TextsOf(params, given, contexts, i)
<1>1. /\ DOMAIN given[i] \subseteq PossibleWays
      /\ \A w \in Ways(given, i) : given[i][w] \in Seq(STRING)
      /\ GoType(raw) \notin Lists => \A w \in Ways(given, i) : Len(given[i][w]) = 1
  BY Zenon DEF WellFormed, PossibleWays, Ways
<1>2. /\ i \in DOMAIN params /\ params[i] = Parameter(raw)
      /\ ~(Cardinality(Ways(given, i)) > 1)
      /\ \A w \in Ways(given, i) : Parses(params[i], given[i][w])
      /\ texts \in Said(c.raws, given, contexts, i)
  OBVIOUS
<1>3. params[i].goType = GoType(raw) /\ params[i].default = raw.default
  BY <1>2, ParameterOf
<1>4. Said(c.raws, given, contexts, i) =
        IF Ways(given, i) # {} THEN {given[i][w] : w \in Ways(given, i)} \ {<<>>}
        ELSE IF i \in DOMAIN contexts /\ contexts[i] # NoText THEN {<<contexts[i]>>}
        ELSE IF HasDefault(raw) THEN {<<raw.default>>}
        ELSE {}
  BY Zenon DEF Said
<1>5. i \in Changed(params, given, contexts) <=>
        \/ raw.default # NoText \/ Ways(given, i) # {}
        \/ Ways(given, i) = {} /\ i \in DOMAIN contexts /\ contexts[i] # NoText
  BY <1>2, <1>3, Zenon DEF Changed, FromContext
<1> HIDE DEF raw, given, contexts
<1>6. CASE Ways(given, i) # {}
  <2>1. PICK w \in Ways(given, i) : texts = given[i][w] /\ texts # <<>>
    BY <1>2, <1>4, <1>6
  <2>2. (CHOOSE x \in Ways(given, i) : TRUE) = w
    BY <1>1, <1>2, OneWay, Zenon DEF Ways
  <2>3. sending = [k \in DOMAIN texts |-> ReadAs(ItemType(FlagType(Parameter(raw))), texts[k])]
    BY <1>2, <1>6, <2>1, <2>2, Zenon DEF TextsOf
  <2>4. MeansSame(raw.type, sending, texts)
    BY <1>2, <2>1, <2>3, GivenSame, Zenon
  <2>5. DOMAIN sending = DOMAIN texts
    BY <2>4 DEF MeansSame
  <2>6. texts \in Seq(STRING) /\ (GoType(raw) \notin Lists => Len(texts) = 1)
    BY <1>1, <2>1, Zenon
  <2>7. DOMAIN texts = 1 .. Len(texts) /\ Len(texts) \in Nat /\ Len(texts) # 0
    BY <2>1, <2>6
  <2>8. DOMAIN texts # {} /\ (GoType(raw) \notin Lists => DOMAIN texts = 1 .. 1)
    <3>1. 1 \in 1 .. Len(texts)
      BY <2>7
    <3>2. Len(texts) = 1 => 1 .. Len(texts) = 1 .. 1
      OBVIOUS
    <3> QED
      BY <2>6, <2>7, <3>1, <3>2
  <2> HIDE DEF sending
  <2> QED
    BY <1>5, <1>6, <2>4, <2>5, <2>8 DEF sending, raw, given, contexts
<1>7. ASSUME NEW text, sending = <<text>>, texts = <<text>>
      PROVE  DOMAIN sending # {} /\ DOMAIN sending = 1 .. 1 /\ MeansSame(raw.type, sending, texts)
  BY <1>7 DEF MeansSame
<1>8. CASE Ways(given, i) = {} /\ i \in DOMAIN contexts /\ contexts[i] # NoText
  <2>1. sending = <<contexts[i]>>
    BY <1>8 DEF TextsOf, FromContext
  <2>2. texts = <<contexts[i]>>
    BY <1>2, <1>4, <1>8
  <2> HIDE DEF sending
  <2> QED
    BY <1>5, <1>7, <1>8, <2>1, <2>2 DEF sending, raw, given, contexts
<1>9. CASE Ways(given, i) = {} /\ ~(i \in DOMAIN contexts /\ contexts[i] # NoText)
  <2>1. HasDefault(raw) /\ texts = <<raw.default>>
    BY <1>2, <1>4, <1>9
  <2>2. params[i].goType \notin Lists /\ DefaultText(params[i]) = raw.default
    BY <1>2, <2>1, DefaultKept
  <2>3. sending = <<raw.default>>
    BY <1>9, <2>2 DEF TextsOf, FromContext
  <2>4. raw.default # NoText
    BY <2>1 DEF HasDefault
  <2> HIDE DEF sending
  <2> QED
    BY <1>5, <1>7, <2>1, <2>3, <2>4 DEF sending, raw, given, contexts
<1> QED
  BY <1>6, <1>8, <1>9

\* The parameters of a well-formed command are in its request.
LEMMA WellFormedIsFaithful ==
    ASSUME NEW c, WellFormed(c), NEW hasBody
    PROVE  Faithful(c.raws, c.open, c.given, c.contexts, hasBody)
<1> DEFINE params == [i \in DOMAIN c.raws |-> Parameter(c.raws[i])]
           given == c.given
           contexts == c.contexts
           bound == Bind(params, given, contexts, hasBody)
           changed == Changed(params, given, contexts)
           sending(i) == TextsOf(params, given, contexts, i)
<1>1. \A name \in c.open : \E i \in DOMAIN c.raws : c.raws[i].in = "path" /\ c.raws[i].name = name
  BY DEF WellFormed
<1>2. DOMAIN params = DOMAIN c.raws /\ (\A i \in DOMAIN c.raws : params[i] = Parameter(c.raws[i]))
  OBVIOUS
<1>3. SUFFICES ASSUME bound.fails = ""
               PROVE  /\ OpenPlaceholders(c.open, params, bound) = {}
                      /\ \A i \in DOMAIN c.raws : \A texts \in Said(c.raws, given, contexts, i) :
                           \E e \in Sent(params, bound) :
                              e.in = c.raws[i].in /\ e.name = c.raws[i].name /\ MeansSame(c.raws[i].type, e.texts, texts)
                      /\ \A e \in Sent(params, bound) :
                           \E i \in DOMAIN c.raws : e.in = c.raws[i].in /\ e.name = c.raws[i].name
                             /\ (Ways(given, i) # {} \/ c.raws[i].default # NoText
                                 \/ FromContext(params, given, contexts, i))
  BY Zenon DEF Faithful
<1> HIDE DEF params, given, contexts
<1>4. /\ \A i \in DOMAIN params : ~(Cardinality(Ways(given, i)) > 1)
      /\ \A i \in DOMAIN params : \A w \in Ways(given, i) : Parses(params[i], given[i][w])
      /\ Missing(params, given, contexts, hasBody) = {}
      /\ bound.texts = BoundTexts(params, given, contexts)
  BY <1>3, BindSucceeds, Zenon
<1>5. ASSUME NEW i \in DOMAIN c.raws, NEW texts \in Said(c.raws, given, contexts, i)
      PROVE  /\ i \in changed
             /\ DOMAIN sending(i) # {} /\ (GoType(c.raws[i]) \notin Lists => DOMAIN sending(i) = 1 .. 1)
             /\ MeansSame(c.raws[i].type, sending(i), texts)
  <2>1. i \in DOMAIN params /\ params[i] = Parameter(c.raws[i])
    BY <1>2, Zenon
  <2>2. ~(Cardinality(Ways(given, i)) > 1) /\ \A w \in Ways(given, i) : Parses(params[i], given[i][w])
    BY <1>4, <2>1, Zenon
  <2> QED
    BY <2>1, <2>2, SaidIsSent, Zenon DEF given, contexts
<1>6. changed \subseteq DOMAIN c.raws
  BY <1>2 DEF Changed
<1>7. Sent(params, bound) = UNION {Placed(params[i], sending(i)) : i \in changed}
  <2>1. DOMAIN bound.texts = changed
    BY <1>4, Zenon DEF BoundTexts
  <2>2. \A i \in changed : bound.texts[i] = sending(i)
    BY <1>4, Zenon DEF BoundTexts
  <2> QED
    BY <2>1, <2>2, Zenon DEF Sent
<1> HIDE DEF bound, changed, sending
<1>8. ASSUME NEW name \in c.open PROVE \E e \in Sent(params, bound) : e.in = "path" /\ e.name = name
  <2>1. PICK i \in DOMAIN c.raws : c.raws[i].in = "path" /\ c.raws[i].name = name
    BY <1>1, Zenon
  <2>2. i \in DOMAIN params /\ params[i].required /\ params[i].in = "path"
    BY <1>2, <2>1, ParameterOf, Zenon
  <2>3. i \in changed
    <3>1. ~(RequiredFlagParam(params[i], hasBody) /\ i \notin changed)
      BY <1>4, <2>2, Zenon DEF Missing, changed
    <3>2. params[i].default # NoText => i \in changed
      BY <2>2, Zenon DEF changed, Changed
    <3> QED
      BY <2>2, <3>1, <3>2 DEF RequiredFlagParam
  <2>4. /\ \A e \in Placed(params[i], sending(i)) : e.in = c.raws[i].in /\ e.name = c.raws[i].name
        /\ c.raws[i].in = "path" => Placed(params[i], sending(i)) # {}
    BY <1>2, PlacedWhole
  <2>5. PICK e \in Placed(params[i], sending(i)) : e.in = "path" /\ e.name = name
    BY <2>1, <2>4, Zenon
  <2> QED
    BY <1>7, <2>3, <2>5, Zenon
<1>9. ASSUME NEW i \in DOMAIN c.raws, NEW texts \in Said(c.raws, given, contexts, i)
      PROVE  \E e \in Sent(params, bound) :
               e.in = c.raws[i].in /\ e.name = c.raws[i].name /\ MeansSame(c.raws[i].type, e.texts, texts)
  <2>1. params[i] = Parameter(c.raws[i])
    BY <1>2
  <2>2. /\ \A e \in Placed(params[i], sending(i)) : e.in = c.raws[i].in /\ e.name = c.raws[i].name
        /\ \E e \in Placed(params[i], sending(i)) : SameTexts(e.texts, sending(i))
    <3>1. DOMAIN sending(i) # {} /\ (GoType(c.raws[i]) \notin Lists => DOMAIN sending(i) = 1 .. 1)
      BY <1>5, Zenon
    <3> QED
      BY <2>1, <3>1, PlacedWhole
  <2>3. PICK e \in Placed(params[i], sending(i)) : SameTexts(e.texts, sending(i))
    BY <2>2, Zenon
  <2>4. MeansSame(c.raws[i].type, e.texts, texts)
    BY <1>5, <2>3 DEF MeansSame, SameTexts
  <2>5. e \in Sent(params, bound)
    BY <1>5, <1>7, Zenon
  <2> QED
    BY <2>2, <2>4, <2>5, Zenon
<1>10. ASSUME NEW e \in Sent(params, bound)
       PROVE  \E i \in DOMAIN c.raws : e.in = c.raws[i].in /\ e.name = c.raws[i].name
                /\ (Ways(given, i) # {} \/ c.raws[i].default # NoText \/ FromContext(params, given, contexts, i))
  <2>1. PICK i \in changed : e \in Placed(params[i], sending(i))
    BY <1>7, Zenon
  <2>2. i \in DOMAIN c.raws /\ params[i] = Parameter(c.raws[i])
    BY <1>2, <1>6, <2>1, Zenon
  <2>3. e.in = c.raws[i].in /\ e.name = c.raws[i].name
    <3>1. \A x \in Placed(params[i], sending(i)) : x.in = c.raws[i].in /\ x.name = c.raws[i].name
      BY <2>2, PlacedWhole
    <3> QED
      BY <2>1, <3>1, Zenon
  <2>4. Ways(given, i) # {} \/ c.raws[i].default # NoText \/ FromContext(params, given, contexts, i)
    BY <2>1, <2>2, ParameterOf, Zenon DEF changed, Changed
  <2> QED
    BY <2>2, <2>3, <2>4, Zenon
<1>11. OpenPlaceholders(c.open, params, bound) = {}
  BY <1>8, Zenon DEF OpenPlaceholders
<1> QED
  BY <1>9, <1>10, <1>11, Zenon

-----------------------------------------------------------------------------
(* The theorems *)

LEMMA InitIInv == Init => IInv
BY InitShapes, InitRequests, InitPagesSoFar, InitFiles, InitStreams DEF IInv

LEMMA IInvKept == IInv /\ [Next]_vars => IInv'
BY ShapesKept, RequestsKept, PagesKept, FilesKept, StreamsKept DEF IInv

LEMMA Inductive == Spec => []IInv
<1>1. Init => IInv
  BY InitIInv
<1>2. IInv /\ [Next]_vars => IInv'
  BY IInvKept
<1> QED
  BY <1>1, <1>2, PTL DEF Spec

\* Every state of the program has the shape the actions rely on: the pages and the polls stay
\* within their bounds, and the kinds of requests and of files are the listed ones (RunE).
THEOREM TypeCorrect == Spec => []TypeOK
<1>1. IInv => TypeOK
  <2> SUFFICES ASSUME Shapes PROVE TypeOK
    BY DEF IInv
  <2>1. page.count \in 0 .. MaxPages /\ page.next \in Nat \cup {End}
    BY DEF Shapes
  <2>2. poll.time \in 0 .. PollTimeout /\ poll.backoff \in 1 .. MaxBackoff
    BY PollShape
  <2>3. <<stored, interrupted>> \in BOOLEAN \X BOOLEAN
    BY Zenon DEF Shapes
  <2>4. /\ sent \subseteq {"schema", "schema accepted", "schema refused", "target", "poll"}
        /\ disk.path \in {"none", "other", "part", "whole"} /\ disk.temp \in {"none", "part", "whole"}
    BY DEF Shapes
  <2> QED
    BY <2>1, <2>2, <2>3, <2>4, Zenon DEF TypeOK
<1> QED
  BY <1>1, Inductive, PTL

\* No request leaves for the target that a usage error, a dry run, the login or the schema
\* of the service should have stopped (invokeOperation, validateRuntimeSchemaBody).
THEOREM AllowedRequests == Spec => []RequestsAllowed
<1>1. IInv => RequestsAllowed
  BY DEF IInv, Requests, RequestsAllowed, Allowed, SchemaTook, NeedsSchema
<1> QED
  BY <1>1, Inductive, PTL

\* What leaves for the target holds what the user gave of each parameter, or else its
\* context, or else a default of its type, where the specification puts it and with its
\* meaning; it holds nothing else and no open placeholder (resolveOperationRequest).
THEOREM ParametersArrive == Spec => []ParamsSent
<1>1. IInv => ParamsSent
  <2> SUFFICES ASSUME Shapes PROVE ParamsSent
    BY DEF IInv
  <2>1. WellFormed(cmd)
    BY OperationAssumption DEF Shapes
  <2>2. Faithful(cmd.raws, cmd.open, cmd.given, cmd.contexts, HasBody)
    BY <2>1, WellFormedIsFaithful
  <2> QED
    BY <2>2 DEF ParamsSent
<1> QED
  BY <1>1, Inductive, PTL

\* --all returns the items from its first position on without a gap, a repetition or an
\* inversion, all of them unless --max-pages ended it (PaginateAll).
THEOREM PagesHoldAllItems == Spec => []AllItems
<1>1. IInv => AllItems
  BY DEF IInv, PagesSoFar, AllItems, Complete
<1> QED
  BY <1>1, Inductive, PTL

\* A downloaded file appears at its path whole, for a command that says so, and leaves no
\* temporary file behind (createBinaryFile, commit, abort).
THEOREM FilesAreWhole == Spec => []FilePublished
<1>1. IInv => FilePublished
  BY DEF IInv, Files, FilePublished, Ended
<1> QED
  BY <1>1, Inductive, PTL

\* With hard links a download leaves another process's file as it is (binaryFile.commit).
THEOREM FilesOfOthersStay == Spec => OthersFileKept
<1> DEFINE Kept == cmd.links /\ disk.path = "other" => disk'.path = "other"
<1>1. IInv /\ [Next]_vars => [Kept]_disk
  <2> SUFFICES ASSUME Shapes, Files, Next, cmd.links, disk.path = "other" PROVE disk'.path = "other"
    BY DEF IInv, vars
  <2>1. at # "rename"
    BY DEF Files
  <2>2. CASE disk' = disk
    BY <2>2
  <2>3. CASE disk' = [disk EXCEPT !.temp = "none"]
    BY <2>3 DEF Shapes
  <2>4. CASE CreateFile \/ ReadFile
    BY <2>4 DEF CreateFile, ReadFile, Answered, Go, Stop, Shapes
  <2>5. disk' = disk \/ disk' = [disk EXCEPT !.temp = "none"] \/ CreateFile \/ ReadFile
    BY <2>1, StreamSteps DEF Next, Step, Check, CreateFile, Invoke, CheckSchema, FailedRequest, SendPlain, FetchPage,
       OpenStream, CutStream, ReadFile, Submit, Poll, PollAnswered, PollCut, Backoff, Persist, Commit, Unlink,
       Rename, Tick, Interrupt, Kill, OtherCreates, Answered, Go, Stop
  <2> QED
    BY <2>2, <2>3, <2>4, <2>5
<1> QED
  BY <1>1, Inductive, PTL DEF Spec, OthersFileKept

\* A streamed command that succeeds read every event up to the first that stops or pauses it,
\* or to the end of a response that may end there, and what it collected, and showed, is what
\* these events say, however they were cut into lines (readSSE, readNDJSON, collectStream).
THEOREM StreamsAreWhole == Spec => []StreamWhole
<1>1. IInv => StreamWhole
  BY Zenon DEF IInv, Streams, StreamWhole, WholeStream, Quiet, Heard
<1> QED
  BY <1>1, Inductive, PTL

\* A JSON body that is sent holds every field, variable and assignment the user gave that no
\* later one reaches into, and what these leave of a template and a file (buildBody).
THEOREM BodiesHoldInput == Spec => []BodyHoldsInput
<1>1. IInv => BodyHoldsInput
  <2> SUFFICES ASSUME Shapes PROVE BodyHoldsInput
    BY DEF IInv
  <2>1. WellFormed(cmd)
    BY OperationAssumption DEF Shapes
  <2>2. WellFormedBody(cmd.spec, cmd.input)
    BY <2>1 DEF WellFormed
  <2>3. BodyHolds(cmd.spec, cmd.input)
    BY <2>2, BodyHolding
  <2> QED
    BY <2>3 DEF BodyHoldsInput
<1> QED
  BY <1>1, Inductive, PTL
==============================================================================

-------------------------------- MODULE Data --------------------------------
(***************************************************************************)
(* Dispatch data objects (data.c): immutable byte strings made of leaves,  *)
(* which own a buffer, and composites, whose records refer to ranges of    *)
(* other objects.  The program creates objects from others and releases    *)
(* them in any order; a buffer's destructor runs when no object needs it.  *)
(*                                                                         *)
(* A heap h maps the addresses of live objects to objects; an operation is *)
(* an operator from a heap to [h, dd]: the heap it leaves and the object   *)
(* it returns.  Offsets and lengths are a size_t each, and so is their     *)
(* sum.  malloc does not fail.                                             *)
(***************************************************************************)
EXTENDS Integers, Sequences, FiniteSets, TLC

CONSTANTS Buffers,      \* the buffers a program makes leaves of
          BytesOf,      \* their contents
          SIZE_MAX,     \* of size_t
          MaxHeld, MaxSize, MaxCalls    \* bounds: references held, bytes of an object, calls

EMPTY == 0              \* dispatch_data_empty, which is never freed
CRASH == -1             \* no object: DISPATCH_CRASH
Copied == "copied"      \* the buffer of a leaf that owns a copy: freed silently

VARIABLES heap,         \* live objects
          held,         \* of each address: the references the program holds
          destroyed,    \* of each buffer: how often its destructor was called
          value,        \* history: the bytes each object has to represent
          calls,        \* what is left of MaxCalls
          astray        \* a subrange went outside its object: "wrap" if offset + length
                        \* wrapped, "stray" if not, "no" before

vars == <<heap, held, destroyed, value, calls, astray>>

Init ==
    /\ heap = <<>> /\ held = <<>> /\ value = <<>>
    /\ destroyed = [b \in Buffers |-> -1]      \* -1: not yet used
    /\ calls = MaxCalls /\ astray = "no"

(***************************************************************************)
(* The operations.                                                         *)
(***************************************************************************)
Free(h) == CHOOSE a \in 1..Cardinality(DOMAIN h) + 1 :
             a \notin DOMAIN h /\ \A b \in 1..a - 1 : b \in DOMAIN h

\* _dispatch_data_init
New(h, dd) == LET a == Free(h) IN [h |-> h @@ (a :> dd), dd |-> a]

Size(h, a) == IF a = EMPTY THEN 0 ELSE h[a].size
Retain(h, a) == IF a = EMPTY THEN h ELSE [h EXCEPT ![a].ref = @ + 1]

\* dispatch_data_create
Leaf(bytes, b) ==
    [leaf |-> TRUE, size |-> Len(bytes), ref |-> 1, buffer |-> b, bytes |-> bytes, records |-> <<>>]
Composite(size, records) ==
    [leaf |-> FALSE, size |-> size, ref |-> 1, buffer |-> Copied, bytes |-> <<>>, records |-> records]
Create(h, bytes, b) ==
    IF bytes = <<>> THEN [h |-> h, dd |-> EMPTY] ELSE New(h, Leaf(bytes, b))

\* dispatch_release and _dispatch_data_dispose: records are released in turn.
RECURSIVE Release(_, _)
RECURSIVE ReleaseAll(_, _)
Release(h, a) ==
    IF a = EMPTY THEN h
    ELSE IF h[a].ref > 1 THEN [h EXCEPT ![a].ref = @ - 1]
    ELSE ReleaseAll([x \in DOMAIN h \ {a} |-> h[x]], h[a].records)
ReleaseAll(h, records) ==
    IF records = <<>> THEN h ELSE ReleaseAll(Release(h, Head(records).data_object), Tail(records))

\* The records that stand for an object inside another.
RecordsOf(h, a) ==
    IF h[a].leaf THEN <<[data_object |-> a, from |-> 0, length |-> h[a].size]>> ELSE h[a].records

RECURSIVE RetainAll(_, _)
RetainAll(h, records) ==
    IF records = <<>> THEN h ELSE RetainAll(Retain(h, Head(records).data_object), Tail(records))

\* Bug: only the records of the first are retained.
CreateConcatBug(h, a, b) ==
    CASE Size(h, a) = 0 -> [h |-> Retain(h, b), dd |-> b]
      [] Size(h, a) # 0 /\ Size(h, b) = 0 -> [h |-> Retain(h, a), dd |-> a]
      [] OTHER ->
           LET records == RecordsOf(h, a) \o RecordsOf(h, b)
           IN New(RetainAll(h, RecordsOf(h, a)), Composite(h[a].size + h[b].size, records))

\* dispatch_data_create_concat
CreateConcat(h, a, b) ==
    CASE Size(h, a) = 0 -> [h |-> Retain(h, b), dd |-> b]
      [] Size(h, a) # 0 /\ Size(h, b) = 0 -> [h |-> Retain(h, a), dd |-> a]
      [] OTHER ->
           LET records == RecordsOf(h, a) \o RecordsOf(h, b)
           IN New(RetainAll(h, records), Composite(h[a].size + h[b].size, records))

\* The bytes before record i, and the record at an offset.
Before(r, i) == LET S[j \in 0..i] == IF j = 0 THEN 0 ELSE S[j - 1] + r[j].length IN S[i]
RecordAt(r, offset) == CHOOSE i \in 1..Len(r) : Before(r, i - 1) <= offset /\ offset < Before(r, i)

LeafSubrange(h, a, offset, length) ==
    New(Retain(h, a), Composite(length, <<[data_object |-> a, from |-> offset, length |-> length]>>))

Sum(offset, length) == (offset + length) % (SIZE_MAX + 1)

\* dispatch_data_create_subrange; Subranges is its loop over the records from i on.
RECURSIVE CreateSubrange(_, _, _, _)
RECURSIVE Subranges(_, _, _, _, _, _)
Subranges(h, a, i, offset, left, data) ==
    IF i > Len(h[a].records) THEN [h |-> h, dd |-> CRASH] ELSE
    LET r == h[a].records[i]
        len == IF r.length - offset > left THEN left ELSE r.length - offset
        s == CreateSubrange(h, r.data_object, r.from + offset, len)
        c == CreateConcat(s.h, data, s.dd)
        h2 == Release(Release(c.h, data), s.dd)
    IN IF left = len THEN [h |-> h2, dd |-> c.dd]
       ELSE Subranges(h2, a, i + 1, 0, left - len, c.dd)
CreateSubrange(h, a, offset, length) ==
    IF offset >= Size(h, a) \/ length = 0 THEN [h |-> h, dd |-> EMPTY]
    ELSE IF Sum(offset, length) <= h[a].size /\ length = h[a].size THEN [h |-> Retain(h, a), dd |-> a]
    ELSE LET len == IF Sum(offset, length) > h[a].size THEN h[a].size - offset ELSE length
             r == h[a].records
             i == RecordAt(r, offset)
         IN IF h[a].leaf THEN LeafSubrange(h, a, offset, len)
            ELSE Subranges(h, a, i, offset - Before(r, i - 1), len, EMPTY)

\* _dispatch_data_apply: the regions an applier is shown.
Region(h, a, offset, from, size) ==
    [offset |-> offset, bytes |-> SubSeq(h[a].bytes, from + 1, from + size)]
RECURSIVE Apply(_, _, _, _, _)
Apply(h, a, offset, from, size) ==
    LET r == h[a].records
        All[i \in 0..Len(r)] ==
          IF i = 0 THEN <<>>
          ELSE All[i - 1] \o Apply(h, r[i].data_object, offset + Before(r, i - 1),
                                   r[i].from, r[i].length)
    IN IF h[a].leaf THEN <<Region(h, a, offset, from, size)>>
       ELSE IF Len(r) = 1 /\ h[r[1].data_object].leaf
       THEN <<Region(h, r[1].data_object, offset, r[1].from, size)>>
       ELSE All[Len(r)]
Regions(h, a) == IF a = EMPTY THEN <<>> ELSE Apply(h, a, 0, 0, h[a].size)

Contents(h, a) ==
    LET rs == Regions(h, a)
        C[i \in 0..Len(rs)] == IF i = 0 THEN <<>> ELSE C[i - 1] \o rs[i].bytes
    IN C[Len(rs)]

\* dispatch_data_create_map: the object that owns the contiguous bytes.
CreateMap(h, a) ==
    LET r == h[a].records IN
    IF a = EMPTY THEN [h |-> h, dd |-> EMPTY]
    ELSE IF h[a].leaf \/ (Len(r) = 1 /\ h[r[1].data_object].leaf)
    THEN [h |-> Retain(h, a), dd |-> a]
    ELSE Create(h, Contents(h, a), Copied)

\* dispatch_data_copy_region: records refer to leaves, so it drills down once.
CopyRegion(h, a, location) ==
    LET r == h[a].records
        i == RecordAt(r, location)
        d == r[i].data_object
    IN IF a = EMPTY \/ location >= Size(h, a) THEN [h |-> h, dd |-> EMPTY, offset |-> 0]
       ELSE IF h[a].leaf THEN [h |-> Retain(h, a), dd |-> a, offset |-> 0]
       ELSE IF Len(r) = 1 /\ h[d].leaf
       THEN [h |-> Retain(h, a), dd |-> a, offset |-> Before(r, i - 1)]
       ELSE IF r[i].length = h[d].size
       THEN [h |-> Retain(h, d), dd |-> d, offset |-> Before(r, i - 1)]
       ELSE LeafSubrange(h, d, r[i].from, r[i].length) @@ [offset |-> Before(r, i - 1)]

(***************************************************************************)
(* The program.                                                            *)
(***************************************************************************)
Held == {a \in DOMAIN held : held[a] > 0}
Total == LET S[A \in SUBSET Held] ==
               IF A = {} THEN 0 ELSE LET a == CHOOSE a \in A : TRUE IN held[a] + S[A \ {a}]
         IN S[Held]

\* The leaves that an operation freed.
Destroyed(h) ==
    destroyed' = [b \in Buffers |->
      IF (\E a \in DOMAIN heap : heap[a].buffer = b) /\ ~\E a \in DOMAIN h : h[a].buffer = b
      THEN destroyed[b] + 1 ELSE destroyed[b]]

Restricted(f, h) == [a \in DOMAIN f \cap DOMAIN h |-> f[a]]

\* The bounds of the model.
MayCall == calls > 0 /\ Total < MaxHeld

\* The program gets the result of an operation that has to represent v.
Return(res, v) ==
    /\ calls' = calls - 1
    /\ Size(res.h, res.dd) <= MaxSize
    /\ heap' = res.h
    /\ IF res.dd = EMPTY THEN UNCHANGED <<held, value>>
       ELSE /\ held' = IF res.dd \in DOMAIN held THEN [held EXCEPT ![res.dd] = @ + 1]
                       ELSE held @@ (res.dd :> 1)
            /\ value' = (res.dd :> v) @@ value

DoCreate(b) ==
    LET res == Create(heap, BytesOf[b], b) IN
    /\ destroyed[b] = -1
    /\ Return(res, BytesOf[b])
    /\ destroyed' = [destroyed EXCEPT ![b] = IF res.dd = EMPTY THEN 1 ELSE 0]

Value(a) == IF a = EMPTY THEN <<>> ELSE value[a]

DoConcat(a, b) ==
    LET res == CreateConcat(heap, a, b) IN
    Return(res, Value(a) \o Value(b)) /\ Destroyed(res.h)

Part(v, offset, length) ==
    SubSeq(v, offset + 1, IF offset + length > Len(v) THEN Len(v) ELSE offset + length)

\* A result that is no object, or one that refers to bytes outside a leaf.
Strays(res) ==
    \/ res.dd = CRASH
    \/ res.dd # EMPTY /\ \E i \in 1..Len(res.h[res.dd].records) :
         LET r == res.h[res.dd].records[i] IN r.from + r.length > res.h[r.data_object].size

DoSubrange(a, offset, length) ==
    LET res == CreateSubrange(heap, a, offset, length) IN
    IF Strays(res)
    THEN /\ astray' = IF offset + length > SIZE_MAX THEN "wrap" ELSE "stray"
         /\ UNCHANGED <<heap, held, destroyed, value, calls>>
    ELSE /\ Return(res, Part(Value(a), offset, length)) /\ Destroyed(res.h)
         /\ UNCHANGED astray

DoMap(a) == LET res == CreateMap(heap, a) IN Return(res, Value(a)) /\ Destroyed(res.h)

DoCopyRegion(a, location) ==
    LET res == CopyRegion(heap, a, location) IN
    /\ Return(res, Part(Value(a), res.offset, Size(res.h, res.dd)))
    /\ Destroyed(res.h)

DoRelease(a) ==
    LET h == Release(heap, a) IN
    /\ heap' = h /\ Destroyed(h) /\ UNCHANGED calls
    /\ held' = Restricted([held EXCEPT ![a] = @ - 1], h)
    /\ value' = Restricted(value, h)

Call ==
    \/ UNCHANGED astray /\
        \/ \E b \in Buffers : DoCreate(b)
        \/ \E a \in Held : \/ DoMap(a)
                           \/ \E b \in Held \cup {EMPTY} : DoConcat(a, b)
                           \/ \E offset \in 0..heap[a].size : DoCopyRegion(a, offset)
    \/ \E a \in Held : \E offset \in 0..heap[a].size :
          \E length \in 0..heap[a].size \cup {SIZE_MAX} : DoSubrange(a, offset, length)

Next ==
    /\ astray = "no"
    /\ \/ MayCall /\ Call
       \/ UNCHANGED astray /\ \E a \in Held : DoRelease(a)

Spec == Init /\ [][Next]_vars

(* Every object represents the bytes it was asked to: concat, subrange,    *)
(* map, apply and copy_region agree with the operations on byte strings,   *)
(* whatever objects were built from whatever others and released since,    *)
(* and the regions dispatch_data_apply shows are contiguous.               *)
DataContents ==
    \A a \in Held :
      LET rs == Regions(heap, a) IN
      /\ Contents(heap, a) = value[a]
      /\ heap[a].size = Len(value[a])
      /\ \A i \in 1..Len(rs) : rs[i].offset = IF i = 1 THEN 0 ELSE rs[i - 1].offset + Len(rs[i - 1].bytes)

(* A destructor is called once, when the last object that needs the buffer *)
(* is released and not earlier: the references counted are exactly those   *)
(* of the program and of the records of live objects.                      *)
BuffersDestroyedOnce ==
    /\ \A b \in Buffers : destroyed[b] \in
         IF \E a \in DOMAIN heap : heap[a].buffer = b THEN {0} ELSE {-1, 1}
    /\ \A a \in DOMAIN heap :
         /\ heap[a].ref = (IF a \in DOMAIN held THEN held[a] ELSE 0)
              + Cardinality({<<c, i>> \in (DOMAIN heap) \X (1..MaxSize) :
                  i <= Len(heap[c].records) /\ heap[c].records[i].data_object = a})
         /\ \A i \in 1..Len(heap[a].records) :
              heap[a].records[i].data_object \in DOMAIN heap

(* A subrange stays inside its object, and dispatch_data_create_subrange   *)
(* does not run out of records, unless offset + length wraps in size_t:    *)
(* the clamp to the size of the object is then skipped.                    *)
SubrangeInside == astray # "stray"

(* Data objects keep all three.                                            *)
DataSound == SubrangeInside /\ (astray = "no" => DataContents /\ BuffersDestroyedOnce)
=============================================================================

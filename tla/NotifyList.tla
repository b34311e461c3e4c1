---------------------------- MODULE NotifyList ----------------------------
(***************************************************************************)
(* What _dispatch_group_wake and dispatch_group_notify_f do to the lists   *)
(* of notification blocks, whatever else they do.  There is one open list, *)
(* to which blocks are added at the end, and one closed list for each wake *)
(* that has taken the open one and is submitting its blocks.  A block is   *)
(* added before it is linked to the one before it, so a list may have gaps *)
(* that `linkers` are about to fill.  Every step keeps the blocks of each  *)
(* list in one order, from which none is lost and none is shared.          *)
(***************************************************************************)
EXTENDS Integers, TLAPS

CONSTANTS Block, Thread, NULL

VARIABLES live,         \* the blocks on some list
          first,        \* the first block of the open list, if there is one,
          last,         \* and its last block, or NULL
          next,         \* the links
          closed,       \* the wakes that have a list,
          head, tail,   \* with its first and its last block
          linkers       \* the notifiers that will link tail to head

vars == <<live, first, last, next, closed, head, tail, linkers>>

Pointer == Block \cup {NULL}

Init ==
    /\ live = {} /\ first = {} /\ last = NULL
    /\ next = [b \in Block |-> NULL]
    /\ closed = {} /\ linkers = {}

\* The thread keeps its end of the list.
Keeps(u) == head'[u] = head[u] /\ tail'[u] = tail[u]

\* A step elsewhere.
Elsewhere ==
    /\ UNCHANGED <<live, first, last, next, closed, linkers>>
    /\ \A u \in closed \cup linkers : Keeps(u)

\* A notifier adds `b` at the end of the open list.
Append(t, b) ==
    /\ t \notin closed \cup linkers /\ b \notin live
    /\ live' = live \cup {b}
    /\ last' = b
    /\ IF last = NULL
       THEN first' = {b} /\ linkers' = linkers
       ELSE first' = first /\ linkers' = linkers \cup {t} /\ head'[t] = b /\ tail'[t] = last
    /\ \A u \in closed \cup linkers : Keeps(u)
    /\ UNCHANGED <<next, closed>>

\* A notifier links its block to the one before it.
Link(t) ==
    /\ t \in linkers \ closed
    /\ next' = [next EXCEPT ![tail[t]] = head[t]]
    /\ linkers' = linkers \ {t}
    /\ \A u \in closed \cup (linkers \ {t}) : Keeps(u)
    /\ UNCHANGED <<live, first, last, closed>>

\* A wake takes the open list.
Take(t) ==
    /\ t \notin closed \cup linkers /\ last # NULL /\ head[t] \in first
    /\ closed' = closed \cup {t}
    /\ head'[t] = head[t] /\ tail'[t] = last
    /\ first' = {} /\ last' = NULL
    /\ \A u \in closed \cup linkers : Keeps(u)
    /\ UNCHANGED <<live, next, linkers>>

\* A wake drops the first block of its list, once it is linked to the next
\* one or is the last.
Advance(t) ==
    /\ t \in closed \ linkers
    /\ next[head[t]] # NULL \/ head[t] = tail[t]
    /\ live' = live \ {head[t]}
    /\ next' = [next EXCEPT ![head[t]] = NULL]
    /\ IF next[head[t]] # NULL
       THEN closed' = closed /\ head'[t] = next[head[t]] /\ tail'[t] = tail[t]
       ELSE closed' = closed \ {t}
    /\ \A u \in (closed \ {t}) \cup linkers : Keeps(u)
    /\ UNCHANGED <<first, last, linkers>>

Next ==
    \/ Elsewhere
    \/ \E t \in Thread : Link(t) \/ Take(t) \/ Advance(t) \/ \E b \in Block : Append(t, b)

Spec == Init /\ [][Next]_vars

-----------------------------------------------------------------------------
(* The order on the lists *)

Shape ==
    /\ NULL \notin Block \cup Thread
    /\ live \subseteq Block /\ first \subseteq Block /\ last \in Pointer
    /\ next \in [Block -> Pointer]
    /\ closed \subseteq Thread /\ linkers \subseteq Thread
    /\ head \in [Thread -> Pointer] /\ tail \in [Thread -> Pointer]
    /\ \A u \in closed \cup linkers : head[u] \in Block /\ tail[u] \in Block
    /\ last = NULL => first = {}

\* A link that is made, or about to be.
Linked(b, c) == next[b] = c \/ \E n \in linkers : tail[n] = b /\ head[n] = c

\* Every live block is on the open list or on the list of one wake (`seg`), at
\* a place of its own (`rank`), between its first and its last block.
Placed(rank, seg) ==
    /\ \A b \in live :
        \/ /\ seg[b] = NULL /\ last # NULL
           /\ rank[b] <= rank[last]
           /\ \A c \in first : rank[c] <= rank[b]
        \/ seg[b] \in closed /\ rank[head[seg[b]]] <= rank[b] /\ rank[b] <= rank[tail[seg[b]]]
    /\ \A b, c \in live : seg[b] = seg[c] /\ rank[b] = rank[c] => b = c

\* The first and the last block of a list are on it.
Ends(seg) ==
    /\ \A t \in closed : /\ head[t] \in live /\ tail[t] \in live
                         /\ seg[head[t]] = t /\ seg[tail[t]] = t
    /\ last # NULL => last \in live /\ seg[last] = NULL
    /\ \A c \in first : c \in live /\ seg[c] = NULL

\* A link, made or about to be made, leads to the next place on the list.
Links(rank, seg) ==
    /\ \A b \in live, c \in Block :
        Linked(b, c) => c \in live /\ seg[c] = seg[b] /\ rank[c] = rank[b] + 1
    /\ \A b \in Block : next[b] # NULL => b \in live
    /\ \A n \in linkers : tail[n] \in live /\ next[tail[n]] = NULL
    /\ \A n, m \in linkers : head[n] = head[m] => n = m

Ranks == [Block -> Nat]
Segments == [Block -> Thread \cup {NULL}]
ListOK(rank, seg) == Placed(rank, seg) /\ Ends(seg) /\ Links(rank, seg)
Lists == \E rank \in Ranks, seg \in Segments : ListOK(rank, seg)

-----------------------------------------------------------------------------
(* Each step keeps it *)

\* There is no list at first.
LEMMA InitLists == Init => Lists
  <1> SUFFICES ASSUME Init PROVE Lists
    OBVIOUS
  <1>1. PICK rank \in Ranks, seg \in Segments : rank = [b \in Block |-> 0] /\ seg = [b \in Block |-> NULL]
    BY Zenon DEF Ranks, Segments
  <1>2. ListOK(rank, seg)
    BY DEF Init, ListOK, Placed, Ends, Links
  <1> QED
    BY <1>2 DEF Lists

\* Steps elsewhere leave the lists as they are.
LEMMA ElsewhereKeeps ==
    ASSUME Shape, NEW rank \in Ranks, NEW seg \in Segments, ListOK(rank, seg), Elsewhere PROVE Lists'
  <1>1. Placed(rank, seg)'
    BY DEF Elsewhere, Keeps, ListOK, Placed
  <1>2. Ends(seg)'
    BY DEF Elsewhere, Keeps, ListOK, Ends
  <1>3. Links(rank, seg)'
    BY DEF Elsewhere, Keeps, ListOK, Links, Linked
  <1> QED
    BY <1>1, <1>2, <1>3 DEF Lists, ListOK

\* A wake makes the open list its own.
LEMMA TakeKeeps ==
    ASSUME Shape, NEW rank \in Ranks, NEW seg \in Segments, ListOK(rank, seg), NEW t \in Thread, Take(t)
    PROVE  Lists'
  <1> USE DEF Shape, Ranks, Segments, Pointer
  <1> DEFINE own == [b \in Block |-> IF seg[b] = NULL THEN t ELSE seg[b]]
  <1>1. Placed(rank, seg) /\ Ends(seg) /\ Links(rank, seg)
    BY DEF ListOK
  <1>2. /\ live' = live /\ closed' = closed \cup {t} /\ t \notin closed /\ t \notin linkers
        /\ head'[t] = head[t] /\ head[t] \in Block /\ tail'[t] = last /\ last \in Block
        /\ \A u \in closed : head'[u] = head[u] /\ tail'[u] = tail[u]
    BY DEF Take, Keeps
  <1>3. \A b \in live : seg[b] = NULL \/ (seg[b] \in closed /\ own[b] = seg[b])
    BY <1>1 DEF Placed
  <1>4. Placed(rank, own)'
    <2>1. \A b, c \in live : own[b] = own[c] => seg[b] = seg[c]
      BY <1>2, <1>3, Zenon
    <2>2. ASSUME NEW b \in live
          PROVE  own[b] \in closed' /\ rank[head'[own[b]]] <= rank[b] /\ rank[b] <= rank[tail'[own[b]]]
      <3>1. CASE seg[b] = NULL
        BY <3>1, <1>1, <1>2 DEF Placed, Take
      <3>2. CASE seg[b] \in closed /\ own[b] = seg[b]
        BY <3>2, <1>1, <1>2 DEF Placed
      <3> QED
        BY <3>1, <3>2, <1>3, Zenon
    <2> HIDE DEF own
    <2> QED
      BY <1>1, <1>2, <2>1, <2>2 DEF Placed
  <1>5. Ends(own)'
    <2>1. ASSUME NEW u \in closed'
          PROVE  head'[u] \in live /\ tail'[u] \in live /\ own[head'[u]] = u /\ own[tail'[u]] = u
      <3>1. CASE u = t
        BY <3>1, <1>1, <1>2 DEF Ends, Take
      <3>2. CASE u \in closed
        BY <3>2, <1>1, <1>2 DEF Ends
      <3> QED
        BY <3>1, <3>2, <1>2
    <2> QED
      BY <1>2, <2>1 DEF Ends, Take
  <1>6. Links(rank, own)'
    BY <1>1 DEF Links, Linked, Take, Keeps
  <1>7. own \in Segments
    OBVIOUS
  <1> HIDE DEF own
  <1> QED
    BY <1>4, <1>5, <1>6, <1>7 DEF Lists, ListOK

\* A notifier fills the gap before its block, and nobody else's.
LEMMA LinkKeeps ==
    ASSUME Shape, NEW rank \in Ranks, NEW seg \in Segments, ListOK(rank, seg), NEW t \in Thread, Link(t)
    PROVE  Lists'
  <1> USE DEF Shape, Ranks, Segments, Pointer
  <1>1. Placed(rank, seg) /\ Ends(seg) /\ Links(rank, seg)
    BY DEF ListOK
  <1>2. Placed(rank, seg)'
    BY <1>1 DEF Placed, Link, Keeps
  <1>3. Ends(seg)'
    BY <1>1 DEF Ends, Link, Keeps
  <1>4. /\ tail[t] \in live /\ head[t] \in Block /\ next[tail[t]] = NULL /\ Linked(tail[t], head[t])
        /\ next' = [next EXCEPT ![tail[t]] = head[t]]
    BY <1>1 DEF Links, Linked, Link
  <1>5. \A b \in live, c \in Block : Linked(b, c)' => Linked(b, c)
    BY <1>4 DEF Linked, Link, Keeps
  <1>6. \A n \in linkers \ {t} : tail[n] # tail[t]
    <2> SUFFICES ASSUME NEW n \in linkers, tail[n] = tail[t] PROVE n = t
      OBVIOUS
    <2>1. Linked(tail[t], head[n]) /\ head[n] \in Block
      BY DEF Linked
    <2>2. head[n] = head[t]
      BY <1>1, <1>4, <2>1 DEF Links, Placed
    <2> QED
      BY <1>1, <2>2 DEF Links, Link
  <1>7. Links(rank, seg)'
    BY <1>1, <1>4, <1>5, <1>6 DEF Links, Link, Keeps
  <1> QED
    BY <1>2, <1>3, <1>7 DEF Lists, ListOK

\* A new block opens a list ...
LEMMA OpenKeeps ==
    ASSUME Shape, NEW rank \in Ranks, NEW seg \in Segments, ListOK(rank, seg),
           NEW t \in Thread, NEW b \in Block, Append(t, b), last = NULL
    PROVE  Lists'
  <1> USE DEF Shape, Ranks, Segments, Pointer
  <1>1. Placed(rank, seg) /\ Ends(seg) /\ Links(rank, seg)
    BY DEF ListOK
  <1>2. PICK place \in Ranks, open \in Segments :
           place = [rank EXCEPT ![b] = 0] /\ open = [seg EXCEPT ![b] = NULL]
    BY Zenon
  <1>3. /\ b \notin live /\ live' = live \cup {b} /\ first' = {b} /\ last' = b
        /\ closed' = closed /\ linkers' = linkers /\ next' = next
        /\ \A u \in closed \cup linkers : head'[u] = head[u] /\ tail'[u] = tail[u]
    BY DEF Append, Keeps
  <1>4. place[b] = 0 /\ open[b] = NULL /\ \A c \in live : place[c] = rank[c] /\ open[c] = seg[c]
    BY <1>2, <1>3
  <1>5. \A c \in live : seg[c] # NULL /\ seg[c] \in closed
    BY <1>1 DEF Placed
  <1>6. Placed(place, open)'
    BY <1>1, <1>3, <1>4, <1>5 DEF Placed, Ends
  <1>7. Ends(open)'
    BY <1>1, <1>3, <1>4 DEF Ends
  <1>8. Links(place, open)'
    <2>1. ASSUME NEW x \in live', NEW c \in Block, Linked(x, c)' PROVE Linked(x, c) /\ x \in live
      BY <2>1, <1>1, <1>3 DEF Links, Linked
    <2> QED
      BY <1>1, <1>3, <1>4, <2>1 DEF Links
  <1> QED
    BY <1>6, <1>7, <1>8 DEF Lists, ListOK

\* ... or becomes the last of the open one.
LEMMA AppendKeeps ==
    ASSUME Shape, NEW rank \in Ranks, NEW seg \in Segments, ListOK(rank, seg),
           NEW t \in Thread, NEW b \in Block, Append(t, b), last # NULL
    PROVE  Lists'
  <1> USE DEF Shape, Ranks, Segments, Pointer
  <1>1. Placed(rank, seg) /\ Ends(seg) /\ Links(rank, seg)
    BY DEF ListOK
  <1>2. last \in live /\ last \in Block /\ seg[last] = NULL /\ rank[last] + 1 \in Nat
    BY <1>1 DEF Ends
  <1>3. PICK place \in Ranks, open \in Segments :
           place = [rank EXCEPT ![b] = rank[last] + 1] /\ open = [seg EXCEPT ![b] = NULL]
    BY <1>2, Zenon
  <1>4. /\ b \notin live /\ live' = live \cup {b} /\ first' = first /\ last' = b
        /\ closed' = closed /\ t \notin linkers /\ linkers' = linkers \cup {t} /\ next' = next
        /\ \A u \in closed \cup linkers : head'[u] = head[u] /\ tail'[u] = tail[u]
        /\ head'[t] = b /\ tail'[t] = last
    BY DEF Append, Keeps
  <1>5. /\ place[b] = rank[last] + 1 /\ open[b] = NULL
        /\ \A c \in live : place[c] = rank[c] /\ open[c] = seg[c]
    BY <1>3, <1>4
  <1>6. \A c \in first : c \in live /\ seg[c] = NULL /\ rank[c] <= rank[last]
    BY <1>1, <1>2 DEF Ends, Placed
  <1>7. Placed(place, open)'
    BY <1>1, <1>2, <1>4, <1>5, <1>6 DEF Placed, Ends
  <1>8. Ends(open)'
    BY <1>1, <1>4, <1>5, <1>6 DEF Ends
  <1>9. next[last] = NULL
    <2> SUFFICES ASSUME next[last] # NULL PROVE FALSE
      OBVIOUS
    <2>1. PICK c \in Block : next[last] = c
      BY <1>2
    <2>2. c \in live /\ seg[c] = NULL /\ rank[c] = rank[last] + 1
      BY <1>1, <1>2, <2>1 DEF Links, Linked
    <2> QED
      BY <1>1, <1>2, <2>2 DEF Placed
  <1>10. \A n \in linkers : tail[n] \in live /\ head[n] \in live /\ head[n] # b
    <2> SUFFICES ASSUME NEW n \in linkers PROVE tail[n] \in live /\ head[n] \in live
      BY <1>4
    <2>1. tail[n] \in live /\ Linked(tail[n], head[n]) /\ head[n] \in Block
      BY <1>1 DEF Links, Linked
    <2> QED
      BY <1>1, <2>1 DEF Links
  <1>11. Links(place, open)'
    <2>1. ASSUME NEW x \in live', NEW c \in Block, Linked(x, c)'
          PROVE  c \in live' /\ open[c] = open[x] /\ place[c] = place[x] + 1
      <3>1. CASE Linked(x, c) /\ x \in live
        BY <3>1, <1>1, <1>4, <1>5 DEF Links
      <3>2. CASE x = last /\ c = b
        BY <3>2, <1>2, <1>4, <1>5, SMTT(30)
      <3> QED
        BY <2>1, <3>1, <3>2, <1>1, <1>4, <1>10, SMTT(30) DEF Links, Linked
    <2>2. \A c \in Block : next'[c] # NULL => c \in live'
      BY <1>1, <1>4 DEF Links
    <2>3. \A n \in linkers' : tail'[n] \in live' /\ next'[tail'[n]] = NULL
      BY <1>1, <1>2, <1>4, <1>9, SMTT(30) DEF Links
    <2>4. \A n, m \in linkers' : head'[n] = head'[m] => n = m
      BY <1>1, <1>4, <1>10 DEF Links
    <2> QED
      BY <2>1, <2>2, <2>3, <2>4, SMTT(30) DEF Links
  <1> QED
    BY <1>7, <1>8, <1>11 DEF Lists, ListOK

\* A wake moves to the next block of its list, or ends with the last one.
LEMMA AdvanceKeeps ==
    ASSUME Shape, NEW rank \in Ranks, NEW seg \in Segments, ListOK(rank, seg), NEW t \in Thread, Advance(t)
    PROVE  Lists'
  <1> USE DEF Shape, Ranks, Segments, Pointer
  <1>1. Placed(rank, seg) /\ Ends(seg) /\ Links(rank, seg)
    BY DEF ListOK
  <1>2. PICK h \in Block : h = head[t]
    BY DEF Advance
  <1>3. /\ t \in closed /\ t \notin linkers /\ h \in live /\ seg[h] = t /\ tail[t] \in live
        /\ \A u \in closed : head[u] = h => u = t
    BY <1>1, <1>2 DEF Ends, Advance
  <1>4. /\ next[h] # NULL \/ h = tail[t]
        /\ live' = live \ {h} /\ next' = [next EXCEPT ![h] = NULL]
        /\ first' = first /\ last' = last /\ linkers' = linkers
        /\ \A u \in (closed \ {t}) \cup linkers : head'[u] = head[u] /\ tail'[u] = tail[u]
    BY <1>2 DEF Advance, Keeps
  <1>5. \A b \in live : seg[b] = t => rank[h] <= rank[b] /\ rank[b] <= rank[tail[t]] /\ (b # h => rank[b] > rank[h])
    BY <1>1, <1>2, <1>3, SMTT(30) DEF Placed
  <1>6. \A b \in live \ {h}, c \in Block : Linked(b, c) => c # h
    BY <1>1, <1>3, <1>5 DEF Links
  <1>7. \A n \in linkers : tail[n] # h
    <2> SUFFICES ASSUME NEW n \in linkers, tail[n] = h PROVE FALSE
      OBVIOUS
    <2>1. Linked(h, head[n]) /\ head[n] \in Block /\ next[h] = NULL
      BY <1>1 DEF Links, Linked
    <2>2. head[n] \in live /\ seg[head[n]] = t /\ rank[head[n]] = rank[h] + 1
      BY <1>1, <1>3, <2>1, SMTT(30) DEF Links
    <2> QED
      BY <1>4, <1>5, <2>1, <2>2
  <1>8. Links(rank, seg)'
    <2>1. \A b \in live', c \in Block : Linked(b, c)' => Linked(b, c)
      BY <1>3, <1>4, SMTT(30) DEF Linked
    <2> QED
      BY <1>1, <1>3, <1>4, <1>6, <1>7, <2>1 DEF Links
  <1>9. \A b \in live \ {h} : seg[b] \in closed /\ seg[b] # t =>
           rank[head'[seg[b]]] <= rank[b] /\ rank[b] <= rank[tail'[seg[b]]]
    BY <1>1, <1>4, SMTT(30) DEF Placed
  <1>10. \A u \in closed \ {t} : head'[u] \in live' /\ tail'[u] \in live' /\ seg[head'[u]] = u /\ seg[tail'[u]] = u
    BY <1>1, <1>3, <1>4, SMTT(30) DEF Ends
  <1>11. (last # NULL => last \in live' /\ seg[last] = NULL) /\ \A c \in first : c \in live' /\ seg[c] = NULL
    BY <1>1, <1>3, <1>4 DEF Ends
  <1>12. CASE next[h] # NULL
    <2>1. PICK c \in Block : c = next[h]
      BY <1>12
    <2>2. c \in live /\ seg[c] = t /\ rank[c] = rank[h] + 1
      BY <1>1, <1>3, <2>1 DEF Links, Linked
    <2>3. closed' = closed /\ c # h /\ tail[t] # h /\ head'[t] = c /\ tail'[t] = tail[t]
      BY <1>2, <1>3, <1>5, <1>12, <2>1, <2>2 DEF Advance
    <2>4. \A b \in live \ {h} : seg[b] = t => rank[c] <= rank[b] /\ rank[b] <= rank[tail[t]]
      BY <1>3, <1>5, <2>2, SMTT(30)
    <2>5. Placed(rank, seg)'
      BY <1>1, <1>3, <1>4, <1>9, <2>3, <2>4, SMTT(30) DEF Placed
    <2>6. Ends(seg)'
      BY <1>1, <1>3, <1>4, <1>10, <1>11, <2>2, <2>3 DEF Ends
    <2> QED
      BY <1>8, <2>5, <2>6 DEF Lists, ListOK
  <1>13. CASE next[h] = NULL
    <2>1. closed' = closed \ {t}
      BY <1>2, <1>13 DEF Advance
    <2>2. \A b \in live \ {h} : seg[b] # t
      BY <1>3, <1>4, <1>5, <1>13, SMTT(30)
    <2>3. Placed(rank, seg)'
      BY <1>1, <1>4, <1>9, <2>1, <2>2, SMTT(30) DEF Placed
    <2>4. Ends(seg)'
      BY <1>4, <1>10, <1>11, <2>1 DEF Ends
    <2> QED
      BY <1>8, <2>3, <2>4 DEF Lists, ListOK
  <1> QED
    BY <1>12, <1>13

\* Every step keeps the order of every list.
LEMMA NextKeeps == ASSUME Shape, Lists, Next PROVE Lists'
  <1>1. PICK rank \in Ranks, seg \in Segments : ListOK(rank, seg)
    BY DEF Lists
  <1> QED
    BY <1>1, ElsewhereKeeps, TakeKeeps, LinkKeeps, OpenKeeps, AppendKeeps, AdvanceKeeps DEF Next

\* The block at the head of a wake's list is on that list and on no other.
LEMMA OwnHead ==
    ASSUME Lists, NEW t \in closed
    PROVE  head[t] \in live /\ \A u \in closed : head[u] = head[t] => u = t
  BY DEF Lists, ListOK, Ends

\* Every live block is on some list.
LEMMA NoneLost == ASSUME Lists, closed = {}, last = NULL PROVE live = {}
  BY DEF Lists, ListOK, Placed
============================================================================

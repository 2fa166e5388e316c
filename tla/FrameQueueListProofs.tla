------------------------- MODULE FrameQueueListProofs -------------------------
(***************************************************************************)
(* Proofs about FrameQueueList, for any number of buffers.                 *)
(***************************************************************************)
EXTENDS FrameQueueList, SequenceTheorems, FiniteSetTheorems,
        WellFoundedInduction, TLAPS

(* The list that starts at first has the nodes of s, in this order.        *)
Chain(s, first, nextOf) ==
  /\ first = IF s = <<>> THEN NULL ELSE s[1]
  /\ \A i \in 1 .. Len(s) :
       nextOf[s[i]] = IF i = Len(s) THEN NULL ELSE s[i + 1]

InHands(d, w) == IF d[w] = NULL THEN 0 ELSE 1

(* No buffer is twice in the queues Q, nor in a queue and in the hands d of*)
(* a worker, nor in the hands of both.                                     *)
Apart(Q, d) ==
  /\ \A q, r \in Queues : \A i \in 1 .. Len(Q[q]), j \in 1 .. Len(Q[r]) :
       Q[q][i] = Q[r][j] => q = r /\ i = j
  /\ \A w \in Workers, q \in Queues : \A i \in 1 .. Len(Q[q]) : Q[q][i] # d[w]
  /\ \A v, w \in Workers : v # w /\ d[v] = d[w] => d[w] = NULL

(* None is missing.                                                        *)
Complete(Q, d) ==
  Len(Q["empty"]) + Len(Q["action"]) + InHands(d, "camera") + InHands(d, "usb")
    = NumBuffers

(* Q is what the lists with the heads h and the fields n hold while the    *)
(* workers hold d.                                                         *)
Shape(Q, h, n, d) ==
  /\ Q \in [Queues -> Seq(Buffers)]
  /\ h \in [Queues -> Buffers \cup {NULL}]
  /\ n \in [Buffers -> Buffers \cup {NULL}]
  /\ d \in [Workers -> Buffers \cup {NULL}]
  /\ \A q \in Queues : Chain(Q[q], h[q], n)
  /\ Apart(Q, d) /\ Complete(Q, d)

(* The queues, as BufferQueues sees them.                                  *)
queue == [q \in Queues |-> Path(head[q], next)]

ShapeInv == Shape(queue, head, next, held)

(* Where a worker has a buffer in its hands, and where it owns the mutex.  *)
Holding == {"detach", "use", "lockPush", "terminate", "find", "link"}
Critical == {"unlink", "detach", "terminate", "find", "link"}

(* The mutex has one owner, and a worker holds a buffer from the pull to   *)
(* the push.                                                               *)
WorkerInv ==
  \A w \in Workers :
    /\ pc[w] \in Critical <=> mutex = w
    /\ pc[w] \in Holding <=> held[w] # NULL
    /\ pc[w] = "unlink" => head[Input[w]] # NULL
    /\ pc[w] \in {"sample", "walk"} => w = "camera"
    /\ w = "usb" => target[w] = "empty"

(* A node in a worker's hands leads nowhere, once it is detached, and the  *)
(* search for the tail stays in the list.                                  *)
SearchOf(w) ==
  /\ pc[w] = "detach" => next[held[w]] = head[Input[w]]
  /\ pc[w] \in Holding \ {"detach"} => next[held[w]] = NULL
  /\ pc[w] \in {"find", "link"} =>
       \E i \in 1 .. Len(queue[target[w]]) : current[w] = queue[target[w]][i]
  /\ pc[w] = "link" => next[current[w]] = NULL

SearchInv == \A w \in Workers : SearchOf(w)

(* While the sampler walks, only the USB thread moves buffers, from the    *)
(* head of one queue to the tail of the other: the order of all the        *)
(* buffers, the empty ones first, stays the same.  Node b stands in it     *)
(* behind at least c others.                                               *)
Behind(Q, d, b, c) ==
  \/ \E i \in 1 .. Len(Q["empty"]) : b = Q["empty"][i] /\ c < i
  \/ b = d["usb"] /\ c < Len(Q["empty"]) + 1
  \/ \E i \in 1 .. Len(Q["action"]) :
       b = Q["action"][i] /\ c < Len(Q["empty"]) + InHands(d, "usb") + i

(* The sampler has counted no more nodes than stand before its own.        *)
WalkInv ==
  /\ DepthInRange
  /\ pc["camera"] = "walk" /\ walker # NULL => Behind(queue, held, walker, count)

ListInv == TypeOK /\ WorkerInv /\ ShapeInv /\ SearchInv /\ WalkInv

-----------------------------------------------------------------------------
(* A set of numbers has a least one.                                       *)
LEMMA Least ==
  ASSUME NEW T \in SUBSET Nat, T # {}
  PROVE  \E n \in T : \A m \in T : n <= m
<1> DEFINE R == OpToRel(<, Nat)
<1>1. IsWellFoundedOn(R, Nat)
  BY NatLessThanWellFounded
<1>2. \A m, n \in Nat : m < n => <<m, n>> \in R
  BY DEF OpToRel
<1> HIDE DEF R
<1>3. PICK n \in T : \A m \in T : ~ (<<m, n>> \in R)
  BY <1>1, WFMin
<1>4. ASSUME NEW m \in T PROVE n <= m
  <2>1. m \in Nat /\ n \in Nat
    OBVIOUS
  <2>2. ~ (<<m, n>> \in R)
    BY <1>3
  <2>3. ~ (m < n)
    BY ZenonT(30), <2>1, <2>2, <1>2
  <2> QED BY <2>1, <2>3
<1> QED BY <1>4

(* Path finds the nodes of a list that is no longer than the pool.         *)
LEMMA PathOfChain ==
  ASSUME NEW s \in Seq(Buffers), Len(s) <= NumBuffers,
         NEW first, NEW nextOf, Chain(s, first, nextOf)
  PROVE  Path(first, nextOf) = s
<1> DEFINE I == 1 .. NumBuffers + 1
           Node(f, i) == IF i = 1 THEN first
                         ELSE IF f[i - 1] = NULL THEN NULL ELSE nextOf[f[i - 1]]
           node == CHOOSE f : f = [i \in I |-> Node(f, i)]
           g == [i \in I |-> IF i <= Len(s) THEN s[i] ELSE NULL]
<1>1. /\ Len(s) \in Nat /\ NumBuffers \in Nat \ {0}
      /\ \A i \in 1 .. Len(s) : s[i] \in Buffers /\ s[i] # NULL
      /\ s = <<>> <=> Len(s) = 0
  BY NumBuffersAssumption, EmptySeq DEF Buffers, NULL
<1>2. ASSUME NEW i \in I PROVE g[i] = Node(g, i)
  <2>1. CASE i = 1
    BY <1>1, <2>1 DEF Chain
  <2>2. CASE i > 1
    <3>1. i - 1 \in I /\ g[i - 1] = IF i - 1 <= Len(s) THEN s[i - 1] ELSE NULL
      BY <1>1, <2>2
    <3>2. CASE i - 1 <= Len(s)
      <4>1. /\ g[i - 1] = s[i - 1] /\ s[i - 1] # NULL
            /\ nextOf[s[i - 1]] = IF i - 1 = Len(s) THEN NULL ELSE s[(i - 1) + 1]
        BY <1>1, <2>2, <3>1, <3>2 DEF Chain
      <4> QED BY <1>1, <2>2, <3>2, <4>1
    <3>3. CASE i - 1 > Len(s)
      BY <1>1, <2>2, <3>1, <3>3
    <3> QED BY <1>1, <3>2, <3>3
  <2> QED BY <2>1, <2>2
<1>3. g = [i \in I |-> Node(g, i)]
  BY <1>2
<1>4. node = [i \in I |-> Node(node, i)]
  BY <1>3
<1> HIDE DEF node
<1>5. \A i \in I : node[i] = g[i]
  <2> DEFINE D == {i \in I : node[i] # g[i]}
  <2> SUFFICES ASSUME D # {} PROVE FALSE
    OBVIOUS
  <2>0. I \subseteq Nat
    BY <1>1
  <2>1. PICK i \in D : \A j \in D : i <= j
    BY <2>0, Least
  <2>2. /\ i \in I /\ i - 1 \notin D
        /\ i # 1 => i - 1 \in I
    BY <1>1, <2>1
  <2>3. node[i] = Node(node, i) /\ g[i] = Node(g, i)
    <3> HIDE DEF g, Node, I
    <3> QED BY <1>2, <1>4, <2>2
  <2>4. i # 1 => node[i - 1] = g[i - 1]
    <3> HIDE DEF g, I
    <3> QED BY <2>2
  <2>5. Node(node, i) = Node(g, i)
    BY <2>4
  <2> QED BY <2>1, <2>3, <2>5
<1>6. {i \in I : node[i] # NULL} = 1 .. Len(s)
  BY <1>1, <1>5
<1>7. Cardinality(1 .. Len(s)) = Len(s)
  <2>0. 1 \in Int /\ Len(s) \in Int
    BY <1>1
  <2>1. Cardinality(1 .. Len(s)) = IF 1 > Len(s) THEN 0 ELSE Len(s) - 1 + 1
    BY <2>0, FS_Interval, Zenon
  <2> QED BY <1>1, <2>1
<1>8. Path(first, nextOf) = [i \in 1 .. Len(s) |-> node[i]]
  BY <1>6, <1>7 DEF Path, node
<1>9. [i \in 1 .. Len(s) |-> node[i]] = [i \in 1 .. Len(s) |-> s[i]]
  BY <1>1, <1>5
<1> QED BY <1>8, <1>9

(* The list without its first node.                                        *)
LEMMA ChainTail ==
  ASSUME NEW s \in Seq(Buffers), s # <<>>, NEW f, NEW n, Chain(s, f, n)
  PROVE  f = s[1] /\ f = Head(s) /\ Chain(Tail(s), n[f], n)
<1> DEFINE t == Tail(s)
<1>0. Len(s) \in Nat \ {0} /\ Head(s) = s[1]
  BY EmptySeq
<1>1. /\ t \in Seq(Buffers) /\ Len(t) = Len(s) - 1
      /\ \A i \in 1 .. Len(t) : t[i] = s[i + 1]
  BY HeadTailProperties
<1> HIDE DEF t
<1>3. t = <<>> <=> Len(s) = 1
  BY <1>0, <1>1, EmptySeq
<1>2. f = s[1] /\ n[f] = IF Len(s) = 1 THEN NULL ELSE s[1 + 1]
  <2>1. f = s[1]
    BY DEF Chain
  <2>2. 1 \in 1 .. Len(s)
    BY <1>0
  <2>3. n[s[1]] = IF 1 = Len(s) THEN NULL ELSE s[1 + 1]
    BY <2>2 DEF Chain
  <2> QED BY <2>1, <2>3
<1>4. n[f] = IF t = <<>> THEN NULL ELSE t[1]
  BY <1>0, <1>1, <1>3, <1>2
<1>5. ASSUME NEW i \in 1 .. Len(t)
      PROVE  n[t[i]] = IF i = Len(t) THEN NULL ELSE t[i + 1]
  <2>1. i + 1 \in 1 .. Len(s) /\ t[i] = s[i + 1]
    BY <1>0, <1>1
  <2>2. n[s[i + 1]] = IF i + 1 = Len(s) THEN NULL ELSE s[(i + 1) + 1]
    BY <2>1 DEF Chain
  <2>3. CASE i = Len(t)
    BY <1>0, <1>1, <2>1, <2>2, <2>3
  <2>4. CASE i < Len(t)
    <3>1. i + 1 \in 1 .. Len(t) /\ t[i + 1] = s[(i + 1) + 1]
      BY <1>0, <1>1, <2>4
    <3> QED BY <1>0, <1>1, <2>1, <2>2, <2>4, <3>1
  <2> QED BY <1>0, <1>1, <2>3, <2>4
<1>6. Chain(t, n[f], n)
  BY <1>4, <1>5 DEF Chain
<1> QED BY <1>0, <1>2, <1>6 DEF t

(* A write to a node outside the list changes nothing of it.               *)
LEMMA ChainKept ==
  ASSUME NEW s \in Seq(Buffers), NEW f, NEW n, Chain(s, f, n),
         NEW b, NEW x, \A i \in 1 .. Len(s) : s[i] # b,
         n \in [Buffers -> Buffers \cup {NULL}]
  PROVE  Chain(s, f, [n EXCEPT ![b] = x])
<1>1. \A i \in 1 .. Len(s) : s[i] \in Buffers
  OBVIOUS
<1> QED BY <1>1 DEF Chain

(* The list of one node.                                                   *)
LEMMA ChainOne ==
  ASSUME NEW b \in Buffers, NEW n, n[b] = NULL
  PROVE  Chain(Append(<<>>, b), b, n)
<1>1. Append(<<>>, b) = <<b>> /\ Len(<<b>>) = 1 /\ <<b>>[1] = b /\ <<b>> # <<>>
  OBVIOUS
<1> QED BY <1>1 DEF Chain

(* A node linked to the last one becomes the last one.                     *)
LEMMA ChainAppend ==
  ASSUME NEW s \in Seq(Buffers), s # <<>>, NEW f, NEW n, Chain(s, f, n),
         \A i, j \in 1 .. Len(s) : s[i] = s[j] => i = j,
         NEW b \in Buffers, \A i \in 1 .. Len(s) : s[i] # b, n[b] = NULL,
         n \in [Buffers -> Buffers \cup {NULL}]
  PROVE  Chain(Append(s, b), f, [n EXCEPT ![s[Len(s)]] = b])
<1> DEFINE t == Append(s, b)
           m == [n EXCEPT ![s[Len(s)]] = b]
<1>1. /\ Len(s) \in Nat \ {0} /\ Len(t) = Len(s) + 1 /\ t # <<>>
      /\ \A i \in 1 .. Len(s) : t[i] = s[i] /\ s[i] \in Buffers
      /\ t[Len(s) + 1] = b
  BY AppendProperties, EmptySeq
<1>2. /\ m[s[Len(s)]] = b /\ m[b] = NULL
      /\ \A i \in 1 .. Len(s) - 1 : m[s[i]] = n[s[i]]
  BY <1>1
<1> HIDE DEF t, m
<1>3. f = t[1]
  BY <1>1 DEF Chain
<1>4. ASSUME NEW i \in 1 .. Len(t)
      PROVE  m[t[i]] = IF i = Len(t) THEN NULL ELSE t[i + 1]
  <2>1. CASE i = Len(t)
    BY <1>1, <1>2, <2>1
  <2>2. CASE i = Len(s)
    BY <1>1, <1>2, <2>2
  <2>3. CASE i \in 1 .. Len(s) - 1
    <3>1. n[s[i]] = s[i + 1]
      BY <1>1, <2>3 DEF Chain
    <3> QED BY <1>1, <1>2, <2>3, <3>1
  <2> QED BY <1>1, <2>1, <2>2, <2>3
<1>5. Chain(t, f, m)
  BY <1>1, <1>3, <1>4 DEF Chain
<1> QED BY <1>5 DEF t, m

(* The shape of the lists determines the queues.                           *)
LEMMA PathsOfShape ==
  ASSUME NEW Q, NEW h, NEW n, NEW d, Shape(Q, h, n, d)
  PROVE  [q \in Queues |-> Path(h[q], n)] = Q
<1>1. ASSUME NEW q \in Queues PROVE Path(h[q], n) = Q[q]
  <2>1. Q[q] \in Seq(Buffers) /\ Chain(Q[q], h[q], n)
    BY DEF Shape
  <2>2. Len(Q["empty"]) \in Nat /\ Len(Q["action"]) \in Nat
    BY DEF Shape, Queues
  <2>3. Len(Q[q]) <= NumBuffers
    BY <2>2, NumBuffersAssumption DEF Shape, Complete, InHands, Queues
  <2> QED BY <2>1, <2>3, PathOfChain
<1> QED BY <1>1 DEF Shape

-----------------------------------------------------------------------------
(* What the two operations do to the queues and the hands.                 *)

(* A buffer passes between a queue and the hands of a worker.              *)
LEMMA CompleteKept ==
  ASSUME NEW Q \in [Queues -> Seq(Buffers)], NEW P \in [Queues -> Seq(Buffers)],
         NEW d, NEW e, NEW c \in {-1, 1},
         Len(P["empty"]) + Len(P["action"]) = Len(Q["empty"]) + Len(Q["action"]) + c,
         InHands(e, "camera") + InHands(e, "usb")
           = InHands(d, "camera") + InHands(d, "usb") - c,
         Complete(Q, d)
  PROVE  Complete(P, e)
<1> DEFINE x == Len(Q["empty"])
           y == Len(Q["action"])
           a == InHands(d, "camera")
           b == InHands(d, "usb")
           u == Len(P["empty"])
           v == Len(P["action"])
           r == InHands(e, "camera")
           z == InHands(e, "usb")
<1>1. x \in Int /\ y \in Int /\ u \in Int /\ v \in Int
  BY DEF Queues
<1>2. a \in Int /\ b \in Int /\ r \in Int /\ z \in Int
  BY DEF InHands
<1>3. u + v = x + y + c /\ r + z = a + b - c
  OBVIOUS
<1> HIDE DEF x, y, a, b, u, v, r, z
<1>4. u + v + r + z = x + y + a + b
  BY <1>1, <1>2, <1>3
<1>5. Complete(P, e) <=> u + v + r + z = NumBuffers
  BY DEF Complete, u, v, r, z
<1>6. Complete(Q, d) <=> x + y + a + b = NumBuffers
  BY DEF Complete, x, y, a, b
<1> QED BY <1>4, <1>5, <1>6

(* A worker with empty hands takes the first buffer of a queue.            *)
LEMMA TakeShape ==
  ASSUME NEW Q, NEW h, NEW n, NEW d, Shape(Q, h, n, d),
         NEW k \in Queues, NEW w \in Workers, h[k] # NULL, d[w] = NULL
  PROVE  /\ Q[k] # <<>> /\ h[k] = Head(Q[k]) /\ h[k] \in Buffers
         /\ Shape([Q EXCEPT ![k] = Tail(@)], [h EXCEPT ![k] = n[@]], n,
                  [d EXCEPT ![w] = h[k]])
<1> DEFINE P == [Q EXCEPT ![k] = Tail(@)]
           g == [h EXCEPT ![k] = n[@]]
           e == [d EXCEPT ![w] = h[k]]
           t == Tail(Q[k])
           Next1(q) == IF q = k THEN 1 ELSE 0
<1>1. /\ Q \in [Queues -> Seq(Buffers)] /\ h \in [Queues -> Buffers \cup {NULL}]
      /\ n \in [Buffers -> Buffers \cup {NULL}]
      /\ d \in [Workers -> Buffers \cup {NULL}]
      /\ \A q \in Queues : Chain(Q[q], h[q], n)
      /\ Apart(Q, d) /\ Complete(Q, d)
  BY DEF Shape
<1>2. Q[k] # <<>>
  BY <1>1 DEF Chain
<1>3. /\ h[k] = Q[k][1] /\ h[k] = Head(Q[k])
      /\ Chain(t, n[h[k]], n)
  BY <1>1, <1>2, ChainTail
<1>4. /\ Len(Q[k]) \in Nat \ {0} /\ t \in Seq(Buffers)
      /\ Len(t) = Len(Q[k]) - 1
      /\ \A i \in 1 .. Len(t) : t[i] = Q[k][i + 1]
  BY <1>1, <1>2, HeadTailProperties, EmptySeq
<1>5. /\ h[k] \in Buffers /\ n[h[k]] \in Buffers \cup {NULL}
      /\ h[k] # NULL
  BY <1>1
<1>6. /\ P \in [Queues -> Seq(Buffers)] /\ g \in [Queues -> Buffers \cup {NULL}]
      /\ e \in [Workers -> Buffers \cup {NULL}]
  BY <1>1, <1>4, <1>5
<1>7. /\ P[k] = t /\ g[k] = n[h[k]] /\ e[w] = h[k]
      /\ \A q \in Queues \ {k} : P[q] = Q[q] /\ g[q] = h[q]
      /\ \A v \in Workers \ {w} : e[v] = d[v]
  BY <1>1
<1> HIDE DEF P, g, e, t
<1>8. \A q \in Queues : Chain(P[q], g[q], n)
  BY <1>1, <1>3, <1>7
<1>9. ASSUME NEW q \in Queues, NEW i \in 1 .. Len(P[q])
      PROVE  /\ i + Next1(q) \in 1 .. Len(Q[q])
             /\ P[q][i] = Q[q][i + Next1(q)]
             /\ P[q][i] # h[k]
  <2>1. Len(Q[q]) \in Nat
    BY <1>1
  <2>2. /\ i + Next1(q) \in 1 .. Len(Q[q])
        /\ P[q][i] = Q[q][i + Next1(q)]
    <3>1. CASE q = k
      BY <1>4, <1>7, <3>1
    <3>2. CASE q # k
      BY <1>7, <2>1, <3>2
    <3> QED BY <3>1, <3>2
  <2>3. Q[q][i + Next1(q)] = Q[k][1] => q = k /\ i + Next1(q) = 1
    <3>1. 1 \in 1 .. Len(Q[k])
      BY <1>4
    <3> DEFINE j == i + Next1(q)
    <3>2. j \in 1 .. Len(Q[q])
      BY <2>2
    <3> HIDE DEF j
    <3>3. Q[q][j] = Q[k][1] => q = k /\ j = 1
      BY <1>1, <3>1, <3>2 DEF Apart
    <3> QED BY <3>3 DEF j
  <2>4. ~ (q = k /\ i + Next1(q) = 1)
    BY <1>4, <1>7
  <2> QED BY <1>3, <2>2, <2>3, <2>4
<1>10. Apart(P, e)
  <2>1. ASSUME NEW q \in Queues, NEW r \in Queues, NEW i \in 1 .. Len(P[q]),
               NEW j \in 1 .. Len(P[r]), P[q][i] = P[r][j]
        PROVE  q = r /\ i = j
    <3>1. /\ i + Next1(q) \in 1 .. Len(Q[q]) /\ j + Next1(r) \in 1 .. Len(Q[r])
          /\ Q[q][i + Next1(q)] = Q[r][j + Next1(r)]
      BY <1>9, <2>1
    <3> HIDE DEF Next1
    <3>2. q = r /\ i + Next1(q) = j + Next1(r)
      BY <1>1, <3>1 DEF Apart
    <3> USE DEF Next1
    <3> QED BY <3>2
  <2>2. ASSUME NEW v \in Workers, NEW q \in Queues, NEW i \in 1 .. Len(P[q])
        PROVE  P[q][i] # e[v]
    <3>1. Q[q][i + Next1(q)] # d[v]
      BY <1>1, <1>9 DEF Apart
    <3> QED BY <1>7, <1>9, <3>1
  <2>3. ASSUME NEW u \in Workers, NEW v \in Workers, u # v, e[u] = e[v]
        PROVE  e[v] = NULL
    <3>1. \A x \in Workers : d[x] # h[k]
      BY <1>1, <1>3, <1>4 DEF Apart
    <3>2. CASE u = w
      BY <1>7, <2>3, <3>1, <3>2
    <3>3. CASE v = w
      BY <1>7, <2>3, <3>1, <3>3
    <3>4. CASE u # w /\ v # w
      BY <1>1, <1>7, <2>3, <3>4 DEF Apart
    <3> QED BY <3>2, <3>3, <3>4
  <2> QED BY <2>1, <2>2, <2>3 DEF Apart
<1>11. Complete(P, e)
  <2>1. Len(Q["empty"]) \in Nat /\ Len(Q["action"]) \in Nat
    BY <1>1 DEF Queues
  <2>2. /\ Len(P["empty"]) = Len(Q["empty"]) - (IF k = "empty" THEN 1 ELSE 0)
        /\ Len(P["action"]) = Len(Q["action"]) - (IF k = "action" THEN 1 ELSE 0)
    <3>1. CASE k = "empty"
      BY <1>4, <1>7, <2>1, <3>1 DEF Queues
    <3>2. CASE k = "action"
      BY <1>4, <1>7, <2>1, <3>2 DEF Queues
    <3> QED BY <3>1, <3>2 DEF Queues
  <2>3. /\ InHands(e, "camera") = InHands(d, "camera") + (IF w = "camera" THEN 1 ELSE 0)
        /\ InHands(e, "usb") = InHands(d, "usb") + (IF w = "usb" THEN 1 ELSE 0)
    BY <1>5, <1>7 DEF InHands, Workers
  <2>4. InHands(d, "camera") \in Nat /\ InHands(d, "usb") \in Nat
    BY DEF InHands
  <2> HIDE DEF Next1
  <2>5. k \in {"empty", "action"} /\ w \in {"camera", "usb"} /\ -1 \in {-1, 1}
    BY DEF Queues, Workers
  <2>6. Len(P["empty"]) + Len(P["action"]) = Len(Q["empty"]) + Len(Q["action"]) + (-1)
    <3> DEFINE x == Len(Q["empty"])
               y == Len(Q["action"])
               u == Len(P["empty"])
               v == Len(P["action"])
    <3>1. /\ x \in Nat /\ y \in Nat
          /\ u = x - (IF k = "empty" THEN 1 ELSE 0)
          /\ v = y - (IF k = "action" THEN 1 ELSE 0)
      BY <2>1, <2>2
    <3> HIDE DEF x, y, u, v
    <3>2. u + v = x + y + (-1)
      BY <2>5, <3>1
    <3> QED BY <3>2 DEF x, y, u, v
  <2>7. InHands(e, "camera") + InHands(e, "usb")
          = InHands(d, "camera") + InHands(d, "usb") - (-1)
    BY <2>3, <2>4, <2>5
  <2> QED BY <1>1, <1>6, <2>5, <2>6, <2>7, CompleteKept
<1>12. Shape(P, g, n, e)
  BY <1>1, <1>6, <1>8, <1>10, <1>11 DEF Shape
<1> QED BY <1>2, <1>3, <1>5, <1>12 DEF P, g, e, t

(* The node in a worker's hands is cut off from the lists.                 *)
LEMMA CutShape ==
  ASSUME NEW Q, NEW h, NEW n, NEW d, Shape(Q, h, n, d),
         NEW w \in Workers, d[w] # NULL
  PROVE  Shape(Q, h, [n EXCEPT ![d[w]] = NULL], d)
<1> DEFINE m == [n EXCEPT ![d[w]] = NULL]
<1>1. m \in [Buffers -> Buffers \cup {NULL}]
  BY DEF Shape
<1>2. ASSUME NEW q \in Queues PROVE Chain(Q[q], h[q], m)
  <2>1. \A i \in 1 .. Len(Q[q]) : Q[q][i] # d[w]
    BY DEF Shape, Apart
  <2> QED BY <2>1, ChainKept DEF Shape
<1> QED BY <1>1, <1>2 DEF Shape

(* What a worker holds comes behind the others of queue k, whatever the    *)
(* pointers.                                                               *)
LEMMA PutApart ==
  ASSUME NEW Q \in [Queues -> Seq(Buffers)], NEW d \in [Workers -> Buffers \cup {NULL}],
         Apart(Q, d), Complete(Q, d),
         NEW k \in Queues, NEW w \in Workers, d[w] # NULL
  PROVE  LET P == [Q EXCEPT ![k] = Append(@, d[w])]
             e == [d EXCEPT ![w] = NULL]
         IN  /\ P \in [Queues -> Seq(Buffers)]
             /\ e \in [Workers -> Buffers \cup {NULL}]
             /\ Apart(P, e) /\ Complete(P, e)
<1> DEFINE P == [Q EXCEPT ![k] = Append(@, d[w])]
           e == [d EXCEPT ![w] = NULL]
<1>1. /\ d[w] \in Buffers /\ NULL \notin Buffers
      /\ \A q \in Queues : Len(Q[q]) \in Nat
      /\ \A q \in Queues : \A i \in 1 .. Len(Q[q]) : Q[q][i] \in Buffers
  <2>1. d[w] \in Buffers /\ NULL \notin Buffers
    BY DEF Buffers, NULL
  <2>2. ASSUME NEW q \in Queues
        PROVE  Len(Q[q]) \in Nat /\ \A i \in 1 .. Len(Q[q]) : Q[q][i] \in Buffers
    <3>1. Q[q] \in Seq(Buffers)
      OBVIOUS
    <3> QED BY <3>1
  <2> QED BY <2>1, <2>2
<1>2. /\ Append(Q[k], d[w]) \in Seq(Buffers)
      /\ Len(Append(Q[k], d[w])) = Len(Q[k]) + 1
      /\ \A i \in 1 .. Len(Q[k]) : Append(Q[k], d[w])[i] = Q[k][i]
      /\ Append(Q[k], d[w])[Len(Q[k]) + 1] = d[w]
  BY <1>1, AppendProperties
<1>3. P \in [Queues -> Seq(Buffers)] /\ e \in [Workers -> Buffers \cup {NULL}]
  BY <1>2
<1>4. /\ P[k] = Append(Q[k], d[w]) /\ e[w] = NULL
      /\ \A q \in Queues \ {k} : P[q] = Q[q]
      /\ \A v \in Workers \ {w} : e[v] = d[v]
  OBVIOUS
<1> HIDE DEF P, e
<1>5. ASSUME NEW q \in Queues, NEW i \in 1 .. Len(P[q])
      PROVE  \/ i \in 1 .. Len(Q[q]) /\ P[q][i] = Q[q][i]
             \/ q = k /\ i = Len(Q[k]) + 1 /\ P[q][i] = d[w]
  BY <1>1, <1>2, <1>4
<1>6. Apart(P, e)
  <2>1. ASSUME NEW q \in Queues, NEW r \in Queues, NEW i \in 1 .. Len(P[q]),
               NEW j \in 1 .. Len(P[r]), P[q][i] = P[r][j]
        PROVE  q = r /\ i = j
    <3>1. /\ \/ i \in 1 .. Len(Q[q]) /\ P[q][i] = Q[q][i]
             \/ q = k /\ i = Len(Q[k]) + 1 /\ P[q][i] = d[w]
          /\ \/ j \in 1 .. Len(Q[r]) /\ P[r][j] = Q[r][j]
             \/ r = k /\ j = Len(Q[k]) + 1 /\ P[r][j] = d[w]
      BY <1>5
    <3> QED BY <2>1, <3>1 DEF Apart
  <2>2. ASSUME NEW v \in Workers, NEW q \in Queues, NEW i \in 1 .. Len(P[q])
        PROVE  P[q][i] # e[v]
    <3>1. CASE v = w
      BY <1>1, <1>4, <1>5, <3>1
    <3>2. CASE v # w
      BY <1>1, <1>4, <1>5, <3>2 DEF Apart
    <3> QED BY <3>1, <3>2
  <2>3. ASSUME NEW u \in Workers, NEW v \in Workers, u # v, e[u] = e[v]
        PROVE  e[v] = NULL
    BY <1>4, <2>3 DEF Apart
  <2> QED BY <2>1, <2>2, <2>3 DEF Apart
<1>7. Complete(P, e)
  <2>1. Len(Q["empty"]) \in Nat /\ Len(Q["action"]) \in Nat
    BY <1>1 DEF Queues
  <2>2. /\ Len(P["empty"]) = Len(Q["empty"]) + (IF k = "empty" THEN 1 ELSE 0)
        /\ Len(P["action"]) = Len(Q["action"]) + (IF k = "action" THEN 1 ELSE 0)
    BY <1>2, <1>4, <2>1 DEF Queues
  <2>3. /\ InHands(e, "camera") = InHands(d, "camera") - (IF w = "camera" THEN 1 ELSE 0)
        /\ InHands(e, "usb") = InHands(d, "usb") - (IF w = "usb" THEN 1 ELSE 0)
    BY <1>4 DEF InHands, Workers
  <2>4. InHands(d, "camera") \in Nat /\ InHands(d, "usb") \in Nat
    BY DEF InHands
  <2>5. k \in {"empty", "action"} /\ w \in {"camera", "usb"} /\ 1 \in {-1, 1}
    BY DEF Queues, Workers
  <2>6. Len(P["empty"]) + Len(P["action"]) = Len(Q["empty"]) + Len(Q["action"]) + (1)
    <3> DEFINE x == Len(Q["empty"])
               y == Len(Q["action"])
               u == Len(P["empty"])
               v == Len(P["action"])
    <3>1. /\ x \in Nat /\ y \in Nat
          /\ u = x + (IF k = "empty" THEN 1 ELSE 0)
          /\ v = y + (IF k = "action" THEN 1 ELSE 0)
      BY <2>1, <2>2
    <3> HIDE DEF x, y, u, v
    <3>2. u + v = x + y + (1)
      BY <2>5, <3>1
    <3> QED BY <3>2 DEF x, y, u, v
  <2>7. InHands(e, "camera") + InHands(e, "usb")
          = InHands(d, "camera") + InHands(d, "usb") - (1)
    BY <2>3, <2>4, <2>5
  <2> QED BY <1>3, <2>5, <2>6, <2>7, CompleteKept
<1> QED BY <1>3, <1>6, <1>7 DEF P, e

(* It becomes the head of an empty queue.                                  *)
LEMMA FirstShape ==
  ASSUME NEW Q, NEW h, NEW n, NEW d, Shape(Q, h, n, d),
         NEW k \in Queues, NEW w \in Workers, h[k] = NULL, d[w] # NULL,
         n[d[w]] = NULL
  PROVE  Shape([Q EXCEPT ![k] = Append(@, d[w])], [h EXCEPT ![k] = d[w]], n,
               [d EXCEPT ![w] = NULL])
<1> DEFINE P == [Q EXCEPT ![k] = Append(@, d[w])]
           g == [h EXCEPT ![k] = d[w]]
           e == [d EXCEPT ![w] = NULL]
<1>1. /\ P \in [Queues -> Seq(Buffers)] /\ e \in [Workers -> Buffers \cup {NULL}]
      /\ Apart(P, e) /\ Complete(P, e)
  BY PutApart DEF Shape
<1>2. g \in [Queues -> Buffers \cup {NULL}] /\ d[w] \in Buffers
  BY DEF Shape
<1>3. Q[k] = <<>>
  <2>1. Q[k] \in Seq(Buffers) /\ Chain(Q[k], h[k], n)
    BY DEF Shape
  <2>2. Q[k] # <<>> => Q[k][1] \in Buffers
    BY <2>1, EmptySeq
  <2> QED BY <2>1, <2>2 DEF Chain, Buffers, NULL
<1>4. ASSUME NEW q \in Queues PROVE Chain(P[q], g[q], n)
  <2>1. CASE q = k
    <3>1. P[q] = Append(<<>>, d[w]) /\ g[q] = d[w]
      BY <1>3, <2>1 DEF Shape
    <3> QED BY <3>1, <1>2, ChainOne
  <2>2. CASE q # k
    BY <2>2 DEF Shape
  <2> QED BY <2>1, <2>2
<1> QED BY <1>1, <1>2, <1>4 DEF Shape

(* It is linked to the last node of a queue that is not empty.             *)
LEMMA LastShape ==
  ASSUME NEW Q, NEW h, NEW n, NEW d, Shape(Q, h, n, d),
         NEW k \in Queues, NEW w \in Workers, d[w] # NULL, n[d[w]] = NULL,
         NEW i \in 1 .. Len(Q[k]), n[Q[k][i]] = NULL
  PROVE  Shape([Q EXCEPT ![k] = Append(@, d[w])], h,
               [n EXCEPT ![Q[k][i]] = d[w]], [d EXCEPT ![w] = NULL])
<1> DEFINE P == [Q EXCEPT ![k] = Append(@, d[w])]
           m == [n EXCEPT ![Q[k][i]] = d[w]]
           e == [d EXCEPT ![w] = NULL]
<1>1. /\ P \in [Queues -> Seq(Buffers)] /\ e \in [Workers -> Buffers \cup {NULL}]
      /\ Apart(P, e) /\ Complete(P, e)
  BY PutApart DEF Shape
<1>2. /\ m \in [Buffers -> Buffers \cup {NULL}] /\ d[w] \in Buffers
      /\ n \in [Buffers -> Buffers \cup {NULL}] /\ Q[k] \in Seq(Buffers)
      /\ Len(Q[k]) \in Nat /\ Q[k] # <<>>
  BY DEF Shape
<1>3. i = Len(Q[k])
  <2>1. n[Q[k][i]] = IF i = Len(Q[k]) THEN NULL ELSE Q[k][i + 1]
    BY DEF Shape, Chain
  <2>2. i # Len(Q[k]) => Q[k][i + 1] \in Buffers
    BY <1>2
  <2> QED BY <2>1, <2>2 DEF Buffers, NULL
<1>4. ASSUME NEW q \in Queues PROVE Chain(P[q], h[q], m)
  <2>1. CASE q = k
    <3>1. P[q] = Append(Q[k], d[w])
      BY <2>1 DEF Shape
    <3>2. /\ Chain(Q[k], h[k], n)
          /\ \A a, b \in 1 .. Len(Q[k]) : Q[k][a] = Q[k][b] => a = b
          /\ \A a \in 1 .. Len(Q[k]) : Q[k][a] # d[w]
      BY DEF Shape, Apart
    <3> HIDE DEF P
    <3>3. Chain(Append(Q[k], d[w]), h[k], [n EXCEPT ![Q[k][Len(Q[k])]] = d[w]])
      BY <3>2, <1>2, ChainAppend
    <3> QED BY <2>1, <3>1, <3>3, <1>3
  <2>2. CASE q # k
    <3>1. P[q] = Q[q] /\ Q[q] \in Seq(Buffers) /\ Chain(Q[q], h[q], n)
      BY <2>2 DEF Shape
    <3>2. \A a \in 1 .. Len(Q[q]) : Q[q][a] # Q[k][i]
      BY <2>2 DEF Shape, Apart
    <3> QED BY <1>2, <3>1, <3>2, ChainKept
  <2> QED BY <2>1, <2>2
<1> QED BY <1>1, <1>2, <1>4 DEF Shape

-----------------------------------------------------------------------------
(* The steps of the workers, as operations on the queues.                  *)
Takes(w) ==
  /\ held[w] = NULL /\ queue[Input[w]] # <<>>
  /\ queue' = [queue EXCEPT ![Input[w]] = Tail(@)]
  /\ held' = [held EXCEPT ![w] = Head(queue[Input[w]])]

Puts(w) ==
  /\ held[w] # NULL
  /\ queue' = [queue EXCEPT ![target[w]] = Append(@, held[w])]
  /\ held' = [held EXCEPT ![w] = NULL]

Stays == queue' = queue /\ held' = held

(* The steps of frame_queue_push that put the buffer into the queue.       *)
Enter(w) == (Terminate(w) /\ head[target[w]] = NULL) \/ Link(w)

(* The other steps.                                                        *)
Aside(w) ==
  \/ LockPull(w) \/ Detach(w) \/ Use(w) \/ LockPush(w)
  \/ (Terminate(w) /\ head[target[w]] # NULL) \/ Find(w)

USE DEF lists, local, walk

(* The lists after a step that leaves them in a known shape.               *)
LEMMA ShapeNext ==
  ASSUME NEW Q, Shape(Q, head', next', held')
  PROVE  queue' = Q /\ ShapeInv'
<1>1. [q \in Queues |-> Path(head'[q], next')] = Q
  BY PathsOfShape
<1>2. queue' = Q
  BY <1>1 DEF queue
<1> QED BY <1>2 DEF ShapeInv

(* frame_queue_pull takes the first buffer of the queue.                   *)
LEMMA UnlinkTakes ==
  ASSUME ListInv, NEW w \in Workers, Unlink(w)
  PROVE  ShapeInv' /\ Takes(w)
<1> DEFINE k == Input[w]
<1>1. /\ k \in Queues /\ head[k] # NULL /\ held[w] = NULL
      /\ Shape(queue, head, next, held)
  BY DEF ListInv, WorkerInv, Unlink, Input, Queues, Holding, ShapeInv
<1>2. /\ held' = [held EXCEPT ![w] = head[k]]
      /\ head' = [head EXCEPT ![k] = next[@]]
      /\ next' = next
  BY DEF Unlink
<1> HIDE DEF k
<1>3. /\ queue[k] # <<>> /\ head[k] = Head(queue[k])
      /\ Shape([queue EXCEPT ![k] = Tail(@)], [head EXCEPT ![k] = next[@]],
               next, [held EXCEPT ![w] = head[k]])
  BY <1>1, TakeShape
<1>4. Shape([queue EXCEPT ![k] = Tail(@)], head', next', held')
  BY <1>2, <1>3
<1>5. queue' = [queue EXCEPT ![k] = Tail(@)] /\ ShapeInv'
  BY <1>4, ShapeNext
<1> QED BY <1>1, <1>2, <1>3, <1>5 DEF Takes, k

(* frame_queue_push puts the buffer behind the last one, or into an empty  *)
(* queue.                                                                  *)
LEMMA EnterPuts ==
  ASSUME ListInv, NEW w \in Workers, Enter(w)
  PROVE  ShapeInv' /\ Puts(w)
<1> DEFINE k == target[w]
           P == [queue EXCEPT ![k] = Append(@, held[w])]
<1>1. /\ k \in Queues /\ Shape(queue, head, next, held)
      /\ next \in [Buffers -> Buffers \cup {NULL}]
  BY DEF ListInv, TypeOK, ShapeInv
<1>2. pc[w] \in {"terminate", "link"} /\ held' = [held EXCEPT ![w] = NULL]
  BY DEF Enter, Terminate, Link, Pushed
<1>3. held[w] # NULL /\ next[held[w]] = NULL
  BY <1>2 DEF ListInv, WorkerInv, SearchInv, SearchOf, Holding
<1>4. ASSUME Terminate(w), head[k] = NULL PROVE Shape(P, head', next', held')
  <2>1. next' = next
    BY <1>1, <1>3, <1>4 DEF Terminate
  <2>2. head' = [head EXCEPT ![k] = held[w]]
    BY <1>4 DEF Terminate
  <2> HIDE DEF k
  <2>3. Shape(P, head', next', held')
    BY <1>1, <1>2, <1>3, <1>4, <2>1, <2>2, FirstShape
  <2> QED BY <2>3
<1>5. ASSUME Link(w) PROVE Shape(P, head', next', held')
  <2>1. PICK i \in 1 .. Len(queue[k]) : current[w] = queue[k][i]
    BY <1>5 DEF ListInv, SearchInv, SearchOf, Link
  <2>2. next[current[w]] = NULL
    BY <1>5 DEF ListInv, SearchInv, SearchOf, Link
  <2>3. head' = head /\ next' = [next EXCEPT ![current[w]] = held[w]]
    BY <1>5 DEF Link
  <2> HIDE DEF k
  <2>4. Shape(P, head, [next EXCEPT ![queue[k][i]] = held[w]],
              [held EXCEPT ![w] = NULL])
    BY <1>1, <1>3, <2>1, <2>2, LastShape
  <2>5. Shape(P, head', next', held')
    BY <1>2, <2>1, <2>3, <2>4
  <2> QED BY <2>5
<1>6. Shape(P, head', next', held')
  BY <1>4, <1>5 DEF Enter
<1> HIDE DEF P
<1>7. queue' = P /\ ShapeInv'
  BY <1>6, ShapeNext
<1> QED BY <1>2, <1>3, <1>7 DEF Puts, P, k

(* The other steps leave the queues as they are.                           *)
LEMMA AsideStays ==
  ASSUME ListInv, \/ \E w \in Workers : Aside(w)
                  \/ CaptureFails \/ Sampler \/ UNCHANGED vars
  PROVE  ShapeInv' /\ Stays
<1>1. Shape(queue, head, next, held)
  BY DEF ListInv, ShapeInv
<1>2. head' = head /\ held' = held
  BY DEF Aside, LockPull, Detach, Use, LockPush, Terminate, Find, CaptureFails,
         Sampler, Sample, Step, Report, vars
<1>3. next' = next \/ \E w \in Workers : /\ held[w] # NULL
                                         /\ next' = [next EXCEPT ![held[w]] = NULL]
  <2>1. ASSUME NEW w \in Workers, Detach(w) \/ Terminate(w)
        PROVE  held[w] # NULL /\ next' = [next EXCEPT ![held[w]] = NULL]
    BY <2>1 DEF ListInv, WorkerInv, Holding, Detach, Terminate
  <2>2. ASSUME NEW w \in Workers, LockPull(w) \/ Use(w) \/ LockPush(w) \/ Find(w)
        PROVE  next' = next
    BY <2>2 DEF LockPull, Use, LockPush, Find
  <2>3. ASSUME CaptureFails \/ Sampler \/ UNCHANGED vars
        PROVE  next' = next
    BY <2>3 DEF CaptureFails, Sampler, Sample, Step, Report, vars
  <2> QED BY <2>1, <2>2, <2>3 DEF Aside
<1>4. Shape(queue, head', next', held')
  BY <1>1, <1>2, <1>3, CutShape
<1> QED BY <1>2, <1>4, ShapeNext DEF Stays

(* Every step is of one of these kinds.                                    *)
LEMMA Kinds ==
  ASSUME [Next]_vars
  PROVE  \/ \E w \in Workers : Unlink(w) \/ Enter(w) \/ Aside(w)
         \/ CaptureFails \/ Sampler \/ UNCHANGED vars
BY DEF Next, Worker, Enter, Aside

(* The queues change by those operations only, and the lists keep their    *)
(* shape.                                                                  *)
LEMMA ShapeStep ==
  ASSUME ListInv, [Next]_vars
  PROVE  ShapeInv' /\ (Stays \/ \E w \in Workers : Takes(w) \/ Puts(w))
BY Kinds, UnlinkTakes, EnterPuts, AsideStays

-----------------------------------------------------------------------------
(* Every step keeps the types.                                             *)
LEMMA TypeStep ==
  ASSUME ListInv, [Next]_vars
  PROVE  TypeOK'
<1>1. TypeOK /\ WorkerInv /\ ShapeInv'
  BY ShapeStep DEF ListInv
<1>2. Len(Path(head'["action"], next')) \in Nat /\ Len(Path(head["action"], next)) \in Nat
  <2>1. queue'["action"] \in Seq(Buffers) /\ queue["action"] \in Seq(Buffers)
    BY <1>1 DEF ShapeInv, ListInv, Shape, Queues
  <2> QED BY <2>1 DEF queue, Queues
<1>3. Observe => during' \subseteq Nat
  <2> HIDE DEF lists, local, walk
  <2> DEFINE l == Len(Path(head'["action"], next'))
  <2>1. l \in Nat
    BY <1>2
  <2>2. Observe => during' = during \cup {l} \/ during' = during
    BY DEF Observe
  <2> HIDE DEF l
  <2> QED BY <1>1, <2>1, <2>2 DEF TypeOK
<1>4. ASSUME NEW w \in Workers, Unlink(w) \/ Enter(w) PROVE TypeOK'
  <2>1. held' \in [Workers -> Buffers \cup {NULL}] /\ head' \in [Queues -> Buffers \cup {NULL}]
        /\ next' \in [Buffers -> Buffers \cup {NULL}]
    BY <1>1 DEF ShapeInv, Shape
  <2>2. CASE Unlink(w)
    BY <1>1, <1>3, <2>1, <2>2 DEF Unlink, TypeOK
  <2>3. CASE Enter(w)
    <3>1. /\ Pushed(w) /\ Observe
          /\ UNCHANGED <<target, current, walker, count, depth>>
      BY <2>3 DEF Enter, Terminate, Link
    <3>2. /\ mutex' \in Workers \cup {"free"}
          /\ pc' \in [Workers -> {"lockPull", "unlink", "detach", "use", "lockPush",
                         "terminate", "find", "link", "sample", "walk"}]
      BY <1>1, <3>1 DEF Pushed, TypeOK
    <3> QED BY <1>1, <1>3, <2>1, <3>1, <3>2 DEF TypeOK
  <2> QED BY <1>4, <2>2, <2>3
<1>5. ASSUME NEW w \in Workers, Aside(w) PROVE TypeOK'
  <2>1. CASE Find(w)
    <3>1. current' \in [Workers -> Buffers \cup {NULL}]
      <4>1. PICK i \in 1 .. Len(queue[target[w]]) : current[w] = queue[target[w]][i]
        BY <2>1 DEF ListInv, SearchInv, SearchOf, Find
      <4>2. queue[target[w]] \in Seq(Buffers)
        BY <1>1 DEF ListInv, ShapeInv, Shape, TypeOK
      <4>3. current[w] \in Buffers
        BY <4>1, <4>2
      <4> QED BY <1>1, <2>1, <4>3 DEF Find, TypeOK
    <3> QED BY <1>1, <2>1, <3>1 DEF Find, TypeOK
  <2>2. CASE Detach(w)
    BY <1>1, <2>2 DEF Detach, TypeOK
  <2>3. CASE Use(w)
    BY <1>1, <2>3 DEF Use, TypeOK, Queues
  <2>4. CASE Terminate(w) /\ head[target[w]] # NULL
    BY <1>1, <2>4 DEF Terminate, TypeOK
  <2>5. CASE LockPull(w) \/ LockPush(w)
    BY <1>1, <2>5 DEF LockPull, LockPush, TypeOK
  <2> QED BY <1>5, <2>1, <2>2, <2>3, <2>4, <2>5 DEF Aside
<1>6. CASE CaptureFails
  BY <1>1, <1>6 DEF CaptureFails, TypeOK, Queues, Workers
<1>7. CASE Sample
  <2>1. /\ walker' = head["action"] /\ count' = 0 /\ during' \subseteq Nat
        /\ pc' = [pc EXCEPT !["camera"] = "walk"]
        /\ UNCHANGED <<mutex, lists, local, depth>>
    <3> DEFINE l == Len(Path(head["action"], next))
    <3>1. l \in Nat /\ during' = {l}
      BY <1>2, <1>7 DEF Sample
    <3> HIDE DEF l
    <3>2. during' \subseteq Nat
      BY <3>1
    <3> QED BY <3>2, <1>7 DEF Sample
  <2> QED BY <1>1, <2>1 DEF TypeOK, Queues
<1>8. CASE Step
  BY <1>1, <1>8 DEF Step, TypeOK
<1>9. CASE Report
  BY <1>1, <1>9 DEF Report, TypeOK
<1>10. CASE UNCHANGED vars
  BY <1>1, <1>10 DEF TypeOK, vars
<1> QED BY <1>4, <1>5, <1>6, <1>7, <1>8, <1>9, <1>10, Kinds DEF Sampler

(* Every step keeps the mutex and the hands in accordance with where the   *)
(* workers are.                                                            *)
LEMMA WorkerStep ==
  ASSUME ListInv, [Next]_vars
  PROVE  WorkerInv'
<1> USE DEF Critical, Holding
<1>1. /\ WorkerInv /\ pc \in [Workers -> {"lockPull", "unlink", "detach", "use",
           "lockPush", "terminate", "find", "link", "sample", "walk"}]
      /\ held \in [Workers -> Buffers \cup {NULL}]
      /\ target \in [Workers -> Queues]
      /\ mutex \in Workers \cup {"free"}
      /\ head \in [Queues -> Buffers \cup {NULL}]
      /\ "free" \notin Workers
  BY DEF ListInv, TypeOK, Workers
<1>2. ASSUME NEW w \in Workers, Unlink(w) PROVE WorkerInv'
  <2>1. head[Input[w]] \in Buffers /\ Input \in [Workers -> Queues]
    BY <1>1, <1>2 DEF WorkerInv, Unlink, Input, Queues
  <2> QED BY <1>1, <1>2, <2>1 DEF WorkerInv, Unlink, Buffers, NULL
<1>3. ASSUME NEW w \in Workers, Enter(w) PROVE WorkerInv'
  <2>1. /\ Pushed(w) /\ target' = target /\ pc[w] \in {"terminate", "link"}
    BY <1>3 DEF Enter, Terminate, Link
  <2> QED BY <1>1, <2>1 DEF WorkerInv, Pushed
<1>4. ASSUME NEW w \in Workers, Aside(w) PROVE WorkerInv'
  <2>1. CASE LockPull(w)
    BY <1>1, <2>1 DEF WorkerInv, LockPull
  <2>2. CASE Detach(w) \/ LockPush(w)
    BY <1>1, <2>2 DEF WorkerInv, Detach, LockPush
  <2>3. CASE Use(w)
    BY <1>1, <2>3 DEF WorkerInv, Use
  <2>4. CASE Terminate(w) /\ head[target[w]] # NULL
    BY <1>1, <2>4 DEF WorkerInv, Terminate
  <2>5. CASE Find(w)
    BY <1>1, <2>5 DEF WorkerInv, Find
  <2> QED BY <1>4, <2>1, <2>2, <2>3, <2>4, <2>5 DEF Aside
<1>5. CASE CaptureFails
  BY <1>1, <1>5 DEF WorkerInv, CaptureFails, Workers
<1>6. CASE Sampler
  BY <1>1, <1>6 DEF WorkerInv, Sampler, Sample, Step, Report, Workers
<1>7. CASE UNCHANGED vars
  BY <1>1, <1>7 DEF WorkerInv, vars
<1> QED BY <1>2, <1>3, <1>4, <1>5, <1>6, <1>7, Kinds

-----------------------------------------------------------------------------
(* What a worker does in its critical section leaves the node in the hands *)
(* of the other one where it is.                                           *)
LEMMA SearchKept ==
  ASSUME ListInv, NEW w \in Workers, NEW v \in Workers, v # w, pc[w] \in Critical,
         NEW b, NEW x, b # held[v], next' \in {next, [next EXCEPT ![b] = x]},
         pc'[v] = pc[v], held'[v] = held[v]
  PROVE  SearchOf(v)'
<1>1. pc[v] \notin Critical /\ SearchOf(v)
  BY DEF ListInv, WorkerInv, SearchInv
<1>2. pc[v] \in Holding => held[v] \in Buffers
  BY DEF ListInv, WorkerInv, TypeOK
<1>3. pc[v] \in Holding => next'[held[v]] = next[held[v]]
  BY <1>2 DEF ListInv, TypeOK
<1> QED BY <1>1, <1>3 DEF SearchOf, Critical, Holding

(* A worker outside its critical section changes nothing of the lists.     *)
LEMMA SearchSame ==
  ASSUME ListInv, NEW v \in Workers, Stays, UNCHANGED <<next, head>>,
         pc'[v] = pc[v], target'[v] = target[v], current'[v] = current[v]
  PROVE  SearchOf(v)'
<1>1. SearchOf(v)
  BY DEF ListInv, SearchInv
<1> QED BY <1>1 DEF SearchOf, Stays

(* Every step keeps the search for the tail in its list.                   *)
LEMMA SearchStep ==
  ASSUME ListInv, [Next]_vars
  PROVE  SearchInv'
<1>1. /\ pc \in [Workers -> {"lockPull", "unlink", "detach", "use",
           "lockPush", "terminate", "find", "link", "sample", "walk"}]
      /\ held \in [Workers -> Buffers \cup {NULL}]
      /\ target \in [Workers -> Queues]
      /\ current \in [Workers -> Buffers \cup {NULL}]
      /\ head \in [Queues -> Buffers \cup {NULL}]
      /\ next \in [Buffers -> Buffers \cup {NULL}]
      /\ Input \in [Workers -> Queues]
      /\ WorkerInv /\ SearchInv /\ Shape(queue, head, next, held)
      /\ \A q \in Queues : queue[q] \in Seq(Buffers) /\ Len(queue[q]) \in Nat
  BY DEF ListInv, TypeOK, Input, Queues, ShapeInv, Shape
<1>2. \A v, w \in Workers : v # w /\ held[w] # NULL => held[w] # held[v]
  BY <1>1 DEF Shape, Apart
<1>3. ASSUME NEW w \in Workers, Unlink(w), NEW v \in Workers PROVE SearchOf(v)'
  <2>1. /\ held' = [held EXCEPT ![w] = head[Input[w]]] /\ next' = next
        /\ head' = [head EXCEPT ![Input[w]] = next[@]]
        /\ pc' = [pc EXCEPT ![w] = "detach"] /\ pc[w] = "unlink"
    BY <1>3 DEF Unlink
  <2>2. CASE v = w
    <3>1. next'[held'[v]] = head'[Input[v]] /\ pc'[v] = "detach"
      BY <1>1, <2>1, <2>2
    <3> QED BY <3>1 DEF SearchOf, Holding
  <2>3. CASE v # w
    <3>1. \E b : b # held[v]
      BY NumBuffersAssumption
    <3> QED BY <1>1, <2>1, <2>3, <3>1, SearchKept DEF Critical
  <2> QED BY <2>2, <2>3
<1>4. ASSUME NEW w \in Workers, Enter(w), NEW v \in Workers PROVE SearchOf(v)'
  <2>1. Pushed(w) /\ pc[w] \in {"terminate", "link"}
    BY <1>4 DEF Enter, Terminate, Link
  <2>2. CASE v = w
    BY <1>1, <2>1, <2>2 DEF Pushed, SearchOf, Holding
  <2>3. CASE v # w
    <3>1. pc'[v] = pc[v] /\ held'[v] = held[v] /\ held[w] # held[v]
      BY <1>1, <1>2, <2>1, <2>3 DEF Pushed, WorkerInv, Holding
    <3>2. CASE Terminate(w)
      BY <2>1, <2>3, <3>1, <3>2, SearchKept DEF Terminate, Critical
    <3>3. CASE Link(w)
      <4>1. PICK i \in 1 .. Len(queue[target[w]]) : current[w] = queue[target[w]][i]
        BY <1>1, <3>3 DEF SearchInv, SearchOf, Link
      <4>2. current[w] # held[v]
        BY <1>1, <4>1 DEF Shape, Apart
      <4> QED BY <2>1, <2>3, <3>1, <3>3, <4>2, SearchKept DEF Link, Critical
    <3> QED BY <1>4, <3>2, <3>3 DEF Enter
  <2> QED BY <2>2, <2>3
<1>5. ASSUME NEW w \in Workers, Aside(w), NEW v \in Workers PROVE SearchOf(v)'
  <2>1. Stays
    BY <1>5, AsideStays
  <2>2. CASE v # w
    <3>1. pc'[v] = pc[v] /\ target'[v] = target[v] /\ current'[v] = current[v]
      BY <1>1, <1>5, <2>2
      DEF Aside, LockPull, Detach, Use, LockPush, Terminate, Find
    <3>2. CASE Detach(w) \/ Terminate(w)
      <4>1. /\ pc[w] \in Critical /\ held[w] # NULL
            /\ next' = [next EXCEPT ![held[w]] = NULL]
        BY <1>1, <3>2 DEF Detach, Terminate, Critical, WorkerInv, Holding
      <4>2. held[w] # held[v] /\ held'[v] = held[v]
        BY <1>2, <2>1, <2>2, <4>1 DEF Stays
      <4> QED BY <2>2, <3>1, <4>1, <4>2, SearchKept
    <3>3. CASE LockPull(w) \/ Use(w) \/ LockPush(w) \/ Find(w)
      <4>1. UNCHANGED <<next, head>>
        BY <3>3 DEF LockPull, Use, LockPush, Find
      <4> QED BY <2>1, <3>1, <4>1, SearchSame
    <3> QED BY <1>5, <3>2, <3>3 DEF Aside
  <2>3. CASE v = w
    <3>1. CASE LockPull(w)
      BY <1>1, <2>3, <3>1 DEF LockPull, SearchOf, Holding
    <3>2. CASE Detach(w)
      <4>1. /\ pc'[v] = "use" /\ next'[held[v]] = NULL
        BY <1>1, <2>3, <3>2 DEF Detach, WorkerInv, Holding
      <4> QED BY <2>1, <4>1 DEF SearchOf, Holding, Stays
    <3>3. CASE Use(w) \/ LockPush(w)
      <4>1. /\ pc[v] \in {"use", "lockPush"} /\ pc'[v] \in {"lockPush", "terminate"}
            /\ next' = next
        BY <1>1, <2>3, <3>3 DEF Use, LockPush
      <4> QED BY <1>1, <2>1, <4>1 DEF SearchInv, SearchOf, Holding, Stays
    <3>4. CASE Terminate(w) /\ head[target[w]] # NULL
      <4>1. /\ pc'[v] = "find" /\ next'[held[v]] = NULL
            /\ target' = target /\ current'[v] = head[target[v]]
        BY <1>1, <2>3, <3>4 DEF Terminate, WorkerInv, Holding
      <4>2. target[v] \in Queues /\ queue[target[v]] \in Seq(Buffers)
        BY <1>1
      <4>3. Chain(queue[target[v]], head[target[v]], next)
        BY <1>1, <4>2 DEF Shape
      <4>4. queue[target[v]] # <<>> /\ head[target[v]] = queue[target[v]][1]
        BY <2>3, <3>4, <4>3 DEF Chain
      <4>5. 1 \in 1 .. Len(queue[target[v]])
        BY <4>2, <4>4, EmptySeq
      <4> QED BY <2>1, <4>1, <4>4, <4>5 DEF SearchOf, Holding, Stays
    <3>5. CASE Find(w)
      <4>1. PICK i \in 1 .. Len(queue[target[v]]) : current[v] = queue[target[v]][i]
        BY <1>1, <2>3, <3>5 DEF SearchInv, SearchOf, Find
      <4>2. next[held[v]] = NULL /\ UNCHANGED <<next, target>>
        BY <1>1, <2>3, <3>5 DEF SearchInv, SearchOf, Find, Holding
      <4>3. Chain(queue[target[v]], head[target[v]], next)
        BY <1>1 DEF Shape
      <4>4. CASE next[current[w]] = NULL
        <5>1. pc'[v] = "link" /\ current'[v] = current[v]
          BY <1>1, <2>3, <3>5, <4>4 DEF Find
        <5> QED BY <2>1, <2>3, <4>1, <4>2, <4>4, <5>1 DEF SearchOf, Holding, Stays
      <4>5. CASE next[current[w]] # NULL
        <5>1. pc'[v] = "find" /\ current'[v] = next[current[v]]
          BY <1>1, <2>3, <3>5, <4>5 DEF Find
        <5>2. i # Len(queue[target[v]]) /\ next[current[v]] = queue[target[v]][i + 1]
          BY <2>3, <4>1, <4>3, <4>5 DEF Chain
        <5>3. i + 1 \in 1 .. Len(queue[target[v]])
          BY <1>1, <5>2
        <5> QED BY <2>1, <4>2, <5>1, <5>2, <5>3 DEF SearchOf, Holding, Stays
      <4> QED BY <4>4, <4>5
    <3> QED BY <1>5, <3>1, <3>2, <3>3, <3>4, <3>5 DEF Aside
  <2> QED BY <2>2, <2>3
<1>6. ASSUME CaptureFails \/ Sampler \/ UNCHANGED vars, NEW v \in Workers
      PROVE  SearchOf(v)'
  <2>1. Stays /\ UNCHANGED <<next, head>>
    BY <1>6, AsideStays
    DEF CaptureFails, Sampler, Sample, Step, Report, vars
  <2>2. CASE pc'[v] = pc[v] /\ target'[v] = target[v] /\ current'[v] = current[v]
    BY <2>1, <2>2, SearchSame
  <2>3. CASE v = "camera" /\ CaptureFails
    <3>1. pc[v] = "use" /\ pc'[v] = "lockPush"
      BY <1>1, <2>3 DEF CaptureFails
    <3> QED BY <1>1, <2>1, <3>1 DEF SearchInv, SearchOf, Holding, Stays
  <2>4. CASE v = "camera" /\ (Sample \/ Report)
    BY <1>1, <2>4 DEF Sample, Report, SearchOf, Holding
  <2> QED BY <1>1, <1>6, <2>2, <2>3, <2>4
          DEF CaptureFails, Sampler, Sample, Step, Report, vars
<1> QED BY <1>3, <1>4, <1>5, <1>6, Kinds DEF SearchInv

-----------------------------------------------------------------------------
(* The walk of the sampler.  A node stands behind fewer others than there  *)
(* are.                                                                    *)
LEMMA BehindBound ==
  ASSUME NEW Q, NEW h, NEW n, NEW d, Shape(Q, h, n, d),
         NEW b, NEW c \in Nat, b # NULL, Behind(Q, d, b, c)
  PROVE  c + 1 <= NumBuffers
<1> DEFINE x == Len(Q["empty"])
           y == Len(Q["action"])
           u == InHands(d, "usb")
           v == InHands(d, "camera")
<1>1. x \in Nat /\ y \in Nat /\ u \in 0 .. 1 /\ v \in 0 .. 1
  BY DEF Shape, Queues, InHands
<1>2. x + y + v + u = NumBuffers
  BY DEF Shape, Complete
<1>3. \/ \E i \in 1 .. x : c < i
      \/ u = 1 /\ c < x + 1
      \/ \E i \in 1 .. y : c < x + u + i
  BY DEF Behind, InHands
<1> HIDE DEF x, y, u, v
<1>4. c < x + u + y
  BY <1>1, <1>3
<1>5. NumBuffers \in Nat
  BY NumBuffersAssumption
<1> QED BY <1>1, <1>2, <1>4, <1>5

(* The USB thread takes the first filled buffer, which stays in its place. *)
LEMMA BehindTake ==
  ASSUME NEW Q \in [Queues -> Seq(Buffers)], NEW d \in [Workers -> Buffers \cup {NULL}],
         d["usb"] = NULL, Q["action"] # <<>>, NEW b, NEW c \in Nat, b # NULL,
         Behind(Q, d, b, c)
  PROVE  Behind([Q EXCEPT !["action"] = Tail(@)],
                [d EXCEPT !["usb"] = Head(Q["action"])], b, c)
<1> DEFINE P == [Q EXCEPT !["action"] = Tail(@)]
           e == [d EXCEPT !["usb"] = Head(Q["action"])]
           s == Q["action"]
           t == Tail(Q["action"])
           x == Len(Q["empty"])
<1>1. /\ P["empty"] = Q["empty"] /\ P["action"] = t /\ e["usb"] = Head(s)
      /\ x \in Nat /\ s \in Seq(Buffers)
  BY DEF Queues, Workers
<1>2. /\ Len(s) \in Nat \ {0} /\ Head(s) = s[1] /\ Head(s) \in Buffers
      /\ t \in Seq(Buffers) /\ Len(t) = Len(s) - 1
      /\ \A i \in 1 .. Len(t) : t[i] = s[i + 1]
  BY <1>1, HeadTailProperties, EmptySeq
<1>3. InHands(d, "usb") = 0 /\ InHands(e, "usb") = 1
  BY <1>1, <1>2 DEF InHands, Buffers, NULL
<1> HIDE DEF P, e, t
<1>4. ASSUME \E i \in 1 .. x : b = Q["empty"][i] /\ c < i
      PROVE  Behind(P, e, b, c)
  BY <1>1, <1>4 DEF Behind
<1>5. ASSUME NEW i \in 1 .. Len(s), b = s[i], c < x + 0 + i
      PROVE  Behind(P, e, b, c)
  <2>1. CASE i = 1
    <3>1. b = e["usb"] /\ c < Len(P["empty"]) + 1
      BY <1>1, <1>2, <1>5, <2>1
    <3> QED BY <3>1 DEF Behind
  <2>2. CASE i # 1
    <3>1. i - 1 \in 1 .. Len(t) /\ t[i - 1] = s[(i - 1) + 1] /\ (i - 1) + 1 = i
      BY <1>2, <2>2
    <3>2. c < x + 1 + (i - 1)
      BY <1>1, <1>5
    <3> QED BY <1>1, <1>3, <1>5, <3>1, <3>2 DEF Behind
  <2> QED BY <2>1, <2>2
<1>6. \/ \E i \in 1 .. x : b = Q["empty"][i] /\ c < i
      \/ \E i \in 1 .. Len(s) : b = s[i] /\ c < x + 0 + i
  BY <1>3 DEF Behind
<1>7. Behind(P, e, b, c)
  BY <1>4, <1>5, <1>6
<1> QED BY <1>7 DEF P, e

(* It returns the buffer to the empty ones, and that stays in its place.   *)
LEMMA BehindPut ==
  ASSUME NEW Q \in [Queues -> Seq(Buffers)], NEW d \in [Workers -> Buffers \cup {NULL}],
         d["usb"] # NULL, NEW b, NEW c \in Nat, b # NULL, Behind(Q, d, b, c)
  PROVE  Behind([Q EXCEPT !["empty"] = Append(@, d["usb"])],
                [d EXCEPT !["usb"] = NULL], b, c)
<1> DEFINE P == [Q EXCEPT !["empty"] = Append(@, d["usb"])]
           e == [d EXCEPT !["usb"] = NULL]
           s == Q["empty"]
           t == Append(Q["empty"], d["usb"])
<1>1. /\ P["empty"] = t /\ P["action"] = Q["action"] /\ e["usb"] = NULL
      /\ s \in Seq(Buffers) /\ d["usb"] \in Buffers /\ Len(Q["action"]) \in Nat
  BY DEF Queues, Workers
<1>2. /\ Len(s) \in Nat /\ Len(t) = Len(s) + 1 /\ t[Len(s) + 1] = d["usb"]
      /\ \A i \in 1 .. Len(s) : t[i] = s[i]
  BY <1>1, AppendProperties
<1>3. InHands(d, "usb") = 1 /\ InHands(e, "usb") = 0
  BY <1>1 DEF InHands
<1> HIDE DEF P, e, t
<1>4. ASSUME \E i \in 1 .. Len(s) : b = s[i] /\ c < i
      PROVE  Behind(P, e, b, c)
  <2>1. PICK i \in 1 .. Len(s) : b = s[i] /\ c < i
    BY <1>4
  <2>2. i \in 1 .. Len(t) /\ b = t[i]
    BY <1>2, <2>1
  <2> QED BY <1>1, <2>1, <2>2 DEF Behind
<1>5. ASSUME b = d["usb"], c < Len(s) + 1
      PROVE  Behind(P, e, b, c)
  <2> DEFINE j == Len(s) + 1
  <2>1. j \in 1 .. Len(t) /\ b = t[j] /\ c < j
    BY <1>2, <1>5
  <2> HIDE DEF j
  <2> QED BY <1>1, <2>1 DEF Behind
<1>6. ASSUME NEW i \in 1 .. Len(Q["action"]), b = Q["action"][i],
             c < Len(s) + 1 + i
      PROVE  Behind(P, e, b, c)
  <2>1. c < Len(t) + 0 + i
    BY <1>1, <1>2, <1>6
  <2> QED BY <1>1, <1>3, <1>6, <2>1 DEF Behind
<1>7. \/ \E i \in 1 .. Len(s) : b = s[i] /\ c < i
      \/ b = d["usb"] /\ c < Len(s) + 1
      \/ \E i \in 1 .. Len(Q["action"]) : b = Q["action"][i] /\ c < Len(s) + 1 + i
  BY <1>3 DEF Behind
<1>8. Behind(P, e, b, c)
  BY <1>4, <1>5, <1>6, <1>7
<1> QED BY <1>8 DEF P, e

(* The next node stands behind one more.                                   *)
LEMMA BehindNext ==
  ASSUME NEW Q, NEW h, NEW n, NEW d, Shape(Q, h, n, d),
         NEW b, NEW c \in Nat, b # NULL, n[b] # NULL, Behind(Q, d, b, c),
         d["usb"] # NULL => n[d["usb"]] \in {NULL, h["action"]}
  PROVE  Behind(Q, d, n[b], c + 1)
<1> DEFINE x == Len(Q["empty"])
           u == InHands(d, "usb")
<1>1. /\ x \in Nat /\ u \in Nat /\ Len(Q["action"]) \in Nat
      /\ Chain(Q["empty"], h["empty"], n) /\ Chain(Q["action"], h["action"], n)
      /\ Q["action"] \in Seq(Buffers)
  BY DEF Shape, Queues, InHands
<1>2. CASE \E i \in 1 .. x : b = Q["empty"][i] /\ c < i
  <2>1. PICK i \in 1 .. x : b = Q["empty"][i] /\ c < i
    BY <1>2
  <2>2. i # x /\ n[b] = Q["empty"][i + 1]
    BY <1>1, <2>1 DEF Chain
  <2>3. i + 1 \in 1 .. x /\ c + 1 < i + 1
    BY <1>1, <2>1, <2>2
  <2> QED BY <2>2, <2>3 DEF Behind
<1>3. CASE b = d["usb"] /\ c < x + 1
  <2>1. n[b] = h["action"]
    BY <1>3
  <2>2. Q["action"] # <<>> /\ n[b] = Q["action"][1]
    BY <1>1, <2>1 DEF Chain
  <2>3. 1 \in 1 .. Len(Q["action"]) /\ u = 1
    BY <1>1, <1>3, <2>2, EmptySeq DEF InHands
  <2>4. c + 1 < x + u + 1
    BY <1>1, <1>3, <2>3
  <2> QED BY <2>2, <2>3, <2>4 DEF Behind
<1>4. CASE \E i \in 1 .. Len(Q["action"]) : b = Q["action"][i] /\ c < x + u + i
  <2>1. PICK i \in 1 .. Len(Q["action"]) : b = Q["action"][i] /\ c < x + u + i
    BY <1>4
  <2>2. i # Len(Q["action"]) /\ n[b] = Q["action"][i + 1]
    BY <1>1, <2>1 DEF Chain
  <2>3. i + 1 \in 1 .. Len(Q["action"]) /\ c + 1 < x + u + (i + 1)
    <3> HIDE DEF x, u
    <3> QED BY <1>1, <2>1, <2>2
  <2> QED BY <2>2, <2>3 DEF Behind
<1> QED BY <1>2, <1>3, <1>4 DEF Behind

(* Every step keeps the walk in its bound.                                 *)
LEMMA WalkStep ==
  ASSUME ListInv, [Next]_vars
  PROVE  WalkInv'
<1>1. /\ pc \in [Workers -> {"lockPull", "unlink", "detach", "use",
           "lockPush", "terminate", "find", "link", "sample", "walk"}]
      /\ held \in [Workers -> Buffers \cup {NULL}]
      /\ queue \in [Queues -> Seq(Buffers)]
      /\ count \in Nat /\ depth \in Nat /\ NumBuffers \in Nat
      /\ walker \in Buffers \cup {NULL}
      /\ WorkerInv /\ SearchInv /\ WalkInv /\ Shape(queue, head, next, held)
  BY NumBuffersAssumption DEF ListInv, TypeOK, ShapeInv, Shape
<1> DEFINE Walks == pc["camera"] = "walk" /\ walker # NULL
<1>2. ASSUME Stays, UNCHANGED <<walker, count, depth>>, Walks' => Walks
      PROVE  WalkInv'
    BY <1>1, <1>2 DEF WalkInv, Stays, DepthInRange
<1>3. ASSUME NEW w \in Workers, Unlink(w) PROVE WalkInv'
  <2>1. Takes(w) /\ UNCHANGED <<walker, count, depth>>
        /\ pc' = [pc EXCEPT ![w] = "detach"]
    BY <1>3, UnlinkTakes DEF Unlink
  <2>2. ASSUME Walks' PROVE Behind(queue', held', walker', count')
    <3>1. w = "usb" /\ Walks
      BY <1>1, <2>1, <2>2 DEF Workers
    <3>2. Behind(queue, held, walker, count)
      BY <1>1, <3>1 DEF WalkInv
    <3>3. /\ held["usb"] = NULL /\ queue["action"] # <<>>
          /\ queue' = [queue EXCEPT !["action"] = Tail(@)]
          /\ held' = [held EXCEPT !["usb"] = Head(queue["action"])]
      BY <2>1, <3>1 DEF Takes, Input
    <3>4. Behind(queue', held', walker, count)
      BY <1>1, <3>1, <3>2, <3>3, BehindTake
    <3> QED BY <2>1, <3>4
  <2> QED BY <1>1, <2>1, <2>2 DEF WalkInv, DepthInRange
<1>4. ASSUME NEW w \in Workers, Enter(w) PROVE WalkInv'
  <2>1. Puts(w) /\ Pushed(w) /\ UNCHANGED <<walker, count, depth>>
    BY <1>4, EnterPuts DEF Enter, Terminate, Link
  <2>2. ASSUME Walks' PROVE Behind(queue', held', walker', count')
    <3>1. w = "usb" /\ Walks
      BY <1>1, <2>1, <2>2 DEF Workers, Pushed
    <3>2. Behind(queue, held, walker, count)
      BY <1>1, <3>1 DEF WalkInv
    <3>3. /\ held["usb"] # NULL
          /\ queue' = [queue EXCEPT !["empty"] = Append(@, held["usb"])]
          /\ held' = [held EXCEPT !["usb"] = NULL]
      BY <1>1, <2>1, <3>1 DEF Puts, WorkerInv
    <3>4. Behind(queue', held', walker, count)
      BY <1>1, <3>1, <3>2, <3>3, BehindPut
    <3> QED BY <2>1, <3>4
  <2> QED BY <1>1, <2>1, <2>2 DEF WalkInv, DepthInRange
<1>5. ASSUME NEW w \in Workers, Aside(w) PROVE WalkInv'
  <2>1. Stays /\ UNCHANGED <<walker, count, depth>>
    BY <1>5, AsideStays
    DEF Aside, LockPull, Detach, Use, LockPush, Terminate, Find
  <2>2. pc'["camera"] = "walk" => pc["camera"] = "walk"
    BY <1>1, <1>5
    DEF Aside, LockPull, Detach, Use, LockPush, Terminate, Find, Workers
  <2> QED BY <1>2, <2>1, <2>2
<1>6. CASE CaptureFails
  <2>1. Stays /\ UNCHANGED <<walker, count, depth>>
        /\ pc'["camera"] = "lockPush"
    BY <1>1, <1>6, AsideStays DEF CaptureFails, Workers
  <2> QED BY <1>2, <2>1
<1>7. CASE Sample
  <2>1. Stays /\ walker' = head["action"] /\ count' = 0 /\ depth' = depth
    BY <1>7, AsideStays DEF Sample, Sampler
  <2>2. ASSUME walker' # NULL PROVE Behind(queue', held', walker', count')
    <3>1. Chain(queue["action"], head["action"], next)
      BY <1>1 DEF Shape, Queues
    <3>2. queue["action"] # <<>> /\ walker' = queue["action"][1]
      BY <2>1, <2>2, <3>1 DEF Chain
    <3>3. /\ 1 \in 1 .. Len(queue["action"])
          /\ Len(queue["empty"]) \in Nat /\ InHands(held, "usb") \in Nat
      BY <1>1, <3>2, EmptySeq DEF Queues, InHands
    <3>4. 0 < Len(queue["empty"]) + InHands(held, "usb") + 1
      BY <3>3
    <3>5. Behind(queue, held, walker', 0)
      BY <3>2, <3>3, <3>4 DEF Behind
    <3> QED BY <2>1, <3>5 DEF Stays
  <2> QED BY <1>1, <2>1, <2>2 DEF WalkInv, DepthInRange
<1>8. CASE Step
  <2>1. /\ Stays /\ walker # NULL /\ pc["camera"] = "walk"
        /\ walker' = next[walker] /\ count' = count + 1 /\ depth' = depth
    BY <1>8, AsideStays DEF Step, Sampler
  <2>2. Behind(queue, held, walker, count)
    BY <1>1, <2>1 DEF WalkInv
  <2>3. count + 1 <= NumBuffers
    BY <1>1, <2>1, <2>2, BehindBound
  <2>4. held["usb"] # NULL => next[held["usb"]] \in {NULL, head["action"]}
    <3>1. SearchOf("usb") /\ (pc["usb"] \in Holding <=> held["usb"] # NULL)
      BY <1>1 DEF SearchInv, WorkerInv, Workers
    <3>2. Input["usb"] = "action"
      BY DEF Input, Workers
    <3> QED BY <3>1, <3>2 DEF SearchOf, Holding
  <2>5. next[walker] # NULL => Behind(queue, held, next[walker], count + 1)
    BY <1>1, <2>1, <2>2, <2>4, BehindNext
  <2> QED BY <1>1, <2>1, <2>3, <2>5 DEF WalkInv, DepthInRange, Stays
<1>9. CASE Report
  <2>1. Stays /\ depth' = count /\ count' = count /\ pc'["camera"] = "lockPull"
    BY <1>1, <1>9, AsideStays DEF Report, Sampler, Workers
  <2> QED BY <1>1, <2>1 DEF WalkInv, DepthInRange
<1>10. CASE UNCHANGED vars
  <2>1. Stays /\ UNCHANGED <<walker, count, depth, pc>>
    BY <1>10, AsideStays DEF vars
  <2> QED BY <1>2, <2>1
<1> QED BY <1>3, <1>4, <1>5, <1>6, <1>7, <1>8, <1>9, <1>10, Kinds DEF Sampler

-----------------------------------------------------------------------------
(* At first the empty queue holds all the buffers, in their order.         *)
LEMMA ListStart ==
  ASSUME Init
  PROVE  /\ queue = [q \in Queues |->
                      IF q = "empty" THEN [b \in Buffers |-> b] ELSE <<>>]
         /\ ListInv
<1> DEFINE s == [b \in Buffers |-> b]
           Q == [q \in Queues |-> IF q = "empty" THEN s ELSE <<>>]
<1>1. NumBuffers \in Nat \ {0} /\ NULL \notin Buffers
  BY NumBuffersAssumption DEF Buffers, NULL
<1>2. /\ s \in Seq(Buffers) /\ Len(s) = NumBuffers /\ s # <<>>
      /\ \A i \in 1 .. NumBuffers : s[i] = i
  BY <1>1 DEF Buffers
<1>3. /\ head["empty"] = 1 /\ head["action"] = NULL
      /\ head \in [Queues -> Buffers \cup {NULL}]
      /\ next \in [Buffers -> Buffers \cup {NULL}]
      /\ held \in [Workers -> Buffers \cup {NULL}]
      /\ held["camera"] = NULL /\ held["usb"] = NULL
      /\ \A i \in 1 .. NumBuffers : next[i] = IF i = NumBuffers THEN NULL ELSE i + 1
  BY <1>1 DEF Init, Queues, Workers, Buffers
<1> HIDE DEF s
<1>4. Q \in [Queues -> Seq(Buffers)] /\ Q["empty"] = s /\ Q["action"] = <<>>
  BY <1>2 DEF Queues
<1>5. Chain(s, 1, next) /\ Chain(<<>>, NULL, next)
  <2>1. Chain(s, 1, next)
    <3>1. 1 = s[1]
      BY <1>1, <1>2
    <3>2. ASSUME NEW i \in 1 .. Len(s)
          PROVE  next[s[i]] = IF i = Len(s) THEN NULL ELSE s[i + 1]
      BY <1>1, <1>2, <1>3
    <3> QED BY <1>2, <3>1, <3>2 DEF Chain
  <2>2. Chain(<<>>, NULL, next)
    BY DEF Chain
  <2> QED BY <2>1, <2>2
<1>6. Apart(Q, held)
  <2>1. \A w \in Workers : held[w] = NULL
    BY <1>3 DEF Workers
  <2>2. \A q \in Queues : Len(Q[q]) # 0 => q = "empty"
    BY DEF Queues
  <2>3. ASSUME NEW q \in Queues, NEW i \in 1 .. Len(Q[q])
        PROVE  q = "empty" /\ Q[q][i] = i /\ i \in Buffers
    <3>1. q = "empty"
      BY <2>2, <2>3
    <3> QED BY <1>2, <1>4, <2>3, <3>1 DEF Buffers
  <2> HIDE DEF Q
  <2> QED BY <1>1, <2>1, <2>3 DEF Apart
<1>7. Complete(Q, held)
  <2>1. Len(Q["empty"]) = NumBuffers /\ Len(Q["action"]) = 0
    BY <1>2, <1>4
  <2>2. InHands(held, "camera") = 0 /\ InHands(held, "usb") = 0
    BY <1>3 DEF InHands
  <2> HIDE DEF Q
  <2>3. NumBuffers + 0 + 0 + 0 = NumBuffers
    BY <1>1
  <2> QED BY <2>1, <2>2, <2>3 DEF Complete
<1>8. Shape(Q, head, next, held)
  <2>1. \A q \in Queues : Chain(Q[q], head[q], next)
    BY <1>3, <1>4, <1>5 DEF Queues
  <2> HIDE DEF Q
  <2> QED BY <1>3, <1>4, <1>6, <1>7, <2>1 DEF Shape
<1> HIDE DEF Q
<1>9. queue = Q
  BY <1>8, PathsOfShape DEF queue
<1>10. ShapeInv
  BY <1>8, <1>9 DEF ShapeInv
<1>11. TypeOK
  BY <1>1, <1>3 DEF Init, TypeOK, Queues, Workers, Buffers
<1>12. WorkerInv /\ SearchInv /\ WalkInv
  BY <1>1 DEF Init, WorkerInv, SearchInv, SearchOf, WalkInv, DepthInRange, Workers,
              Holding, Critical
<1> QED BY <1>9, <1>10, <1>11, <1>12 DEF ListInv, Q, s

(* ListInv is inductive.                                                   *)
LEMMA ListStep == ListInv /\ [Next]_vars => ListInv'
BY TypeStep, WorkerStep, ShapeStep, SearchStep, WalkStep DEF ListInv

(* The lists keep all the buffers, each of them once, and their order,     *)
(* whatever the threads do and wherever the sampler is.                    *)
THEOREM ListInvariance == Spec => []ListInv
<1>1. Init => ListInv
  BY ListStart
<1>2. ListInv /\ [Next]_vars => ListInv'
  BY ListStep
<1> QED BY <1>1, <1>2, PTL DEF Spec

(* frame_queue_depth, called without the mutex, never counts more nodes    *)
(* than there are buffers, although the USB thread moves the node it       *)
(* stands on to another list.                                              *)
THEOREM DepthBounded == Spec => []DepthInRange
<1>1. ListInv => DepthInRange
  BY DEF ListInv, WalkInv
<1> QED BY <1>1, ListInvariance, PTL

(* One memory access at a time, frame_queue_push and frame_queue_pull      *)
(* behave as two FIFO queues, for any number of buffers.                   *)
THEOREM QueueRefinement == Spec => ImplementsQueues
<1>1. Init => Fifo!Init
  BY ListStart DEF Init, Fifo!Init, queue
<1>2. ListInv /\ [Next]_vars => [Fifo!Next]_Fifo!pool
  <2> SUFFICES ASSUME ListInv, [Next]_vars PROVE [Fifo!Next]_Fifo!pool
    OBVIOUS
  <2>1. CASE Stays
    BY <2>1 DEF Stays, Fifo!pool, queue
  <2>2. ASSUME NEW w \in Workers, Takes(w) PROVE Fifo!Next
    <3>1. Input[w] \in Queues
      BY DEF Input, Queues
    <3>2. Fifo!Pull(w, Input[w])
      BY <2>2 DEF Takes, Fifo!Pull, queue
    <3> QED BY <3>1, <3>2 DEF Fifo!Next
  <2>3. ASSUME NEW w \in Workers, Puts(w) PROVE Fifo!Next
    <3>1. target[w] \in Queues
      BY DEF ListInv, TypeOK
    <3>2. Fifo!Push(w, target[w])
      BY <2>3 DEF Puts, Fifo!Push, queue
    <3> QED BY <3>1, <3>2 DEF Fifo!Next
  <2> QED BY <2>1, <2>2, <2>3, ShapeStep
<1> QED BY <1>1, <1>2, ListInvariance, PTL DEF Spec, ImplementsQueues, Fifo!Spec
=============================================================================

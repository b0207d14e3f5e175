---------------------------- MODULE ProxyProofs -----------------------------
(***************************************************************************)
(* The proxies for any number of servers and proxies, any routes, any size *)
(* of buffers and whatever breaks: buffers and connections keep what their *)
(* types promise, and the messages of a route by one proxy come once and   *)
(* in order.                                                               *)
(***************************************************************************)
EXTENDS Proxy, FiniteSetTheorems, TLAPS

Msg == [route : Route, n : Nat]
From(s) == {m \in Msg : m.route[1] = s}
To(s) == {m \in Msg : m.route[2] = s}

(* What an end of a connection is to its sender, X what it sends.          *)
Stream(X) == Seq(X \cup {Part})
Socket(X) == [open : BOOLEAN, gone : BOOLEAN, way : Stream(X), buf : Seq(X),
              left : [Kinds -> Nat]]

-----------------------------------------------------------------------------
(* The numbers of a route's messages in a sequence, and their order.       *)

Nums(q, r) == {q[i].n : i \in {j \in DOMAIN q : q[j].route = r}}
Rising(q, r) == \A i, j \in DOMAIN q : i < j /\ q[i].route = r /\ q[j].route = r => q[i].n < q[j].n
Below(A, B) == \A a \in A, b \in B : a < b

LEMMA NumsOfNone == ASSUME NEW r PROVE Nums(<< >>, r) = {} /\ Rising(<< >>, r)
BY DEF Nums, Rising

LEMMA NumsOfOne ==
    ASSUME NEW m, NEW r
    PROVE  /\ Rising(<<m>>, r)
           /\ m.route = r => Nums(<<m>>, r) = {m.n}
           /\ m.route # r => Nums(<<m>>, r) = {}
<1>1. DOMAIN <<m>> = {1} /\ <<m>>[1] = m
  OBVIOUS
<1>2. Rising(<<m>>, r)
  BY <1>1 DEF Rising
<1> QED BY <1>1, <1>2 DEF Nums

LEMMA PartHasNone == ASSUME NEW r \in Route PROVE Nums(<<Part>>, r) = {} /\ Rising(<<Part>>, r)
<1>1. Part.route # r
  BY RouteAssumption DEF Part
<1> HIDE DEF Part
<1> QED BY <1>1, NumsOfOne

LEMMA Places ==
    ASSUME NEW S, NEW q \in Seq(S), NEW w \in Seq(S)
    PROVE  /\ q \o w \in Seq(S) /\ Len(q \o w) = Len(q) + Len(w)
           /\ \A i \in DOMAIN q : i \in DOMAIN (q \o w) /\ (q \o w)[i] = q[i]
           /\ \A i \in DOMAIN w : /\ Len(q) + i \in DOMAIN (q \o w)
                                  /\ (q \o w)[Len(q) + i] = w[i]
           /\ \A i \in DOMAIN (q \o w) : \/ i \in DOMAIN q
                                         \/ i - Len(q) \in DOMAIN w /\ i > Len(q)
                                            /\ (q \o w)[i] = w[i - Len(q)]
OBVIOUS

LEMMA Joined ==
    ASSUME NEW S, NEW q \in Seq(S), NEW w \in Seq(S), NEW r
    PROVE  /\ Nums(q \o w, r) = Nums(q, r) \cup Nums(w, r)
           /\ Rising(q, r) /\ Rising(w, r) /\ Below(Nums(q, r), Nums(w, r)) => Rising(q \o w, r)
<1> DEFINE z == q \o w
<1>1. /\ \A i \in DOMAIN q : i \in DOMAIN z /\ z[i] = q[i]
      /\ \A i \in DOMAIN w : Len(q) + i \in DOMAIN z /\ z[Len(q) + i] = w[i]
      /\ \A i \in DOMAIN z : \/ i \in DOMAIN q
                             \/ i - Len(q) \in DOMAIN w /\ i > Len(q) /\ z[i] = w[i - Len(q)]
  BY Places
<1>2. \A i \in DOMAIN q : i \in Nat /\ i <= Len(q)
  OBVIOUS
<1>3. \A i \in DOMAIN z : i \in Nat
  BY Places
<1>4. Len(q) \in Nat
  OBVIOUS
<1> HIDE DEF z
<1>5. Nums(z, r) = Nums(q, r) \cup Nums(w, r)
  BY <1>1 DEF Nums
<1>6. ASSUME Rising(q, r), Rising(w, r), Below(Nums(q, r), Nums(w, r))
      PROVE  Rising(z, r)
  <2> SUFFICES ASSUME NEW i \in DOMAIN z, NEW j \in DOMAIN z, i < j, z[i].route = r, z[j].route = r
               PROVE  z[i].n < z[j].n
    BY DEF Rising
  <2>1. CASE j \in DOMAIN q
    <3>1. i \in DOMAIN q
      BY <1>1, <1>2, <1>3, <1>4, <2>1
    <3> QED BY <1>1, <1>6, <2>1, <3>1 DEF Rising
  <2>2. CASE i \in DOMAIN q /\ j \notin DOMAIN q
    <3>1. z[i].n \in Nums(q, r) /\ z[j].n \in Nums(w, r)
      BY <1>1, <2>2 DEF Nums
    <3> QED BY <1>6, <3>1 DEF Below
  <2>3. CASE i \notin DOMAIN q /\ j \notin DOMAIN q
    <3>1. /\ i - Len(q) \in DOMAIN w /\ z[i] = w[i - Len(q)]
          /\ j - Len(q) \in DOMAIN w /\ z[j] = w[j - Len(q)]
      BY <1>1, <2>3
    <3>2. i - Len(q) < j - Len(q)
      BY <1>3, <1>4
    <3> QED BY <1>6, <3>1, <3>2 DEF Rising
  <2> QED BY <2>1, <2>2, <2>3
<1> QED BY <1>5, <1>6 DEF z

LEMMA Prefix ==
    ASSUME NEW S, NEW q \in Seq(S), NEW n \in 0 .. Len(q), NEW r
    PROVE  /\ SubSeq(q, 1, n) \in Seq(S) /\ Nums(SubSeq(q, 1, n), r) \subseteq Nums(q, r)
           /\ Rising(q, r) => Rising(SubSeq(q, 1, n), r)
<1> DEFINE z == SubSeq(q, 1, n)
<1>1. z \in Seq(S) /\ \A i \in DOMAIN z : i \in DOMAIN q /\ z[i] = q[i]
  OBVIOUS
<1> HIDE DEF z
<1>2. Nums(z, r) \subseteq Nums(q, r)
  BY <1>1 DEF Nums
<1>3. Rising(q, r) => Rising(z, r)
  BY <1>1 DEF Rising
<1> QED BY <1>1, <1>2, <1>3 DEF z

(* The first message is taken: what it leaves is later, on its route.      *)
LEMMA Taken ==
    ASSUME NEW S, NEW q \in Seq(S), q # << >>, NEW r, Rising(q, r)
    PROVE  /\ Tail(q) \in Seq(S) /\ Head(q) \in S
           /\ Rising(Tail(q), r)
           /\ Nums(Tail(q), r) \subseteq Nums(q, r)
           /\ Nums(<<Head(q)>>, r) \subseteq Nums(q, r)
           /\ Below(Nums(<<Head(q)>>, r), Nums(Tail(q), r))
           /\ Nums(q, r) = Nums(<<Head(q)>>, r) \cup Nums(Tail(q), r)
<1> DEFINE z == Tail(q)
           h == Head(q)
<1>1. /\ z \in Seq(S) /\ h \in S /\ h = q[1] /\ 1 \in DOMAIN q
      /\ \A i \in DOMAIN z : i \in Nat /\ i + 1 \in DOMAIN q /\ z[i] = q[i + 1] /\ 1 < i + 1
      /\ \A i \in DOMAIN q : i = 1 \/ (i - 1 \in DOMAIN z /\ q[i] = z[i - 1])
  OBVIOUS
<1>2. \A i, j \in DOMAIN z : i < j => i + 1 < j + 1
  BY <1>1
<1> HIDE DEF z, h
<1>3. Rising(z, r)
  BY <1>1, <1>2 DEF Rising
<1>4. Nums(<<h>>, r) = IF h.route = r THEN {h.n} ELSE {}
  BY NumsOfOne
<1>5. Nums(q, r) = Nums(<<h>>, r) \cup Nums(z, r)
  <2>1. \A x : x \in Nums(q, r) <=> \E i \in DOMAIN q : q[i].route = r /\ q[i].n = x
    BY DEF Nums
  <2>2. \A x : x \in Nums(z, r) <=> \E i \in DOMAIN z : z[i].route = r /\ z[i].n = x
    BY DEF Nums
  <2>3. \A x : (\E i \in DOMAIN q : q[i].route = r /\ q[i].n = x)
               <=> \/ h.route = r /\ h.n = x
                   \/ \E i \in DOMAIN z : z[i].route = r /\ z[i].n = x
    <3>1. ASSUME NEW x, NEW i \in DOMAIN q, q[i].route = r, q[i].n = x
          PROVE  \/ h.route = r /\ h.n = x
                 \/ \E j \in DOMAIN z : z[j].route = r /\ z[j].n = x
      BY <1>1, <3>1
    <3>2. ASSUME NEW x, NEW i \in DOMAIN z, z[i].route = r, z[i].n = x
          PROVE  \E j \in DOMAIN q : q[j].route = r /\ q[j].n = x
      <4>1. i + 1 \in DOMAIN q /\ q[i + 1] = z[i]
        BY <1>1
      <4> QED BY <3>2, <4>1
    <3>3. ASSUME h.route = r PROVE \E j \in DOMAIN q : q[j].route = r /\ q[j].n = h.n
      BY <1>1, <3>3
    <3> QED BY <3>1, <3>2, <3>3
  <2> QED BY <1>4, <2>1, <2>2, <2>3
<1>6. Below(Nums(<<h>>, r), Nums(z, r))
  <2> SUFFICES ASSUME h.route = r, NEW i \in DOMAIN z, z[i].route = r
               PROVE  h.n < z[i].n
    BY <1>4 DEF Below, Nums
  <2> QED BY <1>1 DEF Rising
<1> QED BY <1>1, <1>3, <1>5, <1>6 DEF z, h

-----------------------------------------------------------------------------
(* Sending by a socket.  Flows: if of every route what is on the way, what *)
(* is in the buffer and what is in m follow each other, then so do what is *)
(* on the way and in the buffer after it, and there is nothing else.       *)
Flows(k, f, m) ==
    \A r \in Route :
        LET A == Nums(k.way, r)
            B == Nums(k.buf, r)
            M == Nums(m, r)
        IN  /\ Rising(k.way, r) /\ Rising(k.buf, r) /\ Rising(m, r)
            /\ Below(A, B) /\ Below(A, M) /\ Below(B, M)
            => /\ Rising(f.way, r) /\ Rising(f.buf, r)
               /\ Below(Nums(f.way, r), Nums(f.buf, r))
               /\ Nums(f.way, r) \subseteq A \cup B \cup M
               /\ Nums(f.buf, r) \subseteq B \cup M

Keeps(k, f) == /\ f.gone = k.gone /\ (f.open => k.open) /\ (k.gone => f.way = k.way)
               /\ Len(k.buf) <= BufSize => Len(f.buf) <= BufSize

(* The ways on which a send leaves items.                                  *)
Ways(way, items) == {way, way \o items}
                    \cup {way \o SubSeq(items, 1, n) \o <<Part>> : n \in 0 .. Len(items)}

LEMMA WaysFlow ==
    ASSUME NEW X, NEW way \in Stream(X), NEW items \in Seq(X), NEW w \in Ways(way, items)
    PROVE  /\ w \in Stream(X)
           /\ \A r \in Route :
                /\ Nums(w, r) \subseteq Nums(way, r) \cup Nums(items, r)
                /\ Rising(way, r) /\ Rising(items, r) /\ Below(Nums(way, r), Nums(items, r))
                   => Rising(w, r)
<1>1. items \in Stream(X)
  BY DEF Stream
<1>2. CASE w = way
  BY <1>2
<1>3. CASE w = way \o items
  BY <1>1, <1>3, Joined, Places DEF Stream
<1>4. CASE \E n \in 0 .. Len(items) : w = way \o SubSeq(items, 1, n) \o <<Part>>
  <2>0. PICK n \in 0 .. Len(items) : w = way \o SubSeq(items, 1, n) \o <<Part>>
    BY <1>4
  <2> DEFINE y == SubSeq(items, 1, n)
             z == way \o y
             e == <<Part>>
  <2>1. y \in Stream(X) /\ z \in Stream(X) /\ w = z \o e
    BY <1>1, <2>0, Prefix, Places DEF Stream
  <2>2. e \in Stream(X)
    BY DEF Stream
  <2>3. w \in Stream(X)
    BY <2>1, <2>2, Places DEF Stream
  <2>4. ASSUME NEW r \in Route
        PROVE  /\ Nums(w, r) \subseteq Nums(way, r) \cup Nums(items, r)
               /\ Rising(way, r) /\ Rising(items, r) /\ Below(Nums(way, r), Nums(items, r))
                  => Rising(w, r)
    <3>1. Nums(y, r) \subseteq Nums(items, r) /\ (Rising(items, r) => Rising(y, r))
      BY <1>1, Prefix DEF Stream
    <3>2. /\ Nums(z, r) = Nums(way, r) \cup Nums(y, r)
          /\ Rising(way, r) /\ Rising(y, r) /\ Below(Nums(way, r), Nums(y, r)) => Rising(z, r)
      BY <2>1, Joined DEF Stream
    <3>3. Nums(e, r) = {} /\ Rising(e, r)
      BY PartHasNone
    <3> HIDE DEF z, y, e
    <3>4. /\ Nums(w, r) = Nums(z, r) \cup Nums(e, r)
          /\ Rising(z, r) /\ Rising(e, r) /\ Below(Nums(z, r), Nums(e, r)) => Rising(w, r)
      BY <2>1, <2>2, Joined DEF Stream
    <3> QED BY <3>1, <3>2, <3>3, <3>4 DEF Below
  <2> QED BY <2>3, <2>4
<1> QED BY <1>2, <1>3, <1>4 DEF Ways

(* What send makes of a socket.                                            *)
LEMMA TriesIs ==
    ASSUME NEW X, NEW k \in Socket(X), NEW items \in Seq(X), NEW t \in Tries(k, items)
    PROVE  /\ t.to \in Socket(X) /\ t.to.buf = k.buf /\ t.to.gone = k.gone
           /\ t.to.open => k.open
           /\ t.to.way \in Ways(k.way, items)
           /\ k.gone \/ ~t.taken => t.to.way = k.way
<1>1. k.way \in Stream(X) /\ k.left \in [Kinds -> Nat] /\ "again" \in Kinds /\ "part" \in Kinds
  BY DEF Socket, Kinds
<1>2. CASE t = [taken |-> TRUE, to |-> [k EXCEPT !.way = IF k.gone THEN @ ELSE @ \o items]]
  <2> DEFINE w == IF k.gone THEN k.way ELSE k.way \o items
  <2>1. w \in Ways(k.way, items) /\ (k.gone => w = k.way)
    BY DEF Ways
  <2>2. w \in Stream(X)
    BY <1>1, <2>1, WaysFlow
  <2>3. t.to = [k EXCEPT !.way = w] /\ t.taken
    BY <1>2 DEF Socket
  <2> HIDE DEF w, Stream
  <2> QED BY <2>1, <2>2, <2>3 DEF Socket
<1>3. CASE t = [taken |-> FALSE, to |-> [k EXCEPT !.open = FALSE]]
  BY <1>3 DEF Socket, Ways
<1>4. CASE k.left["again"] > 0 /\ t = [taken |-> FALSE, to |-> [k EXCEPT !.left["again"] = @ - 1]]
  <2>1. [k.left EXCEPT !["again"] = @ - 1] \in [Kinds -> Nat]
    BY <1>1, <1>4
  <2> QED BY <1>4, <2>1 DEF Socket, Ways
<1>5. CASE \E n \in 0 .. Len(items) - 1 :
              /\ k.left["part"] > 0 /\ ~k.gone
              /\ t = [taken |-> TRUE, to |-> [k EXCEPT !.left["part"] = @ - 1,
                                            !.way = @ \o SubSeq(items, 1, n) \o <<Part>>]]
  <2> PICK n \in 0 .. Len(items) - 1 :
              /\ k.left["part"] > 0 /\ ~k.gone
              /\ t = [taken |-> TRUE, to |-> [k EXCEPT !.left["part"] = @ - 1,
                                            !.way = @ \o SubSeq(items, 1, n) \o <<Part>>]]
    BY <1>5
  <2> DEFINE w == k.way \o SubSeq(items, 1, n) \o <<Part>>
             v == [k.left EXCEPT !["part"] = @ - 1]
  <2>1. v \in [Kinds -> Nat]
    BY <1>1
  <2>2. n \in 0 .. Len(items)
    OBVIOUS
  <2>3. w \in Ways(k.way, items)
    BY <2>2 DEF Ways
  <2>4. w \in Stream(X)
    BY <1>1, <2>3, WaysFlow
  <2>5. t.to = [k EXCEPT !.left = v, !.way = w] /\ t.taken
    BY DEF Socket
  <2> HIDE DEF w, v
  <2> QED BY <2>1, <2>3, <2>4, <2>5 DEF Socket
<1> QED BY <1>2, <1>3, <1>4, <1>5 DEF Tries

LEMMA NothingFlows ==
    ASSUME NEW k, NEW f, f.way = k.way, f.buf = k.buf
    PROVE  Flows(k, f, << >>)
BY DEF Flows

LEMMA SendBufIs ==
    ASSUME NEW X, NEW k \in Socket(X), NEW f \in SendBufData(k)
    PROVE  f \in Socket(X) /\ Keeps(k, f) /\ Flows(k, f, << >>)
<1>1. k.way \in Stream(X) /\ k.buf \in Seq(X)
  BY DEF Socket
<1>2. CASE f = k
  BY <1>2, NothingFlows DEF Keeps
<1>3. CASE \E t \in Tries(k, k.buf) : f = IF t.taken THEN [t.to EXCEPT !.buf = << >>] ELSE t.to
  <2> PICK t \in Tries(k, k.buf) : f = IF t.taken THEN [t.to EXCEPT !.buf = << >>] ELSE t.to
    BY <1>3
  <2>1. /\ t.to \in Socket(X) /\ t.to.buf = k.buf /\ t.to.gone = k.gone
        /\ t.to.open => k.open
        /\ t.to.way \in Ways(k.way, k.buf)
        /\ k.gone \/ ~t.taken => t.to.way = k.way
    BY <1>1, TriesIs
  <2>2. CASE ~t.taken
    <3>1. f = t.to /\ f.way = k.way /\ f.buf = k.buf
      BY <2>1, <2>2
    <3> QED BY <2>1, <3>1, NothingFlows DEF Keeps
  <2>3. CASE t.taken
    <3>0. << >> \in Seq(X)
      OBVIOUS
    <3>1. /\ f \in Socket(X)
          /\ f.way = t.to.way /\ f.buf = << >> /\ f.gone = t.to.gone /\ f.open = t.to.open
      <4> HIDE DEF Stream
      <4> QED BY <2>1, <2>3, <3>0 DEF Socket
    <3>2. Keeps(k, f)
      BY <2>1, <3>1, SizeAssumption DEF Keeps
    <3>3. ASSUME NEW r \in Route, Rising(k.way, r), Rising(k.buf, r),
                 Below(Nums(k.way, r), Nums(k.buf, r))
          PROVE  /\ Rising(f.way, r) /\ Rising(f.buf, r)
                 /\ Below(Nums(f.way, r), Nums(f.buf, r))
                 /\ Nums(f.way, r) \subseteq Nums(k.way, r) \cup Nums(k.buf, r)
                 /\ Nums(f.buf, r) \subseteq Nums(k.buf, r)
      <4>1. Nums(f.buf, r) = {} /\ Rising(f.buf, r)
        BY <3>1, NumsOfNone
      <4>2. Rising(f.way, r) /\ Nums(f.way, r) \subseteq Nums(k.way, r) \cup Nums(k.buf, r)
        BY <1>1, <2>1, <3>1, <3>3, WaysFlow
      <4> QED BY <4>1, <4>2 DEF Below
    <3> QED BY <3>1, <3>2, <3>3 DEF Flows
  <2> QED BY <2>2, <2>3
<1> QED BY <1>2, <1>3 DEF SendBufData

(* A message is kept.                                                      *)
Kept(b, m) == IF Len(b) = BufSize THEN <<m>> ELSE Append(b, m)

LEMMA KeptIs ==
    ASSUME NEW X, NEW b \in Seq(X), NEW m \in X
    PROVE  /\ Kept(b, m) \in Seq(X)
           /\ Len(b) <= BufSize => Len(Kept(b, m)) <= BufSize
           /\ \A r : /\ Nums(Kept(b, m), r) \subseteq Nums(b, r) \cup Nums(<<m>>, r)
                     /\ Rising(b, r) /\ Below(Nums(b, r), Nums(<<m>>, r)) => Rising(Kept(b, m), r)
<1>1. <<m>> \in Seq(X) /\ Append(b, m) = b \o <<m>> /\ Len(Append(b, m)) = Len(b) + 1 /\ Len(<<m>>) = 1
      /\ Append(b, m) \in Seq(X) /\ Len(b) \in Nat
  OBVIOUS
<1>2. Kept(b, m) \in Seq(X) /\ (Len(b) <= BufSize => Len(Kept(b, m)) <= BufSize)
  BY <1>1, SizeAssumption DEF Kept
<1>3. ASSUME NEW r
      PROVE  /\ Nums(Kept(b, m), r) \subseteq Nums(b, r) \cup Nums(<<m>>, r)
             /\ Rising(b, r) /\ Below(Nums(b, r), Nums(<<m>>, r)) => Rising(Kept(b, m), r)
  <2>1. Rising(<<m>>, r)
    BY NumsOfOne
  <2>2. /\ Nums(b \o <<m>>, r) = Nums(b, r) \cup Nums(<<m>>, r)
        /\ Rising(b, r) /\ Rising(<<m>>, r) /\ Below(Nums(b, r), Nums(<<m>>, r)) => Rising(b \o <<m>>, r)
    BY <1>1, Joined
  <2>3. Kept(b, m) = <<m>> \/ Kept(b, m) = b \o <<m>>
    BY <1>1 DEF Kept
  <2> QED BY <2>1, <2>2, <2>3
<1> QED BY <1>2, <1>3

LEMMA ReserveIs ==
    ASSUME NEW X, NEW k \in Socket(X), NEW m \in X
    PROVE  LET f == ReserveData(k, m)
           IN  f \in Socket(X) /\ Keeps(k, f) /\ Flows(k, f, <<m>>)
<1> DEFINE f == ReserveData(k, m)
<1>1. k.way \in Stream(X) /\ k.buf \in Seq(X)
  BY DEF Socket
<1>2. /\ Kept(k.buf, m) \in Seq(X)
      /\ Len(k.buf) <= BufSize => Len(Kept(k.buf, m)) <= BufSize
      /\ \A r : /\ Nums(Kept(k.buf, m), r) \subseteq Nums(k.buf, r) \cup Nums(<<m>>, r)
                /\ Rising(k.buf, r) /\ Below(Nums(k.buf, r), Nums(<<m>>, r)) => Rising(Kept(k.buf, m), r)
  BY <1>1, KeptIs
<1>3. f = [k EXCEPT !.buf = Kept(k.buf, m)]
  BY DEF ReserveData, Kept, Socket
<1>4. f \in Socket(X) /\ f.buf = Kept(k.buf, m) /\ f.way = k.way /\ f.gone = k.gone /\ f.open = k.open
  <2> HIDE DEF Stream, f
  <2> QED BY <1>2, <1>3 DEF Socket
<1> HIDE DEF f
<1>5. Keeps(k, f)
  BY <1>2, <1>4 DEF Keeps
<1>6. Flows(k, f, <<m>>)
  <2> SUFFICES ASSUME NEW r \in Route,
                      Rising(k.way, r), Rising(k.buf, r), Rising(<<m>>, r),
                      Below(Nums(k.way, r), Nums(k.buf, r)), Below(Nums(k.way, r), Nums(<<m>>, r)),
                      Below(Nums(k.buf, r), Nums(<<m>>, r))
               PROVE  /\ Rising(f.way, r) /\ Rising(f.buf, r)
                      /\ Below(Nums(f.way, r), Nums(f.buf, r))
                      /\ Nums(f.way, r) \subseteq Nums(k.way, r) \cup Nums(k.buf, r) \cup Nums(<<m>>, r)
                      /\ Nums(f.buf, r) \subseteq Nums(k.buf, r) \cup Nums(<<m>>, r)
    BY DEF Flows
  <2>1. Rising(f.buf, r) /\ Nums(f.buf, r) \subseteq Nums(k.buf, r) \cup Nums(<<m>>, r)
    BY <1>2, <1>4
  <2> QED BY <1>4, <2>1 DEF Below
<1> QED BY <1>4, <1>5, <1>6 DEF f

LEMMA FlowsOn ==
    ASSUME NEW k, NEW g, NEW f, NEW m, Flows(k, g, << >>), Flows(g, f, m)
    PROVE  Flows(k, f, m)
<1> SUFFICES ASSUME NEW r \in Route,
                    Rising(k.way, r), Rising(k.buf, r), Rising(m, r),
                    Below(Nums(k.way, r), Nums(k.buf, r)), Below(Nums(k.way, r), Nums(m, r)),
                    Below(Nums(k.buf, r), Nums(m, r))
             PROVE  /\ Rising(f.way, r) /\ Rising(f.buf, r)
                    /\ Below(Nums(f.way, r), Nums(f.buf, r))
                    /\ Nums(f.way, r) \subseteq Nums(k.way, r) \cup Nums(k.buf, r) \cup Nums(m, r)
                    /\ Nums(f.buf, r) \subseteq Nums(k.buf, r) \cup Nums(m, r)
  BY DEF Flows
<1>1. Nums(<< >>, r) = {} /\ Rising(<< >>, r)
  BY NumsOfNone
<1>2. /\ Rising(g.way, r) /\ Rising(g.buf, r) /\ Below(Nums(g.way, r), Nums(g.buf, r))
      /\ Nums(g.way, r) \subseteq Nums(k.way, r) \cup Nums(k.buf, r)
      /\ Nums(g.buf, r) \subseteq Nums(k.buf, r)
  <2>1. Below(Nums(k.way, r), Nums(<< >>, r)) /\ Below(Nums(k.buf, r), Nums(<< >>, r))
    BY <1>1 DEF Below
  <2>2. /\ Rising(g.way, r) /\ Rising(g.buf, r) /\ Below(Nums(g.way, r), Nums(g.buf, r))
        /\ Nums(g.way, r) \subseteq Nums(k.way, r) \cup Nums(k.buf, r) \cup Nums(<< >>, r)
        /\ Nums(g.buf, r) \subseteq Nums(k.buf, r) \cup Nums(<< >>, r)
    BY <1>1, <2>1 DEF Flows
  <2> QED BY <1>1, <2>2
<1>3. Below(Nums(g.way, r), Nums(m, r)) /\ Below(Nums(g.buf, r), Nums(m, r))
  BY <1>2 DEF Below
<1>4. /\ Rising(f.way, r) /\ Rising(f.buf, r) /\ Below(Nums(f.way, r), Nums(f.buf, r))
      /\ Nums(f.way, r) \subseteq Nums(g.way, r) \cup Nums(g.buf, r) \cup Nums(m, r)
      /\ Nums(f.buf, r) \subseteq Nums(g.buf, r) \cup Nums(m, r)
  BY <1>2, <1>3 DEF Flows
<1> QED BY <1>2, <1>4

LEMMA KeepsOn == ASSUME NEW k, NEW g, NEW f, Keeps(k, g), Keeps(g, f) PROVE Keeps(k, f)
BY DEF Keeps

LEMMA SendIs ==
    ASSUME NEW X, NEW k \in Socket(X), NEW m \in X, NEW f \in SendOneData(k, m)
    PROVE  f \in Socket(X) /\ Keeps(k, f) /\ Flows(k, f, <<m>>)
<1>1. CASE ~k.open
  BY <1>1, ReserveIs DEF SendOneData
<1>2. CASE k.open
  <2>1. PICK g \in SendBufData(k) :
              f \in IF g.buf # << >> THEN {ReserveData(g, m)}
                    ELSE {IF t.taken THEN t.to ELSE ReserveData(t.to, m) : t \in Tries(g, <<m>>)}
    BY <1>2 DEF SendOneData
  <2>2. g \in Socket(X) /\ Keeps(k, g) /\ Flows(k, g, << >>)
    BY SendBufIs
  <2>3. f \in Socket(X) /\ Keeps(g, f) /\ Flows(g, f, <<m>>)
    <3>1. CASE g.buf # << >>
      BY <2>1, <2>2, <3>1, ReserveIs
    <3>2. CASE g.buf = << >>
      <4>1. PICK t \in Tries(g, <<m>>) : f = IF t.taken THEN t.to ELSE ReserveData(t.to, m)
        BY <2>1, <3>2
      <4> DEFINE e == <<m>>
      <4>2. e \in Seq(X) /\ t \in Tries(g, e)
        OBVIOUS
      <4>3. /\ t.to \in Socket(X) /\ t.to.buf = g.buf /\ t.to.gone = g.gone
            /\ t.to.open => g.open
            /\ t.to.way \in Ways(g.way, e)
            /\ g.gone \/ ~t.taken => t.to.way = g.way
        <5> HIDE DEF e
        <5> QED BY <2>2, <4>2, TriesIs
      <4>4. Keeps(g, t.to)
        BY <4>3 DEF Keeps
      <4>5. CASE t.taken
        <5>1. f = t.to
          BY <4>1, <4>5
        <5>2. ASSUME NEW r \in Route, Rising(g.way, r), Rising(g.buf, r), Rising(<<m>>, r),
                     Below(Nums(g.way, r), Nums(<<m>>, r))
              PROVE  /\ Rising(f.way, r) /\ Rising(f.buf, r)
                     /\ Below(Nums(f.way, r), Nums(f.buf, r))
                     /\ Nums(f.way, r) \subseteq Nums(g.way, r) \cup Nums(g.buf, r) \cup Nums(<<m>>, r)
                     /\ Nums(f.buf, r) \subseteq Nums(g.buf, r) \cup Nums(<<m>>, r)
          <6>1. Nums(f.buf, r) = {} /\ Rising(f.buf, r)
            BY <3>2, <4>3, <5>1, NumsOfNone
          <6>2. Rising(f.way, r) /\ Nums(f.way, r) \subseteq Nums(g.way, r) \cup Nums(<<m>>, r)
            <7>1. g.way \in Stream(X)
              BY <2>2 DEF Socket
            <7> QED BY <4>2, <4>3, <5>1, <5>2, <7>1, WaysFlow
          <6> QED BY <6>1, <6>2 DEF Below
        <5>3. Flows(g, f, <<m>>)
          BY <5>2 DEF Flows
        <5> QED BY <4>3, <4>4, <5>1, <5>3
      <4>6. CASE ~t.taken
        <5>1. f = ReserveData(t.to, m) /\ Flows(g, t.to, << >>)
          BY <4>1, <4>3, <4>6, NothingFlows
        <5>2. f \in Socket(X) /\ Keeps(t.to, f) /\ Flows(t.to, f, <<m>>)
          BY <4>3, <5>1, ReserveIs
        <5> QED BY <4>4, <5>1, <5>2, FlowsOn, KeepsOn
      <4> QED BY <4>5, <4>6
    <3> QED BY <3>1, <3>2
  <2> QED BY <2>2, <2>3, FlowsOn, KeepsOn
<1>3. k.open \in BOOLEAN
  BY DEF Socket
<1> QED BY <1>1, <1>2, <1>3

-----------------------------------------------------------------------------
(* One lane, a route by one proxy: the number got of the message that came *)
(* latest, those on the way down to the addressee, in the proxy's buffer,  *)
(* on each connection up to the proxy, in the sender's buffer, and the     *)
(* number of the latest one.                                               *)
Way(D, B, U, O) == D \cup B \cup O \cup UNION {U[i] : i \in DOMAIN U}
Sorted(g, D, B, U, O, n) ==
    /\ g \in Nat /\ n \in Nat /\ g <= n
    /\ \A x \in Way(D, B, U, O) : x \in Nat /\ g < x /\ x <= n
    /\ Below(D, B) /\ Below(D, O) /\ Below(B, O)
    /\ \A i \in DOMAIN U : Below(D, U[i]) /\ Below(B, U[i]) /\ Below(U[i], O)
    /\ \A i, j \in DOMAIN U : i < j => Below(U[i], U[j])

(* None comes to any connection, and new ones have none.                   *)
ThinUps(U, V) == /\ DOMAIN U \subseteq DOMAIN V
                 /\ \A i \in DOMAIN V : V[i] \subseteq IF i \in DOMAIN U THEN U[i] ELSE {}

LEMMA WayHas == ASSUME NEW D, NEW B, NEW U, NEW O
                PROVE  /\ D \subseteq Way(D, B, U, O) /\ B \subseteq Way(D, B, U, O)
                       /\ O \subseteq Way(D, B, U, O)
                       /\ \A i \in DOMAIN U : U[i] \subseteq Way(D, B, U, O)
                       /\ \A x \in Way(D, B, U, O) : \/ x \in D \/ x \in B \/ x \in O
                                                     \/ \E i \in DOMAIN U : x \in U[i]
BY DEF Way

(* The proxy passes messages on, M from a connection: the only one that    *)
(* has any, with those after it.                                           *)
ProxyMoves(D, B, U, O, D2, B2, V, O2) ==
    \E M : /\ \/ M = {}
              \/ \E i \in DOMAIN U : /\ M \subseteq U[i] /\ Below(M, V[i])
                                     /\ \A j \in DOMAIN U : j < i => U[j] = {}
           /\ ThinUps(U, V) /\ O2 \subseteq O
           /\ D2 \subseteq D \cup B \cup M /\ B2 \subseteq B \cup M /\ Below(D2, B2)

LEMMA ProxyMoved ==
    ASSUME NEW g, NEW D, NEW B, NEW U, NEW O, NEW n, NEW D2, NEW B2, NEW V, NEW O2,
           DOMAIN V \subseteq Nat,
           Sorted(g, D, B, U, O, n), ProxyMoves(D, B, U, O, D2, B2, V, O2)
    PROVE  Sorted(g, D2, B2, V, O2, n) /\ Way(D2, B2, V, O2) \subseteq Way(D, B, U, O)
<1>1. PICK M : /\ \/ M = {}
                  \/ \E i \in DOMAIN U : /\ M \subseteq U[i] /\ Below(M, V[i])
                                         /\ \A j \in DOMAIN U : j < i => U[j] = {}
               /\ ThinUps(U, V) /\ O2 \subseteq O
               /\ D2 \subseteq D \cup B \cup M /\ B2 \subseteq B \cup M /\ Below(D2, B2)
  BY DEF ProxyMoves
<1>2. \A j \in DOMAIN V : \A x \in V[j] : j \in DOMAIN U /\ x \in U[j]
  BY <1>1 DEF ThinUps
<1>3. \A x \in M : x \in Way(D, B, U, O)
  BY <1>1, WayHas
<1>4. /\ \A x \in D2 : x \in Way(D, B, U, O)
      /\ \A x \in B2 : x \in Way(D, B, U, O)
      /\ \A x \in O2 : x \in Way(D, B, U, O)
      /\ \A j \in DOMAIN V : \A x \in V[j] : x \in Way(D, B, U, O)
  BY <1>1, <1>2, <1>3, WayHas
<1>5. Way(D2, B2, V, O2) \subseteq Way(D, B, U, O)
  BY <1>4, WayHas
<1>6. Below(M, O)
  BY <1>1 DEF Sorted, Below
<1>7. ASSUME NEW j \in DOMAIN V PROVE Below(M, V[j])
  <2>1. CASE M = {}
    BY <2>1 DEF Below
  <2>2. CASE M # {}
    <3>1. PICK i \in DOMAIN U : /\ M \subseteq U[i] /\ Below(M, V[i])
                                /\ \A h \in DOMAIN U : h < i => U[h] = {}
      BY <1>1, <2>2
    <3>2. i \in DOMAIN V
      BY <1>1 DEF ThinUps
    <3>3. CASE j = i
      BY <3>1, <3>3
    <3>4. CASE j < i
      BY <1>2, <3>1, <3>4 DEF Below
    <3>5. CASE i < j
      BY <1>2, <3>1, <3>5 DEF Below, Sorted
    <3> QED BY <3>2, <3>3, <3>4, <3>5
  <2> QED BY <2>1, <2>2
<1>8. Below(D2, O2) /\ Below(B2, O2)
  BY <1>1, <1>6 DEF Sorted, Below
<1>9. ASSUME NEW j \in DOMAIN V PROVE Below(D2, V[j]) /\ Below(B2, V[j]) /\ Below(V[j], O2)
  BY <1>1, <1>2, <1>7 DEF Sorted, Below
<1>10. \A i, j \in DOMAIN V : i < j => Below(V[i], V[j])
  BY <1>2 DEF Sorted, Below
<1> QED BY <1>1, <1>5, <1>8, <1>9, <1>10 DEF Sorted

(* The server passes messages on, N new ones.                              *)
ServerMoves(D, B, U, O, n, D2, B2, V, O2, n2) ==
    \E N : /\ (N = {} /\ n2 = n) \/ (N = {n + 1} /\ n2 = n + 1)
           /\ D2 \subseteq D /\ B2 \subseteq B /\ O2 \subseteq O \cup N
           /\ DOMAIN U \subseteq DOMAIN V
           /\ \E k \in DOMAIN V : /\ \A j \in DOMAIN V : j <= k
                                  /\ \A j \in DOMAIN V \ {k} : j \in DOMAIN U /\ V[j] \subseteq U[j]
                                  /\ V[k] \subseteq (IF k \in DOMAIN U THEN U[k] ELSE {}) \cup O \cup N
                                  /\ Below(V[k], O2)

LEMMA ServerMoved ==
    ASSUME NEW g, NEW D, NEW B, NEW U, NEW O, NEW n, NEW D2, NEW B2, NEW V, NEW O2, NEW n2,
           DOMAIN V \subseteq Nat,
           Sorted(g, D, B, U, O, n), ServerMoves(D, B, U, O, n, D2, B2, V, O2, n2)
    PROVE  /\ Sorted(g, D2, B2, V, O2, n2)
           /\ \/ n2 = n + 1 /\ Way(D2, B2, V, O2) \subseteq Way(D, B, U, O) \cup {n + 1}
              \/ n2 = n /\ Way(D2, B2, V, O2) \subseteq Way(D, B, U, O)
<1>1. PICK N : /\ (N = {} /\ n2 = n) \/ (N = {n + 1} /\ n2 = n + 1)
               /\ D2 \subseteq D /\ B2 \subseteq B /\ O2 \subseteq O \cup N
               /\ DOMAIN U \subseteq DOMAIN V
               /\ \E k \in DOMAIN V :
                     /\ \A j \in DOMAIN V : j <= k
                     /\ \A j \in DOMAIN V \ {k} : j \in DOMAIN U /\ V[j] \subseteq U[j]
                     /\ V[k] \subseteq (IF k \in DOMAIN U THEN U[k] ELSE {}) \cup O \cup N
                     /\ Below(V[k], O2)
  BY DEF ServerMoves
<1>2. PICK k \in DOMAIN V :
                     /\ \A j \in DOMAIN V : j <= k
                     /\ \A j \in DOMAIN V \ {k} : j \in DOMAIN U /\ V[j] \subseteq U[j]
                     /\ V[k] \subseteq (IF k \in DOMAIN U THEN U[k] ELSE {}) \cup O \cup N
                     /\ Below(V[k], O2)
  BY <1>1
<1>3. g \in Nat /\ n \in Nat /\ g <= n /\ n2 \in Nat /\ n <= n2
  BY <1>1 DEF Sorted
<1>4. /\ \A x \in N : x \in Nat /\ g < x /\ x <= n2 /\ n < x
      /\ \A x \in Way(D, B, U, O) : x \in Nat /\ g < x /\ x <= n /\ \A y \in N : x < y
  BY <1>1, <1>3 DEF Sorted
<1>5. Way(D2, B2, V, O2) \subseteq Way(D, B, U, O) \cup N
  <2>1. \A j \in DOMAIN V : V[j] \subseteq Way(D, B, U, O) \cup N
    BY <1>2, WayHas
  <2> QED BY <1>1, <2>1, WayHas
<1>6. \A x \in Way(D2, B2, V, O2) : x \in Nat /\ g < x /\ x <= n2
  BY <1>3, <1>4, <1>5
<1>7. /\ Below(D, N) /\ Below(B, N) /\ \A i \in DOMAIN U : Below(U[i], N)
  BY <1>4, WayHas DEF Below
<1>8. Below(D2, B2) /\ Below(D2, O2) /\ Below(B2, O2)
  BY <1>1, <1>7 DEF Sorted, Below
<1>9. ASSUME NEW j \in DOMAIN V PROVE Below(D2, V[j]) /\ Below(B2, V[j]) /\ Below(V[j], O2)
  <2>1. CASE j = k
    BY <1>1, <1>2, <1>7, <2>1 DEF Sorted, Below
  <2>2. CASE j # k
    BY <1>1, <1>2, <1>7, <2>2 DEF Sorted, Below
  <2> QED BY <2>1, <2>2
<1>10. ASSUME NEW i \in DOMAIN V, NEW j \in DOMAIN V, i < j PROVE Below(V[i], V[j])
  <2>1. i # k /\ i \in DOMAIN U /\ V[i] \subseteq U[i]
    BY <1>2, <1>10
  <2>2. CASE j = k
    BY <1>2, <1>7, <1>10, <2>1, <2>2 DEF Sorted, Below
  <2>3. CASE j # k
    BY <1>2, <1>10, <2>1, <2>3 DEF Sorted, Below
  <2> QED BY <2>2, <2>3
<1>11. Sorted(g, D2, B2, V, O2, n2)
  BY <1>3, <1>6, <1>8, <1>9, <1>10 DEF Sorted
<1> QED BY <1>1, <1>5, <1>11

(* The addressee takes the message x, or its queue is full.                *)
LEMMA ServerTook ==
    ASSUME NEW g, NEW D, NEW B, NEW U, NEW O, NEW n, NEW D2, NEW x,
           Sorted(g, D, B, U, O, n), D = {x} \cup D2, Below({x}, D2)
    PROVE  /\ Sorted(x, D2, B, U, O, n) /\ x \in Way(D, B, U, O)
           /\ Way(D2, B, U, O) = {y \in Way(D, B, U, O) : y > x}
<1>1. /\ x \in Way(D, B, U, O) /\ x \in Nat /\ g < x /\ x <= n
      /\ Way(D2, B, U, O) \subseteq Way(D, B, U, O)
      /\ Way(D, B, U, O) = {x} \cup Way(D2, B, U, O)
  BY DEF Sorted, Way
<1>2. \A y \in Way(D2, B, U, O) : y \in Nat /\ x < y /\ y <= n
  <2> TAKE y \in Way(D2, B, U, O)
  <2>1. y \in Nat /\ y <= n
    BY <1>1 DEF Sorted
  <2>2. CASE y \in D2
    BY <2>1, <2>2 DEF Below
  <2>3. CASE y \in B \/ y \in O
    BY <2>1, <2>3 DEF Below, Sorted
  <2>4. CASE \E i \in DOMAIN U : y \in U[i]
    BY <2>1, <2>4 DEF Below, Sorted
  <2> QED BY <2>2, <2>3, <2>4, WayHas
<1>3. D2 \subseteq D
  OBVIOUS
<1>4. Sorted(x, D2, B, U, O, n)
  BY <1>1, <1>2, <1>3 DEF Sorted, Below
<1>5. ~(x < x)
  BY <1>1
<1> QED BY <1>1, <1>2, <1>4, <1>5

-----------------------------------------------------------------------------
(* The inductive invariant.                                                *)

LinkSet(s) == [s : {"open", "closed"}, p : {"wait", "open", "shut"}, cut : BOOLEAN,
               up : Stream(From(s)), down : Stream(To(s))]
AllRising(q) == \A r \in Route : Rising(q, r)

(* Only the newest connection is open at the server's end, and only one is *)
(* open at the proxy's: what came before it is shut.  What comes to an end *)
(* that is closed is lost.                                                 *)
LinksOK(s, ls) ==
    /\ ls \in Seq(LinkSet(s)) /\ Len(ls) > 0
    /\ \A i \in DOMAIN ls :
          /\ i < Len(ls) => ls[i].s = "closed"
          /\ ls[i].s = "closed" => ls[i].down = << >>
          /\ ls[i].p = "shut" => ls[i].up = << >>
          /\ ls[i].p = "open" => \A j \in DOMAIN ls : j < i => ls[j].p = "shut"
          /\ AllRising(ls[i].up) /\ AllRising(ls[i].down)

LEMMA LastLink ==
    ASSUME NEW s, NEW ls, LinksOK(s, ls)
    PROVE  /\ Len(ls) \in DOMAIN ls /\ ls[Len(ls)] \in LinkSet(s)
           /\ \A i \in DOMAIN ls : ls[i] \in LinkSet(s) /\ (i # Len(ls) => ls[i].down = << >>)
<1>1. ls \in Seq(LinkSet(s)) /\ Len(ls) > 0
  BY DEF LinksOK
<1>2. \A i \in DOMAIN ls : (i < Len(ls) => ls[i].s = "closed") /\ (ls[i].s = "closed" => ls[i].down = << >>)
  BY DEF LinksOK
<1>3. /\ Len(ls) \in DOMAIN ls
      /\ \A i \in DOMAIN ls : ls[i] \in LinkSet(s) /\ (i # Len(ls) => i < Len(ls))
  BY <1>1
<1>4. \A i \in DOMAIN ls : i < Len(ls) => ls[i].down = << >>
  BY ONLY <1>2
<1> QED BY <1>3, <1>4

BufferOK(X, q) == q \in Seq(X) /\ Len(q) <= BufSize /\ AllRising(q)
RegOK(p, s) == /\ BufferOK(To(s), reg[p][s].buf) /\ reg[p][s].known \in BOOLEAN
               /\ OpenLinks(p, s) # {} => reg[p][s].known
               /\ ~reg[p][s].known => reg[p][s].buf = << >>

Downs(r, p) == Nums(link[r[2]][p][Newest(r[2], p)].down, r)
Held(r, p) == Nums(reg[p][r[2]].buf, r)
Ups(r, p) == [i \in Links(r[1], p) |-> Nums(link[r[1]][p][i].up, r)]
Unsent(r, p) == Nums(out[r[1]][p], r)
LaneOK(r, p) == Sorted(got[r][p], Downs(r, p), Held(r, p), Ups(r, p), Unsent(r, p), sent[r][p])

(* The functions the state consists of.                                    *)
AnyMsg == Stream(Msg)
AnyLink == [s : {"open", "closed"}, p : {"wait", "open", "shut"}, cut : BOOLEAN,
            up : AnyMsg, down : AnyMsg]
Shape == /\ left \in [Kinds -> Nat] /\ run \subseteq Server \cup Proxy
         /\ link \in [Server -> [Proxy -> Seq(AnyLink)]]
         /\ out \in [Server -> [Proxy -> Seq(Msg)]]
         /\ reg \in [Proxy -> [Server -> [known : BOOLEAN, buf : Seq(Msg)]]]
         /\ sent \in [Route -> [Proxy -> Nat]] /\ got \in [Route -> [Proxy -> Nat]]

IInv == /\ Shape
        /\ \A s \in Server, p \in Proxy : LinksOK(s, link[s][p]) /\ BufferOK(From(s), out[s][p])
                                          /\ RegOK(p, s)
        /\ \A r \in Route, p \in Proxy : LaneOK(r, p)
        /\ \A s \in Server \ run, p \in Proxy : ~Connected(s, p)

-----------------------------------------------------------------------------
(* The connections of a server to a proxy.                                 *)

Opens(ls) == {i \in DOMAIN ls : ls[i].p = "open"}

(* Nothing is added on the way up, or down.                                *)
ThinUp(ls, ls2) ==
    /\ DOMAIN ls \subseteq DOMAIN ls2
    /\ \A r \in Route : \A i \in DOMAIN ls2 :
          Nums(ls2[i].up, r) \subseteq IF i \in DOMAIN ls THEN Nums(ls[i].up, r) ELSE {}
ThinDown(ls, ls2) ==
    \A r \in Route : Nums(ls2[Len(ls2)].down, r) \subseteq Nums(ls[Len(ls)].down, r)

LEMMA ThinUpOn ==
    ASSUME NEW S, NEW T, NEW V, ThinUp(S, T), ThinUp(T, V) PROVE ThinUp(S, V)
BY DEF ThinUp

LEMMA ThinSame == ASSUME NEW S PROVE ThinUp(S, S) /\ ThinDown(S, S)
BY DEF ThinUp, ThinDown

LEMMA NoneRise == AllRising(<< >>)
BY NumsOfNone DEF AllRising

(* One of them becomes l.                                                  *)
LEMMA LinkPut ==
    ASSUME NEW s, NEW ls, LinksOK(s, ls), NEW i \in DOMAIN ls, NEW l \in LinkSet(s),
           i < Len(ls) => l.s = "closed",
           l.s = "closed" => l.down = << >>,
           l.p = "shut" \/ l.p = ls[i].p,
           l.p = "shut" => l.up = << >>,
           AllRising(l.up), AllRising(l.down)
    PROVE  LET ls2 == [ls EXCEPT ![i] = l]
           IN  /\ LinksOK(s, ls2) /\ Opens(ls2) \subseteq Opens(ls)
               /\ Len(ls2) = Len(ls) /\ DOMAIN ls2 = DOMAIN ls
               /\ ls2[i] = l /\ \A j \in DOMAIN ls : j # i => ls2[j] = ls[j]
<1> DEFINE ls2 == [ls EXCEPT ![i] = l]
<1>1. ls \in Seq(LinkSet(s)) /\ Len(ls) > 0 /\ Len(ls) \in Nat /\ i \in Nat
  BY DEF LinksOK
<1>2. /\ ls2 \in Seq(LinkSet(s)) /\ Len(ls2) = Len(ls) /\ DOMAIN ls2 = DOMAIN ls
      /\ ls2[i] = l /\ \A j \in DOMAIN ls : j # i => ls2[j] = ls[j]
  <2> HIDE DEF LinkSet
  <2> QED BY <1>1
<1> HIDE DEF ls2
<1>3. ASSUME NEW j \in DOMAIN ls2
      PROVE  /\ j < Len(ls2) => ls2[j].s = "closed"
             /\ ls2[j].s = "closed" => ls2[j].down = << >>
             /\ ls2[j].p = "shut" => ls2[j].up = << >>
             /\ ls2[j].p = "open" => \A h \in DOMAIN ls2 : h < j => ls2[h].p = "shut"
             /\ AllRising(ls2[j].up) /\ AllRising(ls2[j].down)
  <2>1. /\ j < Len(ls) => ls[j].s = "closed"
        /\ ls[j].s = "closed" => ls[j].down = << >>
        /\ ls[j].p = "shut" => ls[j].up = << >>
        /\ AllRising(ls[j].up) /\ AllRising(ls[j].down)
    BY <1>2 DEF LinksOK
  <2>2. ASSUME ls2[j].p = "open", NEW h \in DOMAIN ls2, h < j PROVE ls2[h].p = "shut"
    <3>1. ls[j].p = "open"
      BY <1>2, <2>2
    <3>2. ls[h].p = "shut"
      BY <1>2, <2>2, <3>1 DEF LinksOK
    <3> QED BY <1>2, <3>2
  <2>3. CASE j = i
    BY <1>2, <2>2, <2>3
  <2>4. CASE j # i
    BY <1>2, <2>1, <2>2, <2>4
  <2> QED BY <2>3, <2>4
<1>4. LinksOK(s, ls2)
  BY <1>1, <1>2, <1>3 DEF LinksOK
<1>5. Opens(ls2) \subseteq Opens(ls)
  BY <1>2 DEF Opens
<1> QED BY <1>2, <1>4, <1>5 DEF ls2

LEMMA PutThin ==
    ASSUME NEW ls, NEW ls2, NEW i, NEW l, DOMAIN ls2 = DOMAIN ls, Len(ls2) = Len(ls),
           ls2[i] = l, \A j \in DOMAIN ls : j # i => ls2[j] = ls[j]
    PROVE  /\ (\A r \in Route : Nums(l.up, r) \subseteq Nums(ls[i].up, r)) => ThinUp(ls, ls2)
           /\ Len(ls) \in DOMAIN ls /\ (\A r \in Route : Nums(l.down, r) \subseteq Nums(ls[i].down, r))
              => ThinDown(ls, ls2)
<1>1. ASSUME \A r \in Route : Nums(l.up, r) \subseteq Nums(ls[i].up, r) PROVE ThinUp(ls, ls2)
  <2> SUFFICES ASSUME NEW r \in Route, NEW j \in DOMAIN ls
               PROVE  Nums(ls2[j].up, r) \subseteq Nums(ls[j].up, r)
    BY DEF ThinUp
  <2> QED BY <1>1
<1>2. ASSUME Len(ls) \in DOMAIN ls, \A r \in Route : Nums(l.down, r) \subseteq Nums(ls[i].down, r)
      PROVE  ThinDown(ls, ls2)
  <2> SUFFICES ASSUME NEW r \in Route
               PROVE  Nums(ls2[Len(ls)].down, r) \subseteq Nums(ls[Len(ls)].down, r)
    BY DEF ThinDown
  <2> QED BY <1>2
<1> QED BY <1>1, <1>2

(* What becomes of one link, without what it carries.                      *)
LEMMA LinkParts ==
    ASSUME NEW s, NEW l \in LinkSet(s)
    PROVE  /\ l.up \in Stream(From(s)) /\ l.down \in Stream(To(s))
           /\ << >> \in Stream(From(s)) /\ << >> \in Stream(To(s))
           /\ \A u \in Stream(From(s)), d \in Stream(To(s)) :
                /\ [l EXCEPT !.up = u] \in LinkSet(s)
                /\ [l EXCEPT !.down = d] \in LinkSet(s)
           /\ ServerClosed(l) \in LinkSet(s) /\ ProxyClosed(l) \in LinkSet(s)
           /\ ServerClosed(l).s = "closed" /\ ServerClosed(l).down = << >>
           /\ ServerClosed(l).p = l.p /\ ServerClosed(l).up = l.up
           /\ ProxyClosed(l).s = l.s /\ ProxyClosed(l).down = l.down
           /\ ProxyClosed(l).p = "shut" /\ ProxyClosed(l).up = << >>
<1>1. l.up \in Stream(From(s)) /\ l.down \in Stream(To(s))
  BY DEF LinkSet
<1>2. << >> \in Stream(From(s)) /\ << >> \in Stream(To(s))
  BY DEF Stream
<1> QED BY <1>1, <1>2 DEF LinkSet, ServerClosed, ProxyClosed

LEMMA ServerClosesLink ==
    ASSUME NEW s, NEW ls, LinksOK(s, ls), NEW i \in DOMAIN ls
    PROVE  LET ls2 == [ls EXCEPT ![i] = ServerClosed(ls[i])]
           IN  /\ LinksOK(s, ls2) /\ Opens(ls2) \subseteq Opens(ls)
               /\ ThinUp(ls, ls2) /\ ThinDown(ls, ls2)
<1> DEFINE l == ServerClosed(ls[i])
           ls2 == [ls EXCEPT ![i] = l]
<1>1. /\ ls[i] \in LinkSet(s) /\ Len(ls) \in DOMAIN ls /\ AllRising(ls[i].up)
      /\ ls[i].p = "shut" => ls[i].up = << >>
  BY DEF LinksOK
<1>2. /\ l \in LinkSet(s) /\ l.s = "closed" /\ l.down = << >> /\ l.p = ls[i].p /\ l.up = ls[i].up
  BY <1>1, LinkParts
<1> HIDE DEF l
<1>3. /\ LinksOK(s, ls2) /\ Opens(ls2) \subseteq Opens(ls)
      /\ Len(ls2) = Len(ls) /\ DOMAIN ls2 = DOMAIN ls
      /\ ls2[i] = l /\ \A j \in DOMAIN ls : j # i => ls2[j] = ls[j]
  <2>1. /\ i < Len(ls) => l.s = "closed"
        /\ l.s = "closed" => l.down = << >>
        /\ l.p = "shut" \/ l.p = ls[i].p
        /\ l.p = "shut" => l.up = << >>
        /\ AllRising(l.up) /\ AllRising(l.down)
    BY <1>1, <1>2, NoneRise
  <2> QED BY <1>2, <2>1, LinkPut
<1> HIDE DEF ls2
<1>4. /\ \A r \in Route : Nums(l.up, r) \subseteq Nums(ls[i].up, r)
      /\ \A r \in Route : Nums(l.down, r) \subseteq Nums(ls[i].down, r)
  BY <1>2, NumsOfNone
<1>5. ThinUp(ls, ls2) /\ ThinDown(ls, ls2)
  BY <1>1, <1>3, <1>4, PutThin
<1> QED BY <1>3, <1>5 DEF ls2, l

LEMMA ProxyClosesLink ==
    ASSUME NEW s, NEW ls, LinksOK(s, ls), NEW i \in DOMAIN ls
    PROVE  LET ls2 == [ls EXCEPT ![i] = ProxyClosed(ls[i])]
           IN  /\ LinksOK(s, ls2) /\ Opens(ls2) \subseteq Opens(ls)
               /\ ThinUp(ls, ls2) /\ ThinDown(ls, ls2)
<1> DEFINE l == ProxyClosed(ls[i])
           ls2 == [ls EXCEPT ![i] = l]
<1>1. /\ ls[i] \in LinkSet(s) /\ Len(ls) \in DOMAIN ls /\ AllRising(ls[i].down)
      /\ i < Len(ls) => ls[i].s = "closed"
      /\ ls[i].s = "closed" => ls[i].down = << >>
  BY DEF LinksOK
<1>2. /\ l \in LinkSet(s) /\ l.p = "shut" /\ l.up = << >> /\ l.s = ls[i].s /\ l.down = ls[i].down
  BY <1>1, LinkParts
<1> HIDE DEF l
<1>3. /\ LinksOK(s, ls2) /\ Opens(ls2) \subseteq Opens(ls)
      /\ Len(ls2) = Len(ls) /\ DOMAIN ls2 = DOMAIN ls
      /\ ls2[i] = l /\ \A j \in DOMAIN ls : j # i => ls2[j] = ls[j]
  <2>1. /\ i < Len(ls) => l.s = "closed"
        /\ l.s = "closed" => l.down = << >>
        /\ l.p = "shut" \/ l.p = ls[i].p
        /\ l.p = "shut" => l.up = << >>
        /\ AllRising(l.up) /\ AllRising(l.down)
    BY <1>1, <1>2, NoneRise
  <2> QED BY <1>2, <2>1, LinkPut
<1> HIDE DEF ls2
<1>4. /\ \A r \in Route : Nums(l.up, r) \subseteq Nums(ls[i].up, r)
      /\ \A r \in Route : Nums(l.down, r) \subseteq Nums(ls[i].down, r)
  BY <1>2, NumsOfNone
<1>5. ThinUp(ls, ls2) /\ ThinDown(ls, ls2)
  BY <1>1, <1>3, <1>4, PutThin
<1> QED BY <1>3, <1>5 DEF ls2, l

(* A server's end after its socket, with the buffer o, became k.           *)
ServerLink(l, k) == LET d == [l EXCEPT !.up = k.way] IN IF k.open THEN d ELSE ServerClosed(d)

(* What a sender knows: what it sends is later than what it sent.          *)
Follows(way, o, m) ==
    \A r \in Route : /\ Below(Nums(way, r), Nums(o, r)) /\ Below(Nums(way, r), Nums(m, r))
                     /\ Below(Nums(o, r), Nums(m, r)) /\ Rising(m, r)

LEMMA ServerSends ==
    ASSUME NEW s, NEW ls, LinksOK(s, ls), ls[Len(ls)].s = "open",
           NEW e \in Socket(From(s)), NEW k \in Socket(From(s)), NEW m,
           e.gone <=> ls[Len(ls)].p = "shut" \/ ls[Len(ls)].cut,
           e.way = ls[Len(ls)].up, BufferOK(From(s), e.buf),
           Keeps(e, k), Flows(e, k, m), Follows(e.way, e.buf, m)
    PROVE  LET ls2 == [ls EXCEPT ![Len(ls)] = ServerLink(ls[Len(ls)], k)]
           IN  /\ LinksOK(s, ls2) /\ Opens(ls2) \subseteq Opens(ls)
               /\ Len(ls2) = Len(ls) /\ DOMAIN ls2 = DOMAIN ls /\ ThinDown(ls, ls2)
               /\ ls2[Len(ls)].up = k.way /\ \A j \in DOMAIN ls : j # Len(ls) => ls2[j] = ls[j]
               /\ BufferOK(From(s), k.buf)
               /\ \A r \in Route :
                    /\ Below(Nums(k.way, r), Nums(k.buf, r))
                    /\ Nums(k.way, r) \subseteq Nums(e.way, r) \cup Nums(e.buf, r) \cup Nums(m, r)
                    /\ Nums(k.buf, r) \subseteq Nums(e.buf, r) \cup Nums(m, r)
<1> DEFINE i == Len(ls)
           l == ServerLink(ls[i], k)
           ls2 == [ls EXCEPT ![i] = l]
<1>1. /\ i \in DOMAIN ls /\ ls[i] \in LinkSet(s) /\ AllRising(ls[i].up) /\ AllRising(ls[i].down)
      /\ ls[i].p = "shut" => ls[i].up = << >>
      /\ ls[i].s = "closed" => ls[i].down = << >>
  BY DEF LinksOK
<1>2. k.way \in Stream(From(s)) /\ k.buf \in Seq(From(s)) /\ k.open \in BOOLEAN
  BY DEF Socket
<1>3. ASSUME NEW r \in Route
      PROVE  /\ Rising(k.way, r) /\ Rising(k.buf, r)
             /\ Below(Nums(k.way, r), Nums(k.buf, r))
             /\ Nums(k.way, r) \subseteq Nums(e.way, r) \cup Nums(e.buf, r) \cup Nums(m, r)
             /\ Nums(k.buf, r) \subseteq Nums(e.buf, r) \cup Nums(m, r)
  <2>1. Rising(e.way, r) /\ Rising(e.buf, r)
    BY <1>1 DEF AllRising, BufferOK
  <2> QED BY <2>1 DEF Flows, Follows
<1>4. BufferOK(From(s), k.buf)
  BY <1>2, <1>3 DEF BufferOK, AllRising, Keeps
<1>5. /\ l \in LinkSet(s) /\ l.up = k.way /\ l.p = ls[i].p
      /\ l.s = "closed" => l.down = << >>
      /\ l.down = << >> \/ l.down = ls[i].down
  <2> DEFINE d == [ls[i] EXCEPT !.up = k.way]
  <2>1. d \in LinkSet(s)
    BY <1>1, <1>2, LinkParts
  <2>2. d.up = k.way /\ d.p = ls[i].p /\ d.s = ls[i].s /\ d.down = ls[i].down
    BY <1>1 DEF LinkSet
  <2>3. l = IF k.open THEN d ELSE ServerClosed(d)
    BY DEF ServerLink
  <2> HIDE DEF d, l
  <2>4. /\ ServerClosed(d) \in LinkSet(s) /\ ServerClosed(d).s = "closed"
        /\ ServerClosed(d).down = << >> /\ ServerClosed(d).p = d.p /\ ServerClosed(d).up = d.up
    BY <2>1, LinkParts
  <2> QED BY <1>1, <2>1, <2>2, <2>3, <2>4
<1> HIDE DEF l
<1>6. AllRising(l.up) /\ AllRising(l.down)
  BY <1>1, <1>3, <1>5, NoneRise DEF AllRising
<1>7. l.p = "shut" => l.up = << >>
  BY <1>1, <1>5 DEF Keeps
<1>8. /\ LinksOK(s, ls2) /\ Opens(ls2) \subseteq Opens(ls)
      /\ Len(ls2) = Len(ls) /\ DOMAIN ls2 = DOMAIN ls
      /\ ls2[i] = l /\ \A j \in DOMAIN ls : j # i => ls2[j] = ls[j]
  <2>1. ~(i < Len(ls))
    BY DEF LinksOK
  <2> QED BY <1>1, <1>5, <1>6, <1>7, <2>1, LinkPut
<1> HIDE DEF ls2
<1>9. \A r \in Route : Nums(l.down, r) \subseteq Nums(ls[i].down, r)
  BY <1>5, NumsOfNone
<1>10. ThinDown(ls, ls2)
  BY <1>1, <1>8, <1>9, PutThin
<1> QED BY <1>3, <1>4, <1>5, <1>8, <1>10 DEF ls2, l

(* A proxy sends by an open connection.                                    *)
ProxySent(s, ls, ls2, e, k, m) ==
    /\ LinksOK(s, ls2) /\ Opens(ls2) \subseteq Opens(ls)
    /\ Len(ls2) = Len(ls) /\ ThinUp(ls, ls2)
    /\ BufferOK(To(s), k.buf)
    /\ \A r \in Route :
         LET D == Nums(ls[Len(ls)].down, r)
             E == Nums(ls2[Len(ls)].down, r)
         IN  /\ Below(E, Nums(k.buf, r))
             /\ E \subseteq D \cup Nums(e.buf, r) \cup Nums(m, r)
             /\ Nums(k.buf, r) \subseteq Nums(e.buf, r) \cup Nums(m, r)

LEMMA ProxySends ==
    ASSUME NEW s, NEW ls, LinksOK(s, ls), NEW i \in Opens(ls),
           NEW e \in Socket(To(s)), NEW k \in Socket(To(s)), NEW m,
           e.gone <=> ls[i].s = "closed" \/ ls[i].cut,
           e.way = ls[i].down, BufferOK(To(s), e.buf),
           Keeps(e, k), Flows(e, k, m), Follows(ls[Len(ls)].down, e.buf, m)
    PROVE  ProxySent(s, ls, [ls EXCEPT ![i] = ProxyLink(ls[i], k)], e, k, m)
<1> DEFINE l == ProxyLink(ls[i], k)
           ls2 == [ls EXCEPT ![i] = l]
<1>1. /\ i \in DOMAIN ls /\ ls[i] \in LinkSet(s) /\ ls[i].p = "open"
      /\ AllRising(ls[i].up) /\ AllRising(ls[i].down)
      /\ i < Len(ls) => ls[i].s = "closed"
      /\ ls[i].s = "closed" => ls[i].down = << >>
      /\ Len(ls) \in DOMAIN ls
  BY DEF LinksOK, Opens
<1>2. k.way \in Stream(To(s)) /\ k.buf \in Seq(To(s)) /\ k.open \in BOOLEAN
  BY DEF Socket
<1>3. i # Len(ls) => e.way = << >> /\ k.way = << >>
  <2>1. i # Len(ls) => i < Len(ls)
    BY <1>1 DEF LinksOK
  <2> QED BY <1>1, <2>1 DEF Keeps
<1>4. \A r \in Route : /\ Below(Nums(e.way, r), Nums(e.buf, r)) /\ Below(Nums(e.way, r), Nums(m, r))
                       /\ Below(Nums(e.buf, r), Nums(m, r)) /\ Rising(m, r)
  <2> TAKE r \in Route
  <2>1. CASE i = Len(ls)
    BY <2>1 DEF Follows
  <2>2. CASE i # Len(ls)
    <3>1. Nums(e.way, r) = {}
      BY <1>3, <2>2, NumsOfNone
    <3> QED BY <3>1 DEF Follows, Below
  <2> QED BY <2>1, <2>2
<1>5. ASSUME NEW r \in Route
      PROVE  /\ Rising(k.way, r) /\ Rising(k.buf, r)
             /\ Below(Nums(k.way, r), Nums(k.buf, r))
             /\ Nums(k.way, r) \subseteq Nums(e.way, r) \cup Nums(e.buf, r) \cup Nums(m, r)
             /\ Nums(k.buf, r) \subseteq Nums(e.buf, r) \cup Nums(m, r)
  <2>1. Rising(e.way, r) /\ Rising(e.buf, r)
    BY <1>1 DEF AllRising, BufferOK
  <2> QED BY <1>4, <2>1 DEF Flows
<1>6. BufferOK(To(s), k.buf)
  BY <1>2, <1>5 DEF BufferOK, AllRising, Keeps
<1>7. /\ l \in LinkSet(s) /\ l.down = k.way /\ l.s = ls[i].s
      /\ l.p = "shut" \/ l.p = ls[i].p
      /\ l.p = "shut" => l.up = << >>
      /\ l.up = << >> \/ l.up = ls[i].up
  <2> DEFINE d == [ls[i] EXCEPT !.down = k.way]
  <2>1. d \in LinkSet(s)
    BY <1>1, <1>2, LinkParts
  <2>2. d.down = k.way /\ d.p = ls[i].p /\ d.s = ls[i].s /\ d.up = ls[i].up
    BY <1>1 DEF LinkSet
  <2>3. l = IF k.open THEN d ELSE ProxyClosed(d)
    BY DEF ProxyLink
  <2> HIDE DEF d, l
  <2>4. /\ ProxyClosed(d) \in LinkSet(s) /\ ProxyClosed(d).p = "shut"
        /\ ProxyClosed(d).up = << >> /\ ProxyClosed(d).s = d.s /\ ProxyClosed(d).down = d.down
    BY <2>1, LinkParts
  <2> QED BY <1>1, <2>1, <2>2, <2>3, <2>4
<1> HIDE DEF l
<1>8. AllRising(l.up) /\ AllRising(l.down)
  BY <1>1, <1>5, <1>7, NoneRise DEF AllRising
<1>9. l.s = "closed" => l.down = << >>
  BY <1>1, <1>7 DEF Keeps
<1>10. /\ LinksOK(s, ls2) /\ Opens(ls2) \subseteq Opens(ls)
       /\ Len(ls2) = Len(ls) /\ DOMAIN ls2 = DOMAIN ls
       /\ ls2[i] = l /\ \A j \in DOMAIN ls : j # i => ls2[j] = ls[j]
  <2>1. i < Len(ls) => l.s = "closed"
    BY <1>1, <1>7
  <2> QED BY <1>1, <1>7, <1>8, <1>9, <2>1, LinkPut
<1> HIDE DEF ls2
<1>11. \A r \in Route : Nums(l.up, r) \subseteq Nums(ls[i].up, r)
  BY <1>7, NumsOfNone
<1>12. ThinUp(ls, ls2)
  BY <1>10, <1>11, PutThin
<1>13. ASSUME NEW r \in Route
       PROVE  LET D == Nums(ls[Len(ls)].down, r)
                  E == Nums(ls2[Len(ls)].down, r)
              IN  /\ Below(E, Nums(k.buf, r))
                  /\ E \subseteq D \cup Nums(e.buf, r) \cup Nums(m, r)
  <2>1. CASE i = Len(ls)
    BY <1>5, <1>7, <1>10, <2>1
  <2>2. CASE i # Len(ls)
    <3>1. ls2[Len(ls)] = ls[Len(ls)]
      BY <1>1, <1>10, <2>2
    <3> QED BY <1>5, <3>1 DEF Follows, Below
  <2> QED BY <2>1, <2>2
<1>14. ProxySent(s, ls, ls2, e, k, m)
  BY <1>5, <1>6, <1>10, <1>12, <1>13 DEF ProxySent
<1> QED BY <1>14 DEF ls2, l

(* The first message on the way up, or down, is read.                      *)
LEMMA RisingTail ==
    ASSUME NEW X, NEW q \in Stream(X), q # << >>, AllRising(q)
    PROVE  /\ Tail(q) \in Stream(X) /\ AllRising(Tail(q)) /\ Head(q) \in X \cup {Part}
           /\ \A r \in Route : /\ Nums(Tail(q), r) \subseteq Nums(q, r)
                               /\ Nums(q, r) = Nums(<<Head(q)>>, r) \cup Nums(Tail(q), r)
                               /\ Below(Nums(<<Head(q)>>, r), Nums(Tail(q), r))
<1>1. Tail(q) \in Stream(X) /\ Head(q) \in X \cup {Part}
  BY DEF Stream
<1>2. ASSUME NEW r \in Route
      PROVE  /\ Rising(Tail(q), r) /\ Nums(Tail(q), r) \subseteq Nums(q, r)
             /\ Nums(q, r) = Nums(<<Head(q)>>, r) \cup Nums(Tail(q), r)
             /\ Below(Nums(<<Head(q)>>, r), Nums(Tail(q), r))
  BY Taken DEF Stream, AllRising
<1> QED BY <1>1, <1>2 DEF AllRising

LEMMA UpRead ==
    ASSUME NEW s, NEW ls, LinksOK(s, ls), NEW i \in DOMAIN ls, ls[i].up # << >>
    PROVE  LET ls2 == [ls EXCEPT ![i].up = Tail(@)]
           IN  /\ LinksOK(s, ls2) /\ Opens(ls2) = Opens(ls)
               /\ Len(ls2) = Len(ls) /\ DOMAIN ls2 = DOMAIN ls
               /\ ThinUp(ls, ls2) /\ ls2[i].up = Tail(ls[i].up)
               /\ \A j \in DOMAIN ls : ls2[j].down = ls[j].down
<1> DEFINE l == [ls[i] EXCEPT !.up = Tail(@)]
           ls2 == [ls EXCEPT ![i] = l]
<1>1. /\ ls[i] \in LinkSet(s) /\ Len(ls) \in DOMAIN ls
      /\ AllRising(ls[i].up) /\ AllRising(ls[i].down)
      /\ i < Len(ls) => ls[i].s = "closed"
      /\ ls[i].s = "closed" => ls[i].down = << >>
      /\ ls[i].p = "shut" => ls[i].up = << >>
  BY DEF LinksOK
<1>2. /\ Tail(ls[i].up) \in Stream(From(s)) /\ AllRising(Tail(ls[i].up))
      /\ \A r \in Route : Nums(Tail(ls[i].up), r) \subseteq Nums(ls[i].up, r)
  BY <1>1, LinkParts, RisingTail
<1>3. /\ l \in LinkSet(s) /\ l.up = Tail(ls[i].up) /\ l.down = ls[i].down /\ l.s = ls[i].s
      /\ l.p = ls[i].p
  <2>1. [ls[i] EXCEPT !.up = Tail(ls[i].up)] \in LinkSet(s)
    BY <1>1, <1>2, LinkParts
  <2> QED BY <1>1, <2>1 DEF LinkSet
<1> HIDE DEF l
<1>4. /\ LinksOK(s, ls2) /\ Opens(ls2) \subseteq Opens(ls)
      /\ Len(ls2) = Len(ls) /\ DOMAIN ls2 = DOMAIN ls
      /\ ls2[i] = l /\ \A j \in DOMAIN ls : j # i => ls2[j] = ls[j]
  <2>1. /\ i < Len(ls) => l.s = "closed"
        /\ l.s = "closed" => l.down = << >>
        /\ l.p = "shut" => l.up = << >>
        /\ AllRising(l.up) /\ AllRising(l.down)
    BY <1>1, <1>2, <1>3
  <2> QED BY <1>3, <2>1, LinkPut
<1>5. ls2 = [ls EXCEPT ![i].up = Tail(@)]
  BY DEF l
<1> HIDE DEF ls2
<1>6. ThinUp(ls, ls2)
  BY <1>2, <1>3, <1>4, PutThin
<1>7. Opens(ls2) = Opens(ls)
  BY <1>3, <1>4 DEF Opens
<1> QED BY <1>3, <1>4, <1>5, <1>6, <1>7

LEMMA DownRead ==
    ASSUME NEW s, NEW ls, LinksOK(s, ls), ls[Len(ls)].down # << >>
    PROVE  LET ls2 == [ls EXCEPT ![Len(ls)].down = Tail(@)]
           IN  /\ LinksOK(s, ls2) /\ Opens(ls2) = Opens(ls)
               /\ Len(ls2) = Len(ls) /\ DOMAIN ls2 = DOMAIN ls
               /\ ls2[Len(ls)].down = Tail(ls[Len(ls)].down)
               /\ \A j \in DOMAIN ls : ls2[j].up = ls[j].up
<1> DEFINE i == Len(ls)
           l == [ls[i] EXCEPT !.down = Tail(@)]
           ls2 == [ls EXCEPT ![i] = l]
<1>1. /\ i \in DOMAIN ls /\ ls[i] \in LinkSet(s)
      /\ AllRising(ls[i].up) /\ AllRising(ls[i].down)
      /\ ls[i].s # "closed"
      /\ ls[i].p = "shut" => ls[i].up = << >>
  BY DEF LinksOK
<1>2. Tail(ls[i].down) \in Stream(To(s)) /\ AllRising(Tail(ls[i].down))
  BY <1>1, LinkParts, RisingTail
<1>3. /\ l \in LinkSet(s) /\ l.up = ls[i].up /\ l.down = Tail(ls[i].down) /\ l.s = ls[i].s
      /\ l.p = ls[i].p
  <2>1. [ls[i] EXCEPT !.down = Tail(ls[i].down)] \in LinkSet(s)
    BY <1>1, <1>2, LinkParts
  <2> QED BY <1>1, <2>1 DEF LinkSet
<1> HIDE DEF l
<1>4. /\ LinksOK(s, ls2) /\ Opens(ls2) \subseteq Opens(ls)
      /\ Len(ls2) = Len(ls) /\ DOMAIN ls2 = DOMAIN ls
      /\ ls2[i] = l /\ \A j \in DOMAIN ls : j # i => ls2[j] = ls[j]
  <2>1. /\ ~(i < Len(ls)) /\ (l.s = "closed" => l.down = << >>)
        /\ l.p = "shut" => l.up = << >>
        /\ AllRising(l.up) /\ AllRising(l.down)
    BY <1>1, <1>2, <1>3 DEF LinksOK
  <2> QED BY <1>1, <1>3, <2>1, LinkPut
<1>5. ls2 = [ls EXCEPT ![i].down = Tail(@)]
  BY DEF l
<1> HIDE DEF ls2
<1>6. Opens(ls2) = Opens(ls)
  BY <1>3, <1>4 DEF Opens
<1> QED BY <1>1, <1>3, <1>4, <1>5, <1>6

(* A connection breaks.                                                    *)
LEMMA LinkCut ==
    ASSUME NEW s, NEW ls, LinksOK(s, ls), NEW i \in DOMAIN ls
    PROVE  LET ls2 == [ls EXCEPT ![i] = [@ EXCEPT !.cut = TRUE, !.up = << >>, !.down = << >>]]
           IN  /\ LinksOK(s, ls2) /\ Opens(ls2) \subseteq Opens(ls)
               /\ ThinUp(ls, ls2) /\ ThinDown(ls, ls2)
<1> DEFINE l == [ls[i] EXCEPT !.cut = TRUE, !.up = << >>, !.down = << >>]
           ls2 == [ls EXCEPT ![i] = l]
<1>1. /\ ls[i] \in LinkSet(s) /\ Len(ls) \in DOMAIN ls
      /\ i < Len(ls) => ls[i].s = "closed"
  BY DEF LinksOK
<1>2. << >> \in Stream(From(s)) /\ << >> \in Stream(To(s))
  BY DEF Stream
<1>3. /\ l \in LinkSet(s) /\ l.up = << >> /\ l.down = << >> /\ l.s = ls[i].s /\ l.p = ls[i].p
  BY <1>1, <1>2 DEF LinkSet
<1> HIDE DEF l
<1>4. /\ LinksOK(s, ls2) /\ Opens(ls2) \subseteq Opens(ls)
      /\ Len(ls2) = Len(ls) /\ DOMAIN ls2 = DOMAIN ls
      /\ ls2[i] = l /\ \A j \in DOMAIN ls : j # i => ls2[j] = ls[j]
  <2>1. /\ i < Len(ls) => l.s = "closed"
        /\ AllRising(l.up) /\ AllRising(l.down)
    BY <1>1, <1>3, NoneRise
  <2> QED BY <1>3, <2>1, LinkPut
<1> HIDE DEF ls2
<1>5. /\ \A r \in Route : Nums(l.up, r) \subseteq Nums(ls[i].up, r)
      /\ \A r \in Route : Nums(l.down, r) \subseteq Nums(ls[i].down, r)
  BY <1>3, NumsOfNone
<1>6. ThinUp(ls, ls2) /\ ThinDown(ls, ls2)
  BY <1>1, <1>4, <1>5, PutThin
<1> QED BY <1>4, <1>6 DEF ls2, l

(* Each of them becomes what it was, or is closed at one end.              *)
LEMMA LinksClosed ==
    ASSUME NEW s, NEW ls, LinksOK(s, ls), NEW ls2, DOMAIN ls2 = DOMAIN ls, ls2 \in Seq(LinkSet(s)),
           \A i \in DOMAIN ls : \/ ls2[i] = ls[i]
                                \/ ls2[i] = ServerClosed(ls[i])
                                \/ ls2[i] = ProxyClosed(ls[i])
    PROVE  /\ LinksOK(s, ls2) /\ Opens(ls2) \subseteq Opens(ls)
           /\ Len(ls2) = Len(ls) /\ ThinUp(ls, ls2) /\ ThinDown(ls, ls2)
<1>1. /\ Len(ls) \in DOMAIN ls /\ Len(ls2) = Len(ls) /\ Len(ls) \in Nat /\ Len(ls) > 0
      /\ \A i \in DOMAIN ls : ls[i] \in LinkSet(s)
  BY DEF LinksOK
<1>2. ASSUME NEW i \in DOMAIN ls
      PROVE  /\ ls2[i].s = ls[i].s \/ (ls2[i].s = "closed" /\ ls2[i].down = << >>)
             /\ ls2[i].p = ls[i].p \/ (ls2[i].p = "shut" /\ ls2[i].up = << >>)
             /\ ls2[i].up = ls[i].up \/ ls2[i].up = << >>
             /\ ls2[i].down = ls[i].down \/ ls2[i].down = << >>
  BY <1>1, LinkParts
<1>3. ASSUME NEW i \in DOMAIN ls
      PROVE  /\ i < Len(ls) => ls[i].s = "closed"
             /\ ls[i].s = "closed" => ls[i].down = << >>
             /\ ls[i].p = "shut" => ls[i].up = << >>
             /\ ls[i].p = "open" => \A j \in DOMAIN ls : j < i => ls[j].p = "shut"
             /\ AllRising(ls[i].up) /\ AllRising(ls[i].down)
  BY DEF LinksOK
<1>4. ASSUME NEW i \in DOMAIN ls
      PROVE  /\ i < Len(ls) => ls2[i].s = "closed"
             /\ ls2[i].s = "closed" => ls2[i].down = << >>
             /\ ls2[i].p = "shut" => ls2[i].up = << >>
             /\ ls2[i].p = "open" => \A j \in DOMAIN ls : j < i => ls2[j].p = "shut"
             /\ AllRising(ls2[i].up) /\ AllRising(ls2[i].down)
  <2>1. /\ i < Len(ls) => ls2[i].s = "closed"
        /\ ls2[i].s = "closed" => ls2[i].down = << >>
    BY <1>2, <1>3
  <2>2. ls2[i].p = "shut" => ls2[i].up = << >>
    BY <1>2, <1>3
  <2>3. AllRising(ls2[i].up) /\ AllRising(ls2[i].down)
    BY <1>2, <1>3, NoneRise
  <2>4. ASSUME ls2[i].p = "open", NEW j \in DOMAIN ls, j < i PROVE ls2[j].p = "shut"
    <3>1. ls[i].p = "open"
      BY <1>2, <2>4
    <3>2. ls[j].p = "shut"
      BY <1>3, <2>4, <3>1
    <3> QED BY <1>2, <3>2
  <2> QED BY <2>1, <2>2, <2>3, <2>4
<1>5. LinksOK(s, ls2)
  BY <1>1, <1>4 DEF LinksOK
<1>6. Opens(ls2) \subseteq Opens(ls)
  BY <1>2 DEF Opens
<1>7. \A i \in DOMAIN ls : \A r \in Route : /\ Nums(ls2[i].up, r) \subseteq Nums(ls[i].up, r)
                                            /\ Nums(ls2[i].down, r) \subseteq Nums(ls[i].down, r)
  BY <1>2, NumsOfNone
<1> QED BY <1>1, <1>5, <1>6, <1>7 DEF ThinUp, ThinDown

LEMMA AllClosed ==
    ASSUME NEW s, NEW ls, LinksOK(s, ls)
    PROVE  /\ [i \in DOMAIN ls |-> ServerClosed(ls[i])] \in Seq(LinkSet(s))
           /\ [i \in DOMAIN ls |-> ProxyClosed(ls[i])] \in Seq(LinkSet(s))
<1>1. ls \in Seq(LinkSet(s)) /\ Len(ls) \in Nat /\ DOMAIN ls = 1 .. Len(ls)
  BY DEF LinksOK
<1>2. \A i \in DOMAIN ls : ServerClosed(ls[i]) \in LinkSet(s) /\ ProxyClosed(ls[i]) \in LinkSet(s)
  BY <1>1, LinkParts
<1> QED BY <1>1, <1>2

(* The proxy has read the registration: the connection is open, and those  *)
(* before it are not any more.                                             *)
Registered(ls, i) == [j \in DOMAIN ls |-> IF j < i THEN ProxyClosed(ls[j])
                                          ELSE IF j = i THEN [ls[i] EXCEPT !.p = "open"]
                                          ELSE ls[j]]

LEMMA RegisteredIs ==
    ASSUME NEW s, NEW ls, LinksOK(s, ls), NEW i \in DOMAIN ls, ls[i].p = "wait",
           \A j \in DOMAIN ls : ls[j].p = "wait" => i <= j
    PROVE  LET ls2 == Registered(ls, i)
           IN  /\ LinksOK(s, ls2) /\ i \in Opens(ls2)
               /\ Len(ls2) = Len(ls) /\ ThinUp(ls, ls2) /\ ThinDown(ls, ls2)
               /\ ls2[i] = [ls[i] EXCEPT !.p = "open"]
               /\ ls2[Len(ls)].down = ls[Len(ls)].down
<1> DEFINE ls2 == Registered(ls, i)
<1>1. /\ Len(ls) \in DOMAIN ls /\ Len(ls) \in Nat /\ Len(ls) > 0 /\ DOMAIN ls = 1 .. Len(ls)
      /\ \A j \in DOMAIN ls : ls[j] \in LinkSet(s)
  BY DEF LinksOK
<1>2. ASSUME NEW j \in DOMAIN ls
      PROVE  /\ ls2[j] \in LinkSet(s)
             /\ ls2[j].s = ls[j].s /\ ls2[j].down = ls[j].down
             /\ j < i => ls2[j].p = "shut" /\ ls2[j].up = << >>
             /\ j = i => ls2[j].p = "open" /\ ls2[j].up = ls[j].up
             /\ j > i => ls2[j] = ls[j]
  <2>1. CASE j < i
    <3>1. ls2[j] = ProxyClosed(ls[j])
      BY <2>1 DEF Registered
    <3> QED BY <1>1, <2>1, <3>1, LinkParts
  <2>2. CASE j = i
    <3>1. ls2[i] = [ls[i] EXCEPT !.p = "open"]
      BY <1>1, <2>2 DEF Registered
    <3>2. /\ [ls[i] EXCEPT !.p = "open"] \in LinkSet(s)
          /\ ls2[i].s = ls[i].s /\ ls2[i].down = ls[i].down /\ ls2[i].up = ls[i].up
          /\ ls2[i].p = "open"
      BY <1>1, <3>1 DEF LinkSet
    <3> QED BY <1>1, <2>2, <3>1, <3>2
  <2>3. CASE j > i
    <3>1. ls2[j] = ls[j]
      BY <1>1, <2>3 DEF Registered
    <3> QED BY <1>1, <2>3, <3>1
  <2> QED BY <1>1, <2>1, <2>2, <2>3
<1>3. DOMAIN ls2 = DOMAIN ls /\ ls2 \in Seq(LinkSet(s)) /\ Len(ls2) = Len(ls)
  <2>1. ls2 = [j \in 1 .. Len(ls) |-> ls2[j]]
    BY <1>1 DEF Registered
  <2>2. \A j \in 1 .. Len(ls) : ls2[j] \in LinkSet(s)
    BY <1>1, <1>2
  <2> HIDE DEF ls2
  <2> QED BY <1>1, <2>1, <2>2
<1>4. ls2[i] = [ls[i] EXCEPT !.p = "open"]
  BY <1>1 DEF Registered
<1> HIDE DEF ls2
<1>5. ASSUME NEW j \in DOMAIN ls
      PROVE  /\ j < Len(ls) => ls[j].s = "closed"
             /\ ls[j].s = "closed" => ls[j].down = << >>
             /\ ls[j].p = "shut" => ls[j].up = << >>
             /\ ls[j].p = "open" => \A h \in DOMAIN ls : h < j => ls[h].p = "shut"
             /\ AllRising(ls[j].up) /\ AllRising(ls[j].down)
  BY DEF LinksOK
<1>6. ASSUME NEW j \in DOMAIN ls
      PROVE  /\ j < Len(ls) => ls2[j].s = "closed"
             /\ ls2[j].s = "closed" => ls2[j].down = << >>
             /\ ls2[j].p = "shut" => ls2[j].up = << >>
             /\ ls2[j].p = "open" => \A h \in DOMAIN ls : h < j => ls2[h].p = "shut"
             /\ AllRising(ls2[j].up) /\ AllRising(ls2[j].down)
  <2>1. /\ j < Len(ls) => ls2[j].s = "closed"
        /\ ls2[j].s = "closed" => ls2[j].down = << >>
    BY <1>2, <1>5
  <2>2. i \in Nat /\ j \in Nat
    BY <1>1
  <2>3. ls2[j].p = "shut" => ls2[j].up = << >>
    BY <1>2, <1>5, <2>2
  <2>4. AllRising(ls2[j].up) /\ AllRising(ls2[j].down)
    BY <1>2, <1>5, <2>2, NoneRise
  <2>5. ASSUME ls2[j].p = "open", NEW h \in DOMAIN ls, h < j PROVE ls2[h].p = "shut"
    <3>1. j >= i
      BY <1>2, <2>2, <2>5
    <3>2. CASE j = i
      BY <1>2, <2>5, <3>2
    <3>3. CASE j > i
      <4>1. ls[j].p = "open"
        BY <1>2, <2>5, <3>3
      <4>2. ls[i].p = "shut"
        BY <1>5, <3>3, <4>1
      <4> QED BY <4>2
    <3> QED BY <2>2, <3>1, <3>2, <3>3
  <2> QED BY <2>1, <2>3, <2>4, <2>5
<1>7. LinksOK(s, ls2)
  BY <1>1, <1>3, <1>6 DEF LinksOK
<1>8. i \in Opens(ls2)
  BY <1>2, <1>3 DEF Opens
<1>9. \A j \in DOMAIN ls : \A r \in Route : Nums(ls2[j].up, r) \subseteq Nums(ls[j].up, r)
  <2> TAKE j \in DOMAIN ls
  <2>1. ls2[j].up = << >> \/ ls2[j].up = ls[j].up
    <3>1. i \in Nat /\ j \in Nat
      BY <1>1
    <3> QED BY <1>2, <3>1
  <2> QED BY <2>1, NumsOfNone
<1>10. ThinUp(ls, ls2) /\ ThinDown(ls, ls2)
  BY <1>1, <1>2, <1>3, <1>9 DEF ThinUp, ThinDown
<1> QED BY <1>1, <1>2, <1>3, <1>4, <1>7, <1>8, <1>10 DEF ls2

(* The server connects once more, with w on the way.                       *)
LEMMA LinkMore ==
    ASSUME NEW s, NEW ls, LinksOK(s, ls), ls[Len(ls)].s = "closed",
           NEW w \in Stream(From(s)), AllRising(w)
    PROVE  LET ls2 == Append(ls, [Fresh EXCEPT !.up = w])
           IN  /\ LinksOK(s, ls2) /\ Opens(ls2) = Opens(ls)
               /\ DOMAIN ls2 = 1 .. Len(ls2) /\ Len(ls2) = Len(ls) + 1 /\ DOMAIN ls \subseteq DOMAIN ls2
               /\ ls2[Len(ls2)].up = w /\ ls2[Len(ls2)].down = << >>
               /\ \A j \in DOMAIN ls : ls2[j] = ls[j]
<1> DEFINE l == [Fresh EXCEPT !.up = w]
           ls2 == Append(ls, l)
<1>1. /\ Len(ls) \in DOMAIN ls /\ Len(ls) \in Nat /\ Len(ls) > 0 /\ DOMAIN ls = 1 .. Len(ls)
      /\ ls \in Seq(LinkSet(s))
  BY DEF LinksOK
<1>2. /\ l \in LinkSet(s) /\ l.up = w /\ l.down = << >> /\ l.s = "open" /\ l.p = "wait"
  <2>1. << >> \in Stream(To(s))
    BY DEF Stream
  <2> QED BY <2>1 DEF LinkSet, Fresh
<1> HIDE DEF l
<1>3. /\ ls2 \in Seq(LinkSet(s)) /\ Len(ls2) = Len(ls) + 1 /\ DOMAIN ls2 = 1 .. Len(ls2)
      /\ DOMAIN ls \subseteq DOMAIN ls2 /\ DOMAIN ls2 = DOMAIN ls \cup {Len(ls) + 1}
      /\ ls2[Len(ls) + 1] = l /\ \A j \in DOMAIN ls : ls2[j] = ls[j]
  <2> HIDE DEF LinkSet
  <2> QED BY <1>1, <1>2
<1> HIDE DEF ls2
<1>4. ASSUME NEW j \in DOMAIN ls2
      PROVE  /\ j < Len(ls2) => ls2[j].s = "closed"
             /\ ls2[j].s = "closed" => ls2[j].down = << >>
             /\ ls2[j].p = "shut" => ls2[j].up = << >>
             /\ ls2[j].p = "open" => \A h \in DOMAIN ls2 : h < j => ls2[h].p = "shut"
             /\ AllRising(ls2[j].up) /\ AllRising(ls2[j].down)
  <2>1. CASE j = Len(ls) + 1
    BY <1>1, <1>2, <1>3, <2>1, NoneRise
  <2>2. CASE j \in DOMAIN ls
    <3>1. /\ j < Len(ls) => ls[j].s = "closed"
          /\ ls[j].s = "closed" => ls[j].down = << >>
          /\ ls[j].p = "shut" => ls[j].up = << >>
          /\ ls[j].p = "open" => \A h \in DOMAIN ls : h < j => ls[h].p = "shut"
          /\ AllRising(ls[j].up) /\ AllRising(ls[j].down)
      BY <2>2 DEF LinksOK
    <3>2. ls2[j] = ls[j] /\ ls[j].s = "closed"
      BY <1>1, <1>3, <2>2, <3>1
    <3>3. \A h \in DOMAIN ls2 : h < j => h \in DOMAIN ls /\ ls2[h] = ls[h]
      BY <1>1, <1>3, <2>2
    <3> QED BY <3>1, <3>2, <3>3
  <2> QED BY <1>3, <2>1, <2>2
<1>5. LinksOK(s, ls2)
  BY <1>1, <1>3, <1>4 DEF LinksOK
<1>6. Opens(ls2) = Opens(ls)
  BY <1>2, <1>3 DEF Opens
<1> QED BY <1>2, <1>3, <1>5, <1>6 DEF ls2, l

-----------------------------------------------------------------------------
(* Steps.                                                                  *)

(* What becomes of the messages of a lane.                                 *)
Passes(r, p) ==
    /\ ProxyMoves(Downs(r, p), Held(r, p), Ups(r, p), Unsent(r, p),
                  Downs(r, p)', Held(r, p)', Ups(r, p)', Unsent(r, p)')
    /\ sent'[r][p] = sent[r][p] /\ got'[r][p] = got[r][p]
Leaves(r, p) ==
    /\ ServerMoves(Downs(r, p), Held(r, p), Ups(r, p), Unsent(r, p), sent[r][p],
                   Downs(r, p)', Held(r, p)', Ups(r, p)', Unsent(r, p)', sent'[r][p])
    /\ got'[r][p] = got[r][p]
Comes(r, p) ==
    /\ \E x : /\ Downs(r, p) = {x} \cup Downs(r, p)' /\ Below({x}, Downs(r, p)')
              /\ got'[r][p] = x
    /\ Held(r, p)' = Held(r, p) /\ Ups(r, p)' = Ups(r, p) /\ Unsent(r, p)' = Unsent(r, p)
    /\ sent'[r][p] = sent[r][p]

EndsOK(s, p) == LinksOK(s, link[s][p]) /\ BufferOK(From(s), out[s][p]) /\ RegOK(p, s)
Steps == /\ Shape'
         /\ \A s \in Server, p \in Proxy : EndsOK(s, p)'
         /\ \A r \in Route, p \in Proxy : Passes(r, p) \/ Leaves(r, p) \/ Comes(r, p)

LEMMA IndexBy == ASSUME NEW r \in Route PROVE r[1] \in Server /\ r[2] \in Server
BY RouteAssumption

LEMMA ThinLane ==
    ASSUME IInv, NEW r \in Route, NEW p \in Proxy,
           ThinUp(link[r[1]][p], link'[r[1]][p]), ThinDown(link[r[2]][p], link'[r[2]][p]),
           Held(r, p)' \subseteq Held(r, p), Unsent(r, p)' \subseteq Unsent(r, p),
           sent'[r][p] = sent[r][p], got'[r][p] = got[r][p]
    PROVE  Passes(r, p)
<1>1. ThinUps(Ups(r, p), Ups(r, p)')
  BY DEF ThinUps, ThinUp, Ups, Links
<1>2. Downs(r, p)' \subseteq Downs(r, p)
  BY DEF ThinDown, Downs, Newest
<1>3. Below(Downs(r, p)', Held(r, p)')
  BY <1>2 DEF IInv, LaneOK, Sorted, Below
<1> QED BY <1>1, <1>2, <1>3 DEF Passes, ProxyMoves

LEMMA AnyLinks == ASSUME NEW s, NEW ls, LinksOK(s, ls) PROVE ls \in Seq(AnyLink)
<1>1. LinkSet(s) \subseteq AnyLink
  <2>1. Stream(From(s)) \subseteq AnyMsg /\ Stream(To(s)) \subseteq AnyMsg
    BY DEF Stream, From, To, AnyMsg
  <2> QED BY <2>1 DEF LinkSet, AnyLink
<1> QED BY <1>1 DEF LinksOK

LinkBecomes(s, p, ls) == link' = [link EXCEPT ![s][p] = ls]

LEMMA LinkAt ==
    ASSUME Shape, NEW s \in Server, NEW p \in Proxy, NEW ls, LinksOK(s, ls),
           LinkBecomes(s, p, ls)
    PROVE  /\ link' \in [Server -> [Proxy -> Seq(AnyLink)]] /\ link'[s][p] = ls
           /\ \A t \in Server, q \in Proxy : t # s \/ q # p => link'[t][q] = link[t][q]
<1>1. ls \in Seq(AnyLink)
  BY AnyLinks
<1> QED BY <1>1 DEF Shape, LinkBecomes

LEMMA Opened == \A s, p : OpenLinks(p, s) = Opens(link[s][p]) /\ OpenLinks(p, s)' = Opens(link'[s][p])
BY DEF OpenLinks, Opens, Links

(* Nothing is sent, nothing comes.                                         *)
LEMMA Loses ==
    ASSUME IInv, UNCHANGED <<sent, got>>,
           left' \in [Kinds -> Nat], run' \subseteq Server \cup Proxy,
           link' \in [Server -> [Proxy -> Seq(AnyLink)]],
           out' \in [Server -> [Proxy -> Seq(Msg)]],
           reg' \in [Proxy -> [Server -> [known : BOOLEAN, buf : Seq(Msg)]]],
           \A s \in Server, p \in Proxy :
              /\ LinksOK(s, link'[s][p]) /\ Opens(link'[s][p]) \subseteq Opens(link[s][p])
              /\ ThinUp(link[s][p], link'[s][p]) /\ ThinDown(link[s][p], link'[s][p])
              /\ out'[s][p] = out[s][p] \/ out'[s][p] = << >>
              /\ \/ reg'[p][s] = reg[p][s]
                 \/ reg'[p][s] = Stranger /\ Opens(link'[s][p]) = {}
    PROVE  Steps
<1>1. Shape'
  BY DEF IInv, Shape
<1>2. ASSUME NEW s \in Server, NEW p \in Proxy PROVE EndsOK(s, p)'
  <2>1. BufferOK(From(s), out[s][p]) /\ RegOK(p, s)
    BY DEF IInv
  <2>2. BufferOK(From(s), << >>) /\ BufferOK(To(s), << >>)
    BY NoneRise, SizeAssumption DEF BufferOK
  <2>3. BufferOK(From(s), out'[s][p])
    BY <2>1, <2>2
  <2>4. RegOK(p, s)'
    <3>1. CASE reg'[p][s] = reg[p][s]
      BY <2>1, <3>1, Opened DEF RegOK
    <3>2. CASE reg'[p][s] = Stranger /\ Opens(link'[s][p]) = {}
      BY <2>2, <3>2, Opened DEF RegOK, Stranger
    <3> QED BY <3>1, <3>2
  <2> QED BY <2>3, <2>4 DEF EndsOK
<1>3. ASSUME NEW r \in Route, NEW p \in Proxy PROVE Passes(r, p)
  <2>1. r[1] \in Server /\ r[2] \in Server
    BY IndexBy
  <2>2. Held(r, p)' \subseteq Held(r, p)
    <3>0. reg'[p][r[2]] = reg[p][r[2]] \/ reg'[p][r[2]] = Stranger
      BY <2>1
    <3>1. reg'[p][r[2]] = reg[p][r[2]] \/ reg'[p][r[2]].buf = << >>
      BY <3>0 DEF Stranger
    <3> QED BY <3>1, NumsOfNone DEF Held
  <2>3. Unsent(r, p)' \subseteq Unsent(r, p)
    <3>1. out'[r[1]][p] = out[r[1]][p] \/ out'[r[1]][p] = << >>
      BY <2>1
    <3> QED BY <3>1, NumsOfNone DEF Unsent
  <2> QED BY <2>1, <2>2, <2>3, ThinLane
<1> QED BY <1>1, <1>2, <1>3 DEF Steps

(* That, by one connection.                                                *)
LEMMA LosesAt ==
    ASSUME IInv, UNCHANGED <<out, reg, sent, got>>,
           left' \in [Kinds -> Nat], run' \subseteq Server \cup Proxy,
           NEW s \in Server, NEW p \in Proxy, NEW ls,
           LinksOK(s, ls), Opens(ls) \subseteq Opens(link[s][p]),
           ThinUp(link[s][p], ls), ThinDown(link[s][p], ls),
           LinkBecomes(s, p, ls)
    PROVE  Steps
<1>1. /\ link' \in [Server -> [Proxy -> Seq(AnyLink)]] /\ link'[s][p] = ls
      /\ \A t \in Server, q \in Proxy : t # s \/ q # p => link'[t][q] = link[t][q]
  <2>1. Shape
    BY DEF IInv
  <2> QED BY <2>1, LinkAt
<1>2. ASSUME NEW t \in Server, NEW q \in Proxy
      PROVE  /\ LinksOK(t, link'[t][q]) /\ Opens(link'[t][q]) \subseteq Opens(link[t][q])
             /\ ThinUp(link[t][q], link'[t][q]) /\ ThinDown(link[t][q], link'[t][q])
  <2>1. CASE t = s /\ q = p
    BY <1>1, <2>1
  <2>2. CASE t # s \/ q # p
    BY <1>1, <2>2, ThinSame DEF IInv
  <2> QED BY <2>1, <2>2
<1> QED BY <1>1, <1>2, Loses DEF IInv, Shape

LEMMA Spent == ASSUME IInv, NEW k \in Kinds, Spend(k) PROVE left' \in [Kinds -> Nat]
BY DEF IInv, Shape, Spend

LEMMA TheLinks ==
    ASSUME IInv, NEW s \in Server, NEW p \in Proxy
    PROVE  /\ LinksOK(s, link[s][p]) /\ Newest(s, p) \in Links(s, p)
           /\ Newest(s, p) = Len(link[s][p]) /\ Links(s, p) = DOMAIN link[s][p]
           /\ left \in [Kinds -> Nat] /\ run \subseteq Server \cup Proxy
           /\ \A i \in Links(s, p) : \A l :
                [link EXCEPT ![s][p][i] = l] = [link EXCEPT ![s][p] = [link[s][p] EXCEPT ![i] = l]]
<1>1. link \in [Server -> [Proxy -> Seq(AnyLink)]] /\ left \in [Kinds -> Nat]
      /\ run \subseteq Server \cup Proxy
  BY DEF IInv, Shape
<1>2. LinksOK(s, link[s][p])
  BY DEF IInv
<1> QED BY <1>1, <1>2 DEF LinksOK, Newest, Links

LEMMA RecvEndSteps == ASSUME IInv, NEW s \in Server, NEW p \in Proxy, RecvEnd(s, p) PROVE Steps
<1> DEFINE ls == [link[s][p] EXCEPT ![Newest(s, p)] = ServerClosed(link[s][p][Newest(s, p)])]
<1>1. LinkBecomes(s, p, ls) /\ UNCHANGED <<left, run, out, reg, sent, got>>
  BY TheLinks DEF RecvEnd, LinkBecomes
<1>2. /\ LinksOK(s, ls) /\ Opens(ls) \subseteq Opens(link[s][p])
      /\ ThinUp(link[s][p], ls) /\ ThinDown(link[s][p], ls)
  BY TheLinks, ServerClosesLink
<1> HIDE DEF ls
<1> QED BY <1>1, <1>2, TheLinks, LosesAt

LEMMA ProxyCloses ==
    ASSUME IInv, NEW s \in Server, NEW p \in Proxy, NEW i \in Links(s, p),
           left' \in [Kinds -> Nat], UNCHANGED <<run, out, reg, sent, got>>,
           link' = [link EXCEPT ![s][p][i] = ProxyClosed(link[s][p][i])]
    PROVE  Steps
<1> DEFINE ls == [link[s][p] EXCEPT ![i] = ProxyClosed(link[s][p][i])]
<1>1. LinkBecomes(s, p, ls)
  BY TheLinks DEF LinkBecomes
<1>2. /\ LinksOK(s, ls) /\ Opens(ls) \subseteq Opens(link[s][p])
      /\ ThinUp(link[s][p], ls) /\ ThinDown(link[s][p], ls)
  BY TheLinks, ProxyClosesLink
<1> HIDE DEF ls
<1> QED BY <1>1, <1>2, TheLinks, LosesAt

LEMMA RecvServerEndSteps ==
    ASSUME IInv, NEW s \in Server, NEW p \in Proxy, RecvServerEnd(p, s) PROVE Steps
<1>1. PICK i \in OpenLinks(p, s) : link' = [link EXCEPT ![s][p][i] = ProxyClosed(link[s][p][i])]
  BY DEF RecvServerEnd
<1>2. i \in Links(s, p) /\ UNCHANGED <<left, run, out, reg, sent, got>>
  BY DEF RecvServerEnd, OpenLinks
<1> QED BY <1>1, <1>2, TheLinks, ProxyCloses

LEMMA CutSteps == ASSUME IInv, NEW s \in Server, NEW p \in Proxy, Cut(s, p) PROVE Steps
<1>1. PICK i \in Links(s, p) :
          link' = [link EXCEPT ![s][p][i] = [@ EXCEPT !.cut = TRUE, !.up = << >>, !.down = << >>]]
  BY DEF Cut
<1>2. left' \in [Kinds -> Nat] /\ UNCHANGED <<run, out, reg, sent, got>>
  BY Spent DEF Cut, Kinds
<1> DEFINE ls == [link[s][p] EXCEPT ![i] = [@ EXCEPT !.cut = TRUE, !.up = << >>, !.down = << >>]]
<1>3. LinkBecomes(s, p, ls)
  BY <1>1, TheLinks DEF IInv, Shape, LinkBecomes
<1>4. /\ LinksOK(s, ls) /\ Opens(ls) \subseteq Opens(link[s][p])
      /\ ThinUp(link[s][p], ls) /\ ThinDown(link[s][p], ls)
  BY TheLinks, LinkCut
<1> HIDE DEF ls
<1> QED BY <1>2, <1>3, <1>4, TheLinks, LosesAt

LEMMA ProxyDiesSteps == ASSUME IInv, NEW p \in Proxy, ProxyDies(p) PROVE Steps
<1>1. left' \in [Kinds -> Nat]
  BY Spent DEF ProxyDies, Kinds
<1>2. run' \subseteq Server \cup Proxy /\ UNCHANGED <<out, sent, got>>
  BY DEF ProxyDies, IInv, Shape
<1>3. /\ link \in [Server -> [Proxy -> Seq(AnyLink)]]
      /\ reg \in [Proxy -> [Server -> [known : BOOLEAN, buf : Seq(Msg)]]]
      /\ out \in [Server -> [Proxy -> Seq(Msg)]]
  BY DEF IInv, Shape
<1>4. ASSUME NEW s \in Server
      PROVE  /\ LinksOK(s, link'[s][p]) /\ Opens(link'[s][p]) = {}
             /\ ThinUp(link[s][p], link'[s][p]) /\ ThinDown(link[s][p], link'[s][p])
             /\ \A q \in Proxy : q # p => link'[s][q] = link[s][q]
             /\ DOMAIN link'[s] = Proxy
  <2> DEFINE ls == link[s][p]
             ls2 == [i \in DOMAIN ls |-> ProxyClosed(ls[i])]
  <2>1. link'[s] = [link[s] EXCEPT ![p] = ls2]
    BY <1>3 DEF ProxyDies, Links
  <2>2. link'[s][p] = ls2 /\ \A q \in Proxy : q # p => link'[s][q] = link[s][q]
    BY <1>3, <2>1
  <2>3. LinksOK(s, ls)
    BY DEF IInv
  <2>4. ls2 \in Seq(LinkSet(s)) /\ DOMAIN ls2 = DOMAIN ls
        /\ \A i \in DOMAIN ls : ls2[i] = ProxyClosed(ls[i])
    BY <2>3, AllClosed
  <2>5. Opens(ls2) = {}
    <3>1. \A i \in DOMAIN ls : ls[i] \in LinkSet(s)
      BY <2>3 DEF LinksOK
    <3>2. \A i \in DOMAIN ls : ls2[i].p = "shut"
      BY <2>4, <3>1, LinkParts
    <3> HIDE DEF ls2
    <3> QED BY <2>4, <3>2 DEF Opens
  <2> HIDE DEF ls2
  <2>6. LinksOK(s, ls2) /\ ThinUp(ls, ls2) /\ ThinDown(ls, ls2)
    BY <2>3, <2>4, LinksClosed
  <2> QED BY <1>3, <2>1, <2>2, <2>5, <2>6
<1>5. link' \in [Server -> [Proxy -> Seq(AnyLink)]]
  <2>1. link' = [s \in Server |-> link'[s]] /\ \A s \in Server : link'[s] = [q \in Proxy |-> link'[s][q]]
    BY <1>3 DEF ProxyDies
  <2>2. \A s \in Server, q \in Proxy : link'[s][q] \in Seq(AnyLink)
    <3> SUFFICES ASSUME NEW s \in Server, NEW q \in Proxy PROVE link'[s][q] \in Seq(AnyLink)
      OBVIOUS
    <3>1. CASE q = p
      BY <1>4, <3>1, AnyLinks
    <3>2. CASE q # p
      BY <1>3, <1>4, <3>2
    <3> QED BY <3>1, <3>2
  <2> QED BY <2>1, <2>2
<1>6. reg' \in [Proxy -> [Server -> [known : BOOLEAN, buf : Seq(Msg)]]]
      /\ \A s \in Server : reg'[p][s] = Stranger /\ \A q \in Proxy : q # p => reg'[q][s] = reg[q][s]
  BY <1>3 DEF ProxyDies, Stranger
<1>7. ASSUME NEW s \in Server, NEW q \in Proxy
      PROVE  /\ LinksOK(s, link'[s][q]) /\ Opens(link'[s][q]) \subseteq Opens(link[s][q])
             /\ ThinUp(link[s][q], link'[s][q]) /\ ThinDown(link[s][q], link'[s][q])
             /\ \/ reg'[q][s] = reg[q][s]
                \/ reg'[q][s] = Stranger /\ Opens(link'[s][q]) = {}
  <2>1. CASE q = p
    BY <1>4, <1>6, <2>1
  <2>2. CASE q # p
    <3>1. link'[s][q] = link[s][q] /\ reg'[q][s] = reg[q][s]
      BY <1>4, <1>6, <2>2
    <3> QED BY <3>1, ThinSame DEF IInv
  <2> QED BY <2>1, <2>2
<1> QED BY <1>1, <1>2, <1>3, <1>5, <1>6, <1>7, Loses

LEMMA ProxyStartsSteps == ASSUME IInv, NEW p \in Proxy, ProxyStarts(p) PROVE Steps
<1>1. /\ UNCHANGED <<left, link, out, reg, sent, got>> /\ run' \subseteq Server \cup Proxy
  BY DEF ProxyStarts, IInv, Shape
<1>2. \A s \in Server, q \in Proxy : LinksOK(s, link[s][q])
  BY DEF IInv
<1>3. Shape
  BY DEF IInv
<1> QED BY <1>1, <1>2, <1>3, ThinSame, Loses DEF Shape

(* All connections of a server change.                                     *)
LinksBecome(s, F) == link' = [link EXCEPT ![s] = F] /\ F = [q \in Proxy |-> F[q]]

LEMMA LinksAt ==
    ASSUME IInv, NEW s \in Server, NEW F, LinksBecome(s, F),
           \A q \in Proxy : LinksOK(s, F[q])
    PROVE  /\ link' \in [Server -> [Proxy -> Seq(AnyLink)]] /\ link'[s] = F
           /\ \A t \in Server : t # s => link'[t] = link[t]
<1>1. F \in [Proxy -> Seq(AnyLink)]
  <2>1. \A q \in Proxy : F[q] \in Seq(AnyLink)
    BY AnyLinks
  <2>2. F = [q \in Proxy |-> F[q]]
    BY DEF LinksBecome
  <2> QED BY <2>1, <2>2
<1>2. link \in [Server -> [Proxy -> Seq(AnyLink)]] /\ link' = [link EXCEPT ![s] = F]
  BY DEF IInv, Shape, LinksBecome
<1> QED BY <1>1, <1>2

LEMMA LosesBy ==
    ASSUME IInv, UNCHANGED <<reg, sent, got>>,
           left' \in [Kinds -> Nat], run' \subseteq Server \cup Proxy,
           out' \in [Server -> [Proxy -> Seq(Msg)]],
           \A t \in Server, q \in Proxy : out'[t][q] = out[t][q] \/ out'[t][q] = << >>,
           NEW s \in Server, NEW F, LinksBecome(s, F),
           \A q \in Proxy : /\ LinksOK(s, F[q]) /\ Opens(F[q]) \subseteq Opens(link[s][q])
                            /\ ThinUp(link[s][q], F[q]) /\ ThinDown(link[s][q], F[q])
    PROVE  Steps
<1>1. /\ link' \in [Server -> [Proxy -> Seq(AnyLink)]] /\ link'[s] = F
      /\ \A t \in Server : t # s => link'[t] = link[t]
  BY LinksAt
<1>2. ASSUME NEW t \in Server, NEW q \in Proxy
      PROVE  /\ LinksOK(t, link'[t][q]) /\ Opens(link'[t][q]) \subseteq Opens(link[t][q])
             /\ ThinUp(link[t][q], link'[t][q]) /\ ThinDown(link[t][q], link'[t][q])
  <2>1. CASE t = s
    BY <1>1, <2>1
  <2>2. CASE t # s
    <3>1. link'[t][q] = link[t][q] /\ LinksOK(t, link[t][q])
      BY <1>1, <2>2 DEF IInv
    <3> QED BY <3>1, ThinSame
  <2> QED BY <2>1, <2>2
<1>3. reg' \in [Proxy -> [Server -> [known : BOOLEAN, buf : Seq(Msg)]]]
      /\ \A t \in Server, q \in Proxy : reg'[q][t] = reg[q][t]
  BY DEF IInv, Shape
<1> QED BY <1>1, <1>2, <1>3, Loses

LEMMA ServerDiesSteps == ASSUME IInv, NEW s \in Server, ServerDies(s) PROVE Steps
<1> DEFINE F == [q \in Proxy |-> [i \in DOMAIN link[s][q] |-> ServerClosed(link[s][q][i])]]
<1>1. left' \in [Kinds -> Nat] /\ run' \subseteq Server \cup Proxy /\ UNCHANGED <<reg, sent, got>>
  BY Spent DEF ServerDies, Kinds, IInv, Shape
<1>2. link \in [Server -> [Proxy -> Seq(AnyLink)]] /\ out \in [Server -> [Proxy -> Seq(Msg)]]
  BY DEF IInv, Shape
<1>3. LinksBecome(s, F)
  BY <1>2 DEF ServerDies, LinksBecome, Links
<1>4. /\ out' \in [Server -> [Proxy -> Seq(Msg)]]
      /\ \A t \in Server, q \in Proxy : out'[t][q] = out[t][q] \/ out'[t][q] = << >>
  BY <1>2 DEF ServerDies
<1>5. ASSUME NEW q \in Proxy
      PROVE  /\ LinksOK(s, F[q]) /\ Opens(F[q]) \subseteq Opens(link[s][q])
             /\ ThinUp(link[s][q], F[q]) /\ ThinDown(link[s][q], F[q])
  <2> DEFINE ls == link[s][q]
  <2>1. LinksOK(s, ls)
    BY DEF IInv
  <2>2. F[q] \in Seq(LinkSet(s)) /\ DOMAIN F[q] = DOMAIN ls
        /\ \A i \in DOMAIN ls : F[q][i] = ServerClosed(ls[i])
    BY <2>1, AllClosed
  <2> HIDE DEF F
  <2> QED BY <2>1, <2>2, LinksClosed
<1> HIDE DEF F
<1> QED BY <1>1, <1>3, <1>4, <1>5, LosesBy

LEMMA MoreIsThin ==
    ASSUME NEW ls, NEW ls2, Len(ls2) \in DOMAIN ls2, Len(ls) \in Nat, DOMAIN ls = 1 .. Len(ls),
           DOMAIN ls2 = 1 .. Len(ls2), Len(ls2) = Len(ls) + 1,
           ls2[Len(ls2)].down = << >>, \A j \in DOMAIN ls : ls2[j] = ls[j]
    PROVE  /\ ThinDown(ls, ls2)
           /\ ls2[Len(ls2)].up = << >> => ThinUp(ls, ls2)
BY NumsOfNone DEF ThinDown, ThinUp

LEMMA ServerStartsSteps ==
    ASSUME IInv, NEW s \in Server, ServerStarts(s) PROVE Steps
<1> DEFINE F == [q \in Proxy |-> Append(link[s][q], Fresh)]
<1>1. UNCHANGED <<left, out, reg, sent, got>> /\ run' \subseteq Server \cup Proxy
  BY DEF ServerStarts, IInv, Shape
<1>2. link \in [Server -> [Proxy -> Seq(AnyLink)]] /\ out \in [Server -> [Proxy -> Seq(Msg)]]
      /\ left \in [Kinds -> Nat]
  BY DEF IInv, Shape
<1>3. LinksBecome(s, F) /\ \A q \in Proxy : ~Connected(s, q)
  BY <1>2 DEF ServerStarts, LinksBecome, IInv
<1>4. ASSUME NEW q \in Proxy
      PROVE  /\ LinksOK(s, F[q]) /\ Opens(F[q]) \subseteq Opens(link[s][q])
             /\ ThinUp(link[s][q], F[q]) /\ ThinDown(link[s][q], F[q])
  <2> DEFINE ls == link[s][q]
             ls2 == Append(ls, [Fresh EXCEPT !.up = << >>])
  <2>1. LinksOK(s, ls) /\ ls[Len(ls)].s = "closed" /\ Len(ls) \in Nat /\ DOMAIN ls = 1 .. Len(ls)
    <3>1. LinksOK(s, ls)
      BY DEF IInv
    <3>2. ls[Len(ls)] \in LinkSet(s)
      BY <3>1 DEF LinksOK
    <3> QED BY <1>3, <3>1, <3>2 DEF Connected, Newest, LinksOK, LinkSet
  <2>2. F[q] = ls2
    BY DEF Fresh
  <2>3. << >> \in Stream(From(s))
    BY DEF Stream
  <2>4. /\ LinksOK(s, ls2) /\ Opens(ls2) = Opens(ls)
        /\ DOMAIN ls2 = 1 .. Len(ls2) /\ Len(ls2) = Len(ls) + 1 /\ DOMAIN ls \subseteq DOMAIN ls2
        /\ ls2[Len(ls2)].up = << >> /\ ls2[Len(ls2)].down = << >>
        /\ \A j \in DOMAIN ls : ls2[j] = ls[j]
    BY <2>1, <2>3, LinkMore, NoneRise
  <2> HIDE DEF ls2
  <2>5. Len(ls2) \in DOMAIN ls2
    BY <2>1, <2>4
  <2>6. ThinUp(ls, ls2) /\ ThinDown(ls, ls2)
    BY <2>1, <2>4, <2>5, MoreIsThin
  <2> QED BY <2>2, <2>4, <2>6
<1> HIDE DEF F
<1>5. \A t \in Server, q \in Proxy : out'[t][q] = out[t][q] \/ out'[t][q] = << >>
  BY <1>1
<1>6. out' \in [Server -> [Proxy -> Seq(Msg)]] /\ left' \in [Kinds -> Nat]
  BY <1>1, <1>2
<1> QED BY <1>1, <1>3, <1>4, <1>5, <1>6, LosesBy

(* What a server does to its connections to a proxy, which become ls, and  *)
(* to its buffer for it, which becomes b: at most one new message goes.    *)
Goes(s, q, ls, b) ==
    /\ LinksOK(s, ls) /\ Opens(ls) \subseteq Opens(link[s][q])
    /\ ThinDown(link[s][q], ls) /\ BufferOK(From(s), b)
    /\ DOMAIN link[s][q] \subseteq DOMAIN ls
    /\ \A j \in DOMAIN ls : j # Len(ls) => j \in DOMAIN link[s][q] /\ ls[j].up = link[s][q][j].up
    /\ \A r \in Route : r[1] = s =>
         \E N : /\ \/ N = {} /\ sent'[r][q] = sent[r][q]
                   \/ N = {sent[r][q] + 1} /\ sent'[r][q] = sent[r][q] + 1
                /\ Nums(ls[Len(ls)].up, r) \subseteq
                      (IF Len(ls) \in DOMAIN link[s][q] THEN Nums(link[s][q][Len(ls)].up, r) ELSE {})
                      \cup Nums(out[s][q], r) \cup N
                /\ Nums(b, r) \subseteq Nums(out[s][q], r) \cup N
                /\ Below(Nums(ls[Len(ls)].up, r), Nums(b, r))

LEMMA GoesNot ==
    ASSUME IInv, NEW s \in Server, NEW q \in Proxy,
           \A r \in Route : r[1] = s => sent'[r][q] = sent[r][q]
    PROVE  Goes(s, q, link[s][q], out[s][q])
<1> DEFINE ls == link[s][q]
<1>1. /\ LinksOK(s, ls) /\ BufferOK(From(s), out[s][q]) /\ Len(ls) \in DOMAIN ls
  BY TheLinks DEF IInv
<1>2. ThinDown(ls, ls)
  BY ThinSame
<1>3. ASSUME NEW r \in Route, r[1] = s PROVE Below(Nums(ls[Len(ls)].up, r), Nums(out[s][q], r))
  <2>1. /\ LaneOK(r, q) /\ Ups(r, q)[Len(ls)] = Nums(ls[Len(ls)].up, r)
        /\ Unsent(r, q) = Nums(out[s][q], r) /\ Len(ls) \in DOMAIN Ups(r, q)
    BY <1>1, <1>3 DEF IInv, Ups, Unsent, Links
  <2> QED BY <2>1 DEF LaneOK, Sorted
<1> QED BY <1>1, <1>2, <1>3 DEF Goes

LEMMA GoesLane ==
    ASSUME IInv, NEW s \in Server, NEW q \in Proxy, Goes(s, q, link'[s][q], out'[s][q]),
           UNCHANGED <<reg, got>>, NEW r \in Route, r[1] = s,
           ThinDown(link[r[2]][q], link'[r[2]][q])
    PROVE  Leaves(r, q)
<1> DEFINE ls == link'[s][q]
<1>1. PICK N : /\ \/ N = {} /\ sent'[r][q] = sent[r][q]
                  \/ N = {sent[r][q] + 1} /\ sent'[r][q] = sent[r][q] + 1
               /\ Nums(ls[Len(ls)].up, r) \subseteq
                     (IF Len(ls) \in DOMAIN link[s][q] THEN Nums(link[s][q][Len(ls)].up, r) ELSE {})
                     \cup Nums(out[s][q], r) \cup N
               /\ Nums(out'[s][q], r) \subseteq Nums(out[s][q], r) \cup N
               /\ Below(Nums(ls[Len(ls)].up, r), Nums(out'[s][q], r))
  BY DEF Goes
<1>2. /\ Downs(r, q)' \subseteq Downs(r, q) /\ Held(r, q)' = Held(r, q)
      /\ Unsent(r, q) = Nums(out[s][q], r) /\ Unsent(r, q)' = Nums(out'[s][q], r)
  BY DEF Downs, Held, Unsent, ThinDown, Newest
<1>3. /\ DOMAIN Ups(r, q) = DOMAIN link[s][q] /\ DOMAIN Ups(r, q)' = DOMAIN ls
      /\ \A i \in DOMAIN link[s][q] : Ups(r, q)[i] = Nums(link[s][q][i].up, r)
      /\ \A i \in DOMAIN ls : Ups(r, q)'[i] = Nums(ls[i].up, r)
  BY DEF Ups, Links
<1>4. /\ \A j \in DOMAIN ls : j <= Len(ls)
      /\ Len(ls) \in DOMAIN ls /\ DOMAIN link[s][q] \subseteq DOMAIN ls
      /\ \A j \in DOMAIN ls : j # Len(ls) => j \in DOMAIN link[s][q] /\ ls[j].up = link[s][q][j].up
  <2> HIDE DEF ls
  <2>1. /\ LinksOK(s, ls) /\ DOMAIN link[s][q] \subseteq DOMAIN ls
        /\ \A j \in DOMAIN ls : j # Len(ls) => j \in DOMAIN link[s][q] /\ ls[j].up = link[s][q][j].up
    BY DEF Goes, ls
  <2>2. Len(ls) \in DOMAIN ls
    BY <2>1, LastLink
  <2>3. \A j \in DOMAIN ls : j <= Len(ls)
    BY <2>1 DEF LinksOK
  <2> QED BY <2>1, <2>2, <2>3
<1> HIDE DEF ls
<1> DEFINE U == Ups(r, q)
           V == Ups(r, q)'
<1>5. /\ \A j \in DOMAIN V \ {Len(ls)} : j \in DOMAIN U /\ V[j] \subseteq U[j]
      /\ V[Len(ls)] \subseteq (IF Len(ls) \in DOMAIN U THEN U[Len(ls)] ELSE {}) \cup Unsent(r, q) \cup N
      /\ Below(V[Len(ls)], Unsent(r, q)')
      /\ Len(ls) \in DOMAIN V /\ \A j \in DOMAIN V : j <= Len(ls)
      /\ DOMAIN U \subseteq DOMAIN V
  BY <1>1, <1>2, <1>3, <1>4
<1>6. got'[r][q] = got[r][q]
  OBVIOUS
<1> HIDE DEF U, V
<1>7. ServerMoves(Downs(r, q), Held(r, q), U, Unsent(r, q), sent[r][q],
                  Downs(r, q)', Held(r, q)', V, Unsent(r, q)', sent'[r][q])
  <2>1. \E k \in DOMAIN V :
           /\ \A j \in DOMAIN V : j <= k
           /\ \A j \in DOMAIN V \ {k} : j \in DOMAIN U /\ V[j] \subseteq U[j]
           /\ V[k] \subseteq (IF k \in DOMAIN U THEN U[k] ELSE {}) \cup Unsent(r, q) \cup N
           /\ Below(V[k], Unsent(r, q)')
    BY <1>5
  <2>2. Downs(r, q)' \subseteq Downs(r, q) /\ Held(r, q)' \subseteq Held(r, q)
        /\ Unsent(r, q)' \subseteq Unsent(r, q) \cup N
    BY <1>1, <1>2
  <2> QED BY <1>1, <1>5, <2>1, <2>2 DEF ServerMoves
<1> QED BY <1>6, <1>7 DEF Leaves, U, V

(* A server acts.                                                          *)
LEMMA ServerSteps ==
    ASSUME IInv, UNCHANGED <<run, reg, got>>, left' \in [Kinds -> Nat],
           sent' \in [Route -> [Proxy -> Nat]],
           NEW s \in Server, NEW F, LinksBecome(s, F), NEW G, out' = [out EXCEPT ![s] = G],
           G = [q \in Proxy |-> G[q]],
           \A q \in Proxy : Goes(s, q, F[q], G[q]),
           \A r \in Route, q \in Proxy : r[1] # s => sent'[r][q] = sent[r][q]
    PROVE  Steps
<1>1. \A q \in Proxy : LinksOK(s, F[q]) /\ ThinDown(link[s][q], F[q])
                       /\ Opens(F[q]) \subseteq Opens(link[s][q])
  BY DEF Goes
<1>2. /\ link' \in [Server -> [Proxy -> Seq(AnyLink)]] /\ link'[s] = F
      /\ \A t \in Server : t # s => link'[t] = link[t]
  BY <1>1, LinksAt
<1>3. G \in [Proxy -> Seq(Msg)]
  <2>1. ASSUME NEW q \in Proxy PROVE G[q] \in Seq(Msg)
    <3>1. G[q] \in Seq(From(s)) /\ From(s) \subseteq Msg
      BY DEF Goes, BufferOK, From
    <3> QED BY <3>1
  <2> QED BY <2>1
<1>4. /\ out' \in [Server -> [Proxy -> Seq(Msg)]] /\ out'[s] = G
      /\ \A t \in Server : t # s => out'[t] = out[t]
  BY <1>3 DEF IInv, Shape
<1>5. Shape'
  BY <1>2, <1>4 DEF IInv, Shape
<1>6. ASSUME NEW t \in Server, NEW q \in Proxy
      PROVE  /\ LinksOK(t, link'[t][q]) /\ Opens(link'[t][q]) \subseteq Opens(link[t][q])
             /\ ThinDown(link[t][q], link'[t][q]) /\ BufferOK(From(t), out'[t][q])
  <2>1. CASE t = s
    BY <1>1, <1>2, <1>4, <2>1 DEF Goes
  <2>2. CASE t # s
    BY <1>2, <1>4, <2>2, ThinSame DEF IInv
  <2> QED BY <2>1, <2>2
<1>7. ASSUME NEW t \in Server, NEW q \in Proxy PROVE EndsOK(t, q)'
  <2>1. RegOK(q, t)
    BY DEF IInv
  <2>2. RegOK(q, t)'
    BY <1>6, <2>1, Opened DEF RegOK
  <2> QED BY <1>6, <2>2 DEF EndsOK
<1>8. ASSUME NEW r \in Route, NEW q \in Proxy PROVE Passes(r, q) \/ Leaves(r, q)
  <2>1. r[1] \in Server /\ r[2] \in Server
    BY IndexBy
  <2>2. CASE r[1] = s
    <3>1. Goes(s, q, link'[s][q], out'[s][q])
      BY <1>2, <1>4
    <3> QED BY <1>6, <2>1, <2>2, <3>1, GoesLane
  <2>3. CASE r[1] # s
    <3>1. ThinUp(link[r[1]][q], link'[r[1]][q])
      BY <1>2, <2>1, <2>3, ThinSame
    <3>2. Held(r, q)' = Held(r, q) /\ Unsent(r, q)' = Unsent(r, q) /\ sent'[r][q] = sent[r][q]
          /\ got'[r][q] = got[r][q]
      BY <1>4, <2>1, <2>3 DEF Held, Unsent
    <3> QED BY <1>6, <2>1, <3>1, <3>2, ThinLane
  <2> QED BY <2>2, <2>3
<1> QED BY <1>5, <1>7, <1>8 DEF Steps

(* A server has only its own messages.                                     *)
LEMMA ForeignNone ==
    ASSUME NEW s, NEW q \in Stream(From(s)), NEW r \in Route, r[1] # s PROVE Nums(q, r) = {}
<1>1. \A i \in DOMAIN q : q[i] \in From(s) \cup {Part}
  BY DEF Stream
<1>2. Part.route # r
  BY RouteAssumption DEF Part
<1>3. \A i \in DOMAIN q : q[i].route # r
  BY <1>1, <1>2 DEF From
<1> QED BY <1>3 DEF Nums

(* What a server knows of one of its lanes.                                *)
LEMMA OwnLane ==
    ASSUME IInv, NEW s \in Server, NEW p \in Proxy, NEW r \in Route, r[1] = s
    PROVE  LET A == Nums(link[s][p][Newest(s, p)].up, r)
               O == Nums(out[s][p], r)
           IN  /\ Below(A, O) /\ sent[r][p] \in Nat
               /\ Below(A, {sent[r][p] + 1}) /\ Below(O, {sent[r][p] + 1})
<1> DEFINE i == Newest(s, p)
<1>1. LaneOK(r, p) /\ i \in DOMAIN Ups(r, p) /\ Ups(r, p)[i] = Nums(link[s][p][i].up, r)
      /\ Unsent(r, p) = Nums(out[s][p], r)
  <2>1. LaneOK(r, p)
    BY DEF IInv
  <2> QED BY <2>1, TheLinks DEF Ups, Unsent
<1>2. /\ \A x \in Ups(r, p)[i] \cup Unsent(r, p) : x \in Way(Downs(r, p), Held(r, p), Ups(r, p), Unsent(r, p))
      /\ Below(Ups(r, p)[i], Unsent(r, p)) /\ sent[r][p] \in Nat
  BY <1>1, WayHas DEF LaneOK, Sorted
<1>3. \A x \in Ups(r, p)[i] \cup Unsent(r, p) : x \in Nat /\ x <= sent[r][p]
  BY <1>1, <1>2 DEF LaneOK, Sorted
<1> QED BY <1>1, <1>2, <1>3 DEF Below

(* m is nothing, or the next message of one route of s by p.               *)
IsNext(s, p, m) ==
    /\ \A r \in Route :
          /\ Rising(m, r) /\ sent'[r][p] \in Nat
          /\ \/ Nums(m, r) = {} /\ sent'[r][p] = sent[r][p]
             \/ Nums(m, r) = {sent[r][p] + 1} /\ sent'[r][p] = sent[r][p] + 1 /\ r[1] = s
    /\ sent' \in [Route -> [Proxy -> Nat]]
    /\ \A r \in Route, q \in Proxy : q # p => sent'[r][q] = sent[r][q]

LEMMA SentFollows ==
    ASSUME IInv, NEW s \in Server, NEW p \in Proxy, NEW m, IsNext(s, p, m),
           NEW way, way = link[s][p][Newest(s, p)].up \/ way = << >>
    PROVE  Follows(way, out[s][p], m)
<1> SUFFICES ASSUME NEW r \in Route
             PROVE  /\ Below(Nums(way, r), Nums(out[s][p], r)) /\ Below(Nums(way, r), Nums(m, r))
                    /\ Below(Nums(out[s][p], r), Nums(m, r)) /\ Rising(m, r)
  BY DEF Follows
<1>1. Rising(m, r)
  BY DEF IsNext
<1>2. CASE r[1] = s
  <2>1. Nums(way, r) \subseteq Nums(link[s][p][Newest(s, p)].up, r)
    BY NumsOfNone
  <2>2. Nums(m, r) \subseteq {sent[r][p] + 1}
    BY DEF IsNext
  <2> QED BY <1>1, <1>2, <2>1, <2>2, OwnLane DEF Below
<1>3. CASE r[1] # s
  <2>1. way \in Stream(From(s)) /\ out[s][p] \in Stream(From(s))
    <3>1. LinksOK(s, link[s][p]) /\ BufferOK(From(s), out[s][p])
      BY DEF IInv
    <3>2. link[s][p][Newest(s, p)] \in LinkSet(s)
      BY <3>1, TheLinks DEF LinksOK
    <3>3. out[s][p] \in Seq(From(s))
      BY <3>1 DEF BufferOK
    <3>4. out[s][p] \in Stream(From(s))
      BY <3>3 DEF Stream
    <3> QED BY <3>2, <3>4, LinkParts
  <2>2. Nums(way, r) = {} /\ Nums(out[s][p], r) = {}
    BY <1>3, <2>1, ForeignNone
  <2> QED BY <1>1, <2>2 DEF Below
<1> QED BY <1>2, <1>3

(* The end is e, and becomes k when m is sent.                             *)
LEMMA SentBy ==
    ASSUME IInv, NEW s \in Server, NEW p \in Proxy, NEW m, IsNext(s, p, m),
           NEW e \in Socket(From(s)), NEW k \in Socket(From(s)),
           e.buf = out[s][p], e.way = ServerEnd(s, p).way, e.gone = ServerEnd(s, p).gone,
           Keeps(e, k), Flows(e, k, m), ServerBecomes(s, p, k), UNCHANGED <<run, reg, got>>
    PROVE  Steps
<1> DEFINE ls == link[s][p]
           G == [out[s] EXCEPT ![p] = k.buf]
<1>1. /\ left' \in [Kinds -> Nat] /\ sent' \in [Route -> [Proxy -> Nat]]
      /\ \A r \in Route, q \in Proxy : r[1] # s => sent'[r][q] = sent[r][q]
      /\ out' = [out EXCEPT ![s] = G] /\ G = [q \in Proxy |-> G[q]]
      /\ G[p] = k.buf /\ \A q \in Proxy : q # p => G[q] = out[s][q]
      /\ out \in [Server -> [Proxy -> Seq(Msg)]] /\ link \in [Server -> [Proxy -> Seq(AnyLink)]]
  <2>1. out \in [Server -> [Proxy -> Seq(Msg)]] /\ link \in [Server -> [Proxy -> Seq(AnyLink)]]
    BY DEF IInv, Shape
  <2>2. left' \in [Kinds -> Nat] /\ out' = [out EXCEPT ![s][p] = k.buf]
    BY DEF ServerBecomes, Socket
  <2>3. out' = [out EXCEPT ![s] = G] /\ G = [q \in Proxy |-> G[q]]
        /\ G[p] = k.buf /\ \A q \in Proxy : q # p => G[q] = out[s][q]
    BY <2>1, <2>2
  <2> HIDE DEF G
  <2> QED BY <2>1, <2>2, <2>3 DEF IsNext
<1>2. /\ LinksOK(s, ls) /\ BufferOK(From(s), out[s][p]) /\ Len(ls) \in DOMAIN ls
      /\ Newest(s, p) = Len(ls) /\ ls[Len(ls)] \in LinkSet(s)
  <2>1. LinksOK(s, ls) /\ Newest(s, p) = Len(ls)
    BY TheLinks
  <2>2. BufferOK(From(s), out[s][p])
    BY DEF IInv
  <2> HIDE DEF ls
  <2> QED BY <2>1, <2>2, LastLink
<1>3. e.way = ls[Newest(s, p)].up \/ e.way = << >>
  BY DEF ServerEnd
<1>4. Follows(e.way, e.buf, m)
  BY <1>3, SentFollows
<1>5. \A q \in Proxy : q # p => Goes(s, q, link[s][q], G[q])
  <2> SUFFICES ASSUME NEW q \in Proxy, q # p PROVE Goes(s, q, link[s][q], out[s][q])
    BY <1>1
  <2> QED BY GoesNot DEF IsNext
<1> HIDE DEF G
<1>6. \E F : LinksBecome(s, F) /\ Goes(s, p, F[p], k.buf) /\ \A q \in Proxy : q # p => F[q] = link[s][q]
  <2>1. CASE Connected(s, p)
    <3> DEFINE l2 == ServerLink(ls[Len(ls)], k)
               ls2 == [ls EXCEPT ![Len(ls)] = l2]
               F == [link[s] EXCEPT ![p] = ls2]
    <3>1. /\ LinksOK(s, ls2) /\ Opens(ls2) \subseteq Opens(ls)
          /\ Len(ls2) = Len(ls) /\ DOMAIN ls2 = DOMAIN ls /\ ThinDown(ls, ls2)
          /\ ls2[Len(ls)].up = k.way /\ \A j \in DOMAIN ls : j # Len(ls) => ls2[j] = ls[j]
          /\ BufferOK(From(s), k.buf)
          /\ \A r \in Route :
               /\ Below(Nums(k.way, r), Nums(k.buf, r))
               /\ Nums(k.way, r) \subseteq Nums(e.way, r) \cup Nums(e.buf, r) \cup Nums(m, r)
               /\ Nums(k.buf, r) \subseteq Nums(e.buf, r) \cup Nums(m, r)
      <4>1. /\ ls[Len(ls)].s = "open" /\ e.way = ls[Len(ls)].up
            /\ e.gone <=> ls[Len(ls)].p = "shut" \/ ls[Len(ls)].cut
        <5>1. ls[Newest(s, p)].s = "open"
          BY <2>1 DEF Connected
        <5>2. /\ ServerEnd(s, p).way = ls[Newest(s, p)].up
              /\ ServerEnd(s, p).gone <=> ls[Newest(s, p)].p = "shut" \/ ls[Newest(s, p)].cut
          BY <2>1 DEF ServerEnd
        <5> QED BY <1>2, <5>1, <5>2
      <4> QED BY <1>2, <1>4, <4>1, ServerSends
    <3>2. link' = [link EXCEPT ![s][p][Len(ls)] = l2]
      BY <1>2, <2>1 DEF ServerBecomes, ServerLink
    <3>3. link' = [link EXCEPT ![s][p] = ls2]
      <4> HIDE DEF l2
      <4> QED BY <1>2, <3>2, TheLinks
    <3> HIDE DEF ls2
    <3>4. LinksBecome(s, F) /\ F[p] = ls2 /\ \A q \in Proxy : q # p => F[q] = link[s][q]
      BY <1>1, <3>3 DEF LinksBecome
    <3>5. e.way = ls[Len(ls)].up
      BY <1>2, <2>1 DEF ServerEnd
    <3>6. ASSUME NEW r \in Route, r[1] = s
          PROVE  \E N : /\ \/ N = {} /\ sent'[r][p] = sent[r][p]
                           \/ N = {sent[r][p] + 1} /\ sent'[r][p] = sent[r][p] + 1
                        /\ Nums(ls2[Len(ls2)].up, r) \subseteq
                              (IF Len(ls2) \in DOMAIN ls THEN Nums(ls[Len(ls2)].up, r) ELSE {})
                              \cup Nums(out[s][p], r) \cup N
                        /\ Nums(k.buf, r) \subseteq Nums(out[s][p], r) \cup N
                        /\ Below(Nums(ls2[Len(ls2)].up, r), Nums(k.buf, r))
      <4>1. \/ Nums(m, r) = {} /\ sent'[r][p] = sent[r][p]
            \/ Nums(m, r) = {sent[r][p] + 1} /\ sent'[r][p] = sent[r][p] + 1
        BY DEF IsNext
      <4> QED BY <1>2, <3>1, <3>5, <4>1
    <3>7. Goes(s, p, ls2, k.buf)
      BY <1>2, <3>1, <3>6 DEF Goes
    <3> HIDE DEF F
    <3> QED BY <3>4, <3>7
  <2>2. CASE ~Connected(s, p)
    <3>1. link' = link /\ e.gone /\ e.way = << >> /\ k.way = << >>
      BY <2>2 DEF ServerBecomes, ServerEnd, Keeps
    <3>2. ASSUME NEW r \in Route
          PROVE  /\ Rising(k.buf, r)
                 /\ Nums(k.buf, r) \subseteq Nums(out[s][p], r) \cup Nums(m, r)
      <4>1. Rising(e.way, r) /\ Rising(e.buf, r)
        BY <1>2, <3>1, NumsOfNone DEF BufferOK, AllRising
      <4> QED BY <1>4, <4>1 DEF Flows, Follows
    <3>3. BufferOK(From(s), k.buf)
      BY <1>2, <3>2 DEF BufferOK, AllRising, Keeps, Socket
    <3>4. ASSUME NEW r \in Route, r[1] = s
          PROVE  \E N : /\ \/ N = {} /\ sent'[r][p] = sent[r][p]
                           \/ N = {sent[r][p] + 1} /\ sent'[r][p] = sent[r][p] + 1
                        /\ Nums(k.buf, r) \subseteq Nums(out[s][p], r) \cup N
                        /\ Below(Nums(ls[Len(ls)].up, r), Nums(k.buf, r))
      <4>1. \/ Nums(m, r) = {} /\ sent'[r][p] = sent[r][p]
            \/ Nums(m, r) = {sent[r][p] + 1} /\ sent'[r][p] = sent[r][p] + 1
        BY DEF IsNext
      <4>2. Below(Nums(ls[Len(ls)].up, r), Nums(k.buf, r))
        BY <1>2, <3>2, <3>4, <4>1, OwnLane DEF Below
      <4> QED BY <3>2, <4>1, <4>2
    <3>5. Goes(s, p, ls, k.buf)
      BY <1>2, <3>3, <3>4, ThinSame DEF Goes
    <3>6. LinksBecome(s, link[s])
      BY <1>1, <3>1 DEF LinksBecome
    <3> QED BY <3>5, <3>6
  <2> QED BY <2>1, <2>2
<1>7. PICK F : LinksBecome(s, F) /\ Goes(s, p, F[p], k.buf) /\ \A q \in Proxy : q # p => F[q] = link[s][q]
  BY <1>6
<1>8. \A q \in Proxy : Goes(s, q, F[q], G[q])
  BY <1>1, <1>5, <1>7
<1> QED BY <1>1, <1>7, <1>8, ServerSteps

LEMMA ServerEndIs ==
    ASSUME IInv, NEW s \in Server, NEW p \in Proxy
    PROVE  /\ ServerEnd(s, p) \in Socket(From(s)) /\ ServerEnd(s, p).buf = out[s][p]
           /\ ServerEnd(s, p).left = left /\ left \in [Kinds -> Nat]
<1>1. left \in [Kinds -> Nat] /\ out[s][p] \in Seq(From(s)) /\ << >> \in Stream(From(s))
  BY DEF IInv, Shape, BufferOK, Stream
<1>2. link[s][p][Newest(s, p)] \in LinkSet(s)
  BY TheLinks DEF LinksOK
<1>3. link[s][p][Newest(s, p)].up \in Stream(From(s)) /\ link[s][p][Newest(s, p)].cut \in BOOLEAN
  BY <1>2 DEF LinkSet
<1>4. CASE Connected(s, p)
  <2> DEFINE l == link[s][p][Newest(s, p)]
  <2>1. ServerEnd(s, p) = [open |-> TRUE, gone |-> l.p = "shut" \/ l.cut, way |-> l.up,
                           buf |-> out[s][p], left |-> left]
    BY <1>4 DEF ServerEnd
  <2> HIDE DEF l, Stream
  <2> QED BY <1>1, <1>3, <2>1 DEF Socket, l
<1>5. CASE ~Connected(s, p)
  <2>1. ServerEnd(s, p) = [open |-> FALSE, gone |-> TRUE, way |-> << >>, buf |-> out[s][p],
                           left |-> left]
    BY <1>5 DEF ServerEnd
  <2> HIDE DEF Stream
  <2> QED BY <1>1, <2>1 DEF Socket
<1> QED BY <1>4, <1>5

LEMMA SendSteps == ASSUME IInv, NEW r \in Route, NEW p \in Proxy, Send(r, p) PROVE Steps
<1> DEFINE s == r[1]
           m == [route |-> r, n |-> sent[r][p] + 1]
           e == [ServerEnd(s, p) EXCEPT !.left["send"] = @ - 1]
           e0 == ServerEnd(s, p)
<1>1. s \in Server
  BY IndexBy
<1>2. PICK k \in SendOneData(e, m) : ServerBecomes(s, p, k)
  BY DEF Send
<1>3. e \in Socket(From(s)) /\ e.buf = out[s][p] /\ e.way = e0.way /\ e.gone = e0.gone
  <2>1. e0 \in Socket(From(s)) /\ e0.buf = out[s][p] /\ e0.left = left /\ left \in [Kinds -> Nat]
    BY <1>1, ServerEndIs
  <2>2. [left EXCEPT !["send"] = @ - 1] \in [Kinds -> Nat]
    BY <2>1 DEF Send, Kinds
  <2>3. e = [e0 EXCEPT !.left = [left EXCEPT !["send"] = @ - 1]]
    BY <2>1 DEF Socket
  <2> HIDE DEF e, e0
  <2> QED BY <2>1, <2>2, <2>3 DEF Socket
<1> HIDE DEF e, e0
<1>4. m \in From(s) /\ sent \in [Route -> [Proxy -> Nat]]
  BY DEF From, Msg, IInv, Shape
<1>5. IsNext(s, p, <<m>>)
  <2>1. sent' = [sent EXCEPT ![r][p] = @ + 1]
    BY DEF Send
  <2>2. ASSUME NEW t \in Route
        PROVE  /\ Rising(<<m>>, t)
               /\ m.route = t => Nums(<<m>>, t) = {m.n}
               /\ m.route # t => Nums(<<m>>, t) = {}
    BY NumsOfOne
  <2>3. m.route = r /\ m.n = sent[r][p] + 1
    OBVIOUS
  <2> HIDE DEF m
  <2> QED BY <1>4, <2>1, <2>2, <2>3 DEF IsNext
<1> HIDE DEF m
<1>6. k \in Socket(From(s)) /\ Keeps(e, k) /\ Flows(e, k, <<m>>)
  BY <1>3, <1>4, SendIs
<1>7. UNCHANGED <<run, reg, got>>
  BY DEF Send
<1> QED BY <1>1, <1>2, <1>3, <1>5, <1>6, <1>7, SentBy DEF e0

LEMMA NoNext == ASSUME IInv, UNCHANGED sent, NEW s, NEW p \in Proxy PROVE IsNext(s, p, << >>)
BY NumsOfNone DEF IsNext, IInv, Shape

LEMMA SendProxyBufSteps == ASSUME IInv, NEW s \in Server, NEW p \in Proxy, SendProxyBuf(s, p) PROVE Steps
<1> DEFINE e == ServerEnd(s, p)
<1>1. PICK k \in SendBufData(e) : ServerBecomes(s, p, k)
  BY DEF SendProxyBuf
<1>2. e \in Socket(From(s)) /\ e.buf = out[s][p]
  BY ServerEndIs
<1>3. k \in Socket(From(s)) /\ Keeps(e, k) /\ Flows(e, k, << >>)
  BY <1>1, <1>2, SendBufIs
<1>4. UNCHANGED <<run, reg, got>> /\ IsNext(s, p, << >>)
  BY NoNext DEF SendProxyBuf
<1> QED BY <1>1, <1>2, <1>3, <1>4, SentBy

(* A server connects once more: w of its buffer is sent, b stays.          *)
LEMMA GoesMore ==
    ASSUME IInv, NEW s \in Server, NEW q \in Proxy, ~Connected(s, q),
           NEW w \in Stream(From(s)), AllRising(w), NEW b, BufferOK(From(s), b), UNCHANGED sent,
           \A r \in Route : /\ Nums(w, r) \subseteq Nums(out[s][q], r)
                            /\ Nums(b, r) \subseteq Nums(out[s][q], r)
                            /\ Below(Nums(w, r), Nums(b, r))
    PROVE  Goes(s, q, Append(link[s][q], [Fresh EXCEPT !.up = w]), b)
<1> DEFINE ls == link[s][q]
           ls2 == Append(ls, [Fresh EXCEPT !.up = w])
<1>1. /\ LinksOK(s, ls) /\ ls[Len(ls)].s = "closed" /\ Len(ls) \in Nat /\ DOMAIN ls = 1 .. Len(ls)
  <2>1. LinksOK(s, ls)
    BY DEF IInv
  <2>2. ls[Len(ls)] \in LinkSet(s)
    BY <2>1 DEF LinksOK
  <2> QED BY <2>1, <2>2 DEF Connected, Newest, LinksOK, LinkSet
<1>2. /\ LinksOK(s, ls2) /\ Opens(ls2) = Opens(ls)
      /\ DOMAIN ls2 = 1 .. Len(ls2) /\ Len(ls2) = Len(ls) + 1 /\ DOMAIN ls \subseteq DOMAIN ls2
      /\ ls2[Len(ls2)].up = w /\ ls2[Len(ls2)].down = << >>
      /\ \A j \in DOMAIN ls : ls2[j] = ls[j]
  BY <1>1, LinkMore
<1> HIDE DEF ls2
<1>3. /\ Len(ls2) \in DOMAIN ls2 /\ Len(ls2) \notin DOMAIN ls
      /\ \A j \in DOMAIN ls2 : j # Len(ls2) => j \in DOMAIN ls
  BY <1>1, <1>2
<1>4. ThinDown(ls, ls2)
  BY <1>1, <1>2, <1>3, MoreIsThin
<1>5. ASSUME NEW r \in Route
      PROVE  \E N : /\ \/ N = {} /\ sent'[r][q] = sent[r][q]
                       \/ N = {sent[r][q] + 1} /\ sent'[r][q] = sent[r][q] + 1
                    /\ Nums(ls2[Len(ls2)].up, r) \subseteq
                          (IF Len(ls2) \in DOMAIN ls THEN Nums(ls[Len(ls2)].up, r) ELSE {})
                          \cup Nums(out[s][q], r) \cup N
                    /\ Nums(b, r) \subseteq Nums(out[s][q], r) \cup N
                    /\ Below(Nums(ls2[Len(ls2)].up, r), Nums(b, r))
  <2>1. /\ Nums(ls2[Len(ls2)].up, r) \subseteq
              (IF Len(ls2) \in DOMAIN ls THEN Nums(ls[Len(ls2)].up, r) ELSE {})
              \cup Nums(out[s][q], r) \cup {}
        /\ Nums(b, r) \subseteq Nums(out[s][q], r) \cup {}
        /\ Below(Nums(ls2[Len(ls2)].up, r), Nums(b, r))
    BY <1>2
  <2> QED BY <2>1
<1>6. Goes(s, q, ls2, b)
  BY <1>2, <1>3, <1>4, <1>5 DEF Goes
<1> QED BY <1>6 DEF ls2

LEMMA CheckConnectSteps == ASSUME IInv, NEW s \in Server, CheckConnect(s) PROVE Steps
<1>1. PICK f \in Lost(s) :
         \E k \in SendBufData([open |-> TRUE, gone |-> FALSE, way |-> << >>,
                               buf |-> out[s][f], left |-> left]) :
            /\ left' = k.left
            /\ out' = [out EXCEPT ![s] = [p \in Proxy |-> IF p = f THEN k.buf
                                                          ELSE IF p \in Lost(s) THEN << >>
                                                          ELSE @[p]]]
            /\ link' = [link EXCEPT ![s] =
                          [p \in Proxy |->
                             IF p \notin Lost(s) THEN @[p]
                             ELSE Append(@[p], [Fresh EXCEPT !.up = IF p = f THEN k.way
                                                                    ELSE out[s][p]])]]
  BY DEF CheckConnect
<1> DEFINE e == [open |-> TRUE, gone |-> FALSE, way |-> << >>, buf |-> out[s][f], left |-> left]
<1>2. PICK k \in SendBufData(e) :
            /\ left' = k.left
            /\ out' = [out EXCEPT ![s] = [p \in Proxy |-> IF p = f THEN k.buf
                                                          ELSE IF p \in Lost(s) THEN << >>
                                                          ELSE @[p]]]
            /\ link' = [link EXCEPT ![s] =
                          [p \in Proxy |->
                             IF p \notin Lost(s) THEN @[p]
                             ELSE Append(@[p], [Fresh EXCEPT !.up = IF p = f THEN k.way
                                                                    ELSE out[s][p]])]]
  BY <1>1
<1>3. /\ f \in Proxy /\ \A q \in Lost(s) : q \in Proxy /\ ~Connected(s, q)
      /\ UNCHANGED <<run, reg, sent, got>>
  BY DEF Lost, CheckConnect, Proxy
<1>4. /\ left \in [Kinds -> Nat] /\ out \in [Server -> [Proxy -> Seq(Msg)]]
      /\ link \in [Server -> [Proxy -> Seq(AnyLink)]] /\ sent \in [Route -> [Proxy -> Nat]]
  BY DEF IInv, Shape
<1>5. /\ \A q \in Proxy : BufferOK(From(s), out[s][q])
      /\ << >> \in Stream(From(s)) /\ out[s][f] \in Seq(From(s))
  BY <1>3 DEF IInv, BufferOK, Stream
<1>6. /\ e \in Socket(From(s)) /\ e.way = << >> /\ e.buf = out[s][f]
  <2> HIDE DEF Stream
  <2> QED BY <1>4, <1>5 DEF Socket
<1> HIDE DEF e
<1>7. k \in Socket(From(s)) /\ Keeps(e, k) /\ Flows(e, k, << >>)
  BY <1>2, <1>6, SendBufIs
<1>8. ASSUME NEW r \in Route
      PROVE  /\ Rising(k.way, r) /\ Rising(k.buf, r)
             /\ Below(Nums(k.way, r), Nums(k.buf, r))
             /\ Nums(k.way, r) \subseteq Nums(out[s][f], r)
             /\ Nums(k.buf, r) \subseteq Nums(out[s][f], r)
  <2>1. Nums(<< >>, r) = {} /\ Rising(<< >>, r) /\ Rising(out[s][f], r)
    BY <1>3, <1>5, NumsOfNone DEF BufferOK, AllRising
  <2>2. /\ Rising(e.way, r) /\ Rising(e.buf, r) /\ Rising(<< >>, r)
        /\ Below(Nums(e.way, r), Nums(e.buf, r)) /\ Below(Nums(e.way, r), Nums(<< >>, r))
        /\ Below(Nums(e.buf, r), Nums(<< >>, r))
    BY <1>6, <2>1 DEF Below
  <2>3. /\ Rising(k.way, r) /\ Rising(k.buf, r)
        /\ Below(Nums(k.way, r), Nums(k.buf, r))
        /\ Nums(k.way, r) \subseteq Nums(e.way, r) \cup Nums(e.buf, r) \cup Nums(<< >>, r)
        /\ Nums(k.buf, r) \subseteq Nums(e.buf, r) \cup Nums(<< >>, r)
    BY <1>7, <2>2 DEF Flows
  <2> QED BY <1>6, <2>1, <2>3
<1> DEFINE w(q) == IF q = f THEN k.way ELSE out[s][q]
           b(q) == IF q = f THEN k.buf ELSE << >>
           G == [q \in Proxy |-> IF q \in Lost(s) THEN b(q) ELSE out[s][q]]
           F == [q \in Proxy |-> IF q \in Lost(s) THEN Append(link[s][q], [Fresh EXCEPT !.up = w(q)])
                                 ELSE link[s][q]]
<1>9. ASSUME NEW q \in Proxy
      PROVE  /\ w(q) \in Stream(From(s)) /\ AllRising(w(q)) /\ BufferOK(From(s), b(q))
             /\ \A r \in Route : /\ Nums(w(q), r) \subseteq Nums(out[s][q], r)
                                 /\ Nums(b(q), r) \subseteq Nums(out[s][q], r)
                                 /\ Below(Nums(w(q), r), Nums(b(q), r))
  <2>1. CASE q = f
    <3>1. w(q) = k.way /\ b(q) = k.buf
      BY <2>1
    <3> HIDE DEF w, b
    <3>2. k.way \in Stream(From(s)) /\ k.buf \in Seq(From(s)) /\ Len(k.buf) <= BufSize
      BY <1>5, <1>6, <1>7, <2>1 DEF Socket, Keeps, BufferOK
    <3>3. AllRising(k.way) /\ AllRising(k.buf)
      BY <1>8 DEF AllRising
    <3> QED BY <1>8, <2>1, <3>1, <3>2, <3>3 DEF BufferOK
  <2>2. CASE q # f
    <3>1. w(q) = out[s][q] /\ b(q) = << >>
      BY <2>2
    <3> HIDE DEF w, b
    <3>2. out[s][q] \in Seq(From(s)) /\ AllRising(out[s][q])
      BY <1>5 DEF BufferOK
    <3>3. out[s][q] \in Stream(From(s))
      BY <3>2 DEF Stream
    <3>4. BufferOK(From(s), << >>)
      BY NoneRise, SizeAssumption DEF BufferOK
    <3>5. \A r \in Route : Nums(b(q), r) = {}
      BY <3>1, NumsOfNone
    <3> QED BY <3>1, <3>2, <3>3, <3>4, <3>5 DEF Below
  <2> QED BY <2>1, <2>2
<1>10. out' = [out EXCEPT ![s] = G]
  <2>1. [p \in Proxy |-> IF p = f THEN k.buf ELSE IF p \in Lost(s) THEN << >> ELSE out[s][p]] = G
    OBVIOUS
  <2> HIDE DEF G
  <2> QED BY <1>2, <1>4, <2>1
<1>11. LinksBecome(s, F)
  <2>1. [p \in Proxy |-> IF p \notin Lost(s) THEN link[s][p]
                         ELSE Append(link[s][p], [Fresh EXCEPT !.up = IF p = f THEN k.way
                                                                      ELSE out[s][p]])] = F
    OBVIOUS
  <2>2. F = [q \in Proxy |-> F[q]]
    OBVIOUS
  <2> HIDE DEF F
  <2> QED BY <1>2, <1>4, <2>1, <2>2 DEF LinksBecome
<1>12. ASSUME NEW q \in Proxy PROVE Goes(s, q, F[q], G[q])
  <2>1. CASE q \in Lost(s)
    <3>1. Goes(s, q, Append(link[s][q], [Fresh EXCEPT !.up = w(q)]), b(q))
      <4> HIDE DEF w, b
      <4> QED BY <1>3, <1>9, <2>1, GoesMore
    <3> QED BY <2>1, <3>1
  <2>2. CASE q \notin Lost(s)
    <3>1. Goes(s, q, link[s][q], out[s][q])
      BY <1>3, GoesNot
    <3> QED BY <2>2, <3>1
  <2> QED BY <2>1, <2>2
<1>13. left' \in [Kinds -> Nat]
  BY <1>2, <1>7 DEF Socket
<1>14. G = [q \in Proxy |-> G[q]]
  OBVIOUS
<1> HIDE DEF F, G, w, b
<1> QED BY <1>3, <1>4, <1>10, <1>11, <1>12, <1>13, <1>14, ServerSteps

(* The addressee takes a message, or its queue is full.                    *)
LEMMA DeliverSteps == ASSUME IInv, NEW s \in Server, NEW p \in Proxy, Deliver(s, p) PROVE Steps
<1> DEFINE ls == link[s][p]
           m == Head(ls[Len(ls)].down)
           ls2 == [ls EXCEPT ![Len(ls)].down = Tail(@)]
<1>1. /\ LinksOK(s, ls) /\ Len(ls) \in DOMAIN ls /\ Newest(s, p) = Len(ls)
      /\ ls[Len(ls)] \in LinkSet(s) /\ AllRising(ls[Len(ls)].down)
      /\ ls[Len(ls)].down \in Stream(To(s))
  <2>1. LinksOK(s, ls) /\ Len(ls) \in DOMAIN ls /\ Newest(s, p) = Len(ls)
    BY TheLinks
  <2>2. ls[Len(ls)] \in LinkSet(s) /\ AllRising(ls[Len(ls)].down)
    BY <2>1 DEF LinksOK
  <2> QED BY <2>1, <2>2, LinkParts
<1>2. /\ ls[Len(ls)].down # << >> /\ m # Part
      /\ link' = [link EXCEPT ![s][p][Len(ls)].down = Tail(@)]
      /\ UNCHANGED <<run, out, reg, sent>>
      /\ \/ got' = [got EXCEPT ![m.route][p] = m.n] /\ UNCHANGED left
         \/ Spend("full") /\ UNCHANGED got
  BY <1>1 DEF Deliver, Readable
<1>3. /\ m \in To(s)
      /\ \A r \in Route : /\ Nums(ls[Len(ls)].down, r)
                                = Nums(<<m>>, r) \cup Nums(Tail(ls[Len(ls)].down), r)
                          /\ Below(Nums(<<m>>, r), Nums(Tail(ls[Len(ls)].down), r))
  BY <1>1, <1>2, RisingTail
<1>4. /\ LinksOK(s, ls2) /\ Opens(ls2) = Opens(ls)
      /\ Len(ls2) = Len(ls) /\ DOMAIN ls2 = DOMAIN ls
      /\ ls2[Len(ls)].down = Tail(ls[Len(ls)].down)
      /\ \A j \in DOMAIN ls : ls2[j].up = ls[j].up
  BY <1>1, <1>2, DownRead
<1>5. LinkBecomes(s, p, ls2)
  BY <1>2 DEF IInv, Shape, LinkBecomes
<1> HIDE DEF ls2
<1>6. ThinUp(ls, ls2) /\ ThinDown(ls, ls2)
  BY <1>3, <1>4 DEF ThinUp, ThinDown
<1>7. CASE Spend("full") /\ UNCHANGED got
  <2>1. left' \in [Kinds -> Nat]
    BY <1>7, Spent DEF Kinds
  <2> QED BY <1>2, <1>4, <1>5, <1>6, <1>7, <2>1, TheLinks, LosesAt
<1>8. CASE got' = [got EXCEPT ![m.route][p] = m.n] /\ UNCHANGED left
  <2>1. m.route \in Route /\ m.n \in Nat /\ m.route[2] = s
    BY <1>3 DEF To, Msg
  <2>2. Shape
    BY DEF IInv
  <2>3. /\ link' \in [Server -> [Proxy -> Seq(AnyLink)]] /\ link'[s][p] = ls2
        /\ \A t \in Server, q \in Proxy : t # s \/ q # p => link'[t][q] = link[t][q]
    BY <1>4, <1>5, <2>2, LinkAt
  <2>4. /\ got' \in [Route -> [Proxy -> Nat]] /\ got'[m.route][p] = m.n
        /\ \A r \in Route, q \in Proxy : r # m.route \/ q # p => got'[r][q] = got[r][q]
    BY <1>8, <2>1, <2>2 DEF Shape
  <2>5. Shape'
    BY <1>2, <1>8, <2>2, <2>3, <2>4 DEF Shape
  <2>6. ASSUME NEW t \in Server, NEW q \in Proxy
        PROVE  /\ EndsOK(t, q)'
               /\ ThinUp(link[t][q], link'[t][q]) /\ ThinDown(link[t][q], link'[t][q])
    <3>1. /\ LinksOK(t, link'[t][q]) /\ Opens(link'[t][q]) = Opens(link[t][q])
          /\ ThinUp(link[t][q], link'[t][q]) /\ ThinDown(link[t][q], link'[t][q])
      <4>1. CASE t = s /\ q = p
        BY <1>4, <1>6, <2>3, <4>1
      <4>2. CASE t # s \/ q # p
        BY <2>3, <4>2, ThinSame DEF IInv
      <4> QED BY <4>1, <4>2
    <3>2. BufferOK(From(t), out[t][q]) /\ RegOK(q, t)
      BY DEF IInv
    <3>3. BufferOK(From(t), out'[t][q]) /\ RegOK(q, t)'
      BY <1>2, <3>1, <3>2, Opened DEF RegOK
    <3> QED BY <3>1, <3>3 DEF EndsOK
  <2>7. ASSUME NEW r \in Route, NEW q \in Proxy, r # m.route \/ q # p PROVE Passes(r, q)
    <3>1. r[1] \in Server /\ r[2] \in Server
      BY IndexBy
    <3>2. Held(r, q)' = Held(r, q) /\ Unsent(r, q)' = Unsent(r, q)
      BY <1>2 DEF Held, Unsent
    <3>3. sent'[r][q] = sent[r][q] /\ got'[r][q] = got[r][q]
      BY <1>2, <2>4, <2>7
    <3> QED BY <2>6, <3>1, <3>2, <3>3, ThinLane
  <2>8. ASSUME NEW r \in Route, r = m.route PROVE Comes(r, p)
    <3>1. Nums(<<m>>, r) = {m.n}
      BY <2>8, NumsOfOne
    <3>2. Downs(r, p) = Nums(ls[Len(ls)].down, r) /\ Downs(r, p)' = Nums(Tail(ls[Len(ls)].down), r)
      BY <1>4, <2>1, <2>3, <2>8 DEF Downs, Newest
    <3>3. Downs(r, p) = {m.n} \cup Downs(r, p)' /\ Below({m.n}, Downs(r, p)')
      BY <1>3, <3>1, <3>2
    <3>4. Held(r, p)' = Held(r, p) /\ Unsent(r, p)' = Unsent(r, p)
      BY <1>2 DEF Held, Unsent
    <3>5. /\ DOMAIN link'[r[1]][p] = DOMAIN link[r[1]][p]
          /\ \A j \in DOMAIN link[r[1]][p] : link'[r[1]][p][j].up = link[r[1]][p][j].up
      <4>1. r[1] \in Server
        BY IndexBy
      <4> QED BY <1>4, <2>3, <4>1
    <3>6. Ups(r, p)' = Ups(r, p)
      BY <3>5 DEF Ups, Links
    <3> QED BY <1>2, <2>4, <2>8, <3>3, <3>4, <3>6 DEF Comes
  <2> QED BY <2>5, <2>6, <2>7, <2>8 DEF Steps
<1> QED BY <1>2, <1>7, <1>8

(* What a proxy does to the messages of a lane, M from a connection.       *)
Relays(r, p) ==
    \E M : /\ \/ M = {}
              \/ \E i \in Links(r[1], p) :
                    /\ M \subseteq Nums(link[r[1]][p][i].up, r)
                    /\ Below(M, Nums(link'[r[1]][p][i].up, r))
                    /\ \A j \in Links(r[1], p) : j < i => Nums(link[r[1]][p][j].up, r) = {}
           /\ Downs(r, p)' \subseteq Downs(r, p) \cup Held(r, p) \cup M
           /\ Held(r, p)' \subseteq Held(r, p) \cup M
           /\ Below(Downs(r, p)', Held(r, p)')

LEMMA RelaysPass ==
    ASSUME NEW r \in Route, NEW p \in Proxy, Relays(r, p), UNCHANGED <<out, sent, got>>,
           ThinUp(link[r[1]][p], link'[r[1]][p])
    PROVE  Passes(r, p)
<1> DEFINE U == Ups(r, p)
           V == Ups(r, p)'
<1>1. ThinUps(U, V) /\ Unsent(r, p)' \subseteq Unsent(r, p)
  BY DEF ThinUps, ThinUp, Ups, Links, Unsent
<1>2. PICK M : /\ \/ M = {}
                  \/ \E i \in Links(r[1], p) :
                        /\ M \subseteq Nums(link[r[1]][p][i].up, r)
                        /\ Below(M, Nums(link'[r[1]][p][i].up, r))
                        /\ \A j \in Links(r[1], p) : j < i => Nums(link[r[1]][p][j].up, r) = {}
               /\ Downs(r, p)' \subseteq Downs(r, p) \cup Held(r, p) \cup M
               /\ Held(r, p)' \subseteq Held(r, p) \cup M
               /\ Below(Downs(r, p)', Held(r, p)')
  BY DEF Relays
<1>3. /\ DOMAIN U = Links(r[1], p) /\ \A i \in DOMAIN U : U[i] = Nums(link[r[1]][p][i].up, r)
      /\ DOMAIN V = Links(r[1], p)' /\ \A i \in DOMAIN V : V[i] = Nums(link'[r[1]][p][i].up, r)
  BY DEF Ups, Links
<1>4. DOMAIN U \subseteq DOMAIN V
  BY <1>1 DEF ThinUps
<1> HIDE DEF U, V
<1>5. \/ M = {}
      \/ \E i \in DOMAIN U : /\ M \subseteq U[i] /\ Below(M, V[i])
                             /\ \A j \in DOMAIN U : j < i => U[j] = {}
  BY <1>2, <1>3, <1>4
<1>6. ProxyMoves(Downs(r, p), Held(r, p), U, Unsent(r, p),
                 Downs(r, p)', Held(r, p)', V, Unsent(r, p)')
  BY <1>1, <1>2, <1>5 DEF ProxyMoves
<1> QED BY <1>6 DEF Passes, U, V

(* A proxy acts.                                                           *)
LEMMA ProxySteps ==
    ASSUME IInv, UNCHANGED <<run, out, sent, got>>, left' \in [Kinds -> Nat], NEW p \in Proxy,
           link' \in [Server -> [Proxy -> Seq(AnyLink)]],
           reg' \in [Proxy -> [Server -> [known : BOOLEAN, buf : Seq(Msg)]]],
           \A t \in Server, q \in Proxy : q # p => link'[t][q] = link[t][q] /\ reg'[q][t] = reg[q][t],
           \A t \in Server : LinksOK(t, link'[t][p]) /\ RegOK(p, t)'
                             /\ ThinUp(link[t][p], link'[t][p]),
           \A r \in Route : Relays(r, p)
    PROVE  Steps
<1>1. Shape'
  BY DEF IInv, Shape
<1>2. ASSUME NEW t \in Server, NEW q \in Proxy PROVE EndsOK(t, q)'
  <2>1. CASE q = p
    BY <2>1 DEF IInv, EndsOK
  <2>2. CASE q # p
    <3>1. LinksOK(t, link[t][q]) /\ BufferOK(From(t), out[t][q]) /\ RegOK(q, t)
      BY DEF IInv
    <3>2. link'[t][q] = link[t][q] /\ reg'[q][t] = reg[q][t]
      BY <2>2
    <3> QED BY <3>1, <3>2, Opened DEF EndsOK, RegOK
  <2> QED BY <2>1, <2>2
<1>3. ASSUME NEW r \in Route, NEW q \in Proxy PROVE Passes(r, q)
  <2>1. r[1] \in Server /\ r[2] \in Server
    BY IndexBy
  <2>2. CASE q = p
    BY <2>1, <2>2, RelaysPass
  <2>3. CASE q # p
    <3>1. link'[r[1]][q] = link[r[1]][q] /\ link'[r[2]][q] = link[r[2]][q]
          /\ reg'[q][r[2]] = reg[q][r[2]]
      BY <2>1, <2>3
    <3>2. Held(r, q)' = Held(r, q) /\ Unsent(r, q)' = Unsent(r, q)
      BY <3>1 DEF Held, Unsent
    <3> QED BY <3>1, <3>2, ThinSame, ThinLane
  <2> QED BY <2>2, <2>3
<1> QED BY <1>1, <1>2, <1>3 DEF Steps

(* A server gets only its own messages.                                    *)
LEMMA ForeignDown ==
    ASSUME NEW s, NEW q \in Stream(To(s)), NEW r \in Route, r[2] # s PROVE Nums(q, r) = {}
<1>1. \A i \in DOMAIN q : q[i] \in To(s) \cup {Part}
  BY DEF Stream
<1>2. Part.route # r
  BY RouteAssumption DEF Part
<1>3. \A i \in DOMAIN q : q[i].route # r
  BY <1>1, <1>2 DEF To
<1> QED BY <1>3 DEF Nums

(* What a proxy knows of a server's lanes.                                 *)
LEMMA DownLane ==
    ASSUME IInv, NEW s \in Server, NEW p \in Proxy, NEW r \in Route
    PROVE  LET D == Nums(link[s][p][Newest(s, p)].down, r)
               B == Nums(reg[p][s].buf, r)
           IN  /\ Below(D, B) /\ Newest(s, p) = Len(link[s][p])
               /\ r[2] = s => Downs(r, p) = D /\ Held(r, p) = B
               /\ r[2] # s => D = {} /\ B = {}
<1>1. /\ LinksOK(s, link[s][p]) /\ BufferOK(To(s), reg[p][s].buf)
      /\ Newest(s, p) \in DOMAIN link[s][p] /\ Newest(s, p) = Len(link[s][p])
  BY TheLinks DEF IInv, RegOK
<1>2. CASE r[2] = s
  <2>1. LaneOK(r, p)
    BY DEF IInv
  <2> QED BY <1>1, <1>2, <2>1 DEF LaneOK, Sorted, Downs, Held
<1>3. CASE r[2] # s
  <2>1. link[s][p][Newest(s, p)].down \in Stream(To(s))
    <3>1. link[s][p][Newest(s, p)] \in LinkSet(s)
      BY <1>1 DEF LinksOK
    <3> QED BY <3>1, LinkParts
  <2>2. reg[p][s].buf \in Stream(To(s))
    <3>1. reg[p][s].buf \in Seq(To(s))
      BY <1>1 DEF BufferOK
    <3> QED BY <3>1 DEF Stream
  <2>3. Nums(link[s][p][Newest(s, p)].down, r) = {} /\ Nums(reg[p][s].buf, r) = {}
    BY <1>3, <2>1, <2>2, ForeignDown
  <2> QED BY <1>1, <1>3, <2>3 DEF Below
<1> QED BY <1>2, <1>3

LEMMA RelaysNot ==
    ASSUME IInv, NEW r \in Route, NEW p \in Proxy, Downs(r, p)' = Downs(r, p), Held(r, p)' = Held(r, p)
    PROVE  Relays(r, p)
<1>1. Below(Downs(r, p), Held(r, p))
  BY DEF IInv, LaneOK, Sorted
<1>2. Downs(r, p)' \subseteq Downs(r, p) \cup Held(r, p) \cup {}
      /\ Held(r, p)' \subseteq Held(r, p) \cup {} /\ Below(Downs(r, p)', Held(r, p)')
  BY <1>1
<1> QED BY <1>2 DEF Relays

(* The registration of d at p has the buffer b.                            *)
RegBecomes(p, d, b) == reg' = [reg EXCEPT ![p][d] = [known |-> TRUE, buf |-> b]]

LEMMA RegAt ==
    ASSUME IInv, NEW d \in Server, NEW p \in Proxy, NEW b, BufferOK(To(d), b),
           RegBecomes(p, d, b)
    PROVE  /\ reg' \in [Proxy -> [Server -> [known : BOOLEAN, buf : Seq(Msg)]]]
           /\ reg'[p][d].known = TRUE /\ reg'[p][d].buf = b
           /\ \A q \in Proxy, t \in Server : q # p \/ t # d => reg'[q][t] = reg[q][t]
<1>1. b \in Seq(Msg)
  <2>1. b \in Seq(To(d)) /\ To(d) \subseteq Msg
    BY DEF BufferOK, To
  <2> QED BY <2>1
<1> DEFINE v == [known |-> TRUE, buf |-> b]
<1>2. v \in [known : BOOLEAN, buf : Seq(Msg)]
  BY <1>1
<1> HIDE DEF v
<1>3. /\ reg' \in [Proxy -> [Server -> [known : BOOLEAN, buf : Seq(Msg)]]] /\ reg'[p][d] = v
      /\ \A q \in Proxy, t \in Server : q # p \/ t # d => reg'[q][t] = reg[q][t]
  BY <1>2 DEF IInv, Shape, v, RegBecomes
<1> QED BY <1>3 DEF v

(* The buffer goes by a connection, which the proxy may have opened now:   *)
(* the connections were made ls.                                           *)
LEMMA BufferGoes ==
    ASSUME IInv, NEW s \in Server, NEW p \in Proxy,
           NEW ls, LinksOK(s, ls), Len(ls) = Len(link[s][p]), ThinUp(link[s][p], ls),
           ls[Len(ls)].down = link[s][p][Len(ls)].down,
           NEW i \in Opens(ls), NEW e \in Socket(To(s)), NEW k \in SendBufData(e),
           e.gone <=> ls[i].s = "closed" \/ ls[i].cut,
           e.way = ls[i].down, e.buf = reg[p][s].buf,
           UNCHANGED <<run, out, sent, got>>, left' = k.left,
           RegBecomes(p, s, k.buf),
           LinkBecomes(s, p, [ls EXCEPT ![i] = ProxyLink(ls[i], k)])
    PROVE  Steps
<1> DEFINE ls2 == [ls EXCEPT ![i] = ProxyLink(ls[i], k)]
<1>1. k \in Socket(To(s)) /\ Keeps(e, k) /\ Flows(e, k, << >>)
  BY SendBufIs
<1>2. BufferOK(To(s), e.buf)
  BY DEF IInv, RegOK
<1>3. Follows(ls[Len(ls)].down, e.buf, << >>)
  <2> SUFFICES ASSUME NEW r \in Route
               PROVE  Below(Nums(ls[Len(ls)].down, r), Nums(e.buf, r))
    BY NumsOfNone DEF Follows, Below
  <2> QED BY DownLane
<1>4. /\ LinksOK(s, ls2) /\ Opens(ls2) \subseteq Opens(ls)
      /\ Len(ls2) = Len(ls) /\ ThinUp(ls, ls2)
      /\ BufferOK(To(s), k.buf)
      /\ \A r \in Route :
           LET D == Nums(ls[Len(ls)].down, r)
               E == Nums(ls2[Len(ls)].down, r)
           IN  /\ Below(E, Nums(k.buf, r))
               /\ E \subseteq D \cup Nums(e.buf, r) \cup Nums(<< >>, r)
               /\ Nums(k.buf, r) \subseteq Nums(e.buf, r) \cup Nums(<< >>, r)
  <2>1. ProxySent(s, ls, ls2, e, k, << >>)
    BY <1>1, <1>2, <1>3, ProxySends
  <2> HIDE DEF ls2
  <2> QED BY <2>1 DEF ProxySent
<1> HIDE DEF ls2
<1>5. /\ link' \in [Server -> [Proxy -> Seq(AnyLink)]] /\ link'[s][p] = ls2
      /\ \A t \in Server, q \in Proxy : t # s \/ q # p => link'[t][q] = link[t][q]
  <2>1. Shape /\ LinkBecomes(s, p, ls2)
    BY DEF IInv, ls2
  <2> QED BY <1>4, <2>1, LinkAt
<1>6. /\ reg' \in [Proxy -> [Server -> [known : BOOLEAN, buf : Seq(Msg)]]]
      /\ reg'[p][s].known = TRUE /\ reg'[p][s].buf = k.buf
      /\ \A q \in Proxy, t \in Server : q # p \/ t # s => reg'[q][t] = reg[q][t]
  BY <1>4, RegAt
<1>7. ASSUME NEW t \in Server
      PROVE  LinksOK(t, link'[t][p]) /\ RegOK(p, t)' /\ ThinUp(link[t][p], link'[t][p])
  <2>1. CASE t = s
    <3>1. RegOK(p, s)'
      BY <1>4, <1>6 DEF RegOK
    <3> QED BY <1>4, <1>5, <2>1, <3>1, ThinUpOn
  <2>2. CASE t # s
    <3>1. link'[t][p] = link[t][p] /\ reg'[p][t] = reg[p][t]
      BY <1>5, <1>6, <2>2
    <3>2. LinksOK(t, link[t][p]) /\ RegOK(p, t)
      BY DEF IInv
    <3> QED BY <3>1, <3>2, ThinSame, Opened DEF RegOK
  <2> QED BY <2>1, <2>2
<1>8. ASSUME NEW r \in Route PROVE Relays(r, p)
  <2>1. r[2] \in Server
    BY IndexBy
  <2>2. CASE r[2] = s
    <3>1. Downs(r, p) = Nums(ls[Len(ls)].down, r) /\ Held(r, p) = Nums(e.buf, r)
      BY <2>2, DownLane
    <3>2. Downs(r, p)' = Nums(ls2[Len(ls)].down, r) /\ Held(r, p)' = Nums(k.buf, r)
      BY <1>4, <1>5, <1>6, <2>2 DEF Downs, Held, Newest
    <3>3. Nums(<< >>, r) = {}
      BY NumsOfNone
    <3>4. /\ Downs(r, p)' \subseteq Downs(r, p) \cup Held(r, p) \cup {}
          /\ Held(r, p)' \subseteq Held(r, p) \cup {}
          /\ Below(Downs(r, p)', Held(r, p)')
      BY <1>4, <3>1, <3>2, <3>3
    <3> QED BY <3>4 DEF Relays
  <2>3. CASE r[2] # s
    <3>1. link'[r[2]][p] = link[r[2]][p] /\ reg'[p][r[2]] = reg[p][r[2]]
      BY <1>5, <1>6, <2>1, <2>3
    <3>2. Downs(r, p)' = Downs(r, p) /\ Held(r, p)' = Held(r, p)
      BY <3>1 DEF Downs, Held, Newest
    <3> QED BY <3>2, RelaysNot
  <2> QED BY <2>2, <2>3
<1>9. left' \in [Kinds -> Nat]
  BY <1>1 DEF Socket
<1>10. \A t \in Server, q \in Proxy : q # p => link'[t][q] = link[t][q] /\ reg'[q][t] = reg[q][t]
  BY <1>5, <1>6
<1> QED BY <1>5, <1>6, <1>7, <1>8, <1>9, <1>10, ProxySteps

LEMMA ProxyEndIs ==
    ASSUME IInv, NEW s \in Server, NEW l \in LinkSet(s), NEW b \in Seq(To(s))
    PROVE  /\ ProxyEnd(l, b) \in Socket(To(s))
           /\ ProxyEnd(l, b).gone <=> l.s = "closed" \/ l.cut
           /\ ProxyEnd(l, b).way = l.down /\ ProxyEnd(l, b).buf = b
<1>1. left \in [Kinds -> Nat] /\ l.down \in Stream(To(s)) /\ l.cut \in BOOLEAN
  BY DEF IInv, Shape, LinkSet
<1> HIDE DEF Stream
<1> QED BY <1>1 DEF ProxyEnd, Socket

LEMMA SendServerBufSteps ==
    ASSUME IInv, NEW s \in Server, NEW p \in Proxy, SendServerBuf(p, s) PROVE Steps
<1> DEFINE ls == link[s][p]
<1>1. PICK i \in OpenLinks(p, s) : \E k \in SendBufData(ProxyEnd(ls[i], reg[p][s].buf)) :
            /\ left' = k.left
            /\ reg' = [reg EXCEPT ![p][s].buf = k.buf]
            /\ link' = [link EXCEPT ![s][p][i] = ProxyLink(@, k)]
  BY DEF SendServerBuf
<1> DEFINE e == ProxyEnd(ls[i], reg[p][s].buf)
<1>2. PICK k \in SendBufData(e) :
            /\ left' = k.left
            /\ reg' = [reg EXCEPT ![p][s].buf = k.buf]
            /\ link' = [link EXCEPT ![s][p][i] = ProxyLink(@, k)]
  BY <1>1
<1>3. /\ i \in Links(s, p) /\ i \in Opens(ls) /\ LinksOK(s, ls) /\ ls[i] \in LinkSet(s)
      /\ reg[p][s].known = TRUE /\ reg[p][s].buf \in Seq(To(s))
      /\ reg \in [Proxy -> [Server -> [known : BOOLEAN, buf : Seq(Msg)]]]
  <2>1. i \in Links(s, p) /\ i \in Opens(ls)
    BY Opened DEF OpenLinks
  <2>2. LinksOK(s, ls) /\ RegOK(p, s)
    BY DEF IInv
  <2>3. i \in DOMAIN ls /\ ls[i] \in LinkSet(s)
    BY <2>1, <2>2, LastLink DEF Links
  <2>4. reg \in [Proxy -> [Server -> [known : BOOLEAN, buf : Seq(Msg)]]]
    BY DEF IInv, Shape
  <2>5. reg[p][s].known = TRUE /\ reg[p][s].buf \in Seq(To(s))
    BY <2>2 DEF RegOK, BufferOK
  <2> QED BY <2>1, <2>2, <2>3, <2>4, <2>5
<1>4. /\ e \in Socket(To(s)) /\ (e.gone <=> ls[i].s = "closed" \/ ls[i].cut)
      /\ e.way = ls[i].down /\ e.buf = reg[p][s].buf
  BY <1>3, ProxyEndIs
<1> HIDE DEF e
<1>5. RegBecomes(p, s, k.buf)
  <2>0. reg[p][s] \in [known : BOOLEAN, buf : Seq(Msg)]
    BY <1>3
  <2>1. [reg[p][s] EXCEPT !.buf = k.buf] = [known |-> reg[p][s].known, buf |-> k.buf]
    BY <2>0
  <2>2. [known |-> reg[p][s].known, buf |-> k.buf] = [known |-> TRUE, buf |-> k.buf]
    BY <1>3
  <2> QED BY <1>2, <1>3, <2>1, <2>2 DEF RegBecomes
<1>6. LinkBecomes(s, p, [ls EXCEPT ![i] = ProxyLink(ls[i], k)])
  BY <1>2, <1>3, TheLinks DEF IInv, Shape, LinkBecomes
<1>7. UNCHANGED <<run, out, sent, got>>
  BY DEF SendServerBuf
<1>8. k \in SendBufData(e) /\ left' = k.left /\ ThinUp(ls, ls)
  BY <1>2, ThinSame
<1> QED BY <1>3, <1>4, <1>5, <1>6, <1>7, <1>8, BufferGoes

(* What Accept does to the connection i.                                   *)
Accepted(p, s, i) ==
    LET l == link[s][p][i]
    IN  \/ /\ link' = [link EXCEPT ![s][p][i] = ProxyClosed(l)]
           /\ UNCHANGED <<left, reg>>
        \/ /\ Spend("late")
           /\ link' = [link EXCEPT ![s][p][i] = ProxyClosed(l)]
           /\ UNCHANGED reg
        \/ \E k \in SendBufData(ProxyEnd(l, Inherited(p, s))) :
              /\ left' = k.left
              /\ reg' = [reg EXCEPT ![p][s] = [known |-> TRUE, buf |-> k.buf]]
              /\ link' = [link EXCEPT ![s][p] =
                    [j \in Links(s, p) |-> IF j < i THEN ProxyClosed(@[j])
                                           ELSE IF j = i
                                           THEN ProxyLink([l EXCEPT !.p = "open"], k)
                                           ELSE @[j]]]

LEMMA AcceptSteps == ASSUME IInv, NEW s \in Server, NEW p \in Proxy, Accept(p, s) PROVE Steps
<1>0. PICK i \in Waiting(p, s) : (\A h \in Waiting(p, s) : i <= h) /\ Accepted(p, s, i)
  BY DEF Accept, Accepted
<1> DEFINE ls == link[s][p]
           l == ls[i]
<1>1. LinksOK(s, ls) /\ Links(s, p) = DOMAIN ls /\ Waiting(p, s) \subseteq DOMAIN ls
      /\ UNCHANGED <<run, out, sent, got>>
  BY TheLinks DEF Waiting, Accept
<1>3. i \in DOMAIN ls /\ ls[i].p = "wait" /\ \A j \in DOMAIN ls : ls[j].p = "wait" => i <= j
  BY <1>0, <1>1 DEF Waiting
<1>4. CASE /\ link' = [link EXCEPT ![s][p][i] = ProxyClosed(l)]
           /\ UNCHANGED <<left, reg>>
  <2>1. left' \in [Kinds -> Nat]
    BY <1>4 DEF IInv, Shape
  <2> QED BY <1>1, <1>3, <1>4, <2>1, ProxyCloses
<1>5. CASE /\ Spend("late")
           /\ link' = [link EXCEPT ![s][p][i] = ProxyClosed(l)]
           /\ UNCHANGED reg
  <2>1. left' \in [Kinds -> Nat]
    BY <1>5, Spent DEF Kinds
  <2> QED BY <1>1, <1>3, <1>5, <2>1, ProxyCloses
<1>6. ASSUME NEW k \in SendBufData(ProxyEnd(l, Inherited(p, s))),
             left' = k.left,
             reg' = [reg EXCEPT ![p][s] = [known |-> TRUE, buf |-> k.buf]],
             link' = [link EXCEPT ![s][p] =
                          [j \in Links(s, p) |-> IF j < i THEN ProxyClosed(@[j])
                                                 ELSE IF j = i
                                                 THEN ProxyLink([l EXCEPT !.p = "open"], k)
                                                 ELSE @[j]]]
      PROVE  Steps
  <2> DEFINE ls1 == Registered(ls, i)
             e == ProxyEnd(l, Inherited(p, s))
             ls2 == [ls1 EXCEPT ![i] = ProxyLink(ls1[i], k)]
  <2>0. DOMAIN ls1 = DOMAIN ls
    BY DEF Registered
  <2>1. link' = [link EXCEPT ![s][p] =
                          [j \in DOMAIN ls |-> IF j < i THEN ProxyClosed(ls[j])
                                                 ELSE IF j = i
                                                 THEN ProxyLink([l EXCEPT !.p = "open"], k)
                                                 ELSE ls[j]]]
    <3> QED BY <1>1, <1>6 DEF IInv, Shape
  <2>2. /\ LinksOK(s, ls1) /\ i \in Opens(ls1)
        /\ Len(ls1) = Len(ls) /\ ThinUp(ls, ls1)
        /\ ls1[i] = [ls[i] EXCEPT !.p = "open"]
        /\ ls1[Len(ls)].down = ls[Len(ls)].down
    BY <1>1, <1>3, RegisteredIs
  <2>3. [j \in DOMAIN ls |-> IF j < i THEN ProxyClosed(ls[j])
                             ELSE IF j = i THEN ProxyLink([l EXCEPT !.p = "open"], k)
                             ELSE ls[j]] = ls2
    <3>1. \A j \in DOMAIN ls : j \in Nat
      BY <1>1 DEF LinksOK
    <3>2. ASSUME NEW j \in DOMAIN ls
          PROVE  ls2[j] = IF j < i THEN ProxyClosed(ls[j])
                          ELSE IF j = i THEN ProxyLink([l EXCEPT !.p = "open"], k)
                          ELSE ls[j]
      <4>1. i \in Nat /\ j \in Nat /\ i \in DOMAIN ls1
        BY <1>3, <2>0, <3>1
      <4>2. CASE j < i
        BY <4>1, <4>2 DEF Registered
      <4>3. CASE j = i
        BY <2>2, <4>1, <4>3
      <4>4. CASE ~(j < i) /\ j # i
        BY <4>1, <4>4 DEF Registered
      <4> QED BY <4>2, <4>3, <4>4
    <3>3. ls2 = [j \in DOMAIN ls |-> ls2[j]]
      BY <2>0
    <3> HIDE DEF ls2
    <3> QED BY <3>2, <3>3
  <2>4. LinkBecomes(s, p, ls2)
    BY <2>1, <2>3 DEF LinkBecomes
  <2>5. RegOK(p, s) /\ l \in LinkSet(s)
    BY <1>1, <1>3 DEF IInv, LinksOK
  <2>6. Inherited(p, s) = reg[p][s].buf /\ reg[p][s].buf \in Seq(To(s))
    BY <2>5 DEF Inherited, RegOK, BufferOK
  <2>7. /\ e \in Socket(To(s)) /\ (e.gone <=> l.s = "closed" \/ l.cut)
        /\ e.way = l.down /\ e.buf = reg[p][s].buf
    BY <2>5, <2>6, ProxyEndIs
  <2>8. ls1[i].s = l.s /\ ls1[i].cut = l.cut /\ ls1[i].down = l.down
    BY <2>2, <2>5 DEF LinkSet
  <2> HIDE DEF ls1, e
  <2>9. k \in SendBufData(e) /\ RegBecomes(p, s, k.buf)
    BY <1>6 DEF e, RegBecomes
  <2> QED BY <1>1, <1>6, <2>2, <2>4, <2>7, <2>8, <2>9, BufferGoes
<1> QED BY <1>0, <1>4, <1>5, <1>6 DEF Accepted

(* A proxy reads a message, m: the connections of s become ls1.            *)
ReadOf(ls, i) == [ls EXCEPT ![i].up = Tail(@)]
ReadBy(s, p, i) == [link EXCEPT ![s][p][i].up = Tail(@)]
Reading(s, p, i, m, ls1) ==
    LET ls == link[s][p]
    IN  /\ m \in Msg /\ m.route \in Route /\ m.route[2] \in Server /\ m \in To(m.route[2])
        /\ LinksOK(s, ls1) /\ Opens(ls1) = Opens(ls)
        /\ Len(ls1) = Len(ls) /\ DOMAIN ls1 = DOMAIN ls /\ ThinUp(ls, ls1)
        /\ \A j \in DOMAIN ls : ls1[j].down = ls[j].down
        /\ i \in DOMAIN ls
        /\ \A r \in Route :
              LET M == Nums(<<m>>, r)
              IN  /\ r # m.route => M = {}
                  /\ r = m.route => /\ r[1] = s /\ M \subseteq Nums(ls[i].up, r)
                                    /\ Below(M, Nums(ls1[i].up, r))
                                    /\ \A j \in DOMAIN ls : j < i => Nums(ls[j].up, r) = {}
                  /\ Rising(<<m>>, r)
                  /\ Below(Downs(r, p), M) /\ Below(Held(r, p), M)

LEMMA ReadIs ==
    ASSUME IInv, NEW s \in Server, NEW p \in Proxy, NEW i \in OpenLinks(p, s),
           Readable(link[s][p][i].up)
    PROVE  /\ Reading(s, p, i, Head(link[s][p][i].up), ReadOf(link[s][p], i))
           /\ ReadBy(s, p, i) = [link EXCEPT ![s][p] = ReadOf(link[s][p], i)]
<1> DEFINE ls  == link[s][p]
           m   == Head(ls[i].up)
           d   == m.route[2]
           ls1 == [ls EXCEPT ![i].up = Tail(@)]
<1>1. /\ LinksOK(s, ls) /\ i \in DOMAIN ls /\ ls[i].p = "open" /\ ls[i] \in LinkSet(s)
      /\ AllRising(ls[i].up) /\ ls[i].up \in Stream(From(s)) /\ ls[i].up # << >> /\ m # Part
      /\ Links(s, p) = DOMAIN ls
  <2>1. LinksOK(s, ls) /\ i \in DOMAIN ls /\ ls[i].p = "open" /\ Links(s, p) = DOMAIN ls
    BY TheLinks DEF OpenLinks
  <2>2. ls[i] \in LinkSet(s) /\ AllRising(ls[i].up)
    BY <2>1 DEF LinksOK
  <2> QED BY <2>1, <2>2, LinkParts DEF Readable
<1>2. /\ m \in From(s)
      /\ \A r \in Route : /\ Nums(ls[i].up, r) = Nums(<<m>>, r) \cup Nums(Tail(ls[i].up), r)
                          /\ Below(Nums(<<m>>, r), Nums(Tail(ls[i].up), r))
  BY <1>1, RisingTail
<1>3. /\ LinksOK(s, ls1) /\ Opens(ls1) = Opens(ls)
      /\ Len(ls1) = Len(ls) /\ DOMAIN ls1 = DOMAIN ls
      /\ ThinUp(ls, ls1) /\ ls1[i].up = Tail(ls[i].up)
      /\ \A j \in DOMAIN ls : ls1[j].down = ls[j].down
  BY <1>1, UpRead
<1>4. [link EXCEPT ![s][p][i].up = Tail(@)] = [link EXCEPT ![s][p] = ls1]
  BY DEF IInv, Shape
<1>5. m \in Msg /\ m.route \in Route /\ m.route[1] = s
  BY <1>2 DEF From, Msg
<1>6. d \in Server /\ m \in To(d)
  BY <1>5, IndexBy DEF To
<1>7. \A j \in DOMAIN ls : j < i => ls[j].up = << >>
  BY <1>1 DEF LinksOK
<1> HIDE DEF ls1, m
<1>8. ASSUME NEW r \in Route
      PROVE  /\ r # m.route => Nums(<<m>>, r) = {}
             /\ r = m.route => /\ r[1] = s /\ Nums(<<m>>, r) \subseteq Nums(ls[i].up, r)
                               /\ Below(Nums(<<m>>, r), Nums(ls1[i].up, r))
                               /\ \A j \in DOMAIN ls : j < i => Nums(ls[j].up, r) = {}
             /\ Rising(<<m>>, r)
             /\ Below(Downs(r, p), Nums(<<m>>, r)) /\ Below(Held(r, p), Nums(<<m>>, r))
  <2>1. Rising(<<m>>, r) /\ (r # m.route => Nums(<<m>>, r) = {})
    BY NumsOfOne
  <2>2. CASE r # m.route
    BY <2>1, <2>2 DEF Below
  <2>3. CASE r = m.route
    <3>1. Nums(<<m>>, r) \subseteq Nums(ls[i].up, r) /\ Below(Nums(<<m>>, r), Nums(ls1[i].up, r))
      BY <1>2, <1>3
    <3>2. \A j \in DOMAIN ls : j < i => Nums(ls[j].up, r) = {}
      BY <1>7, NumsOfNone
    <3>3. i \in DOMAIN Ups(r, p) /\ Ups(r, p)[i] = Nums(ls[i].up, r)
      BY <1>1, <1>5, <2>3 DEF Ups
    <3>4. Below(Downs(r, p), Nums(ls[i].up, r)) /\ Below(Held(r, p), Nums(ls[i].up, r))
      BY <3>3 DEF IInv, LaneOK, Sorted
    <3>5. Below(Downs(r, p), Nums(<<m>>, r)) /\ Below(Held(r, p), Nums(<<m>>, r))
      BY <3>1, <3>4 DEF Below
    <3> QED BY <1>5, <2>1, <2>3, <3>1, <3>2, <3>5
  <2> QED BY <2>2, <2>3
<1>9. ls1 = ReadOf(ls, i)
  BY DEF ls1, ReadOf
<1>10. Reading(s, p, i, m, ls1)
  BY <1>1, <1>3, <1>5, <1>6, <1>8 DEF Reading
<1>11. ReadBy(s, p, i) = [link EXCEPT ![s][p] = ls1]
  BY <1>4 DEF ReadBy
<1> HIDE DEF ls1
<1> QED BY <1>9, <1>10, <1>11 DEF m

(* The message goes on, or is kept, or is lost.                            *)
LEMMA ReadRelays ==
    ASSUME NEW s, NEW p \in Proxy, NEW ls1, NEW i \in DOMAIN link[s][p], NEW m, NEW r,
           Links(s, p) = DOMAIN link[s][p], DOMAIN ls1 = DOMAIN link[s][p],
           r # m.route => Nums(<<m>>, r) = {},
           r = m.route => /\ r[1] = s /\ Nums(<<m>>, r) \subseteq Nums(link[s][p][i].up, r)
                          /\ Below(Nums(<<m>>, r), Nums(ls1[i].up, r))
                          /\ \A j \in DOMAIN link[s][p] : j < i => Nums(link[s][p][j].up, r) = {},
           r \in Route, ThinUp(ls1, link'[s][p]),
           Downs(r, p)' \subseteq Downs(r, p) \cup Held(r, p) \cup Nums(<<m>>, r),
           Held(r, p)' \subseteq Held(r, p) \cup Nums(<<m>>, r),
           Below(Downs(r, p)', Held(r, p)')
    PROVE  Relays(r, p)
<1>1. CASE r # m.route
  <2>1. Nums(<<m>>, r) = {}
    BY <1>1
  <2> QED BY <2>1 DEF Relays
<1>2. CASE r = m.route
  <2> DEFINE M == Nums(<<m>>, r)
  <2>1. Nums(link'[s][p][i].up, r) \subseteq Nums(ls1[i].up, r)
    BY DEF ThinUp
  <2>2. Below(M, Nums(link'[s][p][i].up, r))
    BY <1>2, <2>1 DEF Below
  <2>3. \E j \in Links(r[1], p) :
                    /\ M \subseteq Nums(link[r[1]][p][j].up, r)
                    /\ Below(M, Nums(link'[r[1]][p][j].up, r))
                    /\ \A h \in Links(r[1], p) : h < j => Nums(link[r[1]][p][h].up, r) = {}
    BY <1>2, <2>2
  <2> HIDE DEF M
  <2> QED BY <2>3 DEF Relays, M
<1> QED BY <1>1, <1>2

LEMMA TransferDrops ==
    ASSUME IInv, NEW s \in Server, NEW p \in Proxy, NEW i, NEW m, NEW ls1,
           Reading(s, p, i, m, ls1), UNCHANGED <<left, run, out, reg, sent, got>>,
           link' = [link EXCEPT ![s][p] = ls1]
    PROVE  Steps
<1> DEFINE ls == link[s][p]
<1>1. /\ LinksOK(s, ls1) /\ Opens(ls1) = Opens(ls)
      /\ Len(ls1) = Len(ls) /\ ThinUp(ls, ls1)
      /\ \A j \in DOMAIN ls : ls1[j].down = ls[j].down
  BY DEF Reading
<1>2. Len(ls) \in DOMAIN ls
  BY TheLinks
<1>3. ThinDown(ls, ls1)
  BY <1>1, <1>2 DEF ThinDown
<1>4. left' \in [Kinds -> Nat] /\ LinkBecomes(s, p, ls1)
  BY <1>1, TheLinks DEF LinkBecomes
<1> QED BY <1>1, <1>3, <1>4, TheLinks, LosesAt

LEMMA TransferKeeps ==
    ASSUME IInv, NEW s \in Server, NEW p \in Proxy, NEW i, NEW m, NEW ls1,
           Reading(s, p, i, m, ls1), UNCHANGED <<left, run, out, sent, got>>,
           link' = [link EXCEPT ![s][p] = ls1],
           NEW d, d = m.route[2], reg[p][d].known = TRUE,
           reg' = [reg EXCEPT ![p][d] = ReserveData(@, m)]
    PROVE  Steps
<1> DEFINE ls == link[s][p]
<1>1. /\ m \in Msg /\ m.route \in Route /\ d \in Server /\ m \in To(d)
      /\ LinksOK(s, ls1) /\ Opens(ls1) = Opens(ls)
      /\ Len(ls1) = Len(ls) /\ DOMAIN ls1 = DOMAIN ls /\ ThinUp(ls, ls1)
      /\ \A j \in DOMAIN ls : ls1[j].down = ls[j].down
      /\ i \in DOMAIN ls
      /\ \A r \in Route :
            /\ r # m.route => Nums(<<m>>, r) = {}
            /\ r = m.route => /\ r[1] = s /\ Nums(<<m>>, r) \subseteq Nums(ls[i].up, r)
                              /\ Below(Nums(<<m>>, r), Nums(ls1[i].up, r))
                              /\ \A j \in DOMAIN ls : j < i => Nums(ls[j].up, r) = {}
            /\ Rising(<<m>>, r)
            /\ Below(Downs(r, p), Nums(<<m>>, r)) /\ Below(Held(r, p), Nums(<<m>>, r))
  BY DEF Reading
<1>2. /\ link' \in [Server -> [Proxy -> Seq(AnyLink)]] /\ link'[s][p] = ls1
      /\ \A t \in Server, q \in Proxy : t # s \/ q # p => link'[t][q] = link[t][q]
  <2>1. Shape /\ LinkBecomes(s, p, ls1) /\ LinksOK(s, ls1)
    BY <1>1 DEF IInv, LinkBecomes
  <2> QED BY <2>1, LinkAt
<1>3. /\ BufferOK(To(d), reg[p][d].buf) /\ reg[p][d].known \in BOOLEAN
      /\ reg[p][d] \in [known : BOOLEAN, buf : Seq(Msg)]
      /\ reg \in [Proxy -> [Server -> [known : BOOLEAN, buf : Seq(Msg)]]]
  BY <1>1 DEF IInv, RegOK, Shape
<1>20. d \in Server /\ m \in To(d)
  BY <1>1
<1>21. PICK b : b = Kept(reg[p][d].buf, m)
  OBVIOUS
<1>4. ReserveData(reg[p][d], m) = [known |-> TRUE, buf |-> b]
  <2>1. ReserveData(reg[p][d], m) = [reg[p][d] EXCEPT !.buf = b]
    BY <1>21 DEF ReserveData, Kept
  <2>0. reg[p][d] \in [known : BOOLEAN, buf : Seq(Msg)]
    BY <1>3
  <2>2. [reg[p][d] EXCEPT !.buf = b] = [known |-> reg[p][d].known, buf |-> b]
    BY <2>0
  <2> QED BY <2>1, <2>2
<1>5. /\ b \in Seq(To(d)) /\ Len(b) <= BufSize
      /\ \A r : /\ Nums(b, r) \subseteq Nums(reg[p][d].buf, r) \cup Nums(<<m>>, r)
                /\ Rising(reg[p][d].buf, r) /\ Below(Nums(reg[p][d].buf, r), Nums(<<m>>, r))
                   => Rising(b, r)
  <2>1. reg[p][d].buf \in Seq(To(d)) /\ Len(reg[p][d].buf) <= BufSize
    BY <1>3 DEF BufferOK
  <2> QED BY <1>20, <1>21, <2>1, KeptIs
<1>6. ASSUME NEW r \in Route PROVE Below(Nums(reg[p][d].buf, r), Nums(<<m>>, r))
  <2>1. r[2] = d => Held(r, p) = Nums(reg[p][d].buf, r)
    BY <1>1, DownLane
  <2>2. r[2] # d => Nums(reg[p][d].buf, r) = {}
    BY <1>1, DownLane
  <2> QED BY <1>1, <2>1, <2>2 DEF Below
<1>7. BufferOK(To(d), b)
  BY <1>3, <1>5, <1>6 DEF BufferOK, AllRising
<1>8. /\ reg' \in [Proxy -> [Server -> [known : BOOLEAN, buf : Seq(Msg)]]]
      /\ reg'[p][d].known = TRUE /\ reg'[p][d].buf = b
      /\ \A q \in Proxy, t \in Server : q # p \/ t # d => reg'[q][t] = reg[q][t]
  <2>1. RegBecomes(p, d, b)
    BY <1>1, <1>3, <1>4 DEF RegBecomes
  <2> QED BY <1>20, <1>7, <2>1, RegAt
<1>9. ASSUME NEW t \in Server
      PROVE  LinksOK(t, link'[t][p]) /\ RegOK(p, t)' /\ ThinUp(link[t][p], link'[t][p])
  <2>1. LinksOK(t, link[t][p]) /\ RegOK(p, t)
    BY DEF IInv
  <2>2. LinksOK(t, link'[t][p]) /\ ThinUp(link[t][p], link'[t][p])
        /\ Opens(link'[t][p]) = Opens(link[t][p])
    <3>1. CASE t = s
      BY <1>1, <1>2, <3>1
    <3>2. CASE t # s
      BY <1>2, <2>1, <3>2, ThinSame
    <3> QED BY <3>1, <3>2
  <2>3. RegOK(p, t)'
    <3>1. CASE t = d
      BY <1>7, <1>8, <3>1 DEF RegOK
    <3>2. CASE t # d
      <4>1. reg'[p][t] = reg[p][t]
        BY <1>8, <3>2
      <4> QED BY <2>1, <2>2, <4>1, Opened DEF RegOK
    <3> QED BY <3>1, <3>2
  <2> QED BY <2>2, <2>3
<1>10. ASSUME NEW r \in Route PROVE Relays(r, p)
  <2>1. r[2] \in Server
    BY IndexBy
  <2>2. Downs(r, p)' = Downs(r, p)
    <3>1. CASE r[2] = s
      <4>1. Len(ls) \in DOMAIN ls
        BY TheLinks
      <4> QED BY <1>1, <1>2, <3>1, <4>1 DEF Downs, Newest
    <3>2. CASE r[2] # s
      <4>1. link'[r[2]][p] = link[r[2]][p]
        BY <1>2, <2>1, <3>2
      <4> QED BY <4>1 DEF Downs, Newest
    <3> QED BY <3>1, <3>2
  <2>3. Held(r, p)' \subseteq Held(r, p) \cup Nums(<<m>>, r)
    <3>1. CASE r[2] = d
      BY <1>5, <1>8, <3>1 DEF Held
    <3>2. CASE r[2] # d
      <4>1. reg'[p][r[2]] = reg[p][r[2]]
        BY <1>8, <2>1, <3>2
      <4> QED BY <4>1 DEF Held
    <3> QED BY <3>1, <3>2
  <2>4. Below(Downs(r, p), Held(r, p))
    BY DEF IInv, LaneOK, Sorted
  <2>5. Below(Downs(r, p)', Held(r, p)')
    BY <1>1, <2>2, <2>3, <2>4 DEF Below
  <2>6. ThinUp(ls1, link'[s][p]) /\ Links(s, p) = DOMAIN ls
    BY <1>2, ThinSame, TheLinks
  <2>7. Downs(r, p)' \subseteq Downs(r, p) \cup Held(r, p) \cup Nums(<<m>>, r)
    BY <2>2
  <2> QED BY <1>1, <2>3, <2>5, <2>6, <2>7, ReadRelays
<1>11. left' \in [Kinds -> Nat]
  BY TheLinks
<1>12. \A t \in Server, q \in Proxy : q # p => link'[t][q] = link[t][q] /\ reg'[q][t] = reg[q][t]
  BY <1>2, <1>8
<1> QED BY <1>2, <1>8, <1>9, <1>10, <1>11, <1>12, ProxySteps

(* The connections of d to p when the message has been read, that came by  *)
(* one of s; and when it was sent by one of them, b is then in the buffer. *)
After(s, p, ls1, d) == IF d = s THEN ls1 ELSE link[d][p]
SentOn(p, d, ld, ld2, b, m) ==
    /\ LinksOK(d, ld2) /\ Opens(ld2) \subseteq Opens(ld)
    /\ Len(ld2) = Len(ld) /\ ThinUp(ld, ld2) /\ BufferOK(To(d), b)
    /\ \A r \in Route :
          LET D == Nums(ld[Len(ld)].down, r)
              E == Nums(ld2[Len(ld)].down, r)
              B == Nums(reg[p][d].buf, r)
          IN  /\ Below(E, Nums(b, r))
              /\ E \subseteq D \cup B \cup Nums(<<m>>, r)
              /\ Nums(b, r) \subseteq B \cup Nums(<<m>>, r)

LEMMA AfterIs ==
    ASSUME IInv, NEW s \in Server, NEW p \in Proxy, NEW i, NEW m, NEW ls1,
           Reading(s, p, i, m, ls1), NEW d \in Server, NEW ld, ld = After(s, p, ls1, d)
    PROVE  /\ LinksOK(d, ld) /\ Opens(ld) = OpenLinks(p, d) /\ ThinUp(link[d][p], ld)
           /\ Len(ld) = Len(link[d][p]) /\ ld[Len(ld)].down = link[d][p][Len(ld)].down
           /\ ld \in Seq(AnyLink) /\ ls1 \in Seq(AnyLink)
           /\ BufferOK(To(d), reg[p][d].buf)
<1>1. /\ LinksOK(s, ls1) /\ Opens(ls1) = Opens(link[s][p])
      /\ Len(ls1) = Len(link[s][p]) /\ ThinUp(link[s][p], ls1)
      /\ \A h \in DOMAIN link[s][p] : ls1[h].down = link[s][p][h].down
  BY DEF Reading
<1>2. /\ LinksOK(d, link[d][p]) /\ Len(link[s][p]) \in DOMAIN link[s][p]
      /\ Opens(link[d][p]) = OpenLinks(p, d)
  BY TheLinks, Opened
<1>3. BufferOK(To(d), reg[p][d].buf)
  BY DEF IInv, RegOK
<1>4. CASE d = s
  <2>1. ld = ls1
    BY <1>4 DEF After
  <2> QED BY <1>1, <1>2, <1>3, <1>4, <2>1, AnyLinks
<1>5. CASE d # s
  <2>1. ld = link[d][p]
    BY <1>5 DEF After
  <2> QED BY <1>1, <1>2, <1>3, <2>1, AnyLinks, ThinSame
<1> QED BY <1>4, <1>5

LEMMA FollowsDown ==
    ASSUME IInv, NEW d \in Server, NEW p \in Proxy, NEW m,
           \A r \in Route : /\ Rising(<<m>>, r)
                            /\ Below(Downs(r, p), Nums(<<m>>, r))
                            /\ Below(Held(r, p), Nums(<<m>>, r))
    PROVE  Follows(link[d][p][Newest(d, p)].down, reg[p][d].buf, <<m>>)
<1> DEFINE w == link[d][p][Newest(d, p)].down
           b == reg[p][d].buf
<1> SUFFICES ASSUME NEW r \in Route
             PROVE  /\ Below(Nums(w, r), Nums(b, r)) /\ Below(Nums(w, r), Nums(<<m>>, r))
                    /\ Below(Nums(b, r), Nums(<<m>>, r)) /\ Rising(<<m>>, r)
  BY DEF Follows
<1>1. /\ Below(Nums(w, r), Nums(b, r))
      /\ r[2] = d => Downs(r, p) = Nums(w, r) /\ Held(r, p) = Nums(b, r)
      /\ r[2] # d => Nums(w, r) = {} /\ Nums(b, r) = {}
  BY DownLane
<1> HIDE DEF w, b
<1> QED BY <1>1 DEF Below

(* The message is sent by the connection j of d.                           *)
LEMMA Passing ==
    ASSUME IInv, NEW s \in Server, NEW p \in Proxy, NEW i, NEW m, NEW ls1,
           Reading(s, p, i, m, ls1), NEW d, d = m.route[2],
           NEW ld, ld = After(s, p, ls1, d), NEW j \in Opens(ld),
           NEW e, e \in Socket(To(d)), e.gone <=> ld[j].s = "closed" \/ ld[j].cut,
           e.way = ld[j].down, e.buf = reg[p][d].buf,
           NEW k \in SendOneData(e, m)
    PROVE  /\ k \in Socket(To(d))
           /\ SentOn(p, d, ld, [ld EXCEPT ![j] = ProxyLink(ld[j], k)], k.buf, m)
<1>1. /\ d \in Server /\ m \in To(d)
      /\ \A r \in Route : /\ Rising(<<m>>, r)
                          /\ Below(Downs(r, p), Nums(<<m>>, r)) /\ Below(Held(r, p), Nums(<<m>>, r))
  BY DEF Reading
<1>2. d \in Server /\ m \in To(d)
  BY <1>1
<1>3. /\ LinksOK(d, ld) /\ Len(ld) = Len(link[d][p])
      /\ ld[Len(ld)].down = link[d][p][Len(ld)].down /\ BufferOK(To(d), reg[p][d].buf)
  BY <1>2, AfterIs
<1>4. Follows(ld[Len(ld)].down, e.buf, <<m>>)
  <2>1. ld[Len(ld)].down = link[d][p][Newest(d, p)].down /\ e.buf = reg[p][d].buf
    BY <1>2, <1>3, TheLinks
  <2>2. Follows(link[d][p][Newest(d, p)].down, reg[p][d].buf, <<m>>)
    BY <1>1, <1>2, FollowsDown
  <2> QED BY <2>1, <2>2
<1>5. k \in Socket(To(d)) /\ Keeps(e, k) /\ Flows(e, k, <<m>>)
  BY <1>2, SendIs
<1>6. BufferOK(To(d), e.buf)
  BY <1>3
<1>7. ProxySent(d, ld, [ld EXCEPT ![j] = ProxyLink(ld[j], k)], e, k, <<m>>)
  BY <1>3, <1>4, <1>5, <1>6, ProxySends
<1>8. PICK ld2 : ld2 = [ld EXCEPT ![j] = ProxyLink(ld[j], k)]
  OBVIOUS
<1>9. ProxySent(d, ld, ld2, e, k, <<m>>)
  BY <1>7, <1>8
<1>10. SentOn(p, d, ld, ld2, k.buf, m)
  BY <1>9 DEF SentOn, ProxySent
<1> QED BY <1>5, <1>8, <1>10

TwoBecome(s, p, ls1, d, ld2) == link' = [[link EXCEPT ![s][p] = ls1] EXCEPT ![d][p] = ld2]

LEMMA TwoAt ==
    ASSUME Shape, NEW s \in Server, NEW p \in Proxy, NEW d \in Server,
           NEW ls1 \in Seq(AnyLink), NEW ld2 \in Seq(AnyLink), TwoBecome(s, p, ls1, d, ld2)
    PROVE  /\ link' \in [Server -> [Proxy -> Seq(AnyLink)]] /\ link'[d][p] = ld2
           /\ d # s => link'[s][p] = ls1
           /\ \A t \in Server, q \in Proxy : (t # s /\ t # d) \/ q # p => link'[t][q] = link[t][q]
<1>1. PICK L : L = [link EXCEPT ![s][p] = ls1]
  OBVIOUS
<1>2. link' = [L EXCEPT ![d][p] = ld2]
  BY <1>1 DEF TwoBecome
<1>3. link \in [Server -> [Proxy -> Seq(AnyLink)]]
  BY DEF Shape
<1>4. /\ L \in [Server -> [Proxy -> Seq(AnyLink)]] /\ L[s][p] = ls1
      /\ \A t \in Server, q \in Proxy : t # s \/ q # p => L[t][q] = link[t][q]
  BY <1>1, <1>3
<1>5. /\ link' \in [Server -> [Proxy -> Seq(AnyLink)]] /\ link'[d][p] = ld2
      /\ \A t \in Server, q \in Proxy : t # d \/ q # p => link'[t][q] = L[t][q]
  BY <1>2, <1>4
<1> QED BY <1>4, <1>5

LEMMA TransferSends ==
    ASSUME IInv, NEW s \in Server, NEW p \in Proxy, NEW i, NEW m, NEW ls1,
           Reading(s, p, i, m, ls1), UNCHANGED <<run, out, sent, got>>,
           NEW d, d = m.route[2], NEW ld, ld = After(s, p, ls1, d),
           NEW ld2, NEW b, SentOn(p, d, ld, ld2, b, m),
           left' \in [Kinds -> Nat], RegBecomes(p, d, b), TwoBecome(s, p, ls1, d, ld2)
    PROVE  Steps
<1> DEFINE ls == link[s][p]
<1>1. /\ d \in Server
      /\ LinksOK(s, ls1) /\ Opens(ls1) = Opens(ls)
      /\ Len(ls1) = Len(ls) /\ DOMAIN ls1 = DOMAIN ls /\ ThinUp(ls, ls1)
      /\ \A h \in DOMAIN ls : ls1[h].down = ls[h].down
      /\ i \in DOMAIN ls
      /\ \A r \in Route :
            /\ r # m.route => Nums(<<m>>, r) = {}
            /\ r = m.route => /\ r[1] = s /\ Nums(<<m>>, r) \subseteq Nums(ls[i].up, r)
                              /\ Below(Nums(<<m>>, r), Nums(ls1[i].up, r))
                              /\ \A h \in DOMAIN ls : h < i => Nums(ls[h].up, r) = {}
  BY DEF Reading
<1>2. d \in Server
  BY <1>1
<1>3. /\ LinksOK(d, ld) /\ Opens(ld) = OpenLinks(p, d) /\ ThinUp(link[d][p], ld)
      /\ Len(ld) = Len(link[d][p]) /\ ld[Len(ld)].down = link[d][p][Len(ld)].down
      /\ ls1 \in Seq(AnyLink)
  BY <1>2, AfterIs
<1>4. /\ LinksOK(d, ld2) /\ Opens(ld2) \subseteq Opens(ld)
      /\ Len(ld2) = Len(ld) /\ ThinUp(ld, ld2) /\ BufferOK(To(d), b)
  BY DEF SentOn
<1>5. /\ link' \in [Server -> [Proxy -> Seq(AnyLink)]] /\ link'[d][p] = ld2
      /\ d # s => link'[s][p] = ls1
      /\ \A t \in Server, q \in Proxy : (t # s /\ t # d) \/ q # p => link'[t][q] = link[t][q]
  <2>1. Shape /\ ld2 \in Seq(AnyLink)
    BY <1>4, AnyLinks DEF IInv
  <2>2. ls1 \in Seq(AnyLink)
    BY <1>3
  <2> QED BY <1>2, <2>1, <2>2, TwoAt
<1>6. /\ reg' \in [Proxy -> [Server -> [known : BOOLEAN, buf : Seq(Msg)]]]
      /\ reg'[p][d].known = TRUE /\ reg'[p][d].buf = b
      /\ \A q \in Proxy, t \in Server : q # p \/ t # d => reg'[q][t] = reg[q][t]
  BY <1>2, <1>4, RegAt
<1>7. ThinUp(ls1, link'[s][p])
  <2>1. CASE d = s
    <3>1. ld = ls1
      BY <2>1 DEF After
    <3> QED BY <1>4, <1>5, <2>1, <3>1
  <2>2. CASE d # s
    BY <1>5, <2>2, ThinSame
  <2> QED BY <2>1, <2>2
<1>8. ASSUME NEW t \in Server
      PROVE  LinksOK(t, link'[t][p]) /\ RegOK(p, t)' /\ ThinUp(link[t][p], link'[t][p])
  <2>1. LinksOK(t, link[t][p]) /\ RegOK(p, t)
    BY DEF IInv
  <2>2. CASE t = d
    <3>1. RegOK(p, d)'
      BY <1>4, <1>6 DEF RegOK
    <3> QED BY <1>3, <1>4, <1>5, <2>2, <3>1, ThinUpOn
  <2>3. CASE t # d
    <3>1. LinksOK(t, link'[t][p]) /\ ThinUp(link[t][p], link'[t][p])
          /\ Opens(link'[t][p]) = Opens(link[t][p])
      <4>1. CASE t = s
        BY <1>1, <1>5, <2>3, <4>1
      <4>2. CASE t # s
        BY <1>5, <2>1, <2>3, <4>2, ThinSame
      <4> QED BY <4>1, <4>2
    <3>2. reg'[p][t] = reg[p][t]
      BY <1>6, <2>3
    <3>3. RegOK(p, t)'
      BY <2>1, <3>1, <3>2, Opened DEF RegOK
    <3> QED BY <3>1, <3>3
  <2> QED BY <2>2, <2>3
<1>9. ASSUME NEW r \in Route
      PROVE  /\ Downs(r, p)' \subseteq Downs(r, p) \cup Held(r, p) \cup Nums(<<m>>, r)
             /\ Held(r, p)' \subseteq Held(r, p) \cup Nums(<<m>>, r)
             /\ Below(Downs(r, p)', Held(r, p)')
  <2>1. r[2] \in Server
    BY IndexBy
  <2>2. CASE r[2] = d
    <3>0. ld[Len(ld)].down = link[d][p][Newest(d, p)].down
      BY <1>2, <1>3, TheLinks
    <3>1. /\ Downs(r, p) = Nums(ld[Len(ld)].down, r)
          /\ Held(r, p) = Nums(reg[p][d].buf, r)
      BY <2>2, <3>0 DEF Downs, Held
    <3>2. Downs(r, p)' = Nums(ld2[Len(ld)].down, r) /\ Held(r, p)' = Nums(b, r)
      <4>1. link'[r[2]][p] = ld2 /\ reg'[p][r[2]].buf = b /\ Len(ld2) = Len(ld)
        BY <1>4, <1>5, <1>6, <2>2
      <4> QED BY <4>1 DEF Downs, Held, Newest
    <3>3. /\ Below(Nums(ld2[Len(ld)].down, r), Nums(b, r))
          /\ Nums(ld2[Len(ld)].down, r) \subseteq
                Nums(ld[Len(ld)].down, r) \cup Nums(reg[p][d].buf, r) \cup Nums(<<m>>, r)
          /\ Nums(b, r) \subseteq Nums(reg[p][d].buf, r) \cup Nums(<<m>>, r)
      BY DEF SentOn
    <3> QED BY <3>1, <3>2, <3>3
  <2>3. CASE r[2] # d
    <3>1. reg'[p][r[2]] = reg[p][r[2]]
      BY <1>6, <2>1, <2>3
    <3>2. Held(r, p)' = Held(r, p)
      BY <3>1 DEF Held
    <3>3. Downs(r, p)' = Downs(r, p)
      <4>1. CASE r[2] = s
        <5>1. Len(ls) \in DOMAIN ls /\ link'[s][p] = ls1
          BY <1>5, <2>3, <4>1, TheLinks
        <5> QED BY <1>1, <4>1, <5>1 DEF Downs, Newest
      <4>2. CASE r[2] # s
        <5>1. link'[r[2]][p] = link[r[2]][p]
          BY <1>5, <2>1, <2>3, <4>2
        <5> QED BY <5>1 DEF Downs, Newest
      <4> QED BY <4>1, <4>2
    <3>4. Below(Downs(r, p), Held(r, p))
      BY DEF IInv, LaneOK, Sorted
    <3> QED BY <3>2, <3>3, <3>4
  <2> QED BY <2>2, <2>3
<1>10. ASSUME NEW r \in Route PROVE Relays(r, p)
  <2>1. Links(s, p) = DOMAIN ls
    BY TheLinks
  <2>2. /\ Downs(r, p)' \subseteq Downs(r, p) \cup Held(r, p) \cup Nums(<<m>>, r)
        /\ Held(r, p)' \subseteq Held(r, p) \cup Nums(<<m>>, r)
        /\ Below(Downs(r, p)', Held(r, p)')
    BY <1>9
  <2> QED BY <1>1, <1>7, <2>1, <2>2, ReadRelays
<1>11. \A t \in Server, q \in Proxy : q # p => link'[t][q] = link[t][q] /\ reg'[q][t] = reg[q][t]
  BY <1>5, <1>6
<1> QED BY <1>5, <1>6, <1>8, <1>10, <1>11, ProxySteps

(* What Transfer does with the message m for d, that was read by l1.       *)
TransferKept(p, d, m) ==
    /\ reg[p][d].known = TRUE
    /\ reg' = [reg EXCEPT ![p][d] = ReserveData(@, m)]
TransferSent(p, d, m, l1, j, k) ==
    /\ k \in SendOneData(ProxyEnd(l1[d][p][j], reg[p][d].buf), m)
    /\ left' = k.left
    /\ reg' = [reg EXCEPT ![p][d].buf = k.buf]
    /\ link' = [l1 EXCEPT ![d][p][j] = ProxyLink(@, k)]
TransferRest(p, d, m, l1) ==
    \/ ~reg[p][d].known /\ link' = l1 /\ UNCHANGED <<left, reg>>
    \/ /\ reg[p][d].known /\ OpenLinks(p, d) = {}
       /\ link' = l1
       /\ reg' = [reg EXCEPT ![p][d] = ReserveData(@, m)]
       /\ UNCHANGED left
    \/ \E j \in OpenLinks(p, d) :
         \E k \in SendOneData(ProxyEnd(l1[d][p][j], reg[p][d].buf), m) :
            /\ left' = k.left
            /\ reg' = [reg EXCEPT ![p][d].buf = k.buf]
            /\ link' = [l1 EXCEPT ![d][p][j] = ProxyLink(@, k)]
TransferReads(s, p, i, m, l1) ==
    /\ m = Head(link[s][p][i].up) /\ Readable(link[s][p][i].up)
    /\ l1 = ReadBy(s, p, i)

LEMMA TransferIs ==
    ASSUME NEW s, NEW p, Transfer(p, s)
    PROVE  \E i \in OpenLinks(p, s) : \E m, d, l1 :
              d = m.route[2] /\ TransferReads(s, p, i, m, l1) /\ TransferRest(p, d, m, l1)
<1>1. PICK i \in OpenLinks(p, s) :
         LET l  == link[s][p][i]
             m  == Head(l.up)
             d  == m.route[2]
             l1 == [link EXCEPT ![s][p][i].up = Tail(@)]
         IN  TransferReads(s, p, i, m, l1) /\ TransferRest(p, d, m, l1)
  BY DEF Transfer, TransferReads, ReadBy, TransferRest
<1> QED BY <1>1

LEMMA RestIs ==
    ASSUME NEW p, NEW d, NEW m, NEW l1, TransferRest(p, d, m, l1)
    PROVE  \/ link' = l1 /\ UNCHANGED <<left, reg>>
           \/ link' = l1 /\ left' = left /\ TransferKept(p, d, m)
           \/ \E j \in OpenLinks(p, d) : \E k : TransferSent(p, d, m, l1, j, k)
<1>1. CASE link' = l1 /\ UNCHANGED <<left, reg>>
  BY <1>1
<1>2. CASE /\ reg[p][d].known /\ link' = l1
           /\ reg' = [reg EXCEPT ![p][d] = ReserveData(@, m)]
           /\ UNCHANGED left
  BY <1>2 DEF TransferKept
<1>3. CASE \E j \in OpenLinks(p, d) :
             \E k \in SendOneData(ProxyEnd(l1[d][p][j], reg[p][d].buf), m) :
                /\ left' = k.left
                /\ reg' = [reg EXCEPT ![p][d].buf = k.buf]
                /\ link' = [l1 EXCEPT ![d][p][j] = ProxyLink(@, k)]
  BY <1>3 DEF TransferSent
<1> QED BY <1>1, <1>2, <1>3 DEF TransferRest

EndIs(e, l, b, X) == /\ e \in Socket(X) /\ (e.gone <=> l.s = "closed" \/ l.cut)
                     /\ e.way = l.down /\ e.buf = b

LEMMA EndIsOne ==
    ASSUME IInv, NEW s \in Server, NEW l \in LinkSet(s), NEW b \in Seq(To(s))
    PROVE  EndIs(ProxyEnd(l, b), l, b, To(s))
BY ProxyEndIs DEF EndIs

LEMMA KnownBuf ==
    ASSUME NEW x \in [known : BOOLEAN, buf : Seq(Msg)], x.known = TRUE, NEW b
    PROVE  [x EXCEPT !.buf = b] = [known |-> TRUE, buf |-> b]
<1>1. [x EXCEPT !.buf = b] = [known |-> x.known, buf |-> b]
  OBVIOUS
<1> QED BY <1>1

LEMMA TransferSendsBy ==
    ASSUME IInv, NEW s \in Server, NEW p \in Proxy, NEW i, NEW m, NEW ls1,
           Reading(s, p, i, m, ls1), UNCHANGED <<run, out, sent, got>>,
           NEW d, d = m.route[2], NEW l1, l1 = [link EXCEPT ![s][p] = ls1],
           NEW j \in OpenLinks(p, d), NEW k, TransferSent(p, d, m, l1, j, k)
    PROVE  Steps
<1>1. d \in Server
  BY DEF Reading
<1>2. PICK ld : ld = After(s, p, ls1, d)
  OBVIOUS
<1>3. /\ LinksOK(d, ld) /\ Opens(ld) = OpenLinks(p, d)
      /\ ld \in Seq(AnyLink) /\ ls1 \in Seq(AnyLink)
      /\ BufferOK(To(d), reg[p][d].buf)
  BY <1>1, <1>2, AfterIs
<1>4. j \in Opens(ld) /\ j \in DOMAIN ld /\ ld[j] \in LinkSet(d) /\ reg[p][d].buf \in Seq(To(d))
  BY <1>3 DEF Opens, LinksOK, BufferOK
<1>5. l1[d][p] = ld /\ l1 \in [Server -> [Proxy -> Seq(AnyLink)]]
  <2>1. link \in [Server -> [Proxy -> Seq(AnyLink)]]
    BY DEF IInv, Shape
  <2>2. l1[s][p] = ls1 /\ (d # s => l1[d][p] = link[d][p])
        /\ l1 \in [Server -> [Proxy -> Seq(AnyLink)]]
    BY <1>1, <1>3, <2>1
  <2> QED BY <1>2, <2>2 DEF After
<1>6. PICK e : e = ProxyEnd(ld[j], reg[p][d].buf)
  OBVIOUS
<1>7. EndIs(e, ld[j], reg[p][d].buf, To(d))
  BY <1>1, <1>4, <1>6, EndIsOne
<1>8. k \in SendOneData(e, m)
  BY <1>5, <1>6 DEF TransferSent
<1>9. PICK ld2 : ld2 = [ld EXCEPT ![j] = ProxyLink(ld[j], k)]
  OBVIOUS
<1>10. k \in Socket(To(d)) /\ SentOn(p, d, ld, ld2, k.buf, m)
  BY <1>2, <1>4, <1>7, <1>8, <1>9, Passing DEF EndIs
<1>11. TwoBecome(s, p, ls1, d, ld2)
  <2>1. link' = [l1 EXCEPT ![d][p] = ld2]
    BY <1>1, <1>4, <1>5, <1>9 DEF TransferSent
  <2> QED BY <2>1 DEF TwoBecome
<1>12. left' \in [Kinds -> Nat]
  <2>1. k.left \in [Kinds -> Nat]
    BY <1>10 DEF Socket
  <2> QED BY <2>1 DEF TransferSent
<1>13. RegBecomes(p, d, k.buf)
  <2>1. reg[p][d].known = TRUE
    BY <1>1 DEF IInv, RegOK
  <2>2. reg[p][d] \in [known : BOOLEAN, buf : Seq(Msg)]
    BY <1>1 DEF IInv, Shape
  <2>3. [reg[p][d] EXCEPT !.buf = k.buf] = [known |-> TRUE, buf |-> k.buf]
    BY <2>1, <2>2, KnownBuf
  <2>4. reg \in [Proxy -> [Server -> [known : BOOLEAN, buf : Seq(Msg)]]]
    BY DEF IInv, Shape
  <2> QED BY <1>1, <2>3, <2>4 DEF RegBecomes, TransferSent
<1>14. PICK b : b = k.buf
  OBVIOUS
<1>15. RegBecomes(p, d, b) /\ SentOn(p, d, ld, ld2, b, m)
  BY <1>10, <1>13, <1>14
<1> QED BY <1>2, <1>11, <1>12, <1>15, TransferSends

LEMMA ReadsSo ==
    ASSUME IInv, NEW s \in Server, NEW p \in Proxy, NEW i \in OpenLinks(p, s), NEW m, NEW l1,
           TransferReads(s, p, i, m, l1)
    PROVE  \E ls1 : Reading(s, p, i, m, ls1) /\ l1 = [link EXCEPT ![s][p] = ls1]
<1>1. Readable(link[s][p][i].up)
  BY DEF TransferReads
<1>2. /\ Reading(s, p, i, Head(link[s][p][i].up), ReadOf(link[s][p], i))
      /\ ReadBy(s, p, i) = [link EXCEPT ![s][p] = ReadOf(link[s][p], i)]
  BY <1>1, ReadIs
<1>3. m = Head(link[s][p][i].up) /\ l1 = ReadBy(s, p, i)
  BY DEF TransferReads
<1> QED BY <1>2, <1>3

LEMMA TransferSteps == ASSUME IInv, NEW s \in Server, NEW p \in Proxy, Transfer(p, s) PROVE Steps
<1>1. PICK i \in OpenLinks(p, s) : \E m, d, l1 :
              d = m.route[2] /\ TransferReads(s, p, i, m, l1) /\ TransferRest(p, d, m, l1)
  BY TransferIs
<1>2. PICK m, d, l1 :
              d = m.route[2] /\ TransferReads(s, p, i, m, l1) /\ TransferRest(p, d, m, l1)
  BY <1>1
<1>3. UNCHANGED <<run, out, sent, got>>
  BY DEF Transfer
<1>4. TransferReads(s, p, i, m, l1)
  BY <1>2
<1>5. PICK ls1 : Reading(s, p, i, m, ls1) /\ l1 = [link EXCEPT ![s][p] = ls1]
  BY <1>4, ReadsSo
<1>6. CASE link' = l1 /\ UNCHANGED <<left, reg>>
  BY <1>3, <1>5, <1>6, TransferDrops
<1>7. CASE link' = l1 /\ left' = left /\ TransferKept(p, d, m)
  <2>1. reg[p][d].known = TRUE /\ reg' = [reg EXCEPT ![p][d] = ReserveData(@, m)]
    BY <1>7 DEF TransferKept
  <2> QED BY <1>2, <1>3, <1>5, <1>7, <2>1, TransferKeeps
<1>8. ASSUME NEW j \in OpenLinks(p, d), NEW k, TransferSent(p, d, m, l1, j, k) PROVE Steps
  BY <1>2, <1>3, <1>5, <1>8, TransferSendsBy
<1> QED BY <1>2, <1>6, <1>7, <1>8, RestIs

-----------------------------------------------------------------------------
(* A server that does not run has no connection that is open.              *)

Calm(F, G) == \A t \in Server, q \in Proxy :
                 /\ DOMAIN G[t][q] = DOMAIN F[t][q]
                 /\ \A j \in DOMAIN F[t][q] : G[t][q][j].s = F[t][q][j].s
StaysDown == \A t \in Server, q \in Proxy : t \notin run' /\ Connected(t, q)'
                                        => t \notin run /\ Connected(t, q)
Down == \A s \in Server \ run, p \in Proxy : ~Connected(s, p)

LEMMA QuietDown == ASSUME Down, StaysDown PROVE Down'
BY DEF Down, StaysDown

LEMMA CalmQuiet ==
    ASSUME Shape, Shape', Calm(link, link'), run' \cap Server = run \cap Server
    PROVE  StaysDown
<1> SUFFICES ASSUME NEW t \in Server, NEW q \in Proxy, Connected(t, q)'
             PROVE  Connected(t, q)
  BY DEF StaysDown
<1>1. link[t][q] \in Seq(AnyLink) /\ link'[t][q] \in Seq(AnyLink)
  BY DEF Shape
<1>2. DOMAIN link'[t][q] = DOMAIN link[t][q]
  BY DEF Calm
<1>3. Len(link'[t][q]) = Len(link[t][q])
  BY <1>1, <1>2
<1>4. CASE Len(link[t][q]) \in DOMAIN link[t][q]
  BY <1>3, <1>4 DEF Calm, Connected, Newest
<1>5. CASE Len(link[t][q]) \notin DOMAIN link[t][q]
  BY <1>1, <1>3, <1>5 DEF Connected, Newest
<1> QED BY <1>4, <1>5

LEMMA CalmPut ==
    ASSUME NEW S, NEW F \in [Server -> [Proxy -> Seq(S)]], NEW s \in Server, NEW p \in Proxy,
           NEW i \in DOMAIN F[s][p], NEW L, L.s = F[s][p][i].s
    PROVE  Calm(F, [F EXCEPT ![s][p][i] = L])
BY DEF Calm

LEMMA CalmOn == ASSUME NEW F, NEW G, NEW H, Calm(F, G), Calm(G, H) PROVE Calm(F, H)
BY DEF Calm

LEMMA SameEnd ==
    ASSUME NEW l \in AnyLink
    PROVE  /\ ProxyClosed(l).s = l.s
           /\ \A k : ProxyLink(l, k).s = l.s /\ ProxyLink([l EXCEPT !.p = "open"], k).s = l.s
           /\ \A q : [l EXCEPT !.up = q].s = l.s
           /\ [l EXCEPT !.cut = TRUE, !.up = << >>, !.down = << >>].s = l.s
BY DEF ProxyClosed, ProxyLink, AnyLink

(* What a server does to its own connections.                              *)
LEMMA OwnQuiet ==
    ASSUME IInv, run' = run, NEW s \in Server, s \in run,
           \A t \in Server : t # s => link'[t] = link[t]
    PROVE  StaysDown
BY DEF StaysDown, Connected, Newest

LEMMA EndQuiet ==
    ASSUME IInv, run' = run, NEW s \in Server, s \in run, NEW p \in Proxy, NEW k,
           ServerBecomes(s, p, k)
    PROVE  StaysDown
<1>1. link \in [Server -> [Proxy -> Seq(AnyLink)]]
  BY DEF IInv, Shape
<1>2. link' = link \/ \E n, l : link' = [link EXCEPT ![s][p][n] = l]
  BY DEF ServerBecomes
<1>3. CASE link' = link
  BY <1>3, OwnQuiet
<1>4. CASE \E n, l : link' = [link EXCEPT ![s][p][n] = l]
  <2>1. \A t \in Server : t # s => link'[t] = link[t]
    BY <1>1, <1>4
  <2> QED BY <2>1, OwnQuiet
<1> QED BY <1>2, <1>3, <1>4

LEMMA ServerQuiet ==
    ASSUME IInv, NEW s \in Server, NEW p \in Proxy
    PROVE  /\ \A r \in Route : Send(r, p) => StaysDown
           /\ SendProxyBuf(s, p) => StaysDown
           /\ Deliver(s, p) => StaysDown
           /\ RecvEnd(s, p) => StaysDown
           /\ CheckConnect(s) => StaysDown
           /\ ServerDies(s) => StaysDown
           /\ ServerStarts(s) => StaysDown
<1>1. link \in [Server -> [Proxy -> Seq(AnyLink)]] /\ run \subseteq Server \cup Proxy
  BY DEF IInv, Shape
<1>2. ASSUME NEW r \in Route, Send(r, p) PROVE StaysDown
  <2>1. r[1] \in Server
    BY IndexBy
  <2> QED BY <1>2, <2>1, EndQuiet DEF Send
<1>3. ASSUME SendProxyBuf(s, p) PROVE StaysDown
  BY <1>3, EndQuiet DEF SendProxyBuf
<1>4. ASSUME Deliver(s, p) PROVE StaysDown
  <2>1. \A t \in Server : t # s => link'[t] = link[t]
    <3>1. \E n, d : link' = [link EXCEPT ![s][p][n].down = d]
      BY <1>4 DEF Deliver
    <3> QED BY <1>1, <3>1
  <2> QED BY <1>4, <2>1, OwnQuiet DEF Deliver
<1>5. ASSUME RecvEnd(s, p) PROVE StaysDown
  <2>1. \A t \in Server : t # s => link'[t] = link[t]
    <3>1. \E n, d : link' = [link EXCEPT ![s][p][n] = d]
      BY <1>5 DEF RecvEnd
    <3> QED BY <1>1, <3>1
  <2> QED BY <1>5, <2>1, OwnQuiet DEF RecvEnd
<1>6. ASSUME CheckConnect(s) PROVE StaysDown
  <2>1. \E L : link' = [link EXCEPT ![s] = L]
    BY <1>6 DEF CheckConnect
  <2>2. \A t \in Server : t # s => link'[t] = link[t]
    BY <1>1, <2>1
  <2> QED BY <1>6, <2>2, OwnQuiet DEF CheckConnect
<1>7. ASSUME ServerDies(s) PROVE StaysDown
  <2>1. /\ run' = run \ {s}
        /\ link' = [link EXCEPT ![s] = [q \in Proxy |-> [i \in Links(s, q) |-> ServerClosed(link[s][q][i])]]]
    BY <1>1, <1>7 DEF ServerDies
  <2>2. \A t \in Server : t # s => link'[t] = link[t]
    BY <1>1, <2>1
  <2>3. ASSUME NEW q \in Proxy PROVE ~Connected(s, q)'
    <3>1. LinksOK(s, link[s][q]) /\ Newest(s, q) \in Links(s, q) /\ Links(s, q) = DOMAIN link[s][q]
          /\ Newest(s, q) = Len(link[s][q])
      BY TheLinks
    <3>2. link'[s][q] = [i \in Links(s, q) |-> ServerClosed(link[s][q][i])]
      BY <1>1, <2>1
    <3>3. /\ link[s][q] \in Seq(AnyLink) /\ link'[s][q] \in Seq(AnyLink)
          /\ Len(link'[s][q]) = Len(link[s][q])
      <4>1. Shape'
        BY <1>7, ServerDiesSteps DEF Steps
      <4>2. link[s][q] \in Seq(AnyLink) /\ link'[s][q] \in Seq(AnyLink)
        BY <1>1, <4>1 DEF Shape
      <4>3. DOMAIN link'[s][q] = DOMAIN link[s][q]
        BY <3>1, <3>2
      <4> QED BY <4>2, <4>3
    <3>4. link'[s][q][Newest(s, q)] = ServerClosed(link[s][q][Newest(s, q)])
      BY <3>1, <3>2
    <3>5. link[s][q][Newest(s, q)] \in AnyLink
      BY <3>1, <3>3
    <3>6. ServerClosed(link[s][q][Newest(s, q)]).s = "closed"
      BY <3>5 DEF ServerClosed, AnyLink
    <3> QED BY <3>1, <3>3, <3>4, <3>6 DEF Connected, Newest
  <2> QED BY <2>1, <2>2, <2>3 DEF StaysDown, Connected, Newest
<1>8. ASSUME ServerStarts(s) PROVE StaysDown
  <2>1. run' = run \cup {s} /\ \A t \in Server : t # s => link'[t] = link[t]
    <3>1. \E L : link' = [link EXCEPT ![s] = L]
      BY <1>8 DEF ServerStarts
    <3> QED BY <1>1, <1>8, <3>1 DEF ServerStarts
  <2> QED BY <2>1 DEF StaysDown, Connected, Newest
<1> QED BY <1>2, <1>3, <1>4, <1>5, <1>6, <1>7, <1>8

(* What a proxy does to its end, and a break.                              *)
LEMMA CalmOf ==
    ASSUME IInv, Shape', run' \cap Server = run \cap Server, NEW s \in Server, NEW p \in Proxy, NEW ls2,
           LinkBecomes(s, p, ls2), DOMAIN ls2 = DOMAIN link[s][p],
           \A j \in DOMAIN link[s][p] : ls2[j].s = link[s][p][j].s
    PROVE  StaysDown
<1>1. link \in [Server -> [Proxy -> Seq(AnyLink)]] /\ Shape
  BY DEF IInv, Shape
<1>2. link'[s][p] = ls2 /\ \A t \in Server, q \in Proxy : t # s \/ q # p => link'[t][q] = link[t][q]
  BY <1>1 DEF LinkBecomes
<1>3. Calm(link, link')
  BY <1>2 DEF Calm
<1> QED BY <1>1, <1>3, CalmQuiet

LEMMA CalmOne ==
    ASSUME IInv, Shape', run' \cap Server = run \cap Server, NEW s \in Server, NEW p \in Proxy,
           NEW i \in DOMAIN link[s][p], NEW l, l.s = link[s][p][i].s,
           link' = [link EXCEPT ![s][p][i] = l]
    PROVE  StaysDown
<1>1. link \in [Server -> [Proxy -> Seq(AnyLink)]] /\ Shape
  BY DEF IInv, Shape
<1>2. Calm(link, link')
  BY <1>1, CalmPut
<1> QED BY <1>1, <1>2, CalmQuiet

LEMMA InLinks ==
    ASSUME IInv, NEW s \in Server, NEW p \in Proxy
    PROVE  /\ OpenLinks(p, s) \subseteq DOMAIN link[s][p] /\ Waiting(p, s) \subseteq DOMAIN link[s][p]
           /\ Links(s, p) = DOMAIN link[s][p]
           /\ \A i \in DOMAIN link[s][p] : link[s][p][i] \in AnyLink
BY DEF OpenLinks, Waiting, Links, IInv, Shape

LEMMA AcceptQuiet == ASSUME IInv, Shape', NEW s \in Server, NEW p \in Proxy, Accept(p, s) PROVE StaysDown
<1>0. PICK i \in Waiting(p, s) : (\A h \in Waiting(p, s) : i <= h) /\ Accepted(p, s, i)
  BY DEF Accept, Accepted
<1>1. run' \cap Server = run \cap Server
  BY DEF Accept
<1>2. i \in DOMAIN link[s][p] /\ \A j \in DOMAIN link[s][p] : link[s][p][j] \in AnyLink
  BY InLinks
<1>3. CASE link' = [link EXCEPT ![s][p][i] = ProxyClosed(link[s][p][i])]
  <2>1. ProxyClosed(link[s][p][i]).s = link[s][p][i].s
    BY <1>2, SameEnd
  <2> QED BY <1>1, <1>2, <1>3, <2>1, CalmOne
<1>4. ASSUME NEW k,
             link' = [link EXCEPT ![s][p] =
                          [j \in Links(s, p) |-> IF j < i THEN ProxyClosed(@[j])
                                                 ELSE IF j = i
                                                 THEN ProxyLink([link[s][p][i] EXCEPT !.p = "open"], k)
                                                 ELSE @[j]]]
      PROVE  StaysDown
  <2> DEFINE ls2 == [j \in Links(s, p) |-> IF j < i THEN ProxyClosed(link[s][p][j])
                                           ELSE IF j = i
                                           THEN ProxyLink([link[s][p][i] EXCEPT !.p = "open"], k)
                                           ELSE link[s][p][j]]
  <2>1. DOMAIN ls2 = DOMAIN link[s][p] /\ Links(s, p) = DOMAIN link[s][p]
    BY InLinks
  <2>2. ASSUME NEW j \in DOMAIN link[s][p] PROVE ls2[j].s = link[s][p][j].s
    <3>1. /\ ProxyClosed(link[s][p][j]).s = link[s][p][j].s
          /\ ProxyLink([link[s][p][i] EXCEPT !.p = "open"], k).s = link[s][p][i].s
      BY <1>2, SameEnd
    <3>2. \/ ls2[j] = ProxyClosed(link[s][p][j])
          \/ j = i /\ ls2[j] = ProxyLink([link[s][p][i] EXCEPT !.p = "open"], k)
          \/ ls2[j] = link[s][p][j]
      BY <2>1
    <3> HIDE DEF ls2
    <3> QED BY <3>1, <3>2
  <2>3. link' = [link EXCEPT ![s][p] = ls2]
    BY <1>4 DEF IInv, Shape
  <2> HIDE DEF ls2
  <2>4. PICK ls3 : ls3 = ls2
    OBVIOUS
  <2>5. /\ DOMAIN ls3 = DOMAIN link[s][p] /\ link' = [link EXCEPT ![s][p] = ls3]
        /\ \A j \in DOMAIN link[s][p] : ls3[j].s = link[s][p][j].s
    BY <2>1, <2>2, <2>3, <2>4
  <2>6. LinkBecomes(s, p, ls3)
    BY <2>5 DEF LinkBecomes
  <2> QED BY <1>1, <2>5, <2>6, CalmOf
<1> QED BY <1>0, <1>3, <1>4 DEF Accepted

LEMMA ProxyDiesQuiet == ASSUME IInv, Shape', NEW p \in Proxy, ProxyDies(p) PROVE StaysDown
<1>1. link \in [Server -> [Proxy -> Seq(AnyLink)]] /\ Shape
  BY DEF IInv, Shape
<1>2. run' \cap Server = run \cap Server
  BY ServerAssumption DEF ProxyDies
<1>3. ASSUME NEW s \in Server, NEW q \in Proxy
      PROVE  /\ DOMAIN link'[s][q] = DOMAIN link[s][q]
             /\ \A j \in DOMAIN link[s][q] : link'[s][q][j].s = link[s][q][j].s
  <2>1. link'[s] = [link[s] EXCEPT ![p] = [i \in DOMAIN link[s][p] |-> ProxyClosed(link[s][p][i])]]
    BY <1>1 DEF ProxyDies, Links
  <2>2. CASE q = p
    <3>1. link'[s][q] = [i \in DOMAIN link[s][q] |-> ProxyClosed(link[s][q][i])]
      BY <1>1, <2>1, <2>2
    <3>2. ASSUME NEW j \in DOMAIN link[s][q] PROVE ProxyClosed(link[s][q][j]).s = link[s][q][j].s
      BY InLinks, SameEnd
    <3> QED BY <3>1, <3>2
  <2>3. CASE q # p
    BY <1>1, <2>1, <2>3
  <2> QED BY <2>2, <2>3
<1>4. Calm(link, link')
  BY <1>3 DEF Calm
<1> QED BY <1>1, <1>2, <1>4, CalmQuiet

LEMMA TransferQuiet == ASSUME IInv, Shape', NEW s \in Server, NEW p \in Proxy, Transfer(p, s) PROVE StaysDown
<1>1. link \in [Server -> [Proxy -> Seq(AnyLink)]] /\ Shape
  BY DEF IInv, Shape
<1>2. run' \cap Server = run \cap Server
  BY DEF Transfer
<1>3. PICK i \in OpenLinks(p, s) : \E m, d, l1 :
              d = m.route[2] /\ TransferReads(s, p, i, m, l1) /\ TransferRest(p, d, m, l1)
  BY TransferIs
<1>4. PICK m, d, l1 :
              d = m.route[2] /\ TransferReads(s, p, i, m, l1) /\ TransferRest(p, d, m, l1)
  BY <1>3
<1>5. PICK ls1 : Reading(s, p, i, m, ls1) /\ l1 = [link EXCEPT ![s][p] = ls1]
  BY <1>4, ReadsSo
<1>6. ls1 \in Seq(AnyLink) /\ d \in Server
  BY <1>4, <1>5, AnyLinks DEF Reading
<1>7. l1 \in [Server -> [Proxy -> Seq(AnyLink)]]
  BY <1>1, <1>5, <1>6
<1>8. Calm(link, l1)
  <2>1. l1 = [link EXCEPT ![s][p][i] = [link[s][p][i] EXCEPT !.up = Tail(@)]]
    BY <1>4 DEF TransferReads, ReadBy
  <2>2. i \in DOMAIN link[s][p] /\ link[s][p][i] \in AnyLink
    BY InLinks
  <2>3. [link[s][p][i] EXCEPT !.up = Tail(@)].s = link[s][p][i].s
    BY <2>2, SameEnd
  <2> QED BY <1>1, <2>1, <2>2, <2>3, CalmPut
<1>9. CASE link' = l1
  BY <1>1, <1>2, <1>8, <1>9, CalmQuiet
<1>10. ASSUME NEW j \in OpenLinks(p, d), NEW k, TransferSent(p, d, m, l1, j, k) PROVE StaysDown
  <2>1. j \in DOMAIN link[d][p]
    BY <1>6, InLinks
  <2>2. j \in DOMAIN l1[d][p] /\ l1[d][p][j] \in AnyLink
    <3>1. DOMAIN l1[d][p] = DOMAIN link[d][p]
      BY <1>6, <1>8 DEF Calm
    <3> QED BY <1>6, <1>7, <2>1, <3>1
  <2>3. ProxyLink(l1[d][p][j], k).s = l1[d][p][j].s
    BY <2>2, SameEnd
  <2>4. link' = [l1 EXCEPT ![d][p][j] = ProxyLink(l1[d][p][j], k)]
    BY <1>10 DEF TransferSent
  <2>5. Calm(l1, link')
    BY <1>6, <1>7, <2>2, <2>3, <2>4, CalmPut
  <2> QED BY <1>1, <1>2, <1>8, <2>5, CalmOn, CalmQuiet
<1> QED BY <1>4, <1>9, <1>10, RestIs

LEMMA ProxyQuiet ==
    ASSUME IInv, Shape', NEW s \in Server, NEW p \in Proxy
    PROVE  /\ RecvServerEnd(p, s) => StaysDown
           /\ SendServerBuf(p, s) => StaysDown
           /\ Cut(s, p) => StaysDown
           /\ ProxyStarts(p) => StaysDown
<1>1. /\ OpenLinks(p, s) \subseteq DOMAIN link[s][p] /\ Links(s, p) = DOMAIN link[s][p]
      /\ \A i \in DOMAIN link[s][p] : link[s][p][i] \in AnyLink
  BY InLinks
<1>2. ASSUME RecvServerEnd(p, s) PROVE StaysDown
  <2>1. PICK i \in DOMAIN link[s][p] : link' = [link EXCEPT ![s][p][i] = ProxyClosed(link[s][p][i])]
    BY <1>1, <1>2 DEF RecvServerEnd
  <2>2. ProxyClosed(link[s][p][i]).s = link[s][p][i].s /\ run' \cap Server = run \cap Server
    BY <1>1, <1>2, SameEnd DEF RecvServerEnd
  <2> QED BY <2>1, <2>2, CalmOne
<1>3. ASSUME SendServerBuf(p, s) PROVE StaysDown
  <2>1. \E i \in DOMAIN link[s][p] : \E k : link' = [link EXCEPT ![s][p][i] = ProxyLink(link[s][p][i], k)]
    BY <1>1, <1>3 DEF SendServerBuf
  <2>2. PICK i \in DOMAIN link[s][p] :
           \E k : link' = [link EXCEPT ![s][p][i] = ProxyLink(link[s][p][i], k)]
    BY <2>1
  <2>3. /\ \A k : ProxyLink(link[s][p][i], k).s = link[s][p][i].s
        /\ run' \cap Server = run \cap Server
    BY <1>1, <1>3, SameEnd DEF SendServerBuf
  <2>4. PICK l : link' = [link EXCEPT ![s][p][i] = l] /\ l.s = link[s][p][i].s
    BY <2>2, <2>3
  <2> QED BY <2>3, <2>4, CalmOne
<1>4. ASSUME Cut(s, p) PROVE StaysDown
  <2>1. PICK i \in DOMAIN link[s][p] :
          link' = [link EXCEPT ![s][p][i] = [link[s][p][i] EXCEPT !.cut = TRUE, !.up = << >>, !.down = << >>]]
    BY <1>1, <1>4 DEF Cut
  <2>2. /\ [link[s][p][i] EXCEPT !.cut = TRUE, !.up = << >>, !.down = << >>].s = link[s][p][i].s
        /\ run' \cap Server = run \cap Server
    BY <1>1, <1>4, SameEnd DEF Cut
  <2> QED BY <2>1, <2>2, CalmOne
<1>5. ASSUME ProxyStarts(p) PROVE StaysDown
  BY <1>5 DEF ProxyStarts, StaysDown, Connected, Newest
<1> QED BY <1>2, <1>3, <1>4, <1>5

LEMMA NextSteps == ASSUME IInv, Next PROVE Steps /\ StaysDown
<1> DEFINE Done == Steps /\ StaysDown
<1>1. ASSUME NEW r \in Route, NEW p \in Proxy, Send(r, p) PROVE Done
  BY <1>1, IndexBy, SendSteps, ServerQuiet
<1>2. ASSUME NEW s \in Server, NEW p \in Proxy,
             SendProxyBuf(s, p) \/ Deliver(s, p) \/ RecvEnd(s, p)
      PROVE  Done
  BY <1>2, SendProxyBufSteps, DeliverSteps, RecvEndSteps, ServerQuiet
<1>3. ASSUME NEW s \in Server, NEW p \in Proxy,
             Accept(p, s) \/ Transfer(p, s) \/ RecvServerEnd(p, s) \/ SendServerBuf(p, s) \/ Cut(s, p)
      PROVE  Done
  <2>1. Steps
    BY <1>3, AcceptSteps, TransferSteps, RecvServerEndSteps, SendServerBufSteps, CutSteps
  <2>2. Shape'
    BY <2>1 DEF Steps
  <2> QED BY <1>3, <2>1, <2>2, AcceptQuiet, TransferQuiet, ProxyQuiet
<1>4. ASSUME NEW s \in Server, CheckConnect(s) \/ ServerDies(s) \/ ServerStarts(s) PROVE Done
  <2>1. PICK p \in Proxy : TRUE
    BY SizeAssumption DEF Proxy
  <2> QED BY <1>4, <2>1, CheckConnectSteps, ServerDiesSteps, ServerStartsSteps, ServerQuiet
<1>5. ASSUME NEW p \in Proxy, ProxyDies(p) \/ ProxyStarts(p) PROVE Done
  <2>1. Steps
    BY <1>5, ProxyDiesSteps, ProxyStartsSteps
  <2>2. Shape'
    BY <2>1 DEF Steps
  <2>3. PICK s \in Server : TRUE
    BY ServerAssumption
  <2> QED BY <1>5, <2>1, <2>2, <2>3, ProxyDiesQuiet, ProxyQuiet
<1> HIDE DEF Done
<1>6. Done
  BY <1>1, <1>2, <1>3, <1>4, <1>5 DEF Next
<1> QED BY <1>6 DEF Done

-----------------------------------------------------------------------------
(* What is in flight on a lane, by the invariant.                          *)

Ends == \A s \in Server, p \in Proxy : LinksOK(s, link[s][p])
FlightIs == \A r \in Route, p \in Proxy :
               Flight(r, p) = Way(Downs(r, p), Held(r, p), Ups(r, p), Unsent(r, p))

LEMMA NumsOfItems ==
    ASSUME NEW q, NEW r, NEW n
    PROVE  n \in Nums(q, r) <=> \E m \in Items(q) : m.route = r /\ m.n = n
BY DEF Nums, Items

LEMMA FlightOf == Ends => FlightIs
<1> SUFFICES ASSUME Ends, NEW r \in Route, NEW p \in Proxy
             PROVE  Flight(r, p) = Way(Downs(r, p), Held(r, p), Ups(r, p), Unsent(r, p))
  BY DEF FlightIs
<1> DEFINE us == link[r[1]][p]
           ds == link[r[2]][p]
           o  == out[r[1]][p]
           b  == reg[p][r[2]].buf
           ups == UNION {Items(us[i].up) : i \in DOMAIN us}
           downs == UNION {Items(ds[i].down) : i \in DOMAIN ds}
           all == Items(o) \cup ups \cup Items(b) \cup downs
<1>1. r[1] \in Server /\ r[2] \in Server
  BY IndexBy
<1>2. LinksOK(r[1], us) /\ LinksOK(r[2], ds)
  BY <1>1 DEF Ends
<1>3. Flight(r, p) = {m.n : m \in {x \in all : x.route = r}}
  BY DEF Flight, Links
<1>4. Downs(r, p) = Nums(ds[Len(ds)].down, r) /\ Held(r, p) = Nums(b, r) /\ Unsent(r, p) = Nums(o, r)
      /\ Ups(r, p) = [i \in DOMAIN us |-> Nums(us[i].up, r)]
  BY DEF Downs, Held, Unsent, Ups, Links, Newest
<1>5. Len(ds) \in DOMAIN ds /\ \A i \in DOMAIN ds : i # Len(ds) => ds[i].down = << >>
  <2> HIDE DEF ds
  <2> QED BY <1>2, LastLink
<1>6. ASSUME NEW n
      PROVE  n \in Flight(r, p) <=> \/ n \in Nums(o, r) \/ n \in Nums(b, r)
                                    \/ \E i \in DOMAIN us : n \in Nums(us[i].up, r)
                                    \/ \E i \in DOMAIN ds : n \in Nums(ds[i].down, r)
  <2>1. n \in Flight(r, p) <=> \E m \in all : m.route = r /\ m.n = n
    BY <1>3
  <2>2. \A m : m \in all <=> \/ m \in Items(o) \/ m \in Items(b)
                             \/ \E i \in DOMAIN us : m \in Items(us[i].up)
                             \/ \E i \in DOMAIN ds : m \in Items(ds[i].down)
    OBVIOUS
  <2> HIDE DEF all, us, ds, o, b
  <2> QED BY <2>1, <2>2, NumsOfItems
<1>7. ASSUME NEW n
      PROVE  (\E i \in DOMAIN ds : n \in Nums(ds[i].down, r)) <=> n \in Nums(ds[Len(ds)].down, r)
  BY <1>5, NumsOfNone
<1>8. ASSUME NEW n
      PROVE  n \in Way(Downs(r, p), Held(r, p), Ups(r, p), Unsent(r, p))
             <=> \/ n \in Nums(o, r) \/ n \in Nums(b, r)
                 \/ \E i \in DOMAIN us : n \in Nums(us[i].up, r)
                 \/ n \in Nums(ds[Len(ds)].down, r)
  <2> HIDE DEF us, ds, o, b
  <2> QED BY <1>4 DEF Way
<1> QED BY <1>6, <1>7, <1>8

LEMMA FlightNext == ASSUME Ends, Ends' PROVE FlightIs /\ FlightIs'
<1>1. FlightIs
  BY FlightOf
<1>2. Ends' => FlightIs'
  BY FlightOf, PTL
<1> QED BY <1>1, <1>2

(* What a step is to a lane.                                               *)
LaneMoves(r, p) ==
    \/ /\ sent'[r][p] = sent[r][p] + 1 /\ got'[r][p] = got[r][p]
       /\ Flight(r, p)' \subseteq Flight(r, p) \cup {sent[r][p] + 1}
    \/ \E n \in Flight(r, p) : /\ got'[r][p] = n /\ sent'[r][p] = sent[r][p]
                               /\ Flight(r, p)' = {m \in Flight(r, p) : m > n}
    \/ /\ sent'[r][p] = sent[r][p] /\ got'[r][p] = got[r][p]
       /\ Flight(r, p)' \subseteq Flight(r, p)

LEMMA LaneStep ==
    ASSUME IInv, Steps, NEW r \in Route, NEW p \in Proxy
    PROVE  LaneOK(r, p)' /\ LaneMoves(r, p)
<1>1. PICK D, B, U, O, n, g : /\ D = Downs(r, p) /\ B = Held(r, p) /\ U = Ups(r, p)
                              /\ O = Unsent(r, p) /\ n = sent[r][p] /\ g = got[r][p]
  OBVIOUS
<1>2. PICK D2, B2, V, O2, n2, g2 :
           /\ D2 = Downs(r, p)' /\ B2 = Held(r, p)' /\ V = Ups(r, p)'
           /\ O2 = Unsent(r, p)' /\ n2 = sent'[r][p] /\ g2 = got'[r][p]
  OBVIOUS
<1>3. Sorted(g, D, B, U, O, n)
  BY <1>1 DEF IInv, LaneOK
<1>4. DOMAIN V \subseteq Nat
  <2>1. r[1] \in Server
    BY IndexBy
  <2>2. link'[r[1]][p] \in Seq(AnyLink)
    BY <2>1 DEF Steps, Shape
  <2>3. DOMAIN V = DOMAIN link'[r[1]][p]
    BY <1>2 DEF Ups, Links
  <2> QED BY <2>2, <2>3
<1>5. Flight(r, p) = Way(D, B, U, O) /\ Flight(r, p)' = Way(D2, B2, V, O2)
  <2>1. Ends /\ Ends'
    BY DEF Ends, IInv, Steps, EndsOK
  <2>2. FlightIs /\ FlightIs'
    BY <2>1, FlightNext
  <2> QED BY <1>1, <1>2, <2>2 DEF FlightIs
<1>6. PICK F, F2 : F = Flight(r, p) /\ F2 = Flight(r, p)'
  OBVIOUS
<1>7. F = Way(D, B, U, O) /\ F2 = Way(D2, B2, V, O2)
  BY <1>5, <1>6
<1>8. CASE Passes(r, p)
  <2>1. ProxyMoves(D, B, U, O, D2, B2, V, O2) /\ n2 = n /\ g2 = g
    BY <1>1, <1>2, <1>8 DEF Passes
  <2>2. Sorted(g2, D2, B2, V, O2, n2) /\ F2 \subseteq F
    BY <1>3, <1>4, <1>7, <2>1, ProxyMoved
  <2> QED BY <1>1, <1>2, <1>6, <2>1, <2>2 DEF LaneOK, LaneMoves
<1>9. CASE Leaves(r, p)
  <2>1. ServerMoves(D, B, U, O, n, D2, B2, V, O2, n2) /\ g2 = g
    BY <1>1, <1>2, <1>9 DEF Leaves
  <2>2. /\ Sorted(g2, D2, B2, V, O2, n2)
        /\ \/ n2 = n + 1 /\ F2 \subseteq F \cup {n + 1}
           \/ n2 = n /\ F2 \subseteq F
    BY <1>3, <1>4, <1>7, <2>1, ServerMoved
  <2> QED BY <1>1, <1>2, <1>6, <2>1, <2>2 DEF LaneOK, LaneMoves
<1>10. CASE Comes(r, p)
  <2>1. PICK x : /\ D = {x} \cup D2 /\ Below({x}, D2) /\ g2 = x
                 /\ B2 = B /\ V = U /\ O2 = O /\ n2 = n
    BY <1>1, <1>2, <1>10 DEF Comes
  <2>2. Sorted(g2, D2, B2, V, O2, n2) /\ g2 \in F /\ F2 = {y \in F : y > g2}
    BY <1>3, <1>7, <2>1, ServerTook
  <2> QED BY <1>1, <1>2, <1>6, <2>1, <2>2 DEF LaneOK, LaneMoves
<1> QED BY <1>8, <1>9, <1>10 DEF Steps

LEMMA StillInv ==
    ASSUME IInv, UNCHANGED vars
    PROVE  IInv' /\ UNCHANGED <<left, run, link, out, reg, sent, got>>
<1>1. UNCHANGED <<left, run, link, out, reg, sent, got>>
  BY DEF vars
<1>2. Shape'
  BY <1>1 DEF IInv, Shape
<1>3. \A s \in Server, p \in Proxy :
         LinksOK(s, link'[s][p]) /\ BufferOK(From(s), out'[s][p]) /\ RegOK(p, s)'
  BY <1>1 DEF IInv, RegOK, OpenLinks, Links
<1>4. \A r \in Route, p \in Proxy : LaneOK(r, p)'
  BY <1>1 DEF IInv, LaneOK, Downs, Held, Ups, Unsent, Newest, Links
<1>5. \A s \in Server \ run', p \in Proxy : ~Connected(s, p)'
  BY <1>1 DEF IInv, Connected, Newest
<1> QED BY <1>1, <1>2, <1>3, <1>4, <1>5 DEF IInv

LEMMA InvStep == ASSUME IInv, [Next]_vars PROVE IInv'
<1>1. CASE Next
  <2>1. Steps /\ StaysDown
    BY <1>1, NextSteps
  <2>2. Down'
    BY <2>1, QuietDown DEF IInv, Down
  <2>3. \A r \in Route, p \in Proxy : LaneOK(r, p)'
    BY <2>1, LaneStep
  <2> QED BY <2>1, <2>2, <2>3 DEF IInv, Steps, EndsOK, Down
<1>2. CASE UNCHANGED vars
  BY <1>2, StillInv
<1> QED BY <1>1, <1>2

LEMMA InvInit == ASSUME Init PROVE IInv
<1> DEFINE new == [Fresh EXCEPT !.p = "open"]
<1>0. << >> \in Seq(Msg) /\ \A X : << >> \in Seq(X)
  OBVIOUS
<1>1. /\ new = [s |-> "open", p |-> "open", cut |-> FALSE, up |-> << >>, down |-> << >>]
      /\ new \in AnyLink /\ \A s : new \in LinkSet(s)
  <2>1. new = [s |-> "open", p |-> "open", cut |-> FALSE, up |-> << >>, down |-> << >>]
    <3>1. Fresh \in [s : {"open"}, p : {"wait"}, cut : {FALSE}, up : {<< >>}, down : {<< >>}]
      BY DEF Fresh
    <3>2. new = [s |-> Fresh.s, p |-> "open", cut |-> Fresh.cut, up |-> Fresh.up, down |-> Fresh.down]
      BY <3>1
    <3> HIDE DEF new
    <3> QED BY <3>1, <3>2
  <2> HIDE DEF new
  <2>2. << >> \in AnyMsg /\ \A X : << >> \in Stream(X)
    BY <1>0 DEF AnyMsg, Stream
  <2>3. new \in AnyLink
    BY <2>1, <2>2 DEF AnyLink
  <2>4. \A s : new \in LinkSet(s)
    BY <2>1, <2>2 DEF LinkSet
  <2> QED BY <2>1, <2>3, <2>4
<1>2. /\ left \in [Kinds -> Nat] /\ run = Server \cup Proxy
      /\ link = [s \in Server |-> [p \in Proxy |-> <<new>>]]
      /\ out = [s \in Server |-> [p \in Proxy |-> << >>]]
      /\ reg = [p \in Proxy |-> [s \in Server |-> [known |-> TRUE, buf |-> << >>]]]
      /\ sent = [r \in Route |-> [p \in Proxy |-> 0]] /\ got = sent
  BY MixAssumption DEF Init
<1> HIDE DEF new
<1>3. Shape
  BY <1>0, <1>1, <1>2 DEF Shape
<1>4. ASSUME NEW s \in Server PROVE LinksOK(s, <<new>>)
  <2>1. /\ <<new>> \in Seq(LinkSet(s)) /\ Len(<<new>>) = 1 /\ DOMAIN <<new>> = {1} /\ <<new>>[1] = new
    BY <1>1
  <2>2. new.s = "open" /\ new.p = "open" /\ new.up = << >> /\ new.down = << >>
    BY <1>1
  <2>3. /\ \A i \in DOMAIN <<new>> : i = 1 /\ <<new>>[i] = new
        /\ Len(<<new>>) > 0
    BY <2>1
  <2>4. ~(1 < 1) /\ AllRising(new.up) /\ AllRising(new.down)
    BY <2>2, NoneRise
  <2> QED BY <2>1, <2>2, <2>3, <2>4 DEF LinksOK
<1>5. ASSUME NEW X PROVE BufferOK(X, << >>)
  BY <1>0, NoneRise, SizeAssumption DEF BufferOK
<1>6. ASSUME NEW s \in Server, NEW p \in Proxy
      PROVE  LinksOK(s, link[s][p]) /\ BufferOK(From(s), out[s][p]) /\ RegOK(p, s)
  <2>1. link[s][p] = <<new>> /\ out[s][p] = << >> /\ reg[p][s] = [known |-> TRUE, buf |-> << >>]
    BY <1>2
  <2>2. reg[p][s].known = TRUE /\ reg[p][s].buf = << >>
    BY <2>1
  <2> QED BY <1>4, <1>5, <2>1, <2>2 DEF RegOK
<1>7. ASSUME NEW r \in Route, NEW p \in Proxy PROVE LaneOK(r, p)
  <2>1. r[1] \in Server /\ r[2] \in Server
    BY IndexBy
  <2>2. /\ link[r[1]][p] = <<new>> /\ link[r[2]][p] = <<new>> /\ out[r[1]][p] = << >>
        /\ reg[p][r[2]].buf = << >> /\ sent[r][p] = 0 /\ got[r][p] = 0
    BY <1>2, <2>1
  <2>3. /\ Len(<<new>>) = 1 /\ DOMAIN <<new>> = {1} /\ <<new>>[1] = new
        /\ new.up = << >> /\ new.down = << >>
    BY <1>1
  <2>4. /\ Downs(r, p) = {} /\ Held(r, p) = {} /\ Unsent(r, p) = {}
        /\ Ups(r, p) = [i \in {1} |-> {}]
    BY <2>2, <2>3, NumsOfNone DEF Downs, Held, Unsent, Ups, Links, Newest
  <2>5. PICK U : U = [i \in {1} |-> {}]
    OBVIOUS
  <2>6. DOMAIN U = {1} /\ \A i \in DOMAIN U : U[i] = {}
    BY <2>5
  <2>7. Sorted(0, {}, {}, U, {}, 0)
    BY <2>6 DEF Sorted, Way, Below
  <2> QED BY <2>2, <2>4, <2>5, <2>7 DEF LaneOK
<1>8. Server \ run = {}
  BY <1>2
<1> QED BY <1>3, <1>6, <1>7, <1>8 DEF IInv

(* The inductive invariant: of all that a server has sent to another by a  *)
(* proxy, what has come, what is on its way to the addressee, in the       *)
(* proxy's buffer, on the connections to the proxy, oldest first, and in   *)
(* the sender's buffer follow each other (SendOneData, ReserveData,        *)
(* Register and DoTransfer at both ends).                                  *)
THEOREM LanesInductive == Spec => []IInv
<1>1. Init => IInv
  BY InvInit
<1>2. IInv /\ [Next]_vars => IInv'
  BY InvStep
<1> QED BY <1>1, <1>2, PTL DEF Spec

(* Buffers keep their limit, a proxy reads by one connection of a server   *)
(* and has slots for all (ReserveData, Register, SocketCreate).            *)
THEOREM ProxyTyped == Spec => []TypeOK
<1>1. IInv => TypeOK
  <2> SUFFICES ASSUME IInv PROVE TypeOK
    OBVIOUS
  <2>1. left \in [Kinds -> Nat] /\ run \subseteq Server \cup Proxy
    BY DEF IInv, Shape
  <2>2. ASSUME NEW s \in Server, NEW p \in Proxy
        PROVE  /\ Len(out[s][p]) <= BufSize /\ Len(reg[p][s].buf) <= BufSize
               /\ Cardinality(OpenLinks(p, s)) <= 1
               /\ OpenLinks(p, s) # {} => reg[p][s].known
               /\ \A i \in Links(s, p) : i < Newest(s, p) => link[s][p][i].s = "closed"
    <3>1. LinksOK(s, link[s][p]) /\ BufferOK(From(s), out[s][p]) /\ RegOK(p, s)
      BY DEF IInv
    <3>2. ASSUME NEW i \in OpenLinks(p, s), NEW j \in OpenLinks(p, s) PROVE i = j
      <4>1. /\ i \in DOMAIN link[s][p] /\ link[s][p][i].p = "open" /\ i \in Nat
            /\ j \in DOMAIN link[s][p] /\ link[s][p][j].p = "open" /\ j \in Nat
        BY <3>1 DEF OpenLinks, Links, LinksOK
      <4>2. ~(i < j) /\ ~(j < i)
        BY <3>1, <4>1 DEF LinksOK
      <4> QED BY <4>1, <4>2
    <3>3. Cardinality(OpenLinks(p, s)) <= 1
      <4>1. CASE OpenLinks(p, s) = {}
        BY <4>1, FS_EmptySet
      <4>2. CASE OpenLinks(p, s) # {}
        <5>1. PICK i : i \in OpenLinks(p, s)
          BY <4>2
        <5>2. OpenLinks(p, s) = {i}
          BY <3>2, <5>1
        <5>3. Cardinality({i}) = 1
          BY FS_Singleton
        <5> QED BY <5>2, <5>3
      <4> QED BY <4>1, <4>2
    <3>4. \A i \in Links(s, p) : i < Newest(s, p) => link[s][p][i].s = "closed"
      BY <3>1 DEF LinksOK, Links, Newest
    <3> QED BY <3>1, <3>3, <3>4 DEF BufferOK, RegOK
  <2>3. ASSUME NEW p \in Proxy PROVE UsedSlots(p) <= SlotNum
    <3> DEFINE K == {s \in Server : reg[p][s].known}
    <3>1. IsFiniteSet(Server) /\ Server # {} /\ K \subseteq Server
      BY ServerAssumption
    <3> HIDE DEF K
    <3>2. /\ Cardinality(K) \in Nat /\ Cardinality(Server) \in Nat
          /\ Cardinality(K) <= Cardinality(Server) /\ Cardinality(Server) # 0
      BY <3>1, FS_CardinalityType, FS_Subset, FS_EmptySet
    <3>3. UsedSlots(p) = 1 + Cardinality(K)
      BY DEF UsedSlots, K
    <3> QED BY <3>2, <3>3 DEF SlotNum
  <2> QED BY <2>1, <2>2, <2>3 DEF TypeOK
<1> QED BY <1>1, LanesInductive, PTL

(* A step of the proxies is one of the channel, on every lane.             *)
LEMMA PathStep == ASSUME IInv, [Next]_vars PROVE [Path!Next]_(Path!vars)
<1>1. CASE Next
  <2>1. Steps
    BY <1>1, NextSteps
  <2>2. ASSUME NEW l \in Lane PROVE Path!Send(l) \/ Path!Deliver(l) \/ Path!Lose(l)
    <3>1. PICK r, p : r = l[1] /\ p = l[2] /\ r \in Route /\ p \in Proxy
      BY DEF Lane
    <3>2. LaneMoves(r, p)
      BY <2>1, <3>1, LaneStep
    <3> QED BY <3>1, <3>2 DEF LaneMoves, Path!Send, Path!Deliver, Path!Lose
  <2> QED BY <2>2 DEF Path!Next
<1>2. CASE UNCHANGED vars
  <2>1. UNCHANGED <<left, run, link, out, reg, sent, got>>
    BY <1>2 DEF vars
  <2> QED BY <2>1 DEF Path!vars, Flight, Links
<1> QED BY <1>1, <1>2

(* The proxies implement the channel, for any number of servers and        *)
(* proxies: what was sent may be lost, but nothing comes twice or out of   *)
(* order (SendOneData, ReserveData, SendBufData and Register at both ends, *)
(* CheckConnect and DoTransfer).                                           *)
THEOREM ProxyImplements == Spec => InOrder
<1>1. Init => Path!Init
  <2> SUFFICES ASSUME Init, NEW l \in Lane
               PROVE  sent[l[1]][l[2]] = 0 /\ got[l[1]][l[2]] = 0 /\ Flight(l[1], l[2]) = {}
    BY DEF Path!Init
  <2>1. PICK r, p : r = l[1] /\ p = l[2] /\ r \in Route /\ p \in Proxy
    BY DEF Lane
  <2>2. sent[r][p] = 0 /\ got[r][p] = 0
    BY <2>1 DEF Init
  <2>3. IInv
    BY InvInit
  <2>4. Flight(r, p) = Way(Downs(r, p), Held(r, p), Ups(r, p), Unsent(r, p))
    BY <2>1, <2>3, FlightOf DEF FlightIs, Ends, IInv
  <2>5. \A x \in Flight(r, p) : x \in Nat /\ 0 < x /\ x <= 0
    BY <2>1, <2>2, <2>3, <2>4 DEF IInv, LaneOK, Sorted
  <2> QED BY <2>1, <2>2, <2>5
<1>2. IInv /\ [Next]_vars => [Path!Next]_(Path!vars)
  BY PathStep
<1> QED BY <1>1, <1>2, LanesInductive, PTL DEF Spec, InOrder, Path!Spec

(* In particular, what comes by a route and a proxy was sent, and its      *)
(* numbers only rise: no message comes twice or after a later one.         *)
THEOREM OnceInOrder == Spec => []Path!Ahead /\ Path!Forward
<1>1. IInv => Path!Ahead
  <2> SUFFICES ASSUME IInv, NEW l \in Lane
               PROVE  /\ sent[l[1]][l[2]] \in Nat /\ got[l[1]][l[2]] \in Nat
                      /\ got[l[1]][l[2]] <= sent[l[1]][l[2]]
                      /\ \A n \in Flight(l[1], l[2]) : /\ n \in Nat /\ got[l[1]][l[2]] < n
                                                       /\ n <= sent[l[1]][l[2]]
    BY DEF Path!Ahead
  <2>1. PICK r, p : r = l[1] /\ p = l[2] /\ r \in Route /\ p \in Proxy
    BY DEF Lane
  <2>2. Flight(r, p) = Way(Downs(r, p), Held(r, p), Ups(r, p), Unsent(r, p))
    BY <2>1, FlightOf DEF FlightIs, Ends, IInv
  <2>3. LaneOK(r, p)
    BY <2>1 DEF IInv
  <2> QED BY <2>1, <2>2, <2>3 DEF LaneOK, Sorted
<1>2. IInv /\ [Next]_vars => [\A l \in Lane : Path!Forwards(l)]_(Path!vars)
  <2> SUFFICES ASSUME IInv, Next, NEW l \in Lane
               PROVE  \/ got'[l[1]][l[2]] = got[l[1]][l[2]]
                      \/ got'[l[1]][l[2]] > got[l[1]][l[2]]
    BY StillInv DEF Path!Forwards
  <2>1. PICK r, p : r = l[1] /\ p = l[2] /\ r \in Route /\ p \in Proxy
    BY DEF Lane
  <2>2. LaneMoves(r, p)
    BY <2>1, NextSteps, LaneStep
  <2>3. \A n \in Flight(r, p) : n \in Nat /\ got[r][p] < n
    <3>1. Flight(r, p) = Way(Downs(r, p), Held(r, p), Ups(r, p), Unsent(r, p))
      BY <2>1, FlightOf DEF FlightIs, Ends, IInv
    <3>2. LaneOK(r, p)
      BY <2>1 DEF IInv
    <3> QED BY <3>1, <3>2 DEF LaneOK, Sorted
  <2>4. got[r][p] \in Nat
    BY <2>1 DEF IInv, Shape
  <2> QED BY <2>1, <2>2, <2>3, <2>4 DEF LaneMoves
<1> QED BY <1>1, <1>2, LanesInductive, PTL DEF Spec, Path!Forward
=============================================================================

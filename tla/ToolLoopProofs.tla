--------------------------- MODULE ToolLoopProofs ---------------------------
(***************************************************************************)
(* Theorems about ToolLoop, for any tools, replies, rounds and capacities. *)
(***************************************************************************)
EXTENDS ToolLoop, NaturalsInduction, WellFoundedInduction, TLAPS

-----------------------------------------------------------------------------
(* The inductive invariant.                                                *)

\* The chunks on their way: those of a reply, numbered, and the usage.
Numbered(c, p) == [text |-> c.text, think |-> c.think, usage |-> FALSE, at |-> p]
Moving == {Numbered(c, p) : c \in Sendable, p \in Pieces} \cup {UsageChunk}

LoopRec(k) ==
    k \in [pc : {"prepare", "round", "send", "drain", "emit", "tools", "returned"},
           round : Nat \ {0}, text : {k.text}, fwd : BOOLEAN, cur : Seq(Moving), usage : BOOLEAN,
           asked : {k.asked}, result : {k.result}, content : {k.content}]

PipeRec(p) ==
    p \in [src : Seq(Sendable), sent : Nat, state : {"none", "open", "ended"},
           hop : [1..3 -> Seq(Moving)], closed : SUBSET (1..3), slot : BOOLEAN,
           busy : BOOLEAN, cut : BOOLEAN]

ReplyRec(r) ==
    r \in [pc : {"wait", "mark", "returned", "queued"}, charged : BOOLEAN, kept : BOOLEAN]

SseRec(s) == s \in [next : Nat, last : Nat, done : BOOLEAN, late : BOOLEAN, mixed : BOOLEAN]

ToolRec(t) ==
    t \in [pc : {"check", "read", "exec", "fin", "end", "read2"} \cup InEmit, call : {t.call},
           tmp : Nat, tries : Nat, out : {t.out}]

ShapeInv ==
    /\ stream \in BOOLEAN /\ left \in BOOLEAN /\ raced \in BOOLEAN
    /\ LoopRec(loop) /\ PipeRec(pipe) /\ ReplyRec(reply) /\ SseRec(sse)
    /\ tool = [i \in DOMAIN tool |-> tool[i]] /\ \A i \in DOMAIN tool : ToolRec(tool[i])
    /\ made \in Seq(Pieces) /\ shown \in Seq(Pieces)

\* Run, and what the handler makes of its result.
LoopInv ==
    /\ loop.pc \in {"send", "drain", "emit"} => loop.round <= MaxRounds
    /\ IF loop.pc = "emit"
       THEN Len(loop.cur) = 1 /\ Forwarded(loop.cur[1]) /\ loop.fwd
       ELSE loop.cur = <<>>
    /\ ~loop.usage
    /\ loop.result = "ok" => loop.pc = "returned"
    /\ loop.pc # "tools" => DOMAIN tool = {}
    /\ ~reply.charged
    /\ reply.pc = "wait" => ~reply.kept
    /\ reply.kept => loop.result = "ok"
    /\ reply.pc = "mark" => loop.pc = "returned"

\* A channel that is closed has nothing before it, and out of a round all is empty.
PipeInv ==
    /\ Len(pipe.src) + pipe.sent <= MaxLength
    /\ pipe.state = "open" => 1 \notin pipe.closed
    /\ 2 \in pipe.closed => 1 \in pipe.closed /\ pipe.hop[1] = <<>>
    /\ 3 \in pipe.closed => 2 \in pipe.closed /\ pipe.hop[2] = <<>>
    /\ loop.pc \notin {"drain", "emit"} =>
         pipe.state # "open" /\ \A i \in 1..3 : pipe.hop[i] = <<>>

\* The counter of events and those who use it.
SseInv ==
    /\ sse.late => left
    /\ sse.done => left \/ (reply.pc = "returned" /\ loop.pc = "returned")
    /\ sse.mixed => raced
    /\ ~raced =>
         /\ sse.last <= sse.next
         /\ \A i \in DOMAIN tool : tool[i].pc \in InEmit =>
              /\ \A j \in DOMAIN tool : tool[j].pc \in InEmit => j = i
              /\ tool[i].pc \in {"write", "write2"} => tool[i].tmp = sse.next
              /\ tool[i].pc \in {"append", "append2"} => sse.last < sse.next

\* p is what the chunks q say, in their order: the i-th piece is that of chunk pos[i].
ListsBy(q, p, pos) ==
    /\ pos \in [1..Len(p) -> 1..Len(q)]
    /\ \A i, j \in 1..Len(p) : i < j => pos[i] < pos[j]
    /\ \A i \in 1..Len(p) : q[pos[i]].text # <<>> /\ p[i] = q[pos[i]].at
    /\ \A n \in 1..Len(q) : q[n].text # <<>> => \E i \in 1..Len(p) : pos[i] = n

Lists(q, p) == \E pos \in [1..Len(p) -> 1..Len(q)] : ListsBy(q, p, pos)

\* The chunks between the sender and the client.
Flight == loop.cur \o (pipe.hop[3] \o (pipe.hop[2] \o pipe.hop[1]))

\* As long as nothing was refused, what was made was shown or is on its way.
FlowInv == loop.fwd => \E p \in Seq(Pieces) : made = shown \o p /\ Lists(Flight, p)

LoopInvs == ShapeInv /\ LoopInv /\ PipeInv /\ SseInv /\ FlowInv

-----------------------------------------------------------------------------
(* Chunks, sequences of them and the pieces they carry.                    *)

LEMMA Constants ==
    /\ MaxLength \in Nat /\ MaxRounds \in Nat \ {0} /\ Cap \in Nat \ {0}
    /\ Replies \subseteq Seq(Sendable)
    /\ \A r \in Replies : Len(r) <= MaxLength
    /\ \A c \in Sendable : c = Chunk(c.text, c.think) /\ c.think \in BOOLEAN
BY ToolLoopAssumption

\* Usage comes in a chunk of its own.
LEMMA ChunkIs ==
    ASSUME NEW c \in Moving
    PROVE  /\ c.think \in BOOLEAN /\ c.usage \in BOOLEAN
           /\ c.text # <<>> \/ c.think => ~c.usage
           /\ c.text # <<>> => c.at \in Pieces
<1>1. CASE c = UsageChunk
  BY <1>1 DEF UsageChunk
<1>2. ASSUME NEW d \in Sendable, NEW p \in Pieces,
             c = Numbered(d, p)
      PROVE  c.think \in BOOLEAN /\ c.usage = FALSE /\ c.at \in Pieces
  BY <1>2, Constants DEF Numbered
<1>3. CASE c # UsageChunk
  <2>1. PICK d \in Sendable, p \in Pieces : c = Numbered(d, p)
    BY <1>3 DEF Moving
  <2> QED
    BY <1>2, <2>1
<1> QED
  BY <1>1, <1>3

LEMMA Associative ==
    ASSUME NEW S, NEW a \in Seq(S), NEW b \in Seq(S), NEW d \in Seq(S)
    PROVE  /\ (a \o b) \o d = a \o (b \o d)
           /\ a \o b \in Seq(S)
           /\ <<>> \o a = a /\ a \o <<>> = a
OBVIOUS

\* A chunk moves from the head of b to the end of a.
LEMMA OneMoves ==
    ASSUME NEW S, NEW a \in Seq(S), NEW b \in Seq(S), b # <<>>
    PROVE  /\ Head(b) \in S /\ Tail(b) \in Seq(S)
           /\ Append(a, Head(b)) \in Seq(S)
           /\ Append(a, Head(b)) \o Tail(b) = a \o b
           /\ <<Head(b)>> \o Tail(b) = b
<1>1. Head(b) \in S /\ Tail(b) \in Seq(S)
  OBVIOUS
<1>h. PICK h \in S : h = Head(b)
  BY <1>1
<1>t. PICK t \in Seq(S) : t = Tail(b)
  BY <1>1
<1>2. <<h>> \in Seq(S) /\ <<h>> \o t = b
  BY <1>h, <1>t
<1>3. Append(a, h) = a \o <<h>> /\ Append(a, h) \in Seq(S)
  OBVIOUS
<1>4. (a \o <<h>>) \o t = a \o (<<h>> \o t)
  BY <1>2, Associative
<1> QED
  BY <1>h, <1>t, <1>2, <1>3, <1>4

LEMMA NothingListed ==
    ASSUME NEW p \in Seq(Pieces)
    PROVE  Lists(<<>>, <<>>) /\ (Lists(<<>>, p) => p = <<>>)
<1>1. Lists(<<>>, <<>>)
  <2>1. [i \in 1..0 |-> 0] \in [1..Len(<<>>) -> 1..Len(<<>>)]
    OBVIOUS
  <2>2. ListsBy(<<>>, <<>>, [i \in 1..0 |-> 0])
    BY <2>1 DEF ListsBy
  <2> QED
    BY <2>1, <2>2 DEF Lists
<1>2. ASSUME Lists(<<>>, p) PROVE p = <<>>
  <2>1. PICK pos \in [1..Len(p) -> 1..Len(<<>>)] : TRUE
    BY <1>2 DEF Lists
  <2>2. CASE Len(p) > 0
    <3>m. PICK m \in Nat : m = Len(<<>>) /\ m = 0
      OBVIOUS
    <3>1. 1 \in 1..Len(p)
      BY <2>2
    <3>2. pos[1] \in 1..m
      BY <2>1, <3>m, <3>1
    <3> QED
      BY <3>m, <3>2
  <2> QED
    BY <2>2
<1> QED
  BY <1>1, <1>2

\* One chunk more.
LEMMA ListsAppend ==
    ASSUME NEW q \in Seq(Moving), NEW p \in Seq(Pieces), Lists(q, p), NEW c \in Moving
    PROVE  p \o PieceOf(c) \in Seq(Pieces) /\ Lists(Append(q, c), p \o PieceOf(c))
<1>pos. PICK pos \in [1..Len(p) -> 1..Len(q)] : ListsBy(q, p, pos)
  BY DEF Lists
<1>r. PICK r : r = Append(q, c)
  OBVIOUS
<1>1. r \in Seq(Moving) /\ Len(r) = Len(q) + 1 /\ r[Len(q) + 1] = c
      /\ \A i \in 1..Len(q) : r[i] = q[i]
  BY <1>r
<1>l. Len(q) \in Nat /\ Len(p) \in Nat
  OBVIOUS
<1>2. CASE c.text = <<>>
  <2>1. p \o PieceOf(c) = p
    BY <1>2 DEF PieceOf
  <2>2. pos \in [1..Len(p) -> 1..Len(r)] /\ \A i \in 1..Len(p) : r[pos[i]] = q[pos[i]]
    BY <1>1, <1>l
  <2>3. \A n \in 1..Len(r) : r[n].text # <<>> => \E i \in 1..Len(p) : pos[i] = n
    BY <1>pos, <1>1, <1>2, <1>l DEF ListsBy
  <2>4. ListsBy(r, p, pos)
    BY <1>pos, <2>2, <2>3 DEF ListsBy
  <2> QED
    BY <1>r, <2>1, <2>2, <2>4 DEF Lists
<1>3. CASE c.text # <<>>
  <2>a. PICK a \in Pieces : a = c.at
    BY <1>3, ChunkIs
  <2>s. PICK s : s = p \o PieceOf(c)
    OBVIOUS
  <2>1. s \in Seq(Pieces) /\ Len(s) = Len(p) + 1 /\ s[Len(p) + 1] = a
        /\ \A i \in 1..Len(p) : s[i] = p[i]
    <3>1. s = p \o <<a>>
      BY <1>3, <2>a, <2>s DEF PieceOf
    <3> QED
      BY <3>1
  <2>n. PICK new : new = [i \in 1..(Len(p) + 1) |-> IF i <= Len(p) THEN pos[i] ELSE Len(q) + 1]
    OBVIOUS
  <2>2. /\ new \in [1..Len(s) -> 1..Len(r)] /\ new[Len(p) + 1] = Len(q) + 1
        /\ \A i \in 1..Len(p) : new[i] = pos[i] /\ new[i] \in 1..Len(q)
    <3>m. PICK m \in Nat, k \in Nat : m = Len(p) /\ k = Len(q)
      BY <1>l
    <3>1. \A i \in 1..m : pos[i] \in 1..k
      BY <3>m
    <3>2. new = [i \in 1..(m + 1) |-> IF i <= m THEN pos[i] ELSE k + 1]
      BY <2>n, <3>m
    <3>3. /\ new \in [1..(m + 1) -> 1..(k + 1)] /\ new[m + 1] = k + 1
          /\ \A i \in 1..m : new[i] = pos[i]
      BY <3>1, <3>2
    <3> QED
      BY <1>1, <2>1, <3>m, <3>1, <3>3
  <2>3. \A i, j \in 1..Len(s) : i < j => new[i] < new[j]
    <3> SUFFICES ASSUME NEW i \in 1..Len(s), NEW j \in 1..Len(s), i < j PROVE new[i] < new[j]
      OBVIOUS
    <3>1. i \in 1..Len(p) /\ new[i] = pos[i] /\ new[i] \in 1..Len(q)
      BY <1>l, <2>1, <2>2
    <3>2. CASE j \in 1..Len(p)
      BY <1>pos, <2>2, <3>1, <3>2 DEF ListsBy
    <3>3. CASE j = Len(p) + 1
      BY <1>l, <2>2, <3>1, <3>3
    <3> QED
      BY <1>l, <2>1, <3>2, <3>3
  <2>4. \A i \in 1..Len(s) : r[new[i]].text # <<>> /\ s[i] = r[new[i]].at
    <3> TAKE i \in 1..Len(s)
    <3>1. CASE i \in 1..Len(p)
      <4>1. new[i] = pos[i] /\ s[i] = p[i] /\ pos[i] \in 1..Len(q)
        BY <2>1, <2>2, <3>1
      <4>2. q[pos[i]].text # <<>> /\ p[i] = q[pos[i]].at
        BY <1>pos, <3>1 DEF ListsBy
      <4>3. r[pos[i]] = q[pos[i]]
        BY <1>1, <4>1
      <4> QED
        BY <4>1, <4>2, <4>3
    <3>2. CASE i = Len(p) + 1
      BY <1>1, <1>3, <2>a, <2>1, <2>2, <3>2
    <3> QED
      BY <1>l, <2>1, <3>1, <3>2
  <2>5. \A n \in 1..Len(r) : r[n].text # <<>> => \E i \in 1..Len(s) : new[i] = n
    <3> SUFFICES ASSUME NEW n \in 1..Len(r), r[n].text # <<>> PROVE \E i \in 1..Len(s) : new[i] = n
      OBVIOUS
    <3>1. CASE n \in 1..Len(q)
      <4>1. PICK i \in 1..Len(p) : pos[i] = n
        BY <1>pos, <1>1, <3>1 DEF ListsBy
      <4>2. i \in 1..Len(s) /\ new[i] = n
        BY <1>l, <2>1, <2>2, <4>1
      <4> QED
        BY <4>2
    <3>2. CASE n = Len(q) + 1
      <4>1. Len(p) + 1 \in 1..Len(s) /\ new[Len(p) + 1] = n
        BY <1>l, <2>1, <2>2, <3>2
      <4> QED
        BY <4>1
    <3> QED
      BY <1>l, <1>1, <3>1, <3>2
  <2>6. ListsBy(r, s, new)
    BY <2>2, <2>3, <2>4, <2>5 DEF ListsBy
  <2> QED
    BY <1>r, <2>s, <2>1, <2>2, <2>6 DEF Lists
<1> QED
  BY <1>2, <1>3

\* The first chunk is taken: its piece, if it has one, is the first.
LEMMA ListsTail ==
    ASSUME NEW q \in Seq(Moving), NEW p \in Seq(Pieces), Lists(q, p), q # <<>>
    PROVE  \E s \in Seq(Pieces) : p = PieceOf(Head(q)) \o s /\ Lists(Tail(q), s)
<1>pos. PICK pos \in [1..Len(p) -> 1..Len(q)] : ListsBy(q, p, pos)
  BY DEF Lists
<1>t. PICK t \in Seq(Moving) : t = Tail(q)
  <2>1. Tail(q) \in Seq(Moving)
    OBVIOUS
  <2> QED
    BY <2>1
<1>c. PICK c \in Moving : c = q[1] /\ c = Head(q)
  OBVIOUS
<1>l. PICK l \in Nat : l = Len(q) - 1
  OBVIOUS
<1>1. Len(t) = l /\ Len(q) = l + 1 /\ \A i \in 1..l : t[i] = q[i + 1]
  BY <1>t, <1>l
<1>m. PICK m \in Nat : m = Len(p)
  OBVIOUS
<1>2. CASE c.text = <<>>
  <2>1. \A i \in 1..m : pos[i] # 1 /\ pos[i] \in 1..(l + 1)
    <3> TAKE i \in 1..m
    <3>1. pos[i] \in 1..(l + 1)
      BY <1>pos, <1>m, <1>1
    <3>2. q[pos[i]].text # <<>>
      BY <1>pos, <1>m DEF ListsBy
    <3> QED
      BY <1>c, <1>2, <3>1, <3>2
  <2>n. PICK new : new = [i \in 1..m |-> pos[i] - 1]
    OBVIOUS
  <2>2. /\ new \in [1..m -> 1..l]
        /\ \A i \in 1..m : pos[i] = new[i] + 1 /\ new[i] \in 1..l /\ t[new[i]] = q[pos[i]]
    <3>1. \A i \in 1..m : pos[i] - 1 \in 1..l /\ pos[i] \in Nat
      BY <2>1
    <3>2. new \in [1..m -> 1..l]
      BY <2>n, <3>1
    <3>3. \A i \in 1..m : pos[i] = new[i] + 1 /\ new[i] \in 1..l
      BY <2>n, <3>1
    <3> QED
      BY <1>1, <3>2, <3>3
  <2>3. \A i, j \in 1..m : i < j => new[i] < new[j]
    <3> SUFFICES ASSUME NEW i \in 1..m, NEW j \in 1..m, i < j PROVE new[i] < new[j]
      OBVIOUS
    <3>1. pos[i] < pos[j]
      BY <1>pos, <1>m DEF ListsBy
    <3>2. pos[i] = new[i] + 1 /\ pos[j] = new[j] + 1 /\ new[i] \in Nat /\ new[j] \in Nat
      BY <2>2
    <3> QED
      BY <3>1, <3>2
  <2>4. \A i \in 1..m : t[new[i]].text # <<>> /\ p[i] = t[new[i]].at
    BY <1>pos, <1>m, <2>2 DEF ListsBy
  <2>5. \A n \in 1..l : t[n].text # <<>> => \E i \in 1..m : new[i] = n
    <3> SUFFICES ASSUME NEW n \in 1..l, t[n].text # <<>> PROVE \E i \in 1..m : new[i] = n
      OBVIOUS
    <3>1. n + 1 \in 1..Len(q) /\ q[n + 1].text # <<>>
      BY <1>1
    <3>2. PICK i \in 1..m : pos[i] = n + 1
      BY <1>pos, <1>m, <3>1 DEF ListsBy
    <3>3. new[i] = n
      BY <2>2, <3>2
    <3> QED
      BY <3>3
  <2>6. Lists(t, p)
    <3>1. Len(p) = m /\ Len(t) = l
      BY <1>m, <1>1
    <3>2. new \in [1..m -> 1..l]
      BY <2>2
    <3>3. ListsBy(t, p, new)
      BY <2>3, <2>4, <2>5, <3>1, <3>2 DEF ListsBy
    <3> QED
      BY <3>1, <3>2, <3>3 DEF Lists
  <2>7. p = PieceOf(c) \o p
    BY <1>2 DEF PieceOf
  <2> QED
    BY <1>c, <1>t, <2>6, <2>7
<1>3. CASE c.text # <<>>
  <2>1. m > 0 /\ pos[1] = 1
    <3>1. PICK i \in 1..m : pos[i] = 1
      <4>1. 1 \in 1..Len(q) /\ q[1].text # <<>>
        BY <1>c, <1>1, <1>3
      <4> QED
        BY <1>pos, <1>m, <4>1 DEF ListsBy
    <3>2. CASE i # 1
      <4>1. 1 \in 1..m /\ 1 < i /\ pos[1] \in 1..Len(q)
        BY <1>m, <3>2
      <4>2. pos[1] < pos[i]
        BY <1>pos, <1>m, <4>1 DEF ListsBy
      <4> QED
        BY <3>1, <4>1, <4>2
    <3> QED
      BY <3>1, <3>2
  <2>2. p[1] = c.at
    BY <1>pos, <1>c, <1>m, <2>1 DEF ListsBy
  <2>s. PICK s \in Seq(Pieces) : s = Tail(p)
    <3>1. p # <<>>
      BY <1>m, <2>1
    <3>2. Tail(p) \in Seq(Pieces)
      BY <3>1
    <3> QED
      BY <3>2
  <2>k. PICK k \in Nat : k = m - 1
    BY <2>1
  <2>3. Len(s) = k /\ m = k + 1 /\ \A i \in 1..k : s[i] = p[i + 1]
    BY <1>m, <2>1, <2>s, <2>k
  <2>4. p = <<c.at>> \o s
    <3>1. p # <<>> /\ Head(p) = c.at
      BY <1>m, <2>1, <2>2
    <3>2. <<Head(p)>> \o Tail(p) = p
      BY <3>1, OneMoves
    <3> QED
      BY <2>s, <3>1, <3>2
  <2>5. \A i \in 1..k : pos[i + 1] > 1 /\ pos[i + 1] \in 1..(l + 1)
    <3> TAKE i \in 1..k
    <3>1. 1 \in 1..m /\ i + 1 \in 1..m /\ 1 < i + 1
      BY <2>1, <2>3
    <3> QED
      BY <1>pos, <1>m, <1>1, <2>1, <3>1 DEF ListsBy
  <2>n. PICK new : new = [i \in 1..k |-> pos[i + 1] - 1]
    OBVIOUS
  <2>6. new \in [1..k -> 1..l]
        /\ \A i \in 1..k : /\ pos[i + 1] = new[i] + 1 /\ new[i] \in 1..l
                         /\ t[new[i]] = q[pos[i + 1]] /\ i + 1 \in 1..m
    <3>1. \A i \in 1..k : pos[i + 1] - 1 \in 1..l /\ pos[i + 1] \in Nat
      BY <2>5
    <3>2. new \in [1..k -> 1..l]
      BY <2>n, <3>1
    <3>3. \A i \in 1..k : pos[i + 1] = new[i] + 1 /\ new[i] \in 1..l
      BY <2>n, <3>1
    <3>4. \A i \in 1..k : t[new[i]] = q[new[i] + 1]
      BY <1>1, <3>3
    <3> QED
      BY <2>3, <3>2, <3>3, <3>4
  <2>7. \A i, j \in 1..k : i < j => new[i] < new[j]
    <3> SUFFICES ASSUME NEW i \in 1..k, NEW j \in 1..k, i < j PROVE new[i] < new[j]
      OBVIOUS
    <3>1. i + 1 < j + 1
      OBVIOUS
    <3>2. pos[i + 1] < pos[j + 1]
      BY <1>pos, <1>m, <2>6, <3>1 DEF ListsBy
    <3> QED
      BY <2>6, <3>2
  <2>8. \A i \in 1..k : t[new[i]].text # <<>> /\ s[i] = t[new[i]].at
    <3> TAKE i \in 1..k
    <3>1. i + 1 \in 1..m /\ t[new[i]] = q[pos[i + 1]] /\ s[i] = p[i + 1]
      BY <2>3, <2>6
    <3>2. q[pos[i + 1]].text # <<>> /\ p[i + 1] = q[pos[i + 1]].at
      BY <1>pos, <1>m, <3>1 DEF ListsBy
    <3> QED
      BY <3>1, <3>2
  <2>9. \A n \in 1..l : t[n].text # <<>> => \E i \in 1..k : new[i] = n
    <3> SUFFICES ASSUME NEW n \in 1..l, t[n].text # <<>> PROVE \E i \in 1..k : new[i] = n
      OBVIOUS
    <3>1. n + 1 \in 1..Len(q) /\ q[n + 1].text # <<>>
      BY <1>1
    <3>2. PICK i \in 1..m : pos[i] = n + 1
      BY <1>pos, <1>m, <3>1 DEF ListsBy
    <3>3. i # 1
      BY <2>1, <3>2
    <3>4. PICK j \in 1..k : j = i - 1 /\ j + 1 = i
      BY <2>3, <3>3
    <3>5. pos[j + 1] = n + 1
      BY <3>2, <3>4
    <3>6. pos[j + 1] = new[j] + 1 /\ new[j] \in 1..l
      BY <2>6
    <3>x. PICK x \in Nat : x = new[j]
      BY <3>6
    <3>7. new[j] = n
      <4>1. x + 1 = n + 1
        BY <3>5, <3>6, <3>x
      <4>2. x = n
        BY ONLY <4>1, x \in Nat, n \in 1..l, l \in Nat
      <4> QED
        BY <3>x, <4>2
    <3> QED
      BY <3>7
  <2>10. Lists(t, s)
    BY <1>1, <2>3, <2>6, <2>7, <2>8, <2>9 DEF ListsBy, Lists
  <2> QED
    BY <1>c, <1>t, <1>3, <2>4, <2>10 DEF PieceOf
<1> QED
  BY <1>2, <1>3

-----------------------------------------------------------------------------
(* The invariant holds at first.                                           *)

LEMMA InitKeeps == Init => LoopInvs
<1> SUFFICES ASSUME Init PROVE LoopInvs
  OBVIOUS
<1>0. <<>> \in Seq(Pieces) /\ <<>> \in Seq(Moving) /\ <<>> \in Seq(Sendable) /\ Len(<<>>) = 0
  OBVIOUS
<1>l. PICK k : k = loop
  OBVIOUS
<1>1. LoopRec(loop)
  BY <1>0 DEF Init, LoopRec
<1>2. PipeRec(pipe) /\ pipe.src = <<>> /\ pipe.sent = 0 /\ pipe.state = "none" /\ pipe.closed = {}
      /\ \A i \in 1..3 : pipe.hop[i] = <<>>
  <2>1. pipe = NoPipe
    BY DEF Init
  <2>2. \A i \in 1..3 : NoPipe.hop[i] = <<>>
    BY DEF NoPipe
  <2>3. NoPipe.hop \in [1..3 -> Seq(Moving)]
    <3>e. PICK e \in Seq(Moving) : e = <<>>
      BY <1>0
    <3>1. <<e, e, e>> \in [1..3 -> Seq(Moving)]
      OBVIOUS
    <3> QED
      BY <3>e, <3>1 DEF NoPipe
  <2> QED
    BY <1>0, <2>1, <2>2, <2>3 DEF NoPipe, PipeRec
<1>3. ReplyRec(reply) /\ SseRec(sse)
  BY DEF Init, ReplyRec, SseRec
<1>4. DOMAIN tool = {} /\ tool = [i \in DOMAIN tool |-> tool[i]]
  BY DEF Init
<1>5. ShapeInv
  BY <1>0, <1>1, <1>2, <1>3, <1>4 DEF Init, ShapeInv
<1>6. LoopInv
  BY <1>4 DEF Init, LoopInv
<1>7. PipeInv
  BY <1>0, <1>2, Constants DEF Init, PipeInv
<1>8. SseInv
  BY <1>4 DEF Init, SseInv
<1>9. FlowInv
  <2>1. Flight = <<>>
    BY <1>2 DEF Init, Flight
  <2>2. made = shown \o <<>>
    BY DEF Init
  <2> QED
    BY <1>0, <2>1, <2>2, NothingListed DEF FlowInv
<1> QED
  BY <1>5, <1>6, <1>7, <1>8, <1>9 DEF LoopInvs

-----------------------------------------------------------------------------
(* What Run leaves behind when it returns.                                 *)

LEMMA LoopReturned ==
    ASSUME NEW k, LoopRec(k), NEW r, NEW n, n = Returned(k, r)
    PROVE  LoopRec(n) /\ n.pc = "returned" /\ n.cur = <<>> /\ n.fwd = k.fwd
           /\ n.usage = k.usage /\ n.round = k.round /\ n.result = r
<1>1. <<>> \in Seq(Moving)
  OBVIOUS
<1> QED
  BY <1>1 DEF LoopRec, Returned

-----------------------------------------------------------------------------
(* The goroutines of the tool calls.                                       *)

\* What every step of one of them leaves alone.
LEMMA ToolKeeps ==
    ASSUME LoopInvs, NEW i \in DOMAIN tool, NEW t, ToolRec(t), tool' = [tool EXCEPT ![i] = t],
           UNCHANGED <<stream, left, loop, pipe, reply, made, shown>>,
           SseRec(sse)', raced' \in BOOLEAN
    PROVE  /\ ShapeInv' /\ LoopInv' /\ PipeInv' /\ FlowInv'
           /\ loop.pc = "tools" /\ DOMAIN tool' = DOMAIN tool /\ tool'[i] = t
           /\ \A j \in DOMAIN tool : j # i => tool'[j] = tool[j]
<1>0. ShapeInv /\ LoopInv /\ PipeInv /\ FlowInv
  BY DEF LoopInvs
<1>t. PICK u : u = tool
  OBVIOUS
<1>1. DOMAIN tool' = DOMAIN tool /\ tool'[i] = t /\ tool' = [j \in DOMAIN tool |-> tool'[j]]
      /\ \A j \in DOMAIN tool : j # i => tool'[j] = tool[j]
  BY <1>0 DEF ShapeInv
<1>2. \A j \in DOMAIN tool' : ToolRec(tool'[j])
  BY <1>0, <1>1 DEF ShapeInv
<1>3. ShapeInv'
  <2>1. (tool = [j \in DOMAIN tool |-> tool[j]])'
    BY <1>1
  <2>2. LoopRec(loop)' /\ PipeRec(pipe)' /\ ReplyRec(reply)' /\ SseRec(sse)'
    BY <1>0 DEF ShapeInv, LoopRec, PipeRec, ReplyRec
  <2>3. stream' \in BOOLEAN /\ left' \in BOOLEAN /\ raced' \in BOOLEAN
        /\ made' \in Seq(Pieces) /\ shown' \in Seq(Pieces)
    BY <1>0 DEF ShapeInv
  <2>4. (\A j \in DOMAIN tool : ToolRec(tool[j]))'
    BY <1>2
  <2> QED
    BY <2>1, <2>2, <2>3, <2>4 DEF ShapeInv
<1>4. loop.pc = "tools"
  BY <1>0 DEF LoopInv
<1>5. LoopInv'
  BY <1>0, <1>1, <1>4 DEF LoopInv
<1>6. PipeInv'
  BY <1>0 DEF PipeInv
<1>7. FlowInv'
  BY <1>0 DEF FlowInv, Flight
<1> QED
  BY <1>1, <1>3, <1>4, <1>5, <1>6, <1>7

\* A goroutine that is not in emit before or after its step does not touch the counter.
LEMMA ToolOutside ==
    ASSUME LoopInvs, NEW i \in DOMAIN tool, NEW t, ToolRec(t), tool' = [tool EXCEPT ![i] = t],
           t.pc \notin InEmit,
           UNCHANGED <<stream, left, loop, pipe, sse, reply, made, shown, raced>>
    PROVE  LoopInvs'
<1>0. ShapeInv /\ SseInv
  BY DEF LoopInvs
<1>1. SseRec(sse)' /\ raced' \in BOOLEAN
  BY <1>0 DEF ShapeInv, SseRec
<1>2. /\ ShapeInv' /\ LoopInv' /\ PipeInv' /\ FlowInv'
      /\ loop.pc = "tools" /\ DOMAIN tool' = DOMAIN tool /\ tool'[i] = t
      /\ \A j \in DOMAIN tool : j # i => tool'[j] = tool[j]
  BY <1>1, ToolKeeps
<1>3. SseInv'
  BY <1>0, <1>2 DEF SseInv
<1> QED
  BY <1>2, <1>3 DEF LoopInvs

LEMMA ChecksKeeps ==
    ASSUME LoopInvs, NEW i \in DOMAIN tool, ToolChecks(i) \/ Execute(i) \/ ToolEnds(i)
    PROVE  LoopInvs'
<1>0. ToolRec(tool[i]) /\ stream \in BOOLEAN /\ tool = [j \in DOMAIN tool |-> tool[j]]
  BY DEF LoopInvs, ShapeInv
<1>1. CASE ToolChecks(i)
  <2>t. PICK t : t = IF left \/ abort THEN [tool[i] EXCEPT !.pc = "end", !.out = "cancelled"]
                     ELSE [tool[i] EXCEPT !.pc = IF stream THEN "read" ELSE "exec"]
    OBVIOUS
  <2>1. ToolRec(t) /\ t.pc \notin InEmit
    BY <1>0, <2>t DEF ToolRec, InEmit
  <2>2. tool' = [tool EXCEPT ![i] = t]
    BY <1>1, <2>t DEF ToolChecks
  <2> QED
    BY <1>1, <2>1, <2>2, ToolOutside DEF ToolChecks
<1>2. CASE Execute(i)
  <2>1. CASE Refused(tool[i].call)
    <3>t. PICK t : t = [tool[i] EXCEPT !.pc = IF stream THEN "read2" ELSE "fin", !.out = "error"]
      OBVIOUS
    <3>1. ToolRec(t) /\ t.pc \notin InEmit
      BY <1>0, <3>t DEF ToolRec, InEmit
    <3>2. tool' = [tool EXCEPT ![i] = t]
      BY <1>0, <1>2, <2>1, <3>t DEF Execute
    <3> QED
      BY <1>2, <3>1, <3>2, ToolOutside DEF Execute
  <2>2. CASE ~Refused(tool[i].call)
    <3>x. PICK x \in Attempts : tool' = [tool EXCEPT ![i] = CallTool(tool[i], x)]
      BY <1>2, <2>2 DEF Execute
    <3>t. PICK t : t = CallTool(tool[i], x)
      OBVIOUS
    <3>1. ToolRec(t) /\ t.pc \notin InEmit
      <4>1. CASE x.out = "lost" /\ AllowsRetry(tool[i].call) /\ tool[i].tries = 0
        <5>1. t = [tool[i] EXCEPT !.tries = 1] /\ tool[i].pc = "exec"
          BY <1>2, <3>t, <4>1 DEF CallTool, Execute
        <5> QED
          BY <1>0, <5>1 DEF ToolRec, InEmit
      <4>2. CASE ~(x.out = "lost" /\ AllowsRetry(tool[i].call) /\ tool[i].tries = 0)
        <5>1. t = [tool[i] EXCEPT !.pc = IF stream THEN "read2" ELSE "fin",
                                  !.out = IF x.out = "ok" THEN "ok" ELSE "error"]
          BY <3>t, <4>2 DEF CallTool
        <5> QED
          BY <1>0, <5>1 DEF ToolRec, InEmit
      <4> QED
        BY <4>1, <4>2
    <3> QED
      BY <1>2, <3>x, <3>t, <3>1, ToolOutside DEF Execute
  <2> QED
    BY <2>1, <2>2
<1>3. CASE ToolEnds(i)
  <2>t. PICK t : t = [tool[i] EXCEPT !.pc = "end"]
    OBVIOUS
  <2>1. ToolRec(t) /\ t.pc \notin InEmit
    BY <1>0, <2>t DEF ToolRec, InEmit
  <2>2. tool' = [tool EXCEPT ![i] = t]
    BY <1>0, <1>3, <2>t DEF ToolEnds
  <2> QED
    BY <1>3, <2>1, <2>2, ToolOutside DEF ToolEnds
<1> QED
  BY <1>1, <1>2, <1>3

\* A step of emit counts as a race when another goroutine is in it.
LEMMA EmitsKeeps ==
    ASSUME LoopInvs, NEW i \in DOMAIN tool, EmitReads(i) \/ EmitWrites(i) \/ EmitAppends(i)
    PROVE  LoopInvs'
<1>0. /\ ToolRec(tool[i]) /\ tool = [j \in DOMAIN tool |-> tool[j]]
      /\ SseRec(sse) /\ raced \in BOOLEAN /\ SseInv
      /\ sse.next \in Nat /\ sse.last \in Nat /\ tool[i].tmp \in Nat
  BY DEF LoopInvs, ShapeInv, SseRec, ToolRec
<1>r. /\ raced' = (raced \/ AlsoEmitting(i))
      /\ UNCHANGED <<stream, left, loop, pipe, reply, made, shown>>
  BY DEF EmitReads, EmitWrites, EmitAppends
<1>a. raced' \in BOOLEAN /\ (raced => raced')
      /\ (~raced' => \A j \in DOMAIN tool : tool[j].pc \in InEmit => j = i)
  BY <1>0, <1>r DEF AlsoEmitting
<1>1. CASE EmitReads(i)
  <2>t. PICK t : t = [tool[i] EXCEPT !.tmp = sse.next,
                                     !.pc = IF @ = "read" THEN "write" ELSE "write2"]
    OBVIOUS
  <2>1. ToolRec(t) /\ t.pc \in {"write", "write2"} /\ t.tmp = sse.next
    BY <1>0, <2>t DEF ToolRec, InEmit
  <2>2. tool' = [tool EXCEPT ![i] = t] /\ sse' = sse
    BY <1>0, <1>1, <2>t DEF EmitReads
  <2>3. /\ ShapeInv' /\ LoopInv' /\ PipeInv' /\ FlowInv'
        /\ DOMAIN tool' = DOMAIN tool /\ tool'[i] = t
        /\ \A j \in DOMAIN tool : j # i => tool'[j] = tool[j]
    <3>1. SseRec(sse)'
      BY <1>0, <2>2 DEF SseRec
    <3> QED
      BY <1>r, <1>a, <2>1, <2>2, <3>1, ToolKeeps
  <2>4. SseInv'
    BY <1>0, <1>r, <1>a, <2>1, <2>2, <2>3 DEF SseInv
  <2> QED
    BY <2>3, <2>4 DEF LoopInvs
<1>2. CASE EmitWrites(i)
  <2>t. PICK t : t = [tool[i] EXCEPT !.pc = IF @ = "write" THEN "append" ELSE "append2"]
    OBVIOUS
  <2>1. ToolRec(t) /\ t.pc \in {"append", "append2"} /\ tool[i].pc \in {"write", "write2"}
    BY <1>0, <1>2, <2>t DEF ToolRec, InEmit, EmitWrites
  <2>2. tool' = [tool EXCEPT ![i] = t]
    BY <1>0, <1>2, <2>t DEF EmitWrites
  <2>3. SseRec(sse') /\ sse'.next = tool[i].tmp + 1 /\ sse'.last = sse.last
        /\ sse'.done = sse.done /\ sse'.late = sse.late /\ sse'.mixed = sse.mixed
    <3>1. sse' = [sse EXCEPT !.next = tool[i].tmp + 1]
      BY <1>2 DEF EmitWrites
    <3> QED
      BY <1>0, <3>1 DEF SseRec
  <2>4. /\ ShapeInv' /\ LoopInv' /\ PipeInv' /\ FlowInv'
        /\ DOMAIN tool' = DOMAIN tool /\ tool'[i] = t
        /\ \A j \in DOMAIN tool : j # i => tool'[j] = tool[j]
    <3>1. SseRec(sse)'
      BY <2>3 DEF SseRec
    <3> QED
      BY <1>r, <1>a, <2>1, <2>2, <3>1, ToolKeeps
  <2>5. tool[i].pc \in InEmit /\ (~raced => tool[i].tmp = sse.next)
    BY <1>0, <2>1 DEF SseInv, InEmit
  <2>6. SseInv'
    BY <1>0, <1>r, <1>a, <2>1, <2>3, <2>4, <2>5 DEF SseInv
  <2> QED
    BY <2>4, <2>6 DEF LoopInvs
<1>3. CASE EmitAppends(i)
  <2>t. PICK t : t = [tool[i] EXCEPT !.tmp = 0,
                                     !.pc = IF @ = "append" THEN "exec" ELSE "fin"]
    OBVIOUS
  <2>1. ToolRec(t) /\ t.pc \notin InEmit /\ tool[i].pc \in {"append", "append2"}
    BY <1>0, <1>3, <2>t DEF ToolRec, InEmit, EmitAppends
  <2>2. tool' = [tool EXCEPT ![i] = t]
    BY <1>0, <1>3, <2>t DEF EmitAppends
  <2>3. SseRec(sse') /\ sse'.next = sse.next /\ sse'.last = sse.next
        /\ sse'.done = sse.done /\ sse'.late = (sse.late \/ sse.done)
        /\ sse'.mixed = (sse.mixed \/ sse.next <= sse.last)
    <3>1. sse' = Appended(sse, sse.next)
      BY <1>3 DEF EmitAppends
    <3> QED
      BY <1>0, <3>1 DEF SseRec, Appended
  <2>4. /\ ShapeInv' /\ LoopInv' /\ PipeInv' /\ FlowInv' /\ loop.pc = "tools"
        /\ DOMAIN tool' = DOMAIN tool /\ tool'[i] = t
        /\ \A j \in DOMAIN tool : j # i => tool'[j] = tool[j]
    <3>1. SseRec(sse)'
      BY <2>3 DEF SseRec
    <3> QED
      BY <1>r, <1>a, <2>1, <2>2, <3>1, ToolKeeps
  <2>5. tool[i].pc \in InEmit /\ (~raced => sse.last < sse.next)
    BY <1>0, <2>1 DEF SseInv, InEmit
  <2>6. sse.done => left
    BY <1>0, <2>4 DEF SseInv
  <2>7. sse'.mixed => raced'
    BY <1>0, <1>a, <2>3, <2>5 DEF SseInv
  <2>8. ~raced' => \A j \in DOMAIN tool : tool'[j].pc \notin InEmit
    BY <1>a, <2>1, <2>4
  <2>9. SseInv'
    <3>1. sse'.late => left'
      BY <1>0, <1>r, <2>3, <2>6 DEF SseInv
    <3>2. sse'.done => left'
      BY <1>r, <2>3, <2>6
    <3>3. sse'.last <= sse'.next
      BY <1>0, <2>3
    <3> QED
      BY <2>4, <2>7, <2>8, <3>1, <3>2, <3>3 DEF SseInv
  <2> QED
    BY <2>4, <2>9 DEF LoopInvs
<1> QED
  BY <1>1, <1>2, <1>3

-----------------------------------------------------------------------------
(* The client and the handlers.                                            *)

LEMMA HandlersKeep ==
    ASSUME LoopInvs,
           ClientLeaves \/ HandlerLeaves \/ HandlerAnswers \/ HandlerMarksDone \/ PlainAnswers
    PROVE  LoopInvs'
<1>0. /\ ShapeInv /\ LoopInv /\ PipeInv /\ SseInv /\ FlowInv
      /\ SseRec(sse) /\ ReplyRec(reply) /\ sse.next \in Nat /\ sse.last \in Nat
  BY DEF LoopInvs, ShapeInv, SseRec
<1>1. UNCHANGED <<stream, loop, pipe, tool, made, shown, raced>>
  BY DEF ClientLeaves, HandlerLeaves, HandlerAnswers, HandlerMarksDone, PlainAnswers
<1>2. PipeInv' /\ FlowInv'
  BY <1>0, <1>1 DEF PipeInv, FlowInv, Flight
<1>3. ASSUME SseRec(sse'), ReplyRec(reply'), left' \in BOOLEAN PROVE ShapeInv'
  BY <1>0, <1>1, <1>3 DEF ShapeInv, LoopRec, PipeRec, ReplyRec, SseRec, ToolRec
<1>4. CASE ClientLeaves
  <2>1. left' = TRUE /\ UNCHANGED <<sse, reply>>
    BY <1>4 DEF ClientLeaves
  <2>2. ShapeInv'
    BY <1>0, <1>3, <2>1
  <2>3. LoopInv' /\ SseInv'
    BY <1>0, <1>1, <2>1 DEF LoopInv, SseInv
  <2> QED
    BY <1>2, <2>2, <2>3 DEF LoopInvs
<1>5. CASE HandlerLeaves
  <2>1. left /\ reply.pc = "wait" /\ left' = left
        /\ sse' = [sse EXCEPT !.done = TRUE] /\ reply' = [reply EXCEPT !.pc = "returned"]
    BY <1>5 DEF HandlerLeaves
  <2>2. SseRec(sse') /\ sse'.next = sse.next /\ sse'.last = sse.last /\ sse'.done = TRUE
        /\ sse'.late = sse.late /\ sse'.mixed = sse.mixed
    BY <1>0, <2>1 DEF SseRec
  <2>3. ReplyRec(reply') /\ reply'.pc = "returned" /\ reply'.charged = reply.charged
        /\ reply'.kept = reply.kept
    BY <1>0, <2>1 DEF ReplyRec
  <2>4. ShapeInv'
    BY <1>0, <1>3, <2>1, <2>2, <2>3 DEF ShapeInv
  <2>5. LoopInv' /\ SseInv'
    BY <1>0, <1>1, <2>1, <2>2, <2>3 DEF LoopInv, SseInv
  <2> QED
    BY <1>2, <2>4, <2>5 DEF LoopInvs
<1>6. CASE HandlerAnswers
  <2>1. /\ reply.pc = "wait" /\ loop.pc = "returned" /\ left' = left
        /\ sse' = Appended([sse EXCEPT !.next = @ + 1], sse.next + 1)
        /\ reply' = [reply EXCEPT !.pc = "mark", !.charged = loop.result = "ok" /\ loop.usage,
                                  !.kept = loop.result = "ok"]
    BY <1>6 DEF HandlerAnswers, Emitted
  <2>2. SseRec(sse') /\ sse'.next = sse.next + 1 /\ sse'.last = sse.next + 1
        /\ sse'.done = sse.done /\ sse'.late = (sse.late \/ sse.done)
        /\ sse'.mixed = (sse.mixed \/ sse.next + 1 <= sse.last)
    <3>1. PICK n \in Nat : n = sse.next + 1
      BY <1>0
    <3>2. sse' = Appended([sse EXCEPT !.next = n], n)
      BY <2>1, <3>1
    <3> QED
      BY <1>0, <3>1, <3>2 DEF SseRec, Appended
  <2>3. ReplyRec(reply') /\ reply'.pc = "mark" /\ reply'.charged = FALSE
        /\ reply'.kept = (loop.result = "ok")
    <3>1. ~loop.usage
      BY <1>0 DEF LoopInv
    <3> QED
      BY <1>0, <2>1, <3>1 DEF ReplyRec
  <2>4. ShapeInv'
    BY <1>0, <1>3, <2>1, <2>2, <2>3 DEF ShapeInv
  <2>5. LoopInv'
    BY <1>0, <1>1, <2>1, <2>2, <2>3 DEF LoopInv
  <2>6. DOMAIN tool = {}
    BY <1>0, <2>1 DEF LoopInv
  <2>7. sse.done => left
    BY <1>0, <2>1 DEF SseInv
  <2>8. sse.mixed \/ sse.next + 1 <= sse.last => raced
    BY <1>0 DEF SseInv
  <2>9. SseInv'
    <3>1. sse'.late => left'
      BY <1>0, <2>1, <2>2, <2>7 DEF SseInv
    <3>2. sse'.done => left'
      BY <2>1, <2>2, <2>7
    <3>3. sse'.mixed => raced'
      BY <1>1, <2>2, <2>8
    <3>4. sse'.last <= sse'.next /\ DOMAIN tool' = {}
      BY <1>0, <1>1, <2>2, <2>6
    <3> QED
      BY <3>1, <3>2, <3>3, <3>4 DEF SseInv
  <2> QED
    BY <1>2, <2>4, <2>5, <2>9 DEF LoopInvs
<1>7. CASE HandlerMarksDone
  <2>1. reply.pc = "mark" /\ left' = left
        /\ sse' = [sse EXCEPT !.done = TRUE] /\ reply' = [reply EXCEPT !.pc = "returned"]
    BY <1>7 DEF HandlerMarksDone
  <2>2. SseRec(sse') /\ sse'.next = sse.next /\ sse'.last = sse.last /\ sse'.done = TRUE
        /\ sse'.late = sse.late /\ sse'.mixed = sse.mixed
    BY <1>0, <2>1 DEF SseRec
  <2>3. ReplyRec(reply') /\ reply'.pc = "returned" /\ reply'.charged = reply.charged
        /\ reply'.kept = reply.kept
    BY <1>0, <2>1 DEF ReplyRec
  <2>4. ShapeInv'
    BY <1>0, <1>3, <2>1, <2>2, <2>3 DEF ShapeInv
  <2>5. LoopInv' /\ SseInv'
    BY <1>0, <1>1, <2>1, <2>2, <2>3 DEF LoopInv, SseInv
  <2> QED
    BY <1>2, <2>4, <2>5 DEF LoopInvs
<1>8. CASE PlainAnswers
  <2>1. /\ reply.pc = "wait" /\ loop.pc = "returned" /\ UNCHANGED <<left, sse>>
        /\ reply' = [reply EXCEPT !.pc = IF loop.result = "queue" THEN "queued" ELSE "returned",
                                  !.charged = loop.result = "ok" /\ loop.usage,
                                  !.kept = loop.result = "ok"]
    BY <1>8 DEF PlainAnswers
  <2>2. ReplyRec(reply') /\ reply'.pc \in {"queued", "returned"} /\ reply'.charged = FALSE
        /\ reply'.kept = (loop.result = "ok")
    <3>1. ~loop.usage
      BY <1>0 DEF LoopInv
    <3> QED
      BY <1>0, <2>1, <3>1 DEF ReplyRec
  <2>3. ShapeInv'
    BY <1>0, <1>3, <2>1, <2>2 DEF ShapeInv
  <2>4. LoopInv' /\ SseInv'
    BY <1>0, <1>1, <2>1, <2>2 DEF LoopInv, SseInv
  <2> QED
    BY <1>2, <2>3, <2>4 DEF LoopInvs
<1> QED
  BY <1>4, <1>5, <1>6, <1>7, <1>8

-----------------------------------------------------------------------------
(* Run before it has an answer of the runner.                              *)

LEMMA BeforeKeeps ==
    ASSUME LoopInvs, LoopRec(loop'), loop.pc \in {"prepare", "round", "send"},
           loop'.pc \in {"round", "send", "returned"}, loop'.cur = <<>>,
           loop'.fwd = loop.fwd, loop'.usage = loop.usage,
           loop'.pc = "send" => loop'.round <= MaxRounds,
           loop'.result = "ok" => loop'.pc = "returned",
           UNCHANGED <<stream, left, pipe, tool, sse, reply, made, shown, raced>>
    PROVE  LoopInvs'
<1>0. ShapeInv /\ LoopInv /\ PipeInv /\ SseInv /\ FlowInv
  BY DEF LoopInvs
<1>1. ShapeInv'
  BY <1>0 DEF ShapeInv, LoopRec, PipeRec, ReplyRec, SseRec, ToolRec
<1>2. /\ ~reply.kept /\ reply.pc # "mark" /\ loop.cur = <<>>
      /\ DOMAIN tool = {} /\ ~loop.usage
  BY <1>0 DEF LoopInv
<1>3. LoopInv'
  BY <1>0, <1>2 DEF LoopInv
<1>4. PipeInv'
  BY <1>0 DEF PipeInv
<1>5. SseInv'
  BY <1>0, <1>2 DEF SseInv
<1>6. FlowInv'
  BY <1>0, <1>2 DEF FlowInv, Flight
<1> QED
  BY <1>1, <1>3, <1>4, <1>5, <1>6 DEF LoopInvs

LEMMA ReturnsKeep ==
    ASSUME LoopInvs, loop.pc \in {"prepare", "round", "send"}, NEW r, loop' = Returned(loop, r),
           UNCHANGED <<stream, left, pipe, tool, sse, reply, made, shown, raced>>
    PROVE  LoopInvs'
<1>1. LoopRec(loop) /\ loop.usage = loop.usage
  BY DEF LoopInvs, ShapeInv
<1>2. LoopRec(loop') /\ loop'.pc = "returned" /\ loop'.cur = <<>> /\ loop'.fwd = loop.fwd
      /\ loop'.usage = loop.usage
  BY <1>1, LoopReturned
<1> QED
  BY <1>2, BeforeKeeps

LEMMA StartKeeps ==
    ASSUME LoopInvs, Prepare \/ RoundBegins \/ SendRefused
    PROVE  LoopInvs'
<1>0. LoopRec(loop) /\ LoopInv /\ loop.round \in Nat /\ MaxRounds \in Nat
  BY Constants DEF LoopInvs, ShapeInv, LoopRec
<1>1. CASE Prepare
  <2>0. loop.pc = "prepare" /\ loop.cur = <<>> /\ loop.result # "ok"
        /\ UNCHANGED <<stream, left, pipe, tool, sse, reply, made, shown, raced>>
    BY <1>0, <1>1 DEF Prepare, LoopInv
  <2>1. CASE loop' = [loop EXCEPT !.pc = "round"]
    <3>1. LoopRec(loop') /\ loop'.pc = "round" /\ loop'.cur = loop.cur /\ loop'.fwd = loop.fwd
          /\ loop'.usage = loop.usage /\ loop'.result = loop.result
      BY <1>0, <2>1 DEF LoopRec
    <3> QED
      BY <2>0, <3>1, BeforeKeeps
  <2>2. CASE loop' = Returned(loop, "error")
    BY <2>0, <2>2, ReturnsKeep
  <2> QED
    BY <1>1, <2>1, <2>2 DEF Prepare
<1>2. CASE RoundBegins
  <2>0. loop.pc = "round" /\ loop.cur = <<>> /\ loop.result # "ok"
        /\ UNCHANGED <<stream, left, pipe, tool, sse, reply, made, shown, raced>>
    BY <1>0, <1>2 DEF RoundBegins, LoopInv
  <2>1. CASE loop.round > MaxRounds
    <3>1. loop' = Returned(loop, "rounds")
      BY <1>0, <1>2, <2>1 DEF RoundBegins
    <3> QED
      BY <2>0, <3>1, ReturnsKeep
  <2>2. CASE loop.round <= MaxRounds /\ left
    <3>1. loop' = Returned(loop, "cancelled")
      BY <1>0, <1>2, <2>2 DEF RoundBegins
    <3> QED
      BY <2>0, <3>1, ReturnsKeep
  <2>3. CASE loop.round <= MaxRounds /\ ~left
    <3>1. loop' = [loop EXCEPT !.pc = "send"]
      BY <1>0, <1>2, <2>3 DEF RoundBegins
    <3>2. LoopRec(loop') /\ loop'.pc = "send" /\ loop'.cur = loop.cur /\ loop'.fwd = loop.fwd
          /\ loop'.usage = loop.usage /\ loop'.result = loop.result /\ loop'.round = loop.round
      BY <1>0, <3>1 DEF LoopRec
    <3> QED
      BY <2>0, <2>3, <3>2, BeforeKeeps
  <2> QED
    BY <1>0, <2>1, <2>2, <2>3
<1>3. CASE SendRefused
  <2>1. PICK r \in {"queue", "error"} \cup (IF left THEN {"cancelled"} ELSE {}) :
          loop' = Returned(loop, r)
    BY <1>3 DEF SendRefused
  <2>2. loop.pc = "send" /\ UNCHANGED <<stream, left, pipe, tool, sse, reply, made, shown, raced>>
    BY <1>3 DEF SendRefused
  <2> QED
    BY <2>1, <2>2, ReturnsKeep
<1> QED
  BY <1>1, <1>2, <1>3

-----------------------------------------------------------------------------
(* The pipe of a round.                                                    *)

\* What a step in the pipe leaves alone.
LEMMA PipeKeeps ==
    ASSUME LoopInvs, PipeRec(pipe'), made' \in Seq(Pieces),
           UNCHANGED <<stream, left, loop, tool, sse, reply, shown, raced>>
    PROVE  ShapeInv' /\ LoopInv' /\ SseInv'
<1>0. ShapeInv /\ LoopInv /\ SseInv
  BY DEF LoopInvs
<1> QED
  BY <1>0 DEF ShapeInv, LoopInv, SseInv, LoopRec, PipeRec, ReplyRec, SseRec, ToolRec

LEMMA AcceptKeeps ==
    ASSUME LoopInvs, NEW r \in Replies, SendAccepted(r)
    PROVE  LoopInvs'
<1>0. /\ ShapeInv /\ LoopInv /\ PipeInv /\ SseInv /\ FlowInv /\ LoopRec(loop)
      /\ loop.pc = "send" /\ loop.cur = <<>> /\ loop.round <= MaxRounds /\ ~loop.usage
      /\ loop.result # "ok" /\ ~reply.kept /\ reply.pc # "mark" /\ DOMAIN tool = {}
      /\ \A i \in 1..3 : pipe.hop[i] = <<>>
  BY DEF LoopInvs, ShapeInv, LoopInv, PipeInv, SendAccepted
<1>1. LoopRec(loop') /\ loop'.pc = "drain" /\ loop'.cur = loop.cur /\ loop'.fwd = loop.fwd
      /\ loop'.usage = loop.usage /\ loop'.result = loop.result /\ loop'.round = loop.round
  <2>x. PICK x : x = Text(r)
    OBVIOUS
  <2>1. loop' = [loop EXCEPT !.pc = "drain", !.text = <<>>, !.asked = x]
    BY <2>x DEF SendAccepted
  <2> QED
    BY <1>0, <2>1 DEF LoopRec
<1>2. r \in Seq(Sendable) /\ Len(r) <= MaxLength /\ Len(r) \in Nat
  BY Constants
<1>3. PipeRec(pipe') /\ pipe'.src = r /\ pipe'.sent = 0 /\ pipe'.state = "open"
      /\ pipe'.closed = {} /\ \A i \in 1..3 : pipe'.hop[i] = <<>>
  <2>e. PICK e \in Seq(Moving) : e = <<>>
    <3>1. <<>> \in Seq(Moving)
      OBVIOUS
    <3> QED
      BY <3>1
  <2>h. PICK h \in [1..3 -> Seq(Moving)] : h = <<e, e, e>>
    <3>1. <<e, e, e>> \in [1..3 -> Seq(Moving)]
      OBVIOUS
    <3> QED
      BY <3>1
  <2>1. \A i \in 1..3 : h[i] = e
    BY <2>h
  <2>2. pipe' = [src |-> r, sent |-> 0, state |-> "open", hop |-> h, closed |-> {},
                 slot |-> TRUE, busy |-> TRUE, cut |-> FALSE]
    BY <2>e, <2>h DEF SendAccepted, NoPipe
  <2> QED
    BY <1>2, <2>e, <2>1, <2>2 DEF PipeRec
<1>4. UNCHANGED <<stream, left, tool, sse, reply, made, shown, raced>>
  BY DEF SendAccepted
<1>5. ShapeInv'
  BY <1>0, <1>1, <1>3, <1>4 DEF ShapeInv, ReplyRec, SseRec, ToolRec
<1>6. LoopInv'
  BY <1>0, <1>1, <1>4 DEF LoopInv
<1>7. PipeInv'
  BY <1>1, <1>2, <1>3 DEF PipeInv
<1>8. SseInv'
  BY <1>0, <1>1, <1>4 DEF SseInv
<1>9. FlowInv'
  <2>1. Flight' = Flight
    <3>1. 1 \in 1..3 /\ 2 \in 1..3 /\ 3 \in 1..3
      OBVIOUS
    <3>2. /\ pipe.hop[1] = <<>> /\ pipe.hop[2] = <<>> /\ pipe.hop[3] = <<>>
          /\ pipe'.hop[1] = <<>> /\ pipe'.hop[2] = <<>> /\ pipe'.hop[3] = <<>>
      BY <1>0, <1>3, <3>1
    <3> QED
      BY <1>1, <3>2 DEF Flight
  <2> QED
    BY <1>0, <1>1, <1>4, <2>1 DEF FlowInv
<1> QED
  BY <1>5, <1>6, <1>7, <1>8, <1>9 DEF LoopInvs

LEMMA HopsAre ==
    ASSUME ShapeInv
    PROVE  /\ LoopRec(loop) /\ PipeRec(pipe) /\ loop.cur \in Seq(Moving)
           /\ pipe.hop \in [1..3 -> Seq(Moving)] /\ pipe.src \in Seq(Sendable) /\ pipe.sent \in Nat
           /\ pipe.hop[1] \in Seq(Moving) /\ pipe.hop[2] \in Seq(Moving)
           /\ pipe.hop[3] \in Seq(Moving)
           /\ pipe.state \in {"none", "open", "ended"} /\ pipe.closed \in SUBSET (1..3)
           /\ pipe.slot \in BOOLEAN /\ pipe.busy \in BOOLEAN /\ pipe.cut \in BOOLEAN
           /\ Flight \in Seq(Moving)
<1>1. LoopRec(loop) /\ PipeRec(pipe)
  BY DEF ShapeInv
<1>2. /\ loop.cur \in Seq(Moving)
      /\ pipe.hop \in [1..3 -> Seq(Moving)] /\ pipe.src \in Seq(Sendable) /\ pipe.sent \in Nat
      /\ pipe.state \in {"none", "open", "ended"} /\ pipe.closed \in SUBSET (1..3)
      /\ pipe.slot \in BOOLEAN /\ pipe.busy \in BOOLEAN /\ pipe.cut \in BOOLEAN
  BY <1>1 DEF LoopRec, PipeRec
<1>3. pipe.hop[1] \in Seq(Moving) /\ pipe.hop[2] \in Seq(Moving) /\ pipe.hop[3] \in Seq(Moving)
  BY <1>2
<1>4. PICK a \in Seq(Moving), b \in Seq(Moving), d \in Seq(Moving), e \in Seq(Moving) :
        a = loop.cur /\ b = pipe.hop[3] /\ d = pipe.hop[2] /\ e = pipe.hop[1]
  BY <1>2, <1>3
<1>5. a \o (b \o (d \o e)) \in Seq(Moving)
  BY Associative
<1> QED
  BY <1>1, <1>2, <1>3, <1>4, <1>5 DEF Flight

\* A chunk at the end of the second sequence is the last of both.
LEMMA AppendFar ==
    ASSUME NEW S, NEW a \in Seq(S), NEW b \in Seq(S), NEW c \in S
    PROVE  a \o Append(b, c) = Append(a \o b, c) /\ a \o b \in Seq(S)
OBVIOUS

\* The sender adds a chunk, or none, to the first channel.
LEMMA FlowAppend ==
    ASSUME LoopInvs, NEW c \in Moving, loop' = loop, shown' = shown,
           pipe'.hop[1] = Append(pipe.hop[1], c), pipe'.hop[2] = pipe.hop[2],
           pipe'.hop[3] = pipe.hop[3], made' = made \o PieceOf(c)
    PROVE  made' \in Seq(Pieces) /\ FlowInv'
<1>0. ShapeInv /\ FlowInv /\ made \in Seq(Pieces) /\ shown \in Seq(Pieces)
  BY DEF LoopInvs, ShapeInv
<1>1. PieceOf(c) \in Seq(Pieces)
  <2>1. CASE c.text = <<>>
    BY <2>1 DEF PieceOf
  <2>2. CASE c.text # <<>>
    <3>1. c.at \in Pieces
      BY <2>2, ChunkIs
    <3> QED
      BY <2>2, <3>1 DEF PieceOf
  <2> QED
    BY <2>1, <2>2
<1>z. PICK z \in Seq(Pieces) : z = PieceOf(c)
  BY <1>1
<1>2. made' \in Seq(Pieces)
  BY <1>0, <1>z, Associative
<1>3. Flight' = Append(Flight, c)
  <2>0. ASSUME NEW u \in Seq(Moving), NEW v \in Seq(Moving)
        PROVE  u \o Append(v, c) = Append(u \o v, c) /\ u \o v \in Seq(Moving)
    BY AppendFar
  <2>1. PICK a \in Seq(Moving), b \in Seq(Moving), d \in Seq(Moving), e \in Seq(Moving) :
          a = loop.cur /\ b = pipe.hop[3] /\ d = pipe.hop[2] /\ e = pipe.hop[1]
    BY <1>0, HopsAre
  <2>2. d \o Append(e, c) = Append(d \o e, c) /\ d \o e \in Seq(Moving)
    BY <2>0
  <2>x. PICK x \in Seq(Moving) : x = d \o e
    BY <2>2
  <2>3. b \o Append(x, c) = Append(b \o x, c) /\ b \o x \in Seq(Moving)
    BY <2>0
  <2>y. PICK y \in Seq(Moving) : y = b \o x
    BY <2>3
  <2>4. a \o Append(y, c) = Append(a \o y, c)
    BY <2>0
  <2> QED
    BY <2>1, <2>2, <2>3, <2>4, <2>x, <2>y DEF Flight
<1>4. FlowInv'
  <2> SUFFICES ASSUME loop.fwd PROVE \E p \in Seq(Pieces) : made' = shown \o p /\ Lists(Flight', p)
    BY DEF FlowInv
  <2>1. PICK p \in Seq(Pieces) : made = shown \o p /\ Lists(Flight, p)
    BY <1>0 DEF FlowInv
  <2>2. p \o PieceOf(c) \in Seq(Pieces) /\ Lists(Append(Flight, c), p \o PieceOf(c))
    BY <1>0, <2>1, HopsAre, ListsAppend
  <2>3. (shown \o p) \o z = shown \o (p \o z)
    <3>1. PICK w \in Seq(Pieces) : w = shown
      BY <1>0
    <3>2. (w \o p) \o z = w \o (p \o z)
      BY SMTT(30)
    <3> QED
      BY <3>1, <3>2
  <2> QED
    BY <1>3, <1>z, <2>1, <2>2, <2>3
<1> QED
  BY <1>2, <1>4

LEMMA FlowSame ==
    ASSUME FlowInv, UNCHANGED <<made, shown>>, loop'.fwd => loop.fwd, Flight' = Flight
    PROVE  FlowInv'
BY DEF FlowInv

LEMMA SenderKeeps ==
    ASSUME LoopInvs, SenderSends \/ SenderEnds \/ SenderStops
    PROVE  LoopInvs'
<1>0. /\ ShapeInv /\ LoopInv /\ PipeInv /\ SseInv /\ FlowInv /\ PipeRec(pipe) /\ LoopRec(loop)
      /\ pipe.state = "open" /\ loop.pc \in {"drain", "emit"} /\ loop.round \in 1..MaxRounds
      /\ 1 \notin pipe.closed /\ made \in Seq(Pieces)
  <2>1. ShapeInv /\ LoopInv /\ PipeInv /\ SseInv /\ FlowInv /\ PipeRec(pipe) /\ LoopRec(loop)
        /\ pipe.state = "open" /\ made \in Seq(Pieces)
    BY DEF LoopInvs, ShapeInv, SenderSends, SenderEnds, SenderStops
  <2>2. loop.pc \in {"drain", "emit"} /\ 1 \notin pipe.closed
    BY <2>1 DEF PipeInv
  <2>3. loop.round <= MaxRounds /\ loop.round \in Nat \ {0}
    BY <2>1, <2>2 DEF LoopInv, LoopRec
  <2> QED
    BY <2>1, <2>2, <2>3, Constants
<1>h. /\ pipe.hop \in [1..3 -> Seq(Moving)] /\ pipe.src \in Seq(Sendable) /\ pipe.sent \in Nat
      /\ pipe.hop[1] \in Seq(Moving) /\ pipe.closed \in SUBSET (1..3)
  BY <1>0, HopsAre
<1>c. 2 \notin pipe.closed /\ 3 \notin pipe.closed
  BY <1>0 DEF PipeInv
<1>x. PICK x \in SUBSET (1..3) : x = pipe.closed \cup {1}
  <2>1. pipe.closed \cup {1} \in SUBSET (1..3)
    BY <1>h
  <2> QED
    BY <2>1
<1>1. CASE SenderSends
  <2>d. PICK d \in Sendable : d = Head(pipe.src)
    BY <1>1, <1>h DEF SenderSends
  <2>p. PICK p \in Pieces : p = <<loop.round, pipe.sent + 1>>
    <3>1. Len(pipe.src) + pipe.sent <= MaxLength /\ Len(pipe.src) \in Nat \ {0}
      BY <1>0, <1>1, <1>h DEF SenderSends, PipeInv
    <3>2. pipe.sent + 1 \in 1..MaxLength
      BY <1>h, <3>1, Constants
    <3>3. <<loop.round, pipe.sent + 1>> \in Pieces
      BY <1>0, <3>2 DEF Pieces
    <3> QED
      BY <3>3
  <2>c. PICK c \in Moving : c = [d EXCEPT !.at = p]
    <3>1. PICK t, y, z, f : t = d.text /\ y = d.think /\ z = <<0, 0>> /\ f = FALSE
      OBVIOUS
    <3>2. d = [text |-> t, think |-> y, usage |-> f, at |-> z]
      BY <3>1, Constants DEF Chunk
    <3>3. [d EXCEPT !.at = p] = [text |-> t, think |-> y, usage |-> f, at |-> p]
      BY <3>2
    <3>4. Numbered(d, p) = [text |-> t, think |-> y, usage |-> f, at |-> p]
      BY <3>1 DEF Numbered
    <3>5. Numbered(d, p) \in Moving
      BY DEF Moving
    <3> QED
      BY <3>3, <3>4, <3>5
  <2>n. PICK n \in Nat : n = pipe.sent + 1
    BY <1>h
  <2>s. PICK s \in Seq(Sendable) : s = Tail(pipe.src)
    <3>1. Tail(pipe.src) \in Seq(Sendable)
      BY <1>1, <1>h DEF SenderSends
    <3> QED
      BY <3>1
  <2>h. PICK h \in [1..3 -> Seq(Moving)] : h = [pipe.hop EXCEPT ![1] = Append(pipe.hop[1], c)]
    <3>2. Append(pipe.hop[1], c) \in Seq(Moving)
      BY <1>h
    <3>3. [pipe.hop EXCEPT ![1] = Append(pipe.hop[1], c)] \in [1..3 -> Seq(Moving)]
      BY <1>h, <3>2
    <3> QED
      BY <3>3
  <2>1. pipe' = [pipe EXCEPT !.src = s, !.sent = n, !.hop = h]
    BY <1>0, <1>1, <2>d, <2>p, <2>c, <2>n, <2>s, <2>h DEF SenderSends, PipeRec
  <2>2. /\ PipeRec(pipe') /\ pipe'.src = s /\ pipe'.sent = n /\ pipe'.state = "open"
        /\ pipe'.hop = h /\ pipe'.closed = pipe.closed
    BY <1>0, <2>1 DEF PipeRec
  <2>3. /\ made' = made \o PieceOf(c)
        /\ UNCHANGED <<stream, left, loop, tool, sse, reply, shown, raced>>
    BY <1>1, <2>d, <2>p, <2>c DEF SenderSends
  <2>4. pipe'.hop[1] = Append(pipe.hop[1], c) /\ pipe'.hop[2] = pipe.hop[2]
        /\ pipe'.hop[3] = pipe.hop[3]
    BY <1>h, <2>2, <2>h
  <2>5. made' \in Seq(Pieces) /\ FlowInv'
    BY <2>3, <2>4, FlowAppend
  <2>6. ShapeInv' /\ LoopInv' /\ SseInv'
    BY <2>2, <2>3, <2>5, PipeKeeps
  <2>7. PipeInv'
    <3>1. Len(s) + 1 = Len(pipe.src)
      BY <1>1, <1>h, <2>s DEF SenderSends
    <3>2. Len(pipe.src) + pipe.sent <= MaxLength
      BY <1>0 DEF PipeInv
    <3>3. Len(s) + n <= MaxLength
      BY <1>h, <2>n, <3>1, <3>2, Constants, SMTT(30)
    <3> QED
      BY <1>0, <1>c, <2>2, <2>3, <3>3 DEF PipeInv
  <2> QED
    BY <2>5, <2>6, <2>7 DEF LoopInvs
<1>2. CASE SenderEnds
  <2>1. pipe.src = <<>> /\ UNCHANGED <<stream, left, loop, tool, sse, reply, made, shown, raced>>
    BY <1>2 DEF SenderEnds
  <2>2. CASE pipe' = [pipe EXCEPT !.state = "ended", !.closed = @ \cup {1}]
    <3>1. /\ PipeRec(pipe') /\ pipe'.src = pipe.src /\ pipe'.sent = pipe.sent
          /\ pipe'.state = "ended" /\ pipe'.hop = pipe.hop /\ pipe'.closed = pipe.closed \cup {1}
      BY <1>0, <1>x, <2>2 DEF PipeRec
    <3>2. ShapeInv' /\ LoopInv' /\ SseInv'
      BY <1>0, <2>1, <3>1, PipeKeeps
    <3>3. PipeInv'
      BY <1>0, <1>c, <2>1, <3>1 DEF PipeInv
    <3>4. FlowInv'
      BY <1>0, <2>1, <3>1 DEF FlowInv, Flight
    <3> QED
      BY <3>2, <3>3, <3>4 DEF LoopInvs
  <2>3. CASE pipe' = [pipe EXCEPT !.state = "ended", !.closed = @ \cup {1},
                                  !.hop[1] = Append(@, UsageChunk)]
    <3>c. PICK c \in Moving : c = UsageChunk
      BY DEF Moving
    <3>h. PICK h \in [1..3 -> Seq(Moving)] : h = [pipe.hop EXCEPT ![1] = Append(pipe.hop[1], c)]
      <4>2. Append(pipe.hop[1], c) \in Seq(Moving)
        BY <1>h
      <4>3. [pipe.hop EXCEPT ![1] = Append(pipe.hop[1], c)] \in [1..3 -> Seq(Moving)]
        BY <1>h, <4>2
      <4> QED
        BY <4>3
    <3>1. pipe' = [pipe EXCEPT !.state = "ended", !.closed = pipe.closed \cup {1}, !.hop = h]
      BY <1>0, <2>3, <3>c, <3>h DEF PipeRec
    <3>2. /\ PipeRec(pipe') /\ pipe'.src = pipe.src /\ pipe'.sent = pipe.sent
          /\ pipe'.state = "ended" /\ pipe'.hop = h /\ pipe'.closed = pipe.closed \cup {1}
      BY <1>0, <1>x, <3>1 DEF PipeRec
    <3>3. ShapeInv' /\ LoopInv' /\ SseInv'
      BY <1>0, <2>1, <3>2, PipeKeeps
    <3>4. PipeInv'
      BY <1>0, <1>c, <2>1, <3>2 DEF PipeInv
    <3>5. pipe'.hop[1] = Append(pipe.hop[1], c) /\ pipe'.hop[2] = pipe.hop[2]
          /\ pipe'.hop[3] = pipe.hop[3]
      BY <1>h, <3>2, <3>h
    <3>6. made' = made \o PieceOf(c)
      BY <1>0, <2>1, <3>c DEF PieceOf, UsageChunk
    <3>7. FlowInv'
      BY <2>1, <3>5, <3>6, FlowAppend
    <3> QED
      BY <3>3, <3>4, <3>7 DEF LoopInvs
  <2> QED
    BY <1>2, <2>2, <2>3 DEF SenderEnds
<1>3. CASE SenderStops
  <2>1. UNCHANGED <<stream, left, loop, tool, sse, reply, made, shown, raced>>
        /\ pipe' = [pipe EXCEPT !.state = "ended", !.closed = @ \cup {1}, !.cut = TRUE]
    BY <1>3 DEF SenderStops
  <2>2. /\ PipeRec(pipe') /\ pipe'.src = pipe.src /\ pipe'.sent = pipe.sent
        /\ pipe'.state = "ended" /\ pipe'.hop = pipe.hop /\ pipe'.closed = pipe.closed \cup {1}
    BY <1>0, <1>x, <2>1 DEF PipeRec
  <2>3. ShapeInv' /\ LoopInv' /\ SseInv'
    BY <1>0, <2>1, <2>2, PipeKeeps
  <2>4. PipeInv'
    BY <1>0, <1>c, <2>1, <2>2 DEF PipeInv
  <2>5. FlowInv'
    BY <1>0, <2>1, <2>2 DEF FlowInv, Flight
  <2> QED
    BY <2>3, <2>4, <2>5 DEF LoopInvs
<1> QED
  BY <1>1, <1>2, <1>3

LEMMA Regroup ==
    ASSUME NEW a \in Seq(Moving), NEW b \in Seq(Moving), NEW d \in Seq(Moving)
    PROVE  a \o (b \o d) = (a \o b) \o d
OBVIOUS

LEMMA RegroupPieces ==
    ASSUME NEW a \in Seq(Pieces), NEW b \in Seq(Pieces), NEW d \in Seq(Pieces)
    PROVE  a \o (b \o d) = (a \o b) \o d
OBVIOUS

\* A chunk moves on: nothing is lost, nothing changes place.
LEMMA ForwardKeeps ==
    ASSUME LoopInvs, NEW i \in 1..2, Forward(i)
    PROVE  LoopInvs'
<1>0. /\ ShapeInv /\ LoopInv /\ PipeInv /\ SseInv /\ FlowInv /\ PipeRec(pipe)
      /\ made \in Seq(Pieces)
      /\ UNCHANGED <<stream, left, loop, tool, sse, reply, made, shown, raced>>
  BY DEF LoopInvs, ShapeInv, Forward
<1>h. /\ pipe.hop \in [1..3 -> Seq(Moving)] /\ loop.cur \in Seq(Moving)
      /\ pipe.hop[1] \in Seq(Moving) /\ pipe.hop[2] \in Seq(Moving) /\ pipe.hop[3] \in Seq(Moving)
  BY <1>0, HopsAre
<1>a. PICK a \in Seq(Moving) : a = pipe.hop[i]
  BY <1>h
<1>b. PICK b \in Seq(Moving) : b = pipe.hop[i + 1]
  BY <1>h
<1>1. a # <<>> /\ pipe' = [pipe EXCEPT !.hop[i] = Tail(a), !.hop[i + 1] = Append(b, Head(a))]
  BY <1>0, <1>a, <1>b, <1>h DEF Forward, PipeRec
<1>2. Tail(a) \in Seq(Moving) /\ Append(b, Head(a)) \in Seq(Moving)
      /\ Append(b, Head(a)) \o Tail(a) = b \o a
  BY <1>1, OneMoves
<1>t. PICK t \in Seq(Moving) : t = Tail(a)
  BY <1>2
<1>u. PICK u \in Seq(Moving) : u = Append(b, Head(a))
  BY <1>2
<1>g. PICK h \in [1..3 -> Seq(Moving)] : h = [[pipe.hop EXCEPT ![i] = t] EXCEPT ![i + 1] = u]
  <2>1. [[pipe.hop EXCEPT ![i] = t] EXCEPT ![i + 1] = u] \in [1..3 -> Seq(Moving)]
    BY <1>h
  <2> QED
    BY <2>1
<1>3. PipeRec(pipe') /\ pipe'.src = pipe.src /\ pipe'.sent = pipe.sent
      /\ pipe'.state = pipe.state /\ pipe'.hop = h /\ pipe'.closed = pipe.closed
  <2>1. pipe' = [pipe EXCEPT !.hop = h]
    BY <1>0, <1>1, <1>t, <1>u, <1>g DEF PipeRec
  <2> QED
    BY <1>0, <2>1 DEF PipeRec
<1>4. h[i] = t /\ h[i + 1] = u /\ \A j \in 1..3 : j # i /\ j # i + 1 => h[j] = pipe.hop[j]
  <2>p. PICK p \in [1..3 -> Seq(Moving)] : p = pipe.hop
    BY <1>h
  <2>n. PICK n \in 1..3 : n = i + 1 /\ n # i
    OBVIOUS
  <2>e. PICK e \in [1..3 -> Seq(Moving)] : e = [p EXCEPT ![i] = t]
    OBVIOUS
  <2>1. h = [e EXCEPT ![n] = u]
    BY <1>g, <2>p, <2>n, <2>e
  <2>2. e[i] = t /\ \A j \in 1..3 : j # i => e[j] = p[j]
    BY <2>e
  <2>3. h[n] = u /\ \A j \in 1..3 : j # n => h[j] = e[j]
    BY <2>1
  <2> QED
    BY <2>p, <2>n, <2>2, <2>3
<1>5. ShapeInv' /\ LoopInv' /\ SseInv'
  BY <1>0, <1>3, PipeKeeps
<1>6. loop.pc \in {"drain", "emit"}
  BY <1>0, <1>1, <1>a DEF PipeInv
<1>7. PipeInv'
  <2>1. CASE i = 1
    <3>1. 2 \notin pipe.closed /\ 3 \notin pipe.closed
      BY <1>0, <1>1, <1>a, <2>1 DEF PipeInv
    <3> QED
      BY <1>0, <1>3, <1>6, <3>1 DEF PipeInv
  <2>2. CASE i = 2
    <3>1. 3 \notin pipe.closed /\ h[1] = pipe.hop[1]
      BY <1>0, <1>1, <1>4, <1>a, <2>2 DEF PipeInv
    <3> QED
      BY <1>0, <1>3, <1>6, <3>1 DEF PipeInv
  <2> QED
    BY <2>1, <2>2
<1>8. Flight' = Flight
  <2>1. CASE i = 1
    <3>1. pipe'.hop[1] = t /\ pipe'.hop[2] = u /\ pipe'.hop[3] = pipe.hop[3]
      BY <1>3, <1>4, <2>1
    <3>2. a = pipe.hop[1] /\ b = pipe.hop[2]
      BY <1>a, <1>b, <2>1
    <3>3. pipe'.hop[2] \o pipe'.hop[1] = pipe.hop[2] \o pipe.hop[1]
      BY <1>2, <1>t, <1>u, <3>1, <3>2
    <3> QED
      BY <1>0, <3>1, <3>3 DEF Flight
  <2>2. CASE i = 2
    <3>1. pipe'.hop[1] = pipe.hop[1] /\ pipe'.hop[2] = t /\ pipe'.hop[3] = u
      BY <1>3, <1>4, <2>2
    <3>e. PICK e \in Seq(Moving) : e = pipe.hop[1]
      BY <1>h
    <3>2. u \o (t \o e) = (u \o t) \o e
      BY Regroup, ZenonT(30)
    <3>3. b \o (a \o e) = (b \o a) \o e
      BY Regroup, ZenonT(30)
    <3>4. u \o t = b \o a
      BY <1>2, <1>t, <1>u
    <3>5. a = pipe.hop[2] /\ b = pipe.hop[3]
      BY <1>a, <1>b, <2>2
    <3>6. pipe'.hop[3] \o (pipe'.hop[2] \o pipe'.hop[1]) = pipe.hop[3] \o (pipe.hop[2] \o pipe.hop[1])
      BY <3>1, <3>e, <3>2, <3>3, <3>4, <3>5
    <3> QED
      BY <1>0, <3>6 DEF Flight
  <2> QED
    BY <2>1, <2>2
<1>9. FlowInv'
  BY <1>0, <1>8, FlowSame
<1> QED
  BY <1>5, <1>7, <1>9 DEF LoopInvs

LEMMA ForwardEndsKeeps ==
    ASSUME LoopInvs, NEW i \in 1..2, ForwardEnds(i)
    PROVE  LoopInvs'
<1>0. /\ ShapeInv /\ LoopInv /\ PipeInv /\ SseInv /\ FlowInv /\ PipeRec(pipe)
      /\ made \in Seq(Pieces) /\ i \in pipe.closed /\ pipe.hop[i] = <<>>
      /\ UNCHANGED <<stream, left, loop, tool, sse, reply, made, shown, raced>>
  BY DEF LoopInvs, ShapeInv, ForwardEnds
<1>x. PICK x \in SUBSET (1..3) : x = pipe.closed \cup {i + 1}
  <2>1. pipe.closed \cup {i + 1} \in SUBSET (1..3)
    BY <1>0, HopsAre
  <2> QED
    BY <2>1
<1>b. PICK b \in BOOLEAN, s \in BOOLEAN : /\ b = (IF i = 1 THEN FALSE ELSE pipe.busy)
                                          /\ s = (IF i = 2 THEN FALSE ELSE pipe.slot)
  BY <1>0, HopsAre
<1>1. pipe' = [pipe EXCEPT !.closed = x, !.busy = b, !.slot = s]
  BY <1>0, <1>x, <1>b DEF ForwardEnds, PipeRec
<1>2. PipeRec(pipe') /\ pipe'.src = pipe.src /\ pipe'.sent = pipe.sent
      /\ pipe'.state = pipe.state /\ pipe'.hop = pipe.hop /\ pipe'.closed = x
  BY <1>0, <1>1 DEF PipeRec
<1>3. ShapeInv' /\ LoopInv' /\ SseInv'
  BY <1>0, <1>2, PipeKeeps
<1>4. PipeInv'
  BY <1>0, <1>2, <1>x DEF PipeInv
<1>5. FlowInv'
  BY <1>0, <1>2 DEF FlowInv, Flight
<1> QED
  BY <1>3, <1>4, <1>5 DEF LoopInvs

-----------------------------------------------------------------------------
(* What Run takes from the pipe.                                           *)

\* The first chunk on its way leaves it, and its piece, if it has one, is shown.
LEMMA FlowTake ==
    ASSUME ShapeInv, FlowInv, loop.fwd, Flight # <<>>, Flight' = Tail(Flight), made' = made,
           shown' = shown \o PieceOf(Head(Flight))
    PROVE  FlowInv' /\ shown' \in Seq(Pieces)
<1>0. Flight \in Seq(Moving) /\ shown \in Seq(Pieces)
  BY HopsAre DEF ShapeInv
<1>q. PICK q \in Seq(Moving) : q = Flight
  BY <1>0
<1>c. PICK c \in Moving : c = Head(q)
  BY <1>q
<1>1. PieceOf(c) \in Seq(Pieces)
  <2>1. CASE c.text = <<>>
    BY <2>1 DEF PieceOf
  <2>2. CASE c.text # <<>>
    <3>1. c.at \in Pieces
      BY <2>2, ChunkIs
    <3> QED
      BY <2>2, <3>1 DEF PieceOf
  <2> QED
    BY <2>1, <2>2
<1>z. PICK z \in Seq(Pieces) : z = PieceOf(c)
  BY <1>1
<1>2. PICK p \in Seq(Pieces) : made = shown \o p /\ Lists(q, p)
  BY <1>q DEF FlowInv
<1>3. PICK s \in Seq(Pieces) : p = PieceOf(Head(q)) \o s /\ Lists(Tail(q), s)
  BY <1>2, <1>q, ListsTail
<1>w. PICK w \in Seq(Pieces) : w = shown
  BY <1>0
<1>4. w \o (z \o s) = (w \o z) \o s
  BY RegroupPieces
<1>5. w \o z \in Seq(Pieces)
  OBVIOUS
<1>6. made' = shown' \o s
  BY <1>2, <1>3, <1>4, <1>q, <1>c, <1>z, <1>w
<1>7. Lists(Flight', s)
  BY <1>3, <1>q
<1> QED
  BY <1>6, <1>7, <1>5, <1>q, <1>c, <1>z, <1>w DEF FlowInv

\* What remains of a chain when its first link is taken.
LEMMA TakeFirst ==
    ASSUME NEW b \in Seq(Moving), b # <<>>, NEW r \in Seq(Moving)
    PROVE  /\ Head(b) \in Moving /\ Tail(b) \in Seq(Moving)
           /\ b \o r # <<>> /\ Head(b \o r) = Head(b) /\ Tail(b \o r) = Tail(b) \o r
           /\ <<Head(b)>> \o (Tail(b) \o r) = b \o r
<1>1. Head(b) \in Moving /\ Tail(b) \in Seq(Moving)
  OBVIOUS
<1>h. PICK h \in Moving : h = Head(b)
  BY <1>1
<1>t. PICK t \in Seq(Moving) : t = Tail(b)
  BY <1>1
<1>2. <<h>> \in Seq(Moving) /\ <<h>> \o t = b
  BY <1>h, <1>t
<1>o. PICK o \in Seq(Moving) : o = <<h>>
  BY <1>2
<1>3. o \o (t \o r) = (o \o t) \o r
  BY Regroup
<1>s. PICK s \in Seq(Moving) : s = t \o r
  <2>1. t \o r \in Seq(Moving)
    OBVIOUS
  <2> QED
    BY <2>1
<1>4. <<h>> \o s # <<>> /\ Head(<<h>> \o s) = h /\ Tail(<<h>> \o s) = s
  OBVIOUS
<1> QED
  BY <1>1, <1>2, <1>3, <1>4, <1>h, <1>t, <1>o, <1>s

LEMMA DrainKeeps == ASSUME LoopInvs, DrainChunk PROVE LoopInvs'
<1>0. /\ ShapeInv /\ LoopInv /\ PipeInv /\ SseInv /\ FlowInv /\ PipeRec(pipe) /\ LoopRec(loop)
      /\ loop.pc = "drain" /\ pipe.hop[3] # <<>> /\ made \in Seq(Pieces) /\ shown \in Seq(Pieces)
      /\ UNCHANGED <<stream, left, tool, sse, reply, made, raced>>
  BY DEF LoopInvs, ShapeInv, DrainChunk
<1>i. /\ loop.cur = <<>> /\ ~loop.usage /\ loop.result # "ok" /\ loop.round <= MaxRounds
      /\ DOMAIN tool = {} /\ ~reply.kept /\ reply.pc # "mark" /\ 3 \in 1..3
      /\ loop.fwd \in BOOLEAN /\ loop.usage \in BOOLEAN
  BY <1>0 DEF LoopInv, LoopRec
<1>h. /\ pipe.hop \in [1..3 -> Seq(Moving)]
      /\ pipe.hop[1] \in Seq(Moving) /\ pipe.hop[2] \in Seq(Moving) /\ pipe.hop[3] \in Seq(Moving)
  BY <1>0, HopsAre
<1>b. PICK b \in Seq(Moving) : b = pipe.hop[3]
  BY <1>h
<1>r. PICK r \in Seq(Moving) : r = pipe.hop[2] \o pipe.hop[1]
  <2>1. pipe.hop[2] \o pipe.hop[1] \in Seq(Moving)
    BY <1>h
  <2> QED
    BY <2>1
<1>1. /\ Head(b) \in Moving /\ Tail(b) \in Seq(Moving)
      /\ b \o r # <<>> /\ Head(b \o r) = Head(b) /\ Tail(b \o r) = Tail(b) \o r
      /\ <<Head(b)>> \o (Tail(b) \o r) = b \o r
  BY <1>0, <1>b, TakeFirst
<1>c. PICK c \in Moving : c = Head(b)
  BY <1>1
<1>t. PICK t \in Seq(Moving) : t = Tail(b)
  BY <1>1
<1>s. <<>> \o (t \o r) = t \o r
  <2>1. t \o r \in Seq(Moving)
    OBVIOUS
  <2>y. PICK y \in Seq(Moving) : y = t \o r
    BY <2>1
  <2>2. <<>> \o y = y
    OBVIOUS
  <2> QED
    BY <2>y, <2>2
<1>g. PICK h \in [1..3 -> Seq(Moving)] : h = [pipe.hop EXCEPT ![3] = t]
  <2>1. [pipe.hop EXCEPT ![3] = t] \in [1..3 -> Seq(Moving)]
    BY <1>h
  <2> QED
    BY <2>1
<1>2. PipeRec(pipe') /\ pipe'.src = pipe.src /\ pipe'.sent = pipe.sent
      /\ pipe'.state = pipe.state /\ pipe'.hop = h /\ pipe'.closed = pipe.closed
  <2>1. pipe' = [pipe EXCEPT !.hop = h]
    BY <1>0, <1>t, <1>b, <1>g DEF PipeRec, DrainChunk
  <2> QED
    BY <1>0, <2>1 DEF PipeRec
<1>3. h[1] = pipe.hop[1] /\ h[2] = pipe.hop[2] /\ h[3] = t
  BY <1>h, <1>g
<1>4. Flight = b \o r
  <2>1. Flight = <<>> \o (b \o r)
    BY <1>i, <1>b, <1>r DEF Flight
  <2>2. b \o r \in Seq(Moving)
    OBVIOUS
  <2> QED
    BY <2>1, <2>2
<1>5. ASSUME LoopRec(loop'), loop'.pc \in {"drain", "emit"}, loop'.round = loop.round,
             ~loop'.usage, loop'.result = loop.result, shown' \in Seq(Pieces),
             IF loop'.pc = "emit"
             THEN Len(loop'.cur) = 1 /\ Forwarded(loop'.cur[1]) /\ loop'.fwd
             ELSE loop'.cur = <<>>
      PROVE  ShapeInv' /\ LoopInv' /\ PipeInv' /\ SseInv'
  <2>1. ShapeInv'
    BY <1>0, <1>2, <1>5 DEF ShapeInv, ReplyRec, SseRec, ToolRec
  <2>2. LoopInv'
    BY <1>0, <1>i, <1>5 DEF LoopInv
  <2>3. PipeInv'
    BY <1>0, <1>2, <1>3, <1>b, <1>5 DEF PipeInv
  <2>4. SseInv'
    BY <1>0, <1>i, <1>5 DEF SseInv
  <2> QED
    BY <2>1, <2>2, <2>3, <2>4
<1>6. pipe'.hop[3] \o (pipe'.hop[2] \o pipe'.hop[1]) = t \o r
  BY <1>2, <1>3, <1>r
<1>7. Forwarded(c) => ~c.usage
  BY ChunkIs DEF Forwarded
<1>k. PICK k : k = [loop EXCEPT !.text = loop.text \o c.text]
  OBVIOUS
<1>8. LoopRec(k) /\ k.pc = "drain" /\ k.cur = <<>> /\ k.fwd = loop.fwd /\ k.usage = loop.usage
      /\ k.round = loop.round /\ k.result = loop.result
  <2>x. PICK x : x = loop.text \o c.text
    OBVIOUS
  <2>1. k = [loop EXCEPT !.text = x]
    BY <1>k, <2>x
  <2> QED
    BY <1>0, <1>i, <2>1 DEF LoopRec
<1>9. CASE ~(loop.fwd /\ Forwarded(c)) /\ loop' = k /\ UNCHANGED shown
  <2>1. ShapeInv' /\ LoopInv' /\ PipeInv' /\ SseInv'
    BY <1>0, <1>i, <1>5, <1>8, <1>9
  <2>2. Flight' = Tail(Flight)
    <3>1. Flight' = <<>> \o (t \o r)
      BY <1>6, <1>8, <1>9 DEF Flight
    <3> QED
      BY <1>1, <1>4, <1>s, <1>t, <3>1
  <2>3. CASE loop.fwd
    <3>1. PieceOf(c) = <<>>
      BY <1>9, <2>3 DEF Forwarded, PieceOf
    <3>2. shown' = shown \o PieceOf(Head(Flight))
      <4>1. shown' = shown \o <<>>
        BY <1>0, <1>9
      <4>2. Head(Flight) = c
        BY <1>1, <1>4, <1>c
      <4> QED
        BY <3>1, <4>1, <4>2
    <3>3. FlowInv'
      BY <1>0, <1>1, <1>4, <2>2, <2>3, <3>2, FlowTake
    <3> QED
      BY <2>1, <3>3 DEF LoopInvs
  <2>4. CASE ~loop.fwd
    <3>1. FlowInv'
      BY <1>8, <1>9, <2>4 DEF FlowInv
    <3> QED
      BY <2>1, <3>1 DEF LoopInvs
  <2> QED
    BY <2>3, <2>4
<1>f. PICK f : f = [k EXCEPT !.usage = @ \/ c.usage]
  OBVIOUS
<1>10. Forwarded(c) => /\ LoopRec(f) /\ f.pc = "drain" /\ f.cur = <<>> /\ f.fwd = loop.fwd /\ ~f.usage
                       /\ f.round = loop.round /\ f.result = loop.result
  <2> SUFFICES ASSUME Forwarded(c) PROVE LoopRec(f) /\ f.pc = "drain" /\ f.cur = <<>> /\ ~f.usage
                  /\ f.fwd = loop.fwd /\ f.round = loop.round /\ f.result = loop.result
    OBVIOUS
  <2>u. PICK u \in BOOLEAN : u = FALSE
    OBVIOUS
  <2>1. f = [k EXCEPT !.usage = u]
    BY <1>i, <1>7, <1>8, <1>f, <2>u
  <2> QED
    BY <1>8, <2>1, <2>u DEF LoopRec
<1>11. CASE loop.fwd /\ Forwarded(c) /\ ~stream /\ loop' = f /\ shown' = shown \o PieceOf(c)
  <2>1. Flight' = Tail(Flight)
    <3>1. Flight' = <<>> \o (t \o r)
      BY <1>6, <1>10, <1>11 DEF Flight
    <3> QED
      BY <1>1, <1>4, <1>s, <1>t, <3>1
  <2>2. shown' = shown \o PieceOf(Head(Flight))
    BY <1>1, <1>4, <1>11, <1>c
  <2>3. FlowInv' /\ shown' \in Seq(Pieces)
    BY <1>0, <1>1, <1>4, <1>11, <2>1, <2>2, FlowTake
  <2>4. ShapeInv' /\ LoopInv' /\ PipeInv' /\ SseInv'
    BY <1>5, <1>10, <1>11, <2>3
  <2> QED
    BY <2>3, <2>4 DEF LoopInvs
<1>12. CASE loop.fwd /\ Forwarded(c) /\ left /\ loop' = [f EXCEPT !.fwd = FALSE] /\ UNCHANGED shown
  <2>1. LoopRec(loop') /\ loop'.pc = "drain" /\ loop'.cur = <<>> /\ ~loop'.usage /\ loop'.fwd = FALSE
        /\ loop'.round = loop.round /\ loop'.result = loop.result
    BY <1>10, <1>12 DEF LoopRec
  <2>2. FlowInv'
    BY <2>1 DEF FlowInv
  <2>3. ShapeInv' /\ LoopInv' /\ PipeInv' /\ SseInv'
    BY <1>0, <1>5, <1>12, <2>1
  <2> QED
    BY <2>2, <2>3 DEF LoopInvs
<1>13. CASE /\ loop.fwd /\ Forwarded(c) /\ loop' = [f EXCEPT !.pc = "emit", !.cur = <<c>>]
            /\ UNCHANGED shown
  <2>o. PICK o \in Seq(Moving) : o = <<c>>
    <3>1. <<c>> \in Seq(Moving)
      OBVIOUS
    <3> QED
      BY <3>1
  <2>1. LoopRec(loop') /\ loop'.pc = "emit" /\ loop'.cur = o /\ ~loop'.usage /\ loop'.fwd = loop.fwd
        /\ loop'.round = loop.round /\ loop'.result = loop.result
    BY <1>10, <1>13, <2>o DEF LoopRec
  <2>2. Len(o) = 1 /\ o[1] = c
    BY <2>o
  <2>3. ShapeInv' /\ LoopInv' /\ PipeInv' /\ SseInv'
    BY <1>0, <1>5, <1>13, <2>1, <2>2
  <2>4. Flight' = Flight
    <3>1. Flight' = o \o (t \o r)
      BY <1>6, <2>1 DEF Flight
    <3> QED
      BY <1>1, <1>4, <1>c, <1>t, <2>o, <3>1
  <2>5. FlowInv'
    BY <1>0, <1>13, <2>1, <2>4, FlowSame
  <2> QED
    BY <2>3, <2>5 DEF LoopInvs
<1>14. \/ ~(loop.fwd /\ Forwarded(c)) /\ loop' = k /\ UNCHANGED shown
       \/ loop.fwd /\ Forwarded(c) /\ ~stream /\ loop' = f /\ shown' = shown \o PieceOf(c)
       \/ /\ loop.fwd /\ Forwarded(c) /\ UNCHANGED shown
          /\ loop' = IF left THEN [f EXCEPT !.fwd = FALSE]
                             ELSE [f EXCEPT !.pc = "emit", !.cur = <<c>>]
  <2>1. Head(pipe.hop[3]) = c
    BY <1>b, <1>c
  <2> QED
    BY <1>k, <1>f, <2>1 DEF DrainChunk
<1> QED
  BY <1>9, <1>11, <1>12, <1>13, <1>14

\* The counter when no goroutine but the loop is in emit.
Counted(s) ==
    /\ SseRec(s)
    /\ s.late => left
    /\ s.done => left
    /\ s.mixed => raced
    /\ ~raced => s.last <= s.next

LEMMA EmittedKeeps == ASSUME NEW s, Counted(s), raced \in BOOLEAN PROVE Counted(Emitted(s))
<1>0. SseRec(s) /\ s.next \in Nat /\ s.last \in Nat
  BY DEF Counted, SseRec
<1>n. PICK n \in Nat : n = s.next + 1
  BY <1>0
<1>e. PICK e : e = Emitted(s)
  OBVIOUS
<1>1. e = Appended([s EXCEPT !.next = n], n)
  BY <1>0, <1>n, <1>e DEF Emitted, SseRec
<1>2. SseRec(e) /\ e.next = n /\ e.last = n /\ e.done = s.done
      /\ e.late = (s.late \/ s.done) /\ e.mixed = (s.mixed \/ n <= s.last)
  BY <1>0, <1>1 DEF SseRec, Appended
<1>3. s.mixed \/ n <= s.last => raced
  BY <1>0, <1>n DEF Counted
<1>4. (e.late => left) /\ (e.done => left) /\ (e.mixed => raced)
  BY <1>2, <1>3 DEF Counted
<1>5. e.last <= e.next
  BY <1>2, <1>n
<1> QED
  BY <1>2, <1>4, <1>5, <1>e DEF Counted

LEMMA DrainEmitKeeps == ASSUME LoopInvs, DrainEmit PROVE LoopInvs'
<1>0. /\ ShapeInv /\ LoopInv /\ PipeInv /\ SseInv /\ FlowInv /\ PipeRec(pipe) /\ LoopRec(loop)
      /\ loop.pc = "emit" /\ made \in Seq(Pieces) /\ SseRec(sse)
      /\ shown \in Seq(Pieces) /\ raced \in BOOLEAN
      /\ UNCHANGED <<stream, left, pipe, tool, reply, made, raced>>
  BY DEF LoopInvs, ShapeInv, DrainEmit
<1>h. /\ pipe.hop[1] \in Seq(Moving) /\ pipe.hop[2] \in Seq(Moving) /\ pipe.hop[3] \in Seq(Moving)
      /\ loop.cur \in Seq(Moving)
  BY <1>0, HopsAre
<1>i. /\ Len(loop.cur) = 1 /\ loop.fwd /\ ~loop.usage /\ loop.result # "ok" /\ DOMAIN tool = {}
      /\ loop.round <= MaxRounds /\ ~reply.kept /\ reply.pc # "mark"
  BY <1>0 DEF LoopInv
<1>b. PICK b \in Seq(Moving) : b = loop.cur
  BY <1>h
<1>r. PICK r \in Seq(Moving) : r = pipe.hop[3] \o (pipe.hop[2] \o pipe.hop[1])
  <2>x. PICK x \in Seq(Moving), y \in Seq(Moving), z \in Seq(Moving) :
          x = pipe.hop[3] /\ y = pipe.hop[2] /\ z = pipe.hop[1]
    BY <1>h
  <2>1. x \o (y \o z) \in Seq(Moving)
    OBVIOUS
  <2> QED
    BY <2>x, <2>1
<1>1. b # <<>> /\ Tail(b) = <<>> /\ Head(b) = b[1] /\ <<>> \o r = r
  <2>0. Len(b) = 1
    BY <1>b, <1>i
  <2>1. b # <<>> /\ Len(b) = 1
    BY <2>0
  <2>t. PICK t \in Seq(Moving) : t = Tail(b)
    <3>1. Tail(b) \in Seq(Moving)
      BY <2>1
    <3> QED
      BY <3>1
  <2>2. Len(t) = 0
    BY <2>1, <2>t
  <2>3. t = <<>>
    BY <2>2
  <2>4. <<>> \o r = r /\ Head(b) = b[1]
    BY <2>1
  <2> QED
    BY <2>1, <2>t, <2>3, <2>4
<1>2. b \o r # <<>> /\ Head(b \o r) = Head(b) /\ Tail(b \o r) = Tail(b) \o r
  BY <1>1, TakeFirst
<1>3. Flight = b \o r
  BY <1>b, <1>r DEF Flight
<1>4. LoopRec(loop') /\ loop'.pc = "drain" /\ loop'.cur = <<>> /\ loop'.fwd = loop.fwd
      /\ loop'.usage = loop.usage /\ loop'.result = loop.result /\ loop'.round = loop.round
  <2>e. PICK e \in Seq(Moving) : e = <<>>
    <3>1. <<>> \in Seq(Moving)
      OBVIOUS
    <3> QED
      BY <3>1
  <2>1. loop' = [loop EXCEPT !.pc = "drain", !.cur = e]
    BY <2>e DEF DrainEmit
  <2> QED
    BY <1>0, <2>e, <2>1 DEF LoopRec
<1>5. Flight' = Tail(Flight)
  <2>1. Flight' = <<>> \o r
    BY <1>0, <1>4, <1>r DEF Flight
  <2> QED
    BY <1>1, <1>2, <1>3, <2>1
<1>6. shown' = shown \o PieceOf(Head(Flight))
  BY <1>1, <1>2, <1>3, <1>b DEF DrainEmit
<1>7. FlowInv' /\ shown' \in Seq(Pieces)
  BY <1>0, <1>i, <1>2, <1>3, <1>5, <1>6, FlowTake
<1>8. Counted(sse')
  <2>1. Counted(sse)
    BY <1>0 DEF SseInv, Counted
  <2>c. PICK c : c = loop.cur[1]
    OBVIOUS
  <2>r. PICK q : q = IF c.think THEN Emitted(sse) ELSE sse
    OBVIOUS
  <2>2. Counted(q)
    BY <1>0, <2>1, <2>r, EmittedKeeps
  <2>3. Counted(Emitted(q))
    BY <1>0, <2>2, EmittedKeeps
  <2>4. sse' = IF c.text # <<>> THEN Emitted(q) ELSE q
    BY <2>c, <2>r DEF DrainEmit
  <2> QED
    BY <2>2, <2>3, <2>4
<1>9. ShapeInv'
  BY <1>0, <1>4, <1>7, <1>8 DEF ShapeInv, PipeRec, ReplyRec, ToolRec, Counted
<1>10. LoopInv'
  BY <1>0, <1>i, <1>4 DEF LoopInv
<1>11. PipeInv'
  BY <1>0, <1>4 DEF PipeInv
<1>12. SseInv'
  BY <1>0, <1>i, <1>8 DEF SseInv, Counted
<1> QED
  BY <1>7, <1>9, <1>10, <1>11, <1>12 DEF LoopInvs

\* The text of the round is complete: an answer, or calls.
LEMMA DrainEndsKeeps == ASSUME LoopInvs, DrainEnds PROVE LoopInvs'
<1>0. /\ ShapeInv /\ LoopInv /\ PipeInv /\ SseInv /\ FlowInv /\ PipeRec(pipe) /\ LoopRec(loop)
      /\ loop.pc = "drain" /\ 3 \in pipe.closed /\ pipe.hop[3] = <<>>
      /\ UNCHANGED <<stream, left, pipe, sse, reply, made, shown, raced>>
  BY DEF LoopInvs, ShapeInv, DrainEnds
<1>i. /\ loop.cur = <<>> /\ ~loop.usage /\ loop.result # "ok" /\ DOMAIN tool = {}
      /\ ~reply.kept /\ reply.pc # "mark"
  BY <1>0 DEF LoopInv
<1>j. PICK j : j = Judged[loop.text]
  OBVIOUS
<1>1. /\ loop' = IF j.calls = <<>> THEN [Returned(loop, j.result) EXCEPT !.content = j.content]
                                   ELSE [loop EXCEPT !.pc = "tools"]
      /\ tool' = [i \in DOMAIN j.calls |-> Idle(j.calls[i])]
  BY <1>j DEF DrainEnds
<1>2. /\ LoopRec(loop') /\ loop'.pc \in {"tools", "returned"} /\ loop'.cur = <<>>
      /\ loop'.fwd = loop.fwd /\ ~loop'.usage /\ loop'.round = loop.round
      /\ loop'.result = "ok" => loop'.pc = "returned"
      /\ loop'.pc = "returned" => j.calls = <<>>
  <2>1. CASE j.calls = <<>>
    <3>r. PICK k : k = Returned(loop, j.result)
      OBVIOUS
    <3>1. LoopRec(k) /\ k.pc = "returned" /\ k.cur = <<>> /\ k.fwd = loop.fwd
          /\ k.usage = loop.usage /\ k.round = loop.round
      BY <1>0, <3>r, LoopReturned
    <3>x. PICK x : x = j.content
      OBVIOUS
    <3>2. loop' = [k EXCEPT !.content = x]
      BY <1>1, <2>1, <3>r, <3>x
    <3>3. LoopRec(loop') /\ loop'.pc = k.pc /\ loop'.cur = k.cur /\ loop'.fwd = k.fwd
          /\ loop'.usage = k.usage /\ loop'.round = k.round
      BY <3>1, <3>2 DEF LoopRec
    <3> QED
      BY <1>i, <2>1, <3>1, <3>3
  <2>2. CASE j.calls # <<>>
    <3>1. loop' = [loop EXCEPT !.pc = "tools"]
      BY <1>1, <2>2
    <3>2. LoopRec(loop') /\ loop'.pc = "tools" /\ loop'.cur = loop.cur /\ loop'.fwd = loop.fwd
          /\ loop'.usage = loop.usage /\ loop'.round = loop.round /\ loop'.result = loop.result
      BY <1>0, <3>1 DEF LoopRec
    <3> QED
      BY <1>i, <3>2
  <2> QED
    BY <2>1, <2>2
<1>3. /\ DOMAIN tool' = DOMAIN j.calls /\ tool' = [i \in DOMAIN tool' |-> tool'[i]]
      /\ \A i \in DOMAIN tool' : tool'[i] = Idle(j.calls[i])
  BY <1>1
<1>4. \A i \in DOMAIN tool' : ToolRec(tool'[i]) /\ tool'[i].pc = "check"
  <2> SUFFICES ASSUME NEW i \in DOMAIN tool' PROVE ToolRec(tool'[i]) /\ tool'[i].pc = "check"
    OBVIOUS
  <2>c. PICK c, t : c = j.calls[i] /\ t = tool'[i]
    OBVIOUS
  <2>1. t = [pc |-> "check", call |-> c, tmp |-> 0, tries |-> 0, out |-> "none"]
    BY <1>3, <2>c DEF Idle
  <2>2. ToolRec(t) /\ t.pc = "check"
    BY <2>1 DEF ToolRec
  <2> QED
    BY <2>c, <2>2
<1>5. loop'.pc # "tools" => DOMAIN tool' = {}
  BY <1>2, <1>3
<1>6. ShapeInv'
  <2>1. (tool = [i \in DOMAIN tool |-> tool[i]])'
    BY <1>3
  <2> QED
    BY <1>0, <1>2, <1>4, <2>1 DEF ShapeInv, PipeRec, ReplyRec, SseRec
<1>7. LoopInv'
  BY <1>0, <1>i, <1>2, <1>5 DEF LoopInv
<1>8. PipeInv'
  BY <1>0, <1>2 DEF PipeInv
<1>9. SseInv'
  BY <1>0, <1>i, <1>2, <1>4 DEF SseInv, InEmit
<1>10. FlowInv'
  <2>1. Flight' = Flight
    BY <1>0, <1>i, <1>2 DEF Flight
  <2> QED
    BY <1>0, <1>2, <2>1, FlowSame
<1> QED
  BY <1>6, <1>7, <1>8, <1>9, <1>10 DEF LoopInvs

LEMMA RoundEndsKeeps == ASSUME LoopInvs, RoundEnds PROVE LoopInvs'
<1>0. /\ ShapeInv /\ LoopInv /\ PipeInv /\ SseInv /\ FlowInv /\ LoopRec(loop)
      /\ loop.pc = "tools" /\ pipe' = NoPipe /\ tool' = <<>>
      /\ UNCHANGED <<stream, left, sse, reply, made, shown, raced>>
  BY DEF LoopInvs, ShapeInv, RoundEnds
<1>i. /\ loop.cur = <<>> /\ ~loop.usage /\ loop.result # "ok" /\ ~reply.kept /\ reply.pc # "mark"
      /\ \A i \in 1..3 : pipe.hop[i] = <<>>
  BY <1>0 DEF LoopInv, PipeInv
<1>1. LoopRec(loop') /\ loop'.pc = "round" /\ loop'.cur = loop.cur /\ loop'.fwd = loop.fwd
      /\ loop'.usage = loop.usage /\ loop'.result = loop.result
  <2>n. PICK n \in Nat \ {0} : n = loop.round + 1
    BY <1>0 DEF LoopRec
  <2>1. loop' = [loop EXCEPT !.pc = "round", !.round = n]
    BY <1>0, <2>n DEF LoopRec, RoundEnds
  <2> QED
    BY <1>0, <2>1 DEF LoopRec
<1>e. PICK e \in Seq(Moving) : e = <<>>
  <2>1. <<>> \in Seq(Moving)
    OBVIOUS
  <2> QED
    BY <2>1
<1>s. PICK s \in Seq(Sendable) : s = <<>>
  <2>1. <<>> \in Seq(Sendable)
    OBVIOUS
  <2> QED
    BY <2>1
<1>2. PipeRec(pipe') /\ pipe'.src = <<>> /\ pipe'.sent = 0 /\ pipe'.state = "none"
      /\ pipe'.closed = {} /\ \A i \in 1..3 : pipe'.hop[i] = <<>>
  <2>1. <<e, e, e>> \in [1..3 -> Seq(Moving)] /\ \A i \in 1..3 : <<e, e, e>>[i] = e
    OBVIOUS
  <2>2. pipe' = [src |-> s, sent |-> 0, state |-> "none", hop |-> <<e, e, e>>,
                 closed |-> {}, slot |-> FALSE, busy |-> FALSE, cut |-> FALSE]
    BY <1>0, <1>e, <1>s DEF NoPipe
  <2> QED
    BY <1>e, <1>s, <2>1, <2>2 DEF PipeRec
<1>3. DOMAIN tool' = {} /\ tool' = [i \in DOMAIN tool' |-> tool'[i]]
  BY <1>0
<1>4. ShapeInv'
  <2>1. (tool = [i \in DOMAIN tool |-> tool[i]])'
    BY <1>3
  <2> QED
    BY <1>0, <1>1, <1>2, <1>3, <2>1 DEF ShapeInv, ReplyRec, SseRec
<1>5. LoopInv'
  BY <1>0, <1>i, <1>1, <1>3 DEF LoopInv
<1>6. PipeInv'
  BY <1>0, <1>1, <1>2, Constants DEF PipeInv
<1>7. SseInv'
  BY <1>0, <1>1, <1>3 DEF SseInv
<1>8. FlowInv'
  <2>1. 1 \in 1..3 /\ 2 \in 1..3 /\ 3 \in 1..3
    OBVIOUS
  <2>2. /\ pipe.hop[1] = <<>> /\ pipe.hop[2] = <<>> /\ pipe.hop[3] = <<>>
        /\ pipe'.hop[1] = <<>> /\ pipe'.hop[2] = <<>> /\ pipe'.hop[3] = <<>>
    BY <1>i, <1>2, <2>1
  <2>3. Flight' = Flight
    BY <1>1, <2>2 DEF Flight
  <2> QED
    BY <1>0, <1>1, <2>3, FlowSame
<1> QED
  BY <1>4, <1>5, <1>6, <1>7, <1>8 DEF LoopInvs

-----------------------------------------------------------------------------
(* Induction over numbers, by the smallest counterexample.                 *)

LEMMA SmallestOne ==
    ASSUME NEW T \in SUBSET Nat, T # {}
    PROVE  \E n \in T : \A m \in T : n <= m
<1>1. IsWellFoundedOn(OpToRel(<, Nat), Nat)
  BY NatLessThanWellFounded
<1>2. PICK x \in T : \A y \in T : ~ (<<y, x>> \in OpToRel(<, Nat))
  BY <1>1, WFMin
<1>3. \A y \in T : ~(y < x) /\ y \in Nat /\ x \in Nat
  BY <1>2 DEF OpToRel
<1> QED
  BY <1>3

\* A set that has 1 and with a number the next one has all up to L.
LEMMA AllUpTo ==
    ASSUME NEW L \in Nat, NEW T, 1 \in T, \A n \in 2..L : n - 1 \in T => n \in T
    PROVE  \A n \in 1..L : n \in T
<1> SUFFICES ASSUME NEW l \in 1..L, l \notin T PROVE FALSE
  OBVIOUS
<1> DEFINE U == {n \in 1..L : n \notin T}
<1>1. U \in SUBSET Nat /\ U # {}
  OBVIOUS
<1>2. PICK n \in U : \A m \in U : n <= m
  BY <1>1, SmallestOne
<1>3. n \in 2..L /\ n - 1 \in 1..L
  BY <1>2
<1>4. n - 1 \in T
  BY <1>2, <1>3
<1> QED
  BY <1>2, <1>3, <1>4

-----------------------------------------------------------------------------
(* The text of some chunks.                                                *)

\* f[i] is what the first i of the texts s are together.
Together(f, s, L) == \A i \in 1..L : f[i] = IF i = 1 THEN s[i] ELSE f[i - 1] \o s[i]

LEMMA TogetherDefined ==
    ASSUME NEW s, NEW L \in Nat, L > 0
    PROVE  \E f : f = [i \in 1..L |-> IF i = 1 THEN s[i] ELSE f[i - 1] \o s[i]]
<1> DEFINE T == {l \in Nat : \E f : f = [i \in 1..l |-> IF i = 1 THEN s[i] ELSE f[i - 1] \o s[i]]}
<1>1. 1 \in T
  <2>f. PICK f : f = [i \in 1..1 |-> s[i]]
    OBVIOUS
  <2>1. f = [i \in 1..1 |-> IF i = 1 THEN s[i] ELSE f[i - 1] \o s[i]]
    BY <2>f
  <2> QED
    BY <2>1
<1>2. ASSUME NEW l \in 2..L, l - 1 \in T PROVE l \in T
  <2>1. PICK g : g = [i \in 1..(l - 1) |-> IF i = 1 THEN s[i] ELSE g[i - 1] \o s[i]]
    BY <1>2
  <2>f. PICK f : f = [i \in 1..l |-> IF i = l THEN g[l - 1] \o s[l] ELSE g[i]]
    OBVIOUS
  <2>2. f = [i \in 1..l |-> IF i = 1 THEN s[i] ELSE f[i - 1] \o s[i]]
    <3>1. ASSUME NEW i \in 1..l
          PROVE  f[i] = IF i = 1 THEN s[i] ELSE f[i - 1] \o s[i]
      <4>1. CASE i = l
        <5>1. f[l] = g[l - 1] \o s[l]
          <6>1. l \in 1..l
            OBVIOUS
          <6> QED
            BY <2>f, <6>1
        <5>2. l - 1 \in 1..l /\ l - 1 # l /\ l # 1
          OBVIOUS
        <5>3. f[l - 1] = g[l - 1]
          BY <2>f, <5>2
        <5> QED
          BY <4>1, <5>1, <5>2, <5>3
      <4>2. CASE i # l
        <5>1. i \in 1..(l - 1) /\ f[i] = g[i]
          BY <2>f, <4>2
        <5>2. i # 1 => f[i - 1] = g[i - 1]
          BY <2>f, <5>1
        <5> QED
          BY <2>1, <5>1, <5>2
      <4> QED
        BY <4>1, <4>2
    <3> QED
      BY <2>f, <3>1
  <2>3. l \in Nat
    OBVIOUS
  <2> QED
    BY <2>2, <2>3
<1> HIDE DEF T
<1>3. L \in T
  BY <1>1, <1>2, AllUpTo
<1> QED
  BY <1>3 DEF T

LEMMA FlattenIs ==
    ASSUME NEW s, NEW L \in Nat, L > 0, Len(s) = L
    PROVE  \E f : Together(f, s, L) /\ FlattenSeq(s) = f[L]
<1> DEFINE flatten == CHOOSE f : f = [i \in 1..L |-> IF i = 1 THEN s[i] ELSE f[i - 1] \o s[i]]
<1>1. FlattenSeq(s) = flatten[L]
  BY DEF FlattenSeq
<1>2. flatten = [i \in 1..L |-> IF i = 1 THEN s[i] ELSE flatten[i - 1] \o s[i]]
  BY TogetherDefined
<1> HIDE DEF flatten
<1>3. Together(flatten, s, L)
  BY <1>2 DEF Together
<1> QED
  BY <1>1, <1>3

\* What the texts are together is built from the front.
LEMMA FlattenFront ==
    ASSUME NEW s, NEW f, NEW L \in Nat, Together(f, s, L), NEW k \in 1..L
    PROVE  FlattenSeq([i \in 1..k |-> s[i]]) = f[k]
<1>t. PICK t : t = [i \in 1..k |-> s[i]]
  OBVIOUS
<1>0. Len(t) = k /\ k \in Nat /\ k > 0
  BY <1>t
<1>g. PICK g : Together(g, t, k) /\ FlattenSeq(t) = g[k]
  BY <1>0, FlattenIs
<1> DEFINE T == {i \in Nat : i \in 1..k => g[i] = f[i]}
<1>1. 1 \in T
  <2>1. 1 \in 1..k /\ 1 \in 1..L
    OBVIOUS
  <2> QED
    BY <1>t, <1>g, <2>1 DEF Together
<1>2. ASSUME NEW n \in 2..k, n - 1 \in T PROVE n \in T
  <2>1. n \in 1..k /\ n \in 1..L /\ n # 1 /\ n - 1 \in 1..k
    OBVIOUS
  <2>2. g[n - 1] = f[n - 1]
    BY <1>2, <2>1
  <2>3. g[n] = g[n - 1] \o t[n] /\ f[n] = f[n - 1] \o s[n] /\ t[n] = s[n]
    BY <1>t, <1>g, <2>1 DEF Together
  <2>4. g[n] = f[n] /\ n \in Nat
    BY <2>2, <2>3
  <2> QED
    BY <2>4
<1> HIDE DEF T
<1>3. \A i \in 1..k : i \in T
  BY <1>0, <1>1, <1>2, AllUpTo
<1>4. k \in 1..k
  BY <1>0
<1>5. k \in T
  BY <1>3, <1>4
<1> QED
  BY <1>g, <1>t, <1>5 DEF T

\* What texts are made of.
Words == UNION {Range(c.text) : c \in Sendable}

LEMMA SaidIsText == \A c \in Sendable : c.text \in Seq(Words)
<1> TAKE c \in Sendable
<1>1. c.text \in Seq(Range(c.text)) /\ Range(c.text) \subseteq Words
  BY ToolLoopAssumption DEF Words
<1> QED
  BY <1>1

LEMMA TextOfNone == Text(<<>>) = <<>>
<1>t. PICK t : t = [i \in DOMAIN <<>> |-> <<>>[i].text]
  OBVIOUS
<1>1. t = <<>> /\ Len(t) = 0
  BY <1>t
<1>2. FlattenSeq(t) = t
  BY <1>1 DEF FlattenSeq
<1> QED
  BY <1>t, <1>1, <1>2 DEF Text

\* The text of a reply grows by that of each chunk.
LEMMA TextGrows ==
    ASSUME NEW r \in Seq(Sendable), NEW k \in 0..Len(r)
    PROVE  /\ Text(SubSeq(r, 1, k)) \in Seq(Words)
           /\ k < Len(r) => Text(SubSeq(r, 1, k + 1)) = Text(SubSeq(r, 1, k)) \o r[k + 1].text
<1>l. PICK L \in Nat : L = Len(r)
  OBVIOUS
<1>0. SubSeq(r, 1, 0) = <<>> /\ <<>> \in Seq(Words)
  OBVIOUS
<1>1. CASE L = 0
  <2>1. k = 0 /\ ~(k < Len(r))
    BY <1>l, <1>1
  <2>2. Text(SubSeq(r, 1, k)) = <<>>
    BY <1>0, <2>1, TextOfNone
  <2> QED
    BY <1>0, <2>1, <2>2
<1>2. CASE L > 0
  <2>s. PICK s : s = [i \in 1..L |-> r[i].text]
    OBVIOUS
  <2>f. PICK f : f = [i \in 1..L |-> IF i = 1 THEN s[i] ELSE f[i - 1] \o s[i]]
    BY <1>2, TogetherDefined
  <2>1. Together(f, s, L)
    BY <2>f DEF Together
  <2>2. \A i \in 1..L : s[i] \in Seq(Words)
    BY <1>l, <2>s, SaidIsText
  <2>3. \A i \in 1..L : f[i] \in Seq(Words)
    <3> DEFINE T == {i \in Nat : i \in 1..L => f[i] \in Seq(Words)}
    <3>1. 1 \in T
      BY <2>1, <2>2 DEF Together
    <3>2. ASSUME NEW n \in 2..L, n - 1 \in T PROVE n \in T
      <4>1. n \in 1..L /\ n # 1 /\ n - 1 \in 1..L
        OBVIOUS
      <4>2. f[n - 1] \in Seq(Words)
        BY <3>2, <4>1
      <4>3. f[n] = f[n - 1] \o s[n] /\ s[n] \in Seq(Words)
        BY <2>1, <2>2, <4>1 DEF Together
      <4>4. f[n] \in Seq(Words) /\ n \in Nat
        BY <4>2, <4>3
      <4> QED
        BY <4>4
    <3> HIDE DEF T
    <3>3. \A i \in 1..L : i \in T
      BY <3>1, <3>2, AllUpTo
    <3> QED
      BY <3>3 DEF T
  <2>4. \A j \in 1..L : Text(SubSeq(r, 1, j)) = f[j]
    <3> TAKE j \in 1..L
    <3>0. j \in 1..Len(r)
      BY <1>l
    <3>p. PICK p : p = SubSeq(r, 1, j)
      OBVIOUS
    <3>1. DOMAIN p = 1..j /\ \A i \in 1..j : p[i] = r[i]
      BY <3>0, <3>p
    <3>2. [i \in DOMAIN p |-> p[i].text] = [i \in 1..j |-> s[i]]
      BY <2>s, <3>1
    <3>3. FlattenSeq([i \in 1..j |-> s[i]]) = f[j]
      BY <2>1, FlattenFront
    <3> QED
      BY <3>p, <3>2, <3>3 DEF Text
  <2>5. CASE k = 0
    <3>1. Text(SubSeq(r, 1, k)) = <<>>
      BY <1>0, <2>5, TextOfNone
    <3>2. Text(SubSeq(r, 1, 1)) = s[1] /\ s[1] \in Seq(Words) /\ s[1] = r[1].text
      BY <1>2, <2>s, <2>1, <2>2, <2>4 DEF Together
    <3>3. s[1] = <<>> \o s[1]
      BY <3>2
    <3>4. k + 1 = 1
      BY <2>5
    <3> QED
      BY <1>0, <3>1, <3>2, <3>3, <3>4
  <2>6. CASE k # 0
    <3>1. k \in 1..L
      BY <1>l, <2>6
    <3>2. Text(SubSeq(r, 1, k)) = f[k] /\ f[k] \in Seq(Words)
      BY <2>3, <2>4, <3>1
    <3>3. ASSUME k < L PROVE Text(SubSeq(r, 1, k + 1)) = f[k] \o r[k + 1].text
      <4>1. k + 1 \in 1..L /\ k + 1 # 1 /\ (k + 1) - 1 = k
        BY <3>1, <3>3
      <4>2. f[k + 1] = f[k] \o s[k + 1]
        BY <2>1, <4>1 DEF Together
      <4> QED
        BY <2>s, <2>4, <4>1, <4>2
    <3> QED
      BY <1>l, <3>2, <3>3
  <2> QED
    BY <2>5, <2>6
<1>3. L = 0 \/ L > 0
  OBVIOUS
<1> QED
  BY <1>1, <1>2, <1>3

-----------------------------------------------------------------------------
(* What Run has read of the answer.                                        *)

\* The chunks on their way to the loop.
Way == pipe.hop[3] \o (pipe.hop[2] \o pipe.hop[1])

\* The runner answers with r, and the loop has taken the first k chunks of it.
Taken(r, k) ==
    /\ loop.asked = Text(r)
    /\ loop.text = Text(SubSeq(r, 1, k))
    /\ k <= pipe.sent /\ pipe.sent <= Len(r)
    /\ pipe.src = SubSeq(r, pipe.sent + 1, Len(r))
    /\ IF pipe.state = "open" THEN k + Len(Way) = pipe.sent
       ELSE k + Len(Way) \in {pipe.sent, pipe.sent + 1}
    /\ \A j \in 1..Len(Way) : Way[j].text = IF k + j <= pipe.sent THEN r[k + j].text ELSE <<>>

\* What Run reads is what the runner has sent of its answer, all of it unless the
\* stream broke off.
TextInv ==
    /\ pipe.state # "open" /\ ~pipe.cut => pipe.src = <<>>
    /\ loop.pc \in {"drain", "emit"} => \E r \in Replies : \E k \in 0..Len(r) : Taken(r, k)
    /\ loop.pc = "tools" =>
         /\ loop.text \in Texts
         /\ ~pipe.cut => loop.text = loop.asked
         /\ DOMAIN tool = DOMAIN Judged[loop.text].calls
         /\ \A i \in DOMAIN tool : tool[i].call = Judged[loop.text].calls[i]

LEMMA WayIs ==
    ASSUME LoopInvs
    PROVE  Way \in Seq(Moving) /\ Len(Way) \in Nat
<1>0. ShapeInv
  BY DEF LoopInvs
<1>1. PICK b \in Seq(Moving), d \in Seq(Moving), e \in Seq(Moving) :
        b = pipe.hop[3] /\ d = pipe.hop[2] /\ e = pipe.hop[1]
  BY <1>0, HopsAre
<1>2. d \o e \in Seq(Moving)
  OBVIOUS
<1>x. PICK x \in Seq(Moving) : x = d \o e
  BY <1>2
<1>3. b \o x \in Seq(Moving)
  OBVIOUS
<1>4. Way \in Seq(Moving)
  BY <1>1, <1>x, <1>3 DEF Way
<1> QED
  BY <1>4

LEMMA WayAppend ==
    ASSUME LoopInvs, NEW c \in Moving,
           pipe'.hop[1] = Append(pipe.hop[1], c), pipe'.hop[2] = pipe.hop[2],
           pipe'.hop[3] = pipe.hop[3]
    PROVE  Way' = Append(Way, c)
<1>0. ShapeInv
  BY DEF LoopInvs
<1>a. ASSUME NEW u \in Seq(Moving), NEW v \in Seq(Moving)
      PROVE  u \o Append(v, c) = Append(u \o v, c) /\ u \o v \in Seq(Moving)
  BY AppendFar
<1>1. PICK b \in Seq(Moving), d \in Seq(Moving), e \in Seq(Moving) :
        b = pipe.hop[3] /\ d = pipe.hop[2] /\ e = pipe.hop[1]
  BY <1>0, HopsAre
<1>2. d \o Append(e, c) = Append(d \o e, c) /\ d \o e \in Seq(Moving)
  BY <1>a
<1>x. PICK x \in Seq(Moving) : x = d \o e
  BY <1>2
<1>3. b \o Append(x, c) = Append(b \o x, c)
  BY <1>a
<1> QED
  BY <1>1, <1>2, <1>x, <1>3 DEF Way

\* A chunk that moves on leaves the way as it is.
LEMMA WayForward ==
    ASSUME LoopInvs, NEW i \in 1..2, Forward(i)
    PROVE  /\ Way' = Way /\ pipe'.src = pipe.src /\ pipe'.sent = pipe.sent
           /\ pipe'.state = pipe.state /\ pipe'.cut = pipe.cut
<1>0. ShapeInv /\ PipeRec(pipe)
  BY DEF LoopInvs, ShapeInv
<1>h. /\ pipe.hop \in [1..3 -> Seq(Moving)]
      /\ pipe.hop[1] \in Seq(Moving) /\ pipe.hop[2] \in Seq(Moving) /\ pipe.hop[3] \in Seq(Moving)
  BY <1>0, HopsAre
<1>a. PICK a \in Seq(Moving) : a = pipe.hop[i]
  BY <1>h
<1>b. PICK b \in Seq(Moving) : b = pipe.hop[i + 1]
  BY <1>h
<1>1. a # <<>> /\ pipe' = [pipe EXCEPT !.hop[i] = Tail(a), !.hop[i + 1] = Append(b, Head(a))]
  BY <1>0, <1>a, <1>b, <1>h DEF Forward, PipeRec
<1>2. Tail(a) \in Seq(Moving) /\ Append(b, Head(a)) \in Seq(Moving)
      /\ Append(b, Head(a)) \o Tail(a) = b \o a
  BY <1>1, OneMoves
<1>t. PICK t \in Seq(Moving) : t = Tail(a)
  BY <1>2
<1>u. PICK u \in Seq(Moving) : u = Append(b, Head(a))
  BY <1>2
<1>p. PICK p \in [1..3 -> Seq(Moving)] : p = pipe.hop
  BY <1>h
<1>n. PICK n \in 1..3 : n = i + 1 /\ n # i
  OBVIOUS
<1>e. PICK e \in [1..3 -> Seq(Moving)] : e = [p EXCEPT ![i] = t]
  OBVIOUS
<1>g. PICK h \in [1..3 -> Seq(Moving)] : h = [e EXCEPT ![n] = u]
  OBVIOUS
<1>3. pipe'.src = pipe.src /\ pipe'.sent = pipe.sent /\ pipe'.state = pipe.state
      /\ pipe'.hop = h /\ pipe'.cut = pipe.cut
  <2>1. pipe' = [pipe EXCEPT !.hop = h]
    BY <1>0, <1>1, <1>t, <1>u, <1>p, <1>n, <1>e, <1>g DEF PipeRec
  <2> QED
    BY <1>0, <2>1 DEF PipeRec
<1>4. h[i] = t /\ h[i + 1] = u /\ \A j \in 1..3 : j # i /\ j # i + 1 => h[j] = pipe.hop[j]
  <2>1. e[i] = t /\ \A j \in 1..3 : j # i => e[j] = p[j]
    BY <1>e
  <2>2. h[n] = u /\ \A j \in 1..3 : j # n => h[j] = e[j]
    BY <1>g
  <2> QED
    BY <1>p, <1>n, <2>1, <2>2
<1>5. Way' = Way
  <2>1. CASE i = 1
    <3>1. pipe'.hop[1] = t /\ pipe'.hop[2] = u /\ pipe'.hop[3] = pipe.hop[3]
      BY <1>3, <1>4, <2>1
    <3>2. a = pipe.hop[1] /\ b = pipe.hop[2]
      BY <1>a, <1>b, <2>1
    <3>3. pipe'.hop[2] \o pipe'.hop[1] = pipe.hop[2] \o pipe.hop[1]
      BY <1>2, <1>t, <1>u, <3>1, <3>2
    <3> QED
      BY <3>1, <3>3 DEF Way
  <2>2. CASE i = 2
    <3>1. pipe'.hop[1] = pipe.hop[1] /\ pipe'.hop[2] = t /\ pipe'.hop[3] = u
      BY <1>3, <1>4, <2>2
    <3>f. PICK f \in Seq(Moving) : f = pipe.hop[1]
      BY <1>h
    <3>2. u \o (t \o f) = (u \o t) \o f
      BY Regroup, ZenonT(30)
    <3>3. b \o (a \o f) = (b \o a) \o f
      BY Regroup, ZenonT(30)
    <3>4. u \o t = b \o a
      BY <1>2, <1>t, <1>u
    <3>5. a = pipe.hop[2] /\ b = pipe.hop[3]
      BY <1>a, <1>b, <2>2
    <3> QED
      BY <3>1, <3>f, <3>2, <3>3, <3>4, <3>5 DEF Way
  <2> QED
    BY <2>1, <2>2
<1> QED
  BY <1>3, <1>5

\* Away from the pipe and the text, the calls of the round stay what they are.
LEMMA TextSame ==
    ASSUME TextInv, loop'.pc = loop.pc, loop'.text = loop.text, loop'.asked = loop.asked,
           pipe'.src = pipe.src, pipe'.sent = pipe.sent, pipe'.state = pipe.state,
           pipe'.cut = pipe.cut, Way' = Way,
           DOMAIN tool' = DOMAIN tool, \A i \in DOMAIN tool : tool'[i].call = tool[i].call
    PROVE  TextInv'
<1>1. ASSUME NEW r, NEW k, Taken(r, k) PROVE Taken(r, k)'
  BY <1>1 DEF Taken
<1>2. (loop.pc \in {"drain", "emit"} => \E r \in Replies : \E k \in 0..Len(r) : Taken(r, k))'
  BY <1>1 DEF TextInv
<1> QED
  BY <1>2 DEF TextInv

LEMMA AllOfIt ==
    ASSUME NEW S, NEW r \in Seq(S)
    PROVE  SubSeq(r, 1, Len(r)) = r /\ SubSeq(r, 1, 0) = <<>>
OBVIOUS

\* What is left of a list after its first n.
LEMMA RestOf ==
    ASSUME NEW S, NEW r \in Seq(S), NEW n \in Nat, n <= Len(r)
    PROVE  /\ SubSeq(r, n + 1, Len(r)) = <<>> <=> n = Len(r)
           /\ n < Len(r) => /\ Head(SubSeq(r, n + 1, Len(r))) = r[n + 1]
                            /\ Tail(SubSeq(r, n + 1, Len(r))) = SubSeq(r, n + 2, Len(r))
<1>l. PICK L \in Nat : L = Len(r)
  OBVIOUS
<1>s. PICK s : s = SubSeq(r, n + 1, L)
  OBVIOUS
<1>1. s \in Seq(S) /\ Len(s) = L - n /\ \A i \in 1..(L - n) : s[i] = r[n + i]
  BY <1>l, <1>s
<1>2. s = <<>> <=> n = L
  BY <1>l, <1>1
<1>3. ASSUME n < L PROVE Head(s) = r[n + 1] /\ Tail(s) = SubSeq(r, n + 2, L)
  <2>1. s # <<>> /\ 1 \in 1..(L - n)
    BY <1>2, <1>3, <1>1
  <2>2. Head(s) = r[n + 1]
    BY <1>1, <2>1
  <2>t. PICK t : t = SubSeq(r, n + 2, L)
    OBVIOUS
  <2>3. t \in Seq(S) /\ Len(t) = L - n - 1 /\ \A i \in 1..(L - n - 1) : t[i] = r[n + 1 + i]
    BY <1>3, <1>l, <2>t
  <2>v. PICK v \in Seq(S) : v = s
    BY <1>1
  <2>w. Tail(v) \in Seq(S)
    BY <2>1, <2>v
  <2>u. PICK u \in Seq(S) : u = Tail(s)
    BY <2>v, <2>w
  <2>4. Len(u) = L - n - 1 /\ \A i \in 1..(L - n - 1) : u[i] = s[i + 1]
    BY <1>1, <2>1, <2>u
  <2>5. \A i \in 1..(L - n - 1) : u[i] = t[i]
    <3> TAKE i \in 1..(L - n - 1)
    <3>1. i + 1 \in 1..(L - n) /\ n + (i + 1) = n + 1 + i
      OBVIOUS
    <3> QED
      BY <1>1, <2>3, <2>4, <3>1
  <2>6. u = t
    BY <2>3, <2>4, <2>5
  <2> QED
    BY <2>2, <2>6, <2>t, <2>u
<1> QED
  BY <1>l, <1>s, <1>2, <1>3

LEMMA TextStarts == Init => TextInv
BY DEF Init, TextInv, NoPipe

LEMMA TextAccepted ==
    ASSUME LoopInvs, NEW r \in Replies, SendAccepted(r)
    PROVE  TextInv'
<1>0. LoopRec(loop) /\ r \in Seq(Sendable) /\ Len(r) \in Nat
  BY Constants DEF LoopInvs, ShapeInv
<1>1. loop'.pc = "drain" /\ loop'.text = <<>> /\ loop'.asked = Text(r)
  <2>x. PICK x : x = Text(r)
    OBVIOUS
  <2>1. loop' = [loop EXCEPT !.pc = "drain", !.text = <<>>, !.asked = x]
    BY <2>x DEF SendAccepted
  <2> QED
    BY <1>0, <2>x, <2>1 DEF LoopRec
<1>2. pipe'.src = r /\ pipe'.sent = 0 /\ pipe'.state = "open" /\ pipe'.hop = <<<<>>, <<>>, <<>>>>
  BY DEF SendAccepted, NoPipe
<1>3. Way' = <<>>
  BY <1>2 DEF Way
<1>4. SubSeq(r, 1, Len(r)) = r /\ SubSeq(r, 1, 0) = <<>>
  BY <1>0, AllOfIt
<1>5. loop'.text = Text(SubSeq(r, 1, 0))
  BY <1>1, <1>4, TextOfNone
<1>6. Taken(r, 0)'
  BY <1>0, <1>1, <1>2, <1>3, <1>4, <1>5 DEF Taken
<1>7. 0 \in 0..Len(r)
  BY <1>0
<1>8. (\E q \in Replies : \E k \in 0..Len(q) : Taken(q, k))'
  BY <1>6, <1>7
<1> QED
  BY <1>1, <1>2, <1>8 DEF TextInv

\* What the first k chunks and those on their way are, with numbers of their own.
LEMMA TakenIs ==
    ASSUME LoopInvs, TextInv, loop.pc \in {"drain", "emit"}
    PROVE  \E r \in Replies : \E k \in Nat :
             /\ r \in Seq(Sendable) /\ Len(r) \in Nat /\ k \in 0..Len(r) /\ Taken(r, k)
             /\ pipe.sent \in Nat /\ Len(Way) \in Nat /\ Way \in Seq(Moving)
<1>1. PICK r \in Replies : \E k \in 0..Len(r) : Taken(r, k)
  BY DEF TextInv
<1>2. PICK k \in 0..Len(r) : Taken(r, k)
  BY <1>1
<1>3. r \in Seq(Sendable)
  BY Constants
<1>4. ShapeInv /\ pipe.sent \in Nat
  <2>1. ShapeInv
    BY DEF LoopInvs
  <2> QED
    BY <2>1, HopsAre
<1>5. Len(r) \in Nat /\ k \in Nat
  BY <1>3
<1>6. Way \in Seq(Moving) /\ Len(Way) \in Nat
  BY WayIs
<1> QED
  BY <1>2, <1>3, <1>4, <1>5, <1>6

LEMMA TextSent ==
    ASSUME LoopInvs, TextInv, SenderSends
    PROVE  TextInv'
<1>0. /\ ShapeInv /\ PipeRec(pipe) /\ pipe.state = "open" /\ loop.pc \in {"drain", "emit"}
      /\ loop' = loop /\ tool' = tool /\ pipe.src # <<>>
  BY DEF LoopInvs, ShapeInv, PipeInv, SenderSends
<1>h. /\ pipe.hop \in [1..3 -> Seq(Moving)] /\ pipe.src \in Seq(Sendable) /\ pipe.sent \in Nat
      /\ pipe.hop[1] \in Seq(Moving)
  BY <1>0, HopsAre
<1>1. PICK r \in Replies, k \in Nat :
        /\ r \in Seq(Sendable) /\ Len(r) \in Nat /\ k \in 0..Len(r) /\ Taken(r, k)
        /\ pipe.sent \in Nat /\ Len(Way) \in Nat /\ Way \in Seq(Moving)
  BY <1>0, TakenIs
<1>l. PICK L \in Nat : L = Len(r)
  BY <1>1
<1>s. PICK s \in Nat : s = pipe.sent
  BY <1>1
<1>2. /\ loop.asked = Text(r) /\ loop.text = Text(SubSeq(r, 1, k)) /\ k <= s /\ s <= L
      /\ pipe.src = SubSeq(r, s + 1, L) /\ k + Len(Way) = s
      /\ \A j \in 1..Len(Way) : Way[j].text = IF k + j <= s THEN r[k + j].text ELSE <<>>
  BY <1>0, <1>1, <1>l, <1>s DEF Taken
<1>3. s < L /\ Head(pipe.src) = r[s + 1] /\ Tail(pipe.src) = SubSeq(r, s + 2, L)
  <2>1. /\ SubSeq(r, s + 1, L) = <<>> <=> s = L
        /\ s < L => /\ Head(SubSeq(r, s + 1, L)) = r[s + 1]
                    /\ Tail(SubSeq(r, s + 1, L)) = SubSeq(r, s + 2, L)
    BY <1>1, <1>l, <1>2, RestOf
  <2>2. pipe.src = SubSeq(r, s + 1, L) /\ pipe.src # <<>> /\ s <= L
    BY <1>0, <1>2
  <2>3. s < L
    BY <2>1, <2>2
  <2> QED
    BY <2>1, <2>2, <2>3
<1>d. PICK d \in Sendable : d = Head(pipe.src)
  BY <1>0, <1>h
<1>p. PICK p \in Pieces : p = <<loop.round, pipe.sent + 1>>
  <2>1. loop.round \in 1..MaxRounds
    BY <1>0, Constants DEF LoopInvs, ShapeInv, LoopInv, LoopRec
  <2>2. Len(pipe.src) + pipe.sent <= MaxLength /\ Len(pipe.src) \in Nat \ {0}
    BY <1>0, <1>h DEF LoopInvs, PipeInv
  <2>3. pipe.sent + 1 \in 1..MaxLength
    <3>1. pipe.sent \in Nat /\ MaxLength \in Nat
      BY <1>h, Constants
    <3> QED
      BY <2>2, <3>1
  <2>4. <<loop.round, pipe.sent + 1>> \in Pieces
    BY <2>1, <2>3 DEF Pieces
  <2> QED
    BY <2>4
<1>c. PICK c \in Moving : c = [d EXCEPT !.at = p] /\ c.text = d.text
  <2>1. PICK t, y, z, f : t = d.text /\ y = d.think /\ z = <<0, 0>> /\ f = FALSE
    OBVIOUS
  <2>2. d = [text |-> t, think |-> y, usage |-> f, at |-> z]
    BY <2>1, Constants DEF Chunk
  <2>3. [d EXCEPT !.at = p] = [text |-> t, think |-> y, usage |-> f, at |-> p]
    BY <2>2
  <2>4. Numbered(d, p) = [text |-> t, think |-> y, usage |-> f, at |-> p]
    BY <2>1 DEF Numbered
  <2>5. Numbered(d, p) \in Moving
    BY DEF Moving
  <2>6. Numbered(d, p).text = d.text
    BY DEF Numbered
  <2> QED
    BY <2>3, <2>4, <2>5, <2>6
<1>n. PICK n \in Nat : n = s + 1
  OBVIOUS
<1>r. PICK rest : rest = Tail(pipe.src)
  OBVIOUS
<1>g. PICK h \in [1..3 -> Seq(Moving)] : h = [pipe.hop EXCEPT ![1] = Append(pipe.hop[1], c)]
  <2>1. Append(pipe.hop[1], c) \in Seq(Moving)
    BY <1>h
  <2>2. [pipe.hop EXCEPT ![1] = Append(pipe.hop[1], c)] \in [1..3 -> Seq(Moving)]
    BY <1>h, <2>1
  <2> QED
    BY <2>2
<1>4. pipe' = [pipe EXCEPT !.src = rest, !.sent = n, !.hop = h]
  BY <1>0, <1>d, <1>p, <1>c, <1>n, <1>s, <1>r, <1>g DEF SenderSends, PipeRec
<1>5. pipe'.src = rest /\ pipe'.sent = n /\ pipe'.state = "open" /\ pipe'.hop = h
  BY <1>0, <1>4 DEF PipeRec
<1>6. pipe'.hop[1] = Append(pipe.hop[1], c) /\ pipe'.hop[2] = pipe.hop[2]
      /\ pipe'.hop[3] = pipe.hop[3]
  BY <1>h, <1>5, <1>g
<1>7. Way' = Append(Way, c)
  BY <1>6, WayAppend
<1>w. PICK w \in Seq(Moving) : w = Way
  BY <1>1
<1>8. Len(Way') = Len(w) + 1 /\ Len(w) \in Nat
      /\ \A j \in 1..(Len(w) + 1) : Way'[j] = IF j = Len(w) + 1 THEN c ELSE w[j]
  BY <1>7, <1>w
<1>9. \A j \in 1..Len(Way') : Way'[j].text = IF k + j <= n THEN r[k + j].text ELSE <<>>
  <2> TAKE j \in 1..Len(Way')
  <2>1. CASE j = Len(w) + 1
    <3>1. k + j = n /\ k + j = s + 1
      BY <1>2, <1>n, <1>w, <1>8, <2>1
    <3>2. Way'[j] = c /\ c.text = r[s + 1].text
      BY <1>3, <1>c, <1>d, <1>8, <2>1
    <3> QED
      BY <3>1, <3>2
  <2>2. CASE j # Len(w) + 1
    <3>1. j \in 1..Len(Way) /\ k + j <= s /\ k + j <= n
      BY <1>2, <1>n, <1>w, <1>8, <2>2
    <3>2. Way'[j] = Way[j]
      BY <1>8, <1>w, <2>2
    <3> QED
      BY <1>2, <3>1, <3>2
  <2> QED
    BY <2>1, <2>2
<1>10. k + Len(Way') = n /\ k <= n /\ n <= L /\ n + 1 = s + 2
  BY <1>2, <1>3, <1>n, <1>w, <1>8
<1>11. Taken(r, k)'
  BY <1>0, <1>2, <1>3, <1>5, <1>9, <1>10, <1>l, <1>r DEF Taken
<1>12. (\E q \in Replies : \E m \in 0..Len(q) : Taken(q, m))'
  BY <1>1, <1>11
<1> QED
  BY <1>0, <1>5, <1>12 DEF TextInv

\* The usage at the end adds nothing to the text.
LEMMA TextEnds ==
    ASSUME LoopInvs, TextInv, SenderEnds \/ SenderStops
    PROVE  TextInv'
<1>0. /\ ShapeInv /\ PipeRec(pipe) /\ pipe.state = "open" /\ loop.pc \in {"drain", "emit"}
      /\ loop' = loop /\ tool' = tool
  BY DEF LoopInvs, ShapeInv, PipeInv, SenderEnds, SenderStops
<1>h. /\ pipe.hop \in [1..3 -> Seq(Moving)] /\ pipe.hop[1] \in Seq(Moving)
  BY <1>0, HopsAre
<1>1. PICK r \in Replies, k \in Nat :
        /\ r \in Seq(Sendable) /\ Len(r) \in Nat /\ k \in 0..Len(r) /\ Taken(r, k)
        /\ pipe.sent \in Nat /\ Len(Way) \in Nat /\ Way \in Seq(Moving)
  BY <1>0, TakenIs
<1>s. PICK s \in Nat : s = pipe.sent
  BY <1>1
<1>2. /\ loop.asked = Text(r) /\ loop.text = Text(SubSeq(r, 1, k)) /\ k <= s /\ s <= Len(r)
      /\ pipe.src = SubSeq(r, s + 1, Len(r)) /\ k + Len(Way) = s
      /\ \A j \in 1..Len(Way) : Way[j].text = IF k + j <= s THEN r[k + j].text ELSE <<>>
  BY <1>0, <1>1, <1>s DEF Taken
<1>3. ASSUME pipe'.src = pipe.src, pipe'.sent = s, pipe'.state = "ended",
             ~pipe'.cut => pipe.src = <<>>,
             Len(Way') \in {Len(Way), Len(Way) + 1},
             \A j \in 1..Len(Way') : Way'[j].text = IF k + j <= s THEN r[k + j].text ELSE <<>>
      PROVE  TextInv'
  <2>1. k + Len(Way') \in {s, s + 1}
    BY <1>1, <1>2, <1>3
  <2>2. Taken(r, k)'
    BY <1>0, <1>2, <1>3, <2>1 DEF Taken
  <2>3. (\E q \in Replies : \E m \in 0..Len(q) : Taken(q, m))'
    BY <1>1, <2>2
  <2> QED
    BY <1>0, <1>3, <2>3 DEF TextInv
<1>4. CASE pipe' = [pipe EXCEPT !.state = "ended", !.closed = @ \cup {1}] /\ pipe.src = <<>>
  <2>1. /\ pipe'.src = pipe.src /\ pipe'.sent = pipe.sent /\ pipe'.state = "ended"
        /\ pipe'.hop = pipe.hop
    BY <1>0, <1>4 DEF PipeRec
  <2>2. Way' = Way
    BY <2>1 DEF Way
  <2> QED
    BY <1>2, <1>3, <1>4, <1>s, <2>1, <2>2
<1>5. CASE pipe' = [pipe EXCEPT !.state = "ended", !.closed = @ \cup {1}, !.cut = TRUE]
  <2>1. /\ pipe'.src = pipe.src /\ pipe'.sent = pipe.sent /\ pipe'.state = "ended"
        /\ pipe'.hop = pipe.hop /\ pipe'.cut
    BY <1>0, <1>5 DEF PipeRec
  <2>2. Way' = Way
    BY <2>1 DEF Way
  <2> QED
    BY <1>2, <1>3, <1>s, <2>1, <2>2
<1>6. CASE /\ pipe' = [pipe EXCEPT !.state = "ended", !.closed = @ \cup {1},
                                   !.hop[1] = Append(@, UsageChunk)]
           /\ pipe.src = <<>>
  <2>c. PICK c \in Moving : c = UsageChunk
    BY DEF Moving
  <2>h. PICK h \in [1..3 -> Seq(Moving)] : h = [pipe.hop EXCEPT ![1] = Append(pipe.hop[1], c)]
    <3>1. Append(pipe.hop[1], c) \in Seq(Moving)
      BY <1>h
    <3>2. [pipe.hop EXCEPT ![1] = Append(pipe.hop[1], c)] \in [1..3 -> Seq(Moving)]
      BY <1>h, <3>1
    <3> QED
      BY <3>2
  <2>1. pipe' = [pipe EXCEPT !.state = "ended", !.closed = pipe.closed \cup {1}, !.hop = h]
    BY <1>0, <1>6, <2>c, <2>h DEF PipeRec
  <2>2. pipe'.src = pipe.src /\ pipe'.sent = pipe.sent /\ pipe'.state = "ended" /\ pipe'.hop = h
    BY <1>0, <2>1 DEF PipeRec
  <2>3. pipe'.hop[1] = Append(pipe.hop[1], c) /\ pipe'.hop[2] = pipe.hop[2]
        /\ pipe'.hop[3] = pipe.hop[3]
    BY <1>h, <2>2, <2>h
  <2>4. Way' = Append(Way, c) /\ c.text = <<>>
    BY <2>c, <2>3, WayAppend DEF UsageChunk
  <2>w. PICK w \in Seq(Moving) : w = Way
    BY <1>1
  <2>5. Len(Way') = Len(w) + 1 /\ Len(w) \in Nat
        /\ \A j \in 1..(Len(w) + 1) : Way'[j] = IF j = Len(w) + 1 THEN c ELSE w[j]
    BY <2>4, <2>w
  <2>6. \A j \in 1..Len(Way') : Way'[j].text = IF k + j <= s THEN r[k + j].text ELSE <<>>
    <3> TAKE j \in 1..Len(Way')
    <3>1. CASE j = Len(w) + 1
      <4>1. ~(k + j <= s)
        BY <1>2, <2>w, <2>5, <3>1
      <4> QED
        BY <2>4, <2>5, <3>1, <4>1
    <3>2. CASE j # Len(w) + 1
      <4>1. j \in 1..Len(Way) /\ Way'[j] = Way[j]
        BY <2>w, <2>5, <3>2
      <4> QED
        BY <1>2, <4>1
    <3> QED
      BY <3>1, <3>2
  <2>7. Len(Way') = Len(Way) + 1
    BY <2>5, <2>w
  <2> QED
    BY <1>3, <1>6, <1>s, <2>2, <2>6, <2>7
<1> QED
  BY <1>4, <1>5, <1>6 DEF SenderEnds, SenderStops

\* The loop goes on with the text so far and the chunk it takes.
LEMMA DrainGoesOn ==
    ASSUME LoopInvs, DrainChunk
    PROVE  /\ loop'.pc \in {"drain", "emit"} /\ loop'.asked = loop.asked
           /\ loop'.text = loop.text \o Head(pipe.hop[3]).text
<1>0. /\ ShapeInv /\ LoopRec(loop) /\ loop.pc = "drain" /\ pipe.hop[3] # <<>>
  BY DEF LoopInvs, ShapeInv, DrainChunk
<1>c. PICK c \in Moving : c = Head(pipe.hop[3])
  <2>b. PICK b \in Seq(Moving) : b = pipe.hop[3]
    BY <1>0, HopsAre
  <2>1. Head(b) \in Moving
    BY <1>0, <2>b
  <2> QED
    BY <2>b, <2>1
<1>x. PICK x : x = loop.text \o c.text
  OBVIOUS
<1>k. PICK k : k = [loop EXCEPT !.text = x]
  OBVIOUS
<1>1. LoopRec(k) /\ k.text = x /\ k.asked = loop.asked /\ k.pc = "drain" /\ k.usage \in BOOLEAN
  BY <1>0, <1>k DEF LoopRec
<1>f. PICK f : f = [k EXCEPT !.usage = @ \/ c.usage]
  OBVIOUS
<1>2. LoopRec(f) /\ f.text = x /\ f.asked = loop.asked /\ f.pc = "drain"
  <2>1. c.usage \in BOOLEAN
    BY ChunkIs
  <2>u. PICK u \in BOOLEAN : u = (k.usage \/ c.usage)
    BY <1>1, <2>1
  <2>2. f = [k EXCEPT !.usage = u]
    BY <1>1, <1>f, <2>u DEF LoopRec
  <2> QED
    BY <1>1, <2>2 DEF LoopRec
<1>3. \/ loop' = k
      \/ loop' = f
      \/ loop' = [f EXCEPT !.fwd = FALSE]
      \/ loop' = [f EXCEPT !.pc = "emit", !.cur = <<c>>]
  BY <1>0, <1>c, <1>x, <1>k, <1>f DEF DrainChunk
<1>4. loop'.pc \in {"drain", "emit"} /\ loop'.text = x /\ loop'.asked = loop.asked
  BY <1>1, <1>2, <1>3 DEF LoopRec
<1> QED
  BY <1>4, <1>x, <1>c

\* The loop takes the first chunk on its way.
LEMMA TextTaken ==
    ASSUME LoopInvs, TextInv, DrainChunk
    PROVE  TextInv'
<1>0. /\ ShapeInv /\ PipeRec(pipe) /\ LoopRec(loop) /\ loop.pc = "drain" /\ pipe.hop[3] # <<>>
      /\ tool' = tool
  BY DEF LoopInvs, ShapeInv, DrainChunk
<1>h. /\ pipe.hop \in [1..3 -> Seq(Moving)]
      /\ pipe.hop[1] \in Seq(Moving) /\ pipe.hop[2] \in Seq(Moving) /\ pipe.hop[3] \in Seq(Moving)
  BY <1>0, HopsAre
<1>1. PICK r \in Replies, k \in Nat :
        /\ r \in Seq(Sendable) /\ Len(r) \in Nat /\ k \in 0..Len(r) /\ Taken(r, k)
        /\ pipe.sent \in Nat /\ Len(Way) \in Nat /\ Way \in Seq(Moving)
  BY <1>0, TakenIs
<1>s. PICK s \in Nat : s = pipe.sent
  BY <1>1
<1>2. /\ loop.asked = Text(r) /\ loop.text = Text(SubSeq(r, 1, k)) /\ k <= s /\ s <= Len(r)
      /\ pipe.src = SubSeq(r, s + 1, Len(r))
      /\ IF pipe.state = "open" THEN k + Len(Way) = s ELSE k + Len(Way) \in {s, s + 1}
      /\ \A j \in 1..Len(Way) : Way[j].text = IF k + j <= s THEN r[k + j].text ELSE <<>>
  BY <1>0, <1>1, <1>s DEF Taken
<1>b. PICK b \in Seq(Moving) : b = pipe.hop[3]
  BY <1>h
<1>q. PICK q \in Seq(Moving) : q = pipe.hop[2] \o pipe.hop[1]
  <2>1. pipe.hop[2] \o pipe.hop[1] \in Seq(Moving)
    BY <1>h
  <2> QED
    BY <2>1
<1>3. /\ Head(b) \in Moving /\ Tail(b) \in Seq(Moving)
      /\ b \o q # <<>> /\ Head(b \o q) = Head(b) /\ Tail(b \o q) = Tail(b) \o q
  BY <1>0, <1>b, TakeFirst
<1>c. PICK c \in Moving : c = Head(b)
  BY <1>3
<1>t. PICK t \in Seq(Moving) : t = Tail(b)
  BY <1>3
<1>g. PICK h \in [1..3 -> Seq(Moving)] : h = [pipe.hop EXCEPT ![3] = t]
  <2>1. [pipe.hop EXCEPT ![3] = t] \in [1..3 -> Seq(Moving)]
    BY <1>h
  <2> QED
    BY <2>1
<1>4. /\ pipe'.src = pipe.src /\ pipe'.sent = pipe.sent /\ pipe'.state = pipe.state
      /\ pipe'.hop = h /\ pipe'.cut = pipe.cut
  <2>1. pipe' = [pipe EXCEPT !.hop = h]
    BY <1>0, <1>t, <1>b, <1>g DEF PipeRec, DrainChunk
  <2> QED
    BY <1>0, <2>1 DEF PipeRec
<1>5. h[1] = pipe.hop[1] /\ h[2] = pipe.hop[2] /\ h[3] = t
  BY <1>h, <1>g
<1>w. PICK w \in Seq(Moving) : w = Way
  BY <1>1
<1>6. w = b \o q /\ Way' = t \o q
  BY <1>b, <1>q, <1>w, <1>4, <1>5 DEF Way
<1>7. w # <<>> /\ Head(w) = c /\ Way' = Tail(w)
  BY <1>3, <1>6, <1>c, <1>t
<1>8. Len(w) > 0 /\ w[1] = c /\ Len(Way') = Len(w) - 1
      /\ \A j \in 1..(Len(w) - 1) : Way'[j] = w[j + 1]
  BY <1>7
<1>l. PICK L \in Nat, W \in Nat : L = Len(r) /\ W = Len(w)
  BY <1>1, <1>w
<1>n. /\ k \in Nat /\ k <= s /\ s <= L /\ W > 0
      /\ pipe.state = "open" => k + W = s
      /\ k + W = s \/ k + W = s + 1
  BY <1>1, <1>2, <1>8, <1>l, <1>w
<1>x. PICK x : x = loop.text \o c.text
  OBVIOUS
<1>9. loop'.pc \in {"drain", "emit"} /\ loop'.text = x /\ loop'.asked = loop.asked
  BY <1>b, <1>c, <1>x, DrainGoesOn
<1>10. CASE k + 1 <= s
  <2>k. PICK n \in Nat : n = k + 1
    BY <1>1
  <2>1. k < Len(r) /\ n \in 0..Len(r)
    <3>1. k < L /\ n \in 0..L
      BY <1>n, <1>10, <2>k
    <3> QED
      BY <1>l, <3>1
  <2>2. c.text = r[n].text
    <3>1. 1 \in 1..Len(Way) /\ Way[1] = c
      BY <1>8, <1>w
    <3> QED
      BY <1>2, <1>10, <2>k, <3>1
  <2>3. loop'.text = Text(SubSeq(r, 1, n))
    <3>1. k < Len(r) => Text(SubSeq(r, 1, k + 1)) = Text(SubSeq(r, 1, k)) \o r[k + 1].text
      BY <1>1, TextGrows
    <3> QED
      BY <1>2, <1>9, <1>x, <2>k, <2>1, <2>2, <3>1
  <2>4. n <= s /\ n + Len(Way') = k + Len(Way)
    BY <1>1, <1>8, <1>10, <1>w, <2>k
  <2>5. \A j \in 1..Len(Way') : Way'[j].text = IF n + j <= s THEN r[n + j].text ELSE <<>>
    <3> TAKE j \in 1..Len(Way')
    <3>0. j \in 1..(W - 1)
      BY <1>8, <1>l
    <3>1. j + 1 \in 1..W /\ k + (j + 1) = n + j
      BY <1>n, <2>k, <3>0
    <3>2. j + 1 \in 1..Len(Way) /\ Way[j + 1] = w[j + 1] /\ Way'[j] = w[j + 1]
      BY <1>8, <1>l, <1>w, <3>0, <3>1
    <3> QED
      BY <1>2, <3>1, <3>2
  <2>6. Taken(r, n)'
    BY <1>2, <1>4, <1>9, <1>s, <2>3, <2>4, <2>5 DEF Taken
  <2>7. (\E p \in Replies : \E m \in 0..Len(p) : Taken(p, m))'
    BY <2>1, <2>6
  <2> QED
    BY <1>4, <1>9, <2>7 DEF TextInv
<1>11. CASE ~(k + 1 <= s)
  <2>1. k = s /\ Len(w) = 1 /\ pipe.state # "open"
    <3>1. k = s /\ W = 1 /\ pipe.state # "open"
      BY <1>n, <1>11
    <3> QED
      BY <1>l, <3>1
  <2>2. c.text = <<>>
    <3>1. 1 \in 1..Len(Way) /\ Way[1] = c
      BY <1>8, <1>w
    <3> QED
      BY <1>2, <1>11, <3>1
  <2>3. loop'.text = loop.text
    <3>1. Text(SubSeq(r, 1, k)) \in Seq(Words)
      BY <1>1, TextGrows
    <3>v. PICK v \in Seq(Words) : v = loop.text
      BY <1>2, <3>1
    <3>2. v \o <<>> = v
      OBVIOUS
    <3> QED
      BY <1>9, <1>x, <2>2, <3>v, <3>2
  <2>4. Len(Way') = 0 /\ k + Len(Way') = s
    BY <1>8, <2>1
  <2>5. Taken(r, k)'
    BY <1>2, <1>4, <1>9, <1>s, <2>1, <2>3, <2>4 DEF Taken
  <2>6. (\E p \in Replies : \E m \in 0..Len(p) : Taken(p, m))'
    BY <1>1, <2>5
  <2> QED
    BY <1>4, <1>9, <2>6 DEF TextInv
<1> QED
  BY <1>10, <1>11

\* All has arrived.
LEMMA TextDrained ==
    ASSUME LoopInvs, TextInv, DrainEnds
    PROVE  TextInv' /\ loop.text \in Texts /\ (~pipe.cut => loop.text = loop.asked)
<1>0. /\ ShapeInv /\ PipeInv /\ LoopRec(loop) /\ loop.pc = "drain" /\ 3 \in pipe.closed
      /\ pipe.hop[3] = <<>> /\ pipe' = pipe
  BY DEF LoopInvs, ShapeInv, DrainEnds
<1>1. PICK r \in Replies, k \in Nat :
        /\ r \in Seq(Sendable) /\ Len(r) \in Nat /\ k \in 0..Len(r) /\ Taken(r, k)
        /\ pipe.sent \in Nat /\ Len(Way) \in Nat /\ Way \in Seq(Moving)
  BY <1>0, TakenIs
<1>2. pipe.hop[2] = <<>> /\ pipe.hop[1] = <<>> /\ pipe.state # "open"
  BY <1>0 DEF PipeInv
<1>3. Way = <<>> /\ Len(Way) = 0
  BY <1>0, <1>2 DEF Way
<1>4. k = pipe.sent /\ loop.text = Text(SubSeq(r, 1, k)) /\ loop.asked = Text(r)
      /\ pipe.src = SubSeq(r, pipe.sent + 1, Len(r))
  BY <1>1, <1>2, <1>3 DEF Taken
<1>5. loop.text \in Texts
  BY <1>1, <1>4 DEF Texts
<1>6. ASSUME ~pipe.cut PROVE loop.text = loop.asked
  <2>1. pipe.src = <<>>
    BY <1>2, <1>6 DEF TextInv
  <2>2. SubSeq(r, k + 1, Len(r)) = <<>> /\ k <= Len(r)
    BY <1>1, <1>4, <2>1
  <2>3. k = Len(r)
    BY <1>1, <2>2, RestOf
  <2>4. SubSeq(r, 1, k) = r
    BY <1>1, <2>3, AllOfIt
  <2> QED
    BY <1>4, <2>4
<1>j. PICK j : j = Judged[loop.text]
  OBVIOUS
<1>7. /\ loop' = IF j.calls = <<>> THEN [Returned(loop, j.result) EXCEPT !.content = j.content]
                                   ELSE [loop EXCEPT !.pc = "tools"]
      /\ tool' = [i \in DOMAIN j.calls |-> Idle(j.calls[i])]
  BY <1>j DEF DrainEnds
<1>8. loop'.pc \notin {"drain", "emit"} /\ loop'.text = loop.text /\ loop'.asked = loop.asked
  <2>1. CASE j.calls = <<>>
    <3>r. PICK n, m : n = Returned(loop, m) /\ m = j.result
      OBVIOUS
    <3>1. LoopRec(n) /\ n.pc = "returned" /\ n.text = loop.text /\ n.asked = loop.asked
      <4>1. <<>> \in Seq(Moving)
        OBVIOUS
      <4> QED
        BY <1>0, <3>r, <4>1 DEF LoopRec, Returned
    <3>x. PICK x : x = j.content
      OBVIOUS
    <3>2. loop' = [n EXCEPT !.content = x]
      BY <1>7, <2>1, <3>r, <3>x
    <3> QED
      BY <3>1, <3>2 DEF LoopRec
  <2>2. CASE j.calls # <<>>
    <3>1. loop' = [loop EXCEPT !.pc = "tools"]
      BY <1>7, <2>2
    <3> QED
      BY <1>0, <3>1 DEF LoopRec
  <2> QED
    BY <2>1, <2>2
<1>9. DOMAIN tool' = DOMAIN j.calls /\ \A i \in DOMAIN tool' : tool'[i].call = j.calls[i]
  BY <1>7 DEF Idle
<1>10. TextInv'
  <2>1. (loop.pc = "tools" =>
          /\ loop.text \in Texts
          /\ ~pipe.cut => loop.text = loop.asked
          /\ DOMAIN tool = DOMAIN Judged[loop.text].calls
          /\ \A i \in DOMAIN tool : tool[i].call = Judged[loop.text].calls[i])'
    BY <1>0, <1>5, <1>6, <1>8, <1>9, <1>j
  <2>2. (pipe.state # "open" /\ ~pipe.cut => pipe.src = <<>>)'
    BY <1>0 DEF TextInv
  <2> QED
    BY <1>8, <2>1, <2>2 DEF TextInv
<1> QED
  BY <1>5, <1>6, <1>10

\* A goroutine keeps its call.
LEMMA CallKept ==
    ASSUME LoopInvs, NEW i \in DOMAIN tool,
           \/ ToolChecks(i) \/ EmitReads(i) \/ EmitWrites(i) \/ EmitAppends(i)
           \/ Execute(i) \/ ToolEnds(i)
    PROVE  /\ tool' = [tool EXCEPT ![i] = tool'[i]] /\ DOMAIN tool' = DOMAIN tool
           /\ \A j \in DOMAIN tool : tool'[j].call = tool[j].call
           /\ \A j \in DOMAIN tool : j # i => tool'[j] = tool[j]
           /\ loop' = loop /\ pipe' = pipe /\ hist' = hist
<1>0. tool = [j \in DOMAIN tool |-> tool[j]] /\ ToolRec(tool[i])
  BY DEF LoopInvs, ShapeInv
<1>1. loop' = loop /\ pipe' = pipe /\ hist' = hist
  BY DEF ToolChecks, EmitReads, EmitWrites, EmitAppends, Execute, ToolEnds
<1>2. ASSUME NEW t, tool' = [tool EXCEPT ![i] = t], t.call = tool[i].call
      PROVE  /\ tool' = [tool EXCEPT ![i] = tool'[i]] /\ DOMAIN tool' = DOMAIN tool
             /\ \A j \in DOMAIN tool : tool'[j].call = tool[j].call
             /\ \A j \in DOMAIN tool : j # i => tool'[j] = tool[j]
  <2>1. tool'[i] = t
    BY <1>0, <1>2
  <2>2. DOMAIN tool' = DOMAIN tool /\ \A j \in DOMAIN tool : j # i => tool'[j] = tool[j]
    BY <1>0, <1>2
  <2>3. tool' = [tool EXCEPT ![i] = tool'[i]]
    BY <1>2, <2>1
  <2>4. \A j \in DOMAIN tool : tool'[j].call = tool[j].call
    BY <1>2, <2>1, <2>2
  <2> QED
    BY <2>2, <2>3, <2>4
<1>3. \E t : tool' = [tool EXCEPT ![i] = t] /\ t.call = tool[i].call
  <2>1. CASE ToolChecks(i)
    <3>t. PICK t : t = IF left \/ abort THEN [tool[i] EXCEPT !.pc = "end", !.out = "cancelled"]
                       ELSE [tool[i] EXCEPT !.pc = IF stream THEN "read" ELSE "exec"]
      OBVIOUS
    <3>1. tool' = [tool EXCEPT ![i] = t]
      BY <1>0, <2>1, <3>t DEF ToolChecks
    <3>2. t.call = tool[i].call
      BY <1>0, <3>t DEF ToolRec
    <3> QED
      BY <3>1, <3>2
  <2>2. CASE EmitReads(i)
    <3>t. PICK t : t = [tool[i] EXCEPT !.tmp = sse.next,
                                       !.pc = IF @ = "read" THEN "write" ELSE "write2"]
      OBVIOUS
    <3>1. tool' = [tool EXCEPT ![i] = t]
      BY <1>0, <2>2, <3>t DEF EmitReads
    <3>2. t.call = tool[i].call
      BY <1>0, <3>t DEF ToolRec
    <3> QED
      BY <3>1, <3>2
  <2>3. CASE EmitWrites(i)
    <3>t. PICK t : t = [tool[i] EXCEPT !.pc = IF @ = "write" THEN "append" ELSE "append2"]
      OBVIOUS
    <3>1. tool' = [tool EXCEPT ![i] = t]
      BY <1>0, <2>3, <3>t DEF EmitWrites
    <3>2. t.call = tool[i].call
      BY <1>0, <3>t DEF ToolRec
    <3> QED
      BY <3>1, <3>2
  <2>4. CASE EmitAppends(i)
    <3>t. PICK t : t = [tool[i] EXCEPT !.tmp = 0,
                                       !.pc = IF @ = "append" THEN "exec" ELSE "fin"]
      OBVIOUS
    <3>1. tool' = [tool EXCEPT ![i] = t]
      BY <1>0, <2>4, <3>t DEF EmitAppends
    <3>2. t.call = tool[i].call
      BY <1>0, <3>t DEF ToolRec
    <3> QED
      BY <3>1, <3>2
  <2>5. CASE Execute(i)
    <3>1. CASE tool' = [tool EXCEPT ![i].pc = IF stream THEN "read2" ELSE "fin",
                                    ![i].out = "error"]
      <4>t. PICK t : t = [tool[i] EXCEPT !.pc = IF stream THEN "read2" ELSE "fin", !.out = "error"]
        OBVIOUS
      <4>1. tool' = [tool EXCEPT ![i] = t]
        BY <1>0, <3>1, <4>t
      <4>2. t.call = tool[i].call
        BY <1>0, <4>t DEF ToolRec
      <4> QED
        BY <4>1, <4>2
    <3>2. CASE \E x \in Attempts : tool' = [tool EXCEPT ![i] = CallTool(@, x)]
      <4>x. PICK x \in Attempts : tool' = [tool EXCEPT ![i] = CallTool(@, x)]
        BY <3>2
      <4>t. PICK t : t = CallTool(tool[i], x)
        OBVIOUS
      <4>1. tool' = [tool EXCEPT ![i] = t]
        BY <1>0, <4>x, <4>t
      <4>2. t.call = tool[i].call
        BY <1>0, <4>t DEF ToolRec, CallTool
      <4> QED
        BY <4>1, <4>2
    <3> QED
      BY <2>5, <3>1, <3>2 DEF Execute
  <2>6. CASE ToolEnds(i)
    <3>t. PICK t : t = [tool[i] EXCEPT !.pc = "end"]
      OBVIOUS
    <3>1. tool' = [tool EXCEPT ![i] = t]
      BY <1>0, <2>6, <3>t DEF ToolEnds
    <3>2. t.call = tool[i].call
      BY <1>0, <3>t DEF ToolRec
    <3> QED
      BY <3>1, <3>2
  <2> QED
    BY <2>1, <2>2, <2>3, <2>4, <2>5, <2>6
<1> QED
  BY <1>1, <1>2, <1>3

LEMMA TextKeeps ==
    ASSUME LoopInvs, TextInv, [Next]_vars
    PROVE  TextInv'
<1>0. LoopRec(loop) /\ PipeRec(pipe) /\ tool = [i \in DOMAIN tool |-> tool[i]]
  BY DEF LoopInvs, ShapeInv
<1>1. ASSUME NEW r \in Replies, SendAccepted(r) PROVE TextInv'
  BY <1>1, TextAccepted
<1>2. CASE SenderSends
  BY <1>2, TextSent
<1>3. CASE SenderEnds \/ SenderStops
  BY <1>3, TextEnds
<1>4. CASE Prepare \/ RoundBegins \/ SendRefused
  <2>1. loop.pc \notin {"drain", "emit", "tools"} /\ pipe' = pipe /\ tool' = tool
    BY <1>4 DEF Prepare, RoundBegins, SendRefused
  <2>2. loop'.pc \notin {"drain", "emit", "tools"}
    <3>1. \/ loop' = [loop EXCEPT !.pc = "round"] \/ loop' = [loop EXCEPT !.pc = "send"]
          \/ \E r : loop' = Returned(loop, r)
      BY <1>4 DEF Prepare, RoundBegins, SendRefused
    <3>2. ASSUME NEW r, loop' = Returned(loop, r) PROVE loop'.pc = "returned"
      BY <1>0, <3>2, LoopReturned
    <3> QED
      BY <1>0, <3>1, <3>2 DEF LoopRec
  <2> QED
    BY <2>1, <2>2 DEF TextInv
<1>5. ASSUME NEW i \in 1..2, Forward(i) PROVE TextInv'
  <2>1. loop' = loop /\ tool' = tool
    BY <1>5 DEF Forward
  <2>2. /\ Way' = Way /\ pipe'.src = pipe.src /\ pipe'.sent = pipe.sent
        /\ pipe'.state = pipe.state /\ pipe'.cut = pipe.cut
    BY <1>5, WayForward
  <2> QED
    BY <2>1, <2>2, TextSame
<1>6. ASSUME NEW i \in 1..2, ForwardEnds(i) PROVE TextInv'
  <2>1. loop' = loop /\ tool' = tool
    BY <1>6 DEF ForwardEnds
  <2>2. /\ pipe'.hop = pipe.hop /\ pipe'.src = pipe.src /\ pipe'.sent = pipe.sent
        /\ pipe'.state = pipe.state /\ pipe'.cut = pipe.cut
    BY <1>0, <1>6 DEF ForwardEnds, PipeRec
  <2>3. Way' = Way
    BY <2>2 DEF Way
  <2> QED
    BY <2>1, <2>2, <2>3, TextSame
<1>7. CASE DrainChunk
  BY <1>7, TextTaken
<1>8. CASE DrainEmit
  <2>1. pipe' = pipe /\ tool' = tool /\ loop' = [loop EXCEPT !.pc = "drain", !.cur = <<>>]
        /\ loop.pc = "emit"
    BY <1>8 DEF DrainEmit
  <2>2. loop'.pc = "drain" /\ loop'.text = loop.text /\ loop'.asked = loop.asked
    BY <1>0, <2>1 DEF LoopRec
  <2>3. ASSUME NEW r, NEW k, Taken(r, k) PROVE Taken(r, k)'
    BY <2>1, <2>2, <2>3 DEF Taken, Way
  <2>4. (\E r \in Replies : \E k \in 0..Len(r) : Taken(r, k))'
    BY <2>1, <2>3 DEF TextInv
  <2> QED
    BY <2>1, <2>2, <2>4 DEF TextInv
<1>9. CASE DrainEnds
  BY <1>9, TextDrained
<1>10. ASSUME NEW i \in DOMAIN tool,
              \/ ToolChecks(i) \/ EmitReads(i) \/ EmitWrites(i) \/ EmitAppends(i)
              \/ Execute(i) \/ ToolEnds(i)
       PROVE  TextInv'
  <2>1. /\ DOMAIN tool' = DOMAIN tool /\ \A j \in DOMAIN tool : tool'[j].call = tool[j].call
        /\ loop' = loop /\ pipe' = pipe
    BY <1>10, CallKept
  <2>2. Way' = Way
    BY <2>1 DEF Way
  <2> QED
    BY <2>1, <2>2, TextSame
<1>11. CASE RoundEnds
  <2>1. pipe'.state = "none" /\ pipe'.src = <<>>
    BY <1>11 DEF RoundEnds, NoPipe
  <2>2. loop'.pc = "round"
    <3>1. PICK n : loop' = [loop EXCEPT !.pc = "round", !.round = n]
      BY <1>11 DEF RoundEnds
    <3> QED
      BY <1>0, <3>1 DEF LoopRec
  <2> QED
    BY <2>1, <2>2 DEF TextInv
<1>12. CASE \/ ClientLeaves \/ HandlerLeaves \/ HandlerAnswers \/ HandlerMarksDone
            \/ PlainAnswers \/ Ended \/ UNCHANGED vars
  <2>1. loop' = loop /\ pipe' = pipe /\ tool' = tool
    BY <1>12 DEF ClientLeaves, HandlerLeaves, HandlerAnswers, HandlerMarksDone, PlainAnswers,
                 Ended, vars
  <2>2. Way' = Way
    BY <2>1 DEF Way
  <2> QED
    BY <2>1, <2>2, TextSame
<1> QED
  BY <1>1, <1>2, <1>3, <1>4, <1>5, <1>6, <1>7, <1>8, <1>9, <1>10, <1>11, <1>12
  DEF Next, Environment, Program

-----------------------------------------------------------------------------
(* The messages of the calls and how often their servers executed them.    *)

\* The calls there can be, and the messages.
Names == UNION {{Judged[t].calls[i].name : i \in DOMAIN Judged[t].calls} : t \in Texts}
Message == [role : {"assistant"}, calls : Seq(Names)] \cup
           [role : {"tool"}, id : Nat, name : Names, ok : BOOLEAN]

\* A goroutine knows what its server did: n is how often it executed the call.
Honest(t, n) ==
    /\ t.pc \in {"check", "read", "write", "append", "exec"} => n <= t.tries /\ t.out # "ok"
    /\ t.pc \in {"check", "read", "write", "append"} => t.tries = 0
    /\ t.tries > 0 => t.call.name \in Retried
    /\ n > 1 => t.call.name \in Retried
    /\ t.out = "ok" => n > 0

\* The message n of h is followed by those of its calls, and they by the next round's.
CallsAnswered(h, n) ==
    LET calls == h[n].calls
        next == n + Len(calls) + 1
    IN  /\ \A j \in DOMAIN calls :
              /\ n + j \in DOMAIN h /\ h[n + j].role = "tool"
              /\ h[n + j].id = j /\ h[n + j].name = calls[j]
        /\ next \in DOMAIN h => h[next].role = "assistant"

HistInv ==
    /\ hist \in Seq(Message) /\ effects \in Seq(Nat)
    /\ \E m \in Nat : DOMAIN tool = 1..m
    /\ Len(effects) = Len(hist) + (IF loop.pc = "tools" THEN Len(tool) + 1 ELSE 0)
    /\ hist # <<>> => hist[1].role = "assistant"
    /\ \A n \in DOMAIN hist : hist[n].role = "assistant" => CallsAnswered(hist, n)
    /\ \A n \in DOMAIN hist : hist[n].role = "tool" =>
         /\ hist[n].ok => effects[n] > 0
         /\ effects[n] > 1 => hist[n].name \in Retried
    /\ \A i \in DOMAIN tool : Honest(tool[i], effects[Len(hist) + 1 + i])

LEMMA HistStarts == Init => HistInv
<1> SUFFICES ASSUME Init PROVE HistInv
  OBVIOUS
<1>1. hist = <<>> /\ effects = <<>> /\ tool = <<>> /\ loop.pc # "tools"
  BY DEF Init
<1>2. hist \in Seq(Message) /\ effects \in Seq(Nat) /\ Len(hist) = 0 /\ Len(effects) = 0
      /\ DOMAIN hist = {}
  BY <1>1
<1>3. DOMAIN tool = 1..0 /\ DOMAIN tool = {}
  BY <1>1
<1> QED
  BY <1>1, <1>2, <1>3 DEF HistInv

\* Where the effects of the calls of the round are counted.
LEMMA NrIs ==
    ASSUME LoopInvs, HistInv, loop.pc = "tools"
    PROVE  \E m \in Nat, l \in Nat :
             /\ l = Len(hist) /\ m = Len(tool) /\ DOMAIN tool = 1..m
             /\ DOMAIN hist = 1..l /\ DOMAIN effects = 1..(l + m + 1)
             /\ Len(effects) = l + m + 1
             /\ \A i \in DOMAIN tool : Nr(i) = l + 1 + i /\ Nr(i) \in DOMAIN effects
<1>1. PICK m \in Nat : DOMAIN tool = 1..m
  BY DEF HistInv
<1>2. tool = [i \in 1..m |-> tool[i]]
  BY <1>1 DEF LoopInvs, ShapeInv
<1>3. Len(tool) = m
  BY <1>2
<1>4. hist \in Seq(Message) /\ effects \in Seq(Nat) /\ Len(effects) = Len(hist) + (Len(tool) + 1)
  BY DEF HistInv
<1>l. PICK l \in Nat : l = Len(hist)
  BY <1>4
<1>5. DOMAIN hist = 1..l /\ DOMAIN effects = 1..(l + m + 1) /\ Len(effects) = l + m + 1
  BY <1>3, <1>4, <1>l
<1>6. \A i \in DOMAIN tool : Nr(i) = l + 1 + i /\ Nr(i) \in DOMAIN effects
  BY <1>1, <1>3, <1>5 DEF Nr
<1> QED
  BY <1>1, <1>3, <1>5, <1>6, <1>l

LEMMA AnsweredSame ==
    ASSUME HistInv, hist' = hist
    PROVE  (\A n \in DOMAIN hist : hist[n].role = "assistant" => CallsAnswered(hist, n))'
<1>1. \A n \in DOMAIN hist : hist[n].role = "assistant" => CallsAnswered(hist, n)
  BY DEF HistInv
<1>2. \A n \in DOMAIN hist' : hist'[n].role = "assistant" => CallsAnswered(hist', n)
  BY <1>1
<1> QED
  BY <1>2 DEF CallsAnswered

LEMMA HistSame ==
    ASSUME HistInv, hist' = hist, effects' = effects, tool' = tool,
           (loop.pc = "tools") = (loop'.pc = "tools")
    PROVE  HistInv'
<1>1. (\A n \in DOMAIN hist : hist[n].role = "assistant" => CallsAnswered(hist, n))'
  BY AnsweredSame
<1>2. (\A i \in DOMAIN tool : Honest(tool[i], effects[Len(hist) + 1 + i]))'
  BY DEF HistInv, Honest
<1>3. Len(effects') = Len(hist') + (IF loop'.pc = "tools" THEN Len(tool') + 1 ELSE 0)
  BY DEF HistInv
<1>4. hist' \in Seq(Message) /\ effects' \in Seq(Nat) /\ \E m \in Nat : DOMAIN tool' = 1..m
  BY DEF HistInv
<1>5. /\ hist' # <<>> => hist'[1].role = "assistant"
      /\ \A n \in DOMAIN hist' : hist'[n].role = "tool" =>
           /\ hist'[n].ok => effects'[n] > 0
           /\ effects'[n] > 1 => hist'[n].name \in Retried
  BY DEF HistInv
<1> QED
  BY <1>1, <1>2, <1>3, <1>4, <1>5 DEF HistInv

\* A goroutine makes a step, after which its server has executed the call n times.
LEMMA HistTool ==
    ASSUME LoopInvs, HistInv, NEW i \in DOMAIN tool, loop.pc = "tools", loop' = loop, hist' = hist,
           tool' = [tool EXCEPT ![i] = tool'[i]], NEW n \in Nat, Honest(tool'[i], n),
           effects' = [effects EXCEPT ![Nr(i)] = n]
    PROVE  HistInv'
<1>1. PICK m \in Nat, l \in Nat :
        /\ l = Len(hist) /\ m = Len(tool) /\ DOMAIN tool = 1..m
        /\ DOMAIN hist = 1..l /\ DOMAIN effects = 1..(l + m + 1) /\ Len(effects) = l + m + 1
        /\ \A j \in DOMAIN tool : Nr(j) = l + 1 + j /\ Nr(j) \in DOMAIN effects
  BY NrIs
<1>0. tool = [j \in DOMAIN tool |-> tool[j]] /\ effects \in Seq(Nat)
  BY DEF LoopInvs, ShapeInv, HistInv
<1>2. /\ DOMAIN tool' = 1..m /\ \A j \in DOMAIN tool : j # i => tool'[j] = tool[j]
      /\ tool' = [j \in 1..m |-> tool'[j]]
  <2>t. PICK t : t = tool'[i]
    OBVIOUS
  <2>1. tool' = [tool EXCEPT ![i] = t]
    BY <2>t
  <2> QED
    BY <1>0, <1>1, <2>1
<1>3. Len(tool') = m
  BY <1>2
<1>e. PICK e \in Seq(Nat) : e = effects
  BY <1>0
<1>i. i \in 1..m /\ l + 1 + i \in Nat /\ Nr(i) = l + 1 + i /\ Nr(i) \in DOMAIN e
  <2>1. i \in 1..m
    BY <1>1
  <2>2. Nr(i) = l + 1 + i /\ Nr(i) \in DOMAIN e
    BY <1>1, <1>e
  <2>3. l + 1 + i \in Nat
    BY <2>1
  <2> QED
    BY <2>1, <2>2, <2>3
<1>p. PICK p \in Nat : p = l + 1 + i /\ p = Nr(i) /\ p \in DOMAIN e
  BY <1>i
<1>4. effects' = [e EXCEPT ![p] = n]
  BY <1>e, <1>p
<1>5. /\ effects' \in Seq(Nat) /\ Len(effects') = Len(effects)
      /\ effects'[p] = n /\ \A q \in DOMAIN e : q # p => effects'[q] = e[q]
  BY <1>4, <1>p, <1>e
<1>6. \A q \in DOMAIN hist : effects'[q] = effects[q]
  BY <1>1, <1>5, <1>p, <1>e
<1>7. \A j \in DOMAIN tool' : Honest(tool'[j], effects'[Len(hist) + 1 + j])
  <2> TAKE j \in DOMAIN tool'
  <2>1. CASE j = i
    BY <1>1, <1>5, <1>p, <2>1
  <2>2. CASE j # i
    <3>0. tool'[j] = tool[j] /\ j \in DOMAIN tool /\ j \in 1..m
      BY <1>1, <1>2, <2>2
    <3>5. l + 1 + j # l + 1 + i
      BY <1>i, <2>2, <3>0
    <3>6. Nr(j) = l + 1 + j /\ Nr(j) \in DOMAIN e
      BY <1>1, <1>e, <3>0
    <3>1. l + 1 + j # p /\ l + 1 + j \in DOMAIN e
      BY <1>p, <3>5, <3>6
    <3>2. effects'[l + 1 + j] = effects[l + 1 + j]
      BY <1>5, <1>e, <3>1
    <3>3. Honest(tool[j], effects[l + 1 + j])
      BY <1>1, <3>0 DEF HistInv
    <3> QED
      BY <1>1, <3>0, <3>2, <3>3
  <2> QED
    BY <2>1, <2>2
<1>8. Len(effects') = Len(hist) + (Len(tool') + 1)
  BY <1>1, <1>3, <1>5
<1>9. \A q \in DOMAIN hist : hist[q].role = "tool" =>
         /\ hist[q].ok => effects'[q] > 0
         /\ effects'[q] > 1 => hist[q].name \in Retried
  BY <1>6 DEF HistInv
<1>10. \A q \in DOMAIN hist : hist[q].role = "assistant" => CallsAnswered(hist, q)
  BY DEF HistInv
<1>11. hist \in Seq(Message) /\ (hist # <<>> => hist[1].role = "assistant")
  BY DEF HistInv
<1>12. (\A q \in DOMAIN hist : hist[q].role = "assistant" => CallsAnswered(hist, q))'
  BY <1>10 DEF CallsAnswered
<1>13. (\A j \in DOMAIN tool : Honest(tool[j], effects[Len(hist) + 1 + j]))'
  BY <1>7
<1> QED
  BY <1>2, <1>5, <1>8, <1>9, <1>11, <1>12, <1>13 DEF HistInv

\* Each step of a goroutine keeps it honest.
LEMMA HistSteps ==
    ASSUME LoopInvs, HistInv, NEW i \in DOMAIN tool,
           \/ ToolChecks(i) \/ EmitReads(i) \/ EmitWrites(i) \/ EmitAppends(i)
           \/ Execute(i) \/ ToolEnds(i)
    PROVE  HistInv'
<1>0. /\ tool = [j \in DOMAIN tool |-> tool[j]] /\ ToolRec(tool[i]) /\ effects \in Seq(Nat)
      /\ loop.pc = "tools"
  BY DEF LoopInvs, ShapeInv, LoopInv, HistInv
<1>1. /\ tool' = [tool EXCEPT ![i] = tool'[i]] /\ loop' = loop /\ hist' = hist
  BY CallKept
<1>2. PICK m \in Nat, l \in Nat :
        /\ l = Len(hist) /\ m = Len(tool) /\ DOMAIN tool = 1..m
        /\ DOMAIN hist = 1..l /\ DOMAIN effects = 1..(l + m + 1) /\ Len(effects) = l + m + 1
        /\ \A j \in DOMAIN tool : Nr(j) = l + 1 + j /\ Nr(j) \in DOMAIN effects
  BY <1>0, NrIs
<1>p. PICK p : p = Nr(i)
  OBVIOUS
<1>3. p \in DOMAIN effects /\ p = Len(hist) + 1 + i
  BY <1>2, <1>p
<1>n. PICK n \in Nat : n = effects[p]
  BY <1>0, <1>3
<1>4. Honest(tool[i], n)
  BY <1>3, <1>n DEF HistInv
<1>t. PICK t : t = tool[i]
  OBVIOUS
<1>5. Honest(t, n) /\ ToolRec(t) /\ t.tries \in Nat
  BY <1>0, <1>4, <1>t DEF ToolRec
<1>6. ASSUME effects' = effects, Honest(tool'[i], n) PROVE HistInv'
  <2>1. effects' = [effects EXCEPT ![p] = n]
    BY <1>0, <1>3, <1>6, <1>n
  <2> QED
    BY <1>0, <1>1, <1>6, <1>p, <2>1, HistTool
<1>7. ASSUME NEW u, tool' = [tool EXCEPT ![i] = u] PROVE tool'[i] = u
  BY <1>0, <1>7
<1>8. CASE ToolChecks(i)
  <2>1. tool' = [tool EXCEPT ![i] =
                   IF left \/ abort THEN [t EXCEPT !.pc = "end", !.out = "cancelled"]
                   ELSE [t EXCEPT !.pc = IF stream THEN "read" ELSE "exec"]]
        /\ t.pc = "check" /\ effects' = effects
    BY <1>0, <1>8, <1>t DEF ToolChecks
  <2>2. tool'[i] = IF left \/ abort THEN [t EXCEPT !.pc = "end", !.out = "cancelled"]
                   ELSE [t EXCEPT !.pc = IF stream THEN "read" ELSE "exec"]
    BY <1>0, <2>1
  <2>3. Honest(tool'[i], n)
    BY <1>5, <2>1, <2>2 DEF Honest, ToolRec
  <2> QED
    BY <1>6, <2>1, <2>3
<1>9. CASE EmitReads(i)
  <2>u. PICK u : u = [t EXCEPT !.tmp = sse.next, !.pc = IF @ = "read" THEN "write" ELSE "write2"]
    OBVIOUS
  <2>1. tool' = [tool EXCEPT ![i] = u] /\ t.pc \in {"read", "read2"} /\ effects' = effects
    BY <1>0, <1>9, <1>t, <2>u DEF EmitReads
  <2>2. Honest(u, n)
    BY <1>5, <2>1, <2>u DEF Honest, ToolRec
  <2> QED
    BY <1>6, <1>7, <2>1, <2>2
<1>10. CASE EmitWrites(i)
  <2>u. PICK u : u = [t EXCEPT !.pc = IF @ = "write" THEN "append" ELSE "append2"]
    OBVIOUS
  <2>1. tool' = [tool EXCEPT ![i] = u] /\ t.pc \in {"write", "write2"} /\ effects' = effects
    BY <1>0, <1>10, <1>t, <2>u DEF EmitWrites
  <2>2. Honest(u, n)
    BY <1>5, <2>1, <2>u DEF Honest, ToolRec
  <2> QED
    BY <1>6, <1>7, <2>1, <2>2
<1>11. CASE EmitAppends(i)
  <2>u. PICK u : u = [t EXCEPT !.tmp = 0, !.pc = IF @ = "append" THEN "exec" ELSE "fin"]
    OBVIOUS
  <2>1. tool' = [tool EXCEPT ![i] = u] /\ t.pc \in {"append", "append2"} /\ effects' = effects
    BY <1>0, <1>11, <1>t, <2>u DEF EmitAppends
  <2>2. Honest(u, n)
    BY <1>5, <2>1, <2>u DEF Honest, ToolRec
  <2> QED
    BY <1>6, <1>7, <2>1, <2>2
<1>12. CASE ToolEnds(i)
  <2>u. PICK u : u = [t EXCEPT !.pc = "end"]
    OBVIOUS
  <2>1. tool' = [tool EXCEPT ![i] = u] /\ effects' = effects
    BY <1>0, <1>12, <1>t, <2>u DEF ToolEnds
  <2>2. Honest(u, n)
    BY <1>5, <2>1, <2>u DEF Honest, ToolRec
  <2> QED
    BY <1>6, <1>7, <2>1, <2>2
<1>13. CASE Execute(i)
  <2>1. CASE tool' = [tool EXCEPT ![i].pc = IF stream THEN "read2" ELSE "fin",
                                  ![i].out = "error"] /\ effects' = effects
    <3>u. PICK u : u = [t EXCEPT !.pc = IF stream THEN "read2" ELSE "fin", !.out = "error"]
      OBVIOUS
    <3>1. tool' = [tool EXCEPT ![i] = u]
      BY <1>0, <1>t, <2>1, <3>u
    <3>2. Honest(u, n)
      BY <1>5, <3>u DEF Honest, ToolRec
    <3> QED
      BY <1>6, <1>7, <2>1, <3>1, <3>2
  <2>2. ASSUME NEW x \in Attempts, tool' = [tool EXCEPT ![i] = CallTool(@, x)],
               effects' = [effects EXCEPT ![Nr(i)] = @ + x.ran]
        PROVE  HistInv'
    <3>0. t.pc = "exec" /\ n <= t.tries
      BY <1>5, <1>13, <1>t DEF Execute, Honest
    <3>r. PICK y \in {0, 1} : y = x.ran /\ (x.out = "ok" => y = 1)
      BY DEF Attempts, Answered, LostBefore, LostAfter
    <3>n. PICK k \in Nat : k = n + y
      OBVIOUS
    <3>1. effects' = [effects EXCEPT ![Nr(i)] = k]
      BY <1>0, <1>3, <1>n, <1>p, <2>2, <3>r, <3>n
    <3>u. PICK u : u = CallTool(t, x)
      OBVIOUS
    <3>2. tool' = [tool EXCEPT ![i] = u]
      BY <1>0, <1>t, <2>2, <3>u
    <3>3. Honest(u, k)
      <4>1. CASE x.out = "lost" /\ AllowsRetry(t.call) /\ t.tries = 0
        <5>1. u = [t EXCEPT !.tries = 1]
          BY <3>u, <4>1 DEF CallTool
        <5>2. n = 0 /\ k <= 1 /\ t.call.name \in Retried /\ t.out # "ok"
          BY <1>5, <3>0, <3>n, <4>1 DEF AllowsRetry, Honest
        <5>3. u.pc = "exec" /\ u.tries = 1 /\ u.out = t.out /\ u.call = t.call
          BY <1>5, <3>0, <5>1 DEF ToolRec
        <5> QED
          BY <3>n, <5>2, <5>3 DEF Honest
      <4>2. CASE ~(x.out = "lost" /\ AllowsRetry(t.call) /\ t.tries = 0)
        <5>1. u = [t EXCEPT !.pc = IF stream THEN "read2" ELSE "fin",
                            !.out = IF x.out = "ok" THEN "ok" ELSE "error"]
          BY <3>u, <4>2 DEF CallTool
        <5>2. /\ u.pc \in {"read2", "fin"} /\ u.tries = t.tries /\ u.call = t.call
              /\ u.out = "ok" => x.out = "ok"
          BY <1>5, <5>1 DEF ToolRec
        <5>3. k > 1 => t.tries > 0
          BY <1>5, <3>0, <3>n
        <5>4. u.out = "ok" => k > 0
          BY <3>r, <3>n, <5>2
        <5>5. t.tries > 0 => t.call.name \in Retried
          BY <1>5 DEF Honest
        <5> QED
          BY <5>2, <5>3, <5>4, <5>5 DEF Honest
      <4> QED
        BY <4>1, <4>2
    <3>4. Honest(tool'[i], k)
      BY <1>7, <3>2, <3>3
    <3> QED
      BY <1>0, <1>1, <3>1, <3>4, HistTool
  <2> QED
    BY <1>13, <2>1, <2>2 DEF Execute
<1> QED
  BY <1>8, <1>9, <1>10, <1>11, <1>12, <1>13

\* The calls of a text have places of their own, not executed yet.
LEMMA HistCalls ==
    ASSUME LoopInvs, TextInv, HistInv, DrainEnds
    PROVE  HistInv'
<1>0. /\ LoopRec(loop) /\ loop.pc = "drain" /\ hist' = hist
      /\ hist \in Seq(Message) /\ effects \in Seq(Nat) /\ Len(effects) = Len(hist)
  BY DEF LoopInvs, ShapeInv, DrainEnds, HistInv
<1>1. loop.text \in Texts
  BY TextDrained
<1>j. PICK j : j = Judged[loop.text]
  OBVIOUS
<1>c. PICK c : c = j.calls
  OBVIOUS
<1>m. PICK m \in Nat : m = Len(c) /\ DOMAIN c = 1..m /\ (c = <<>> => m = 0)
  <2>1. c \in Seq(Range(c))
    BY <1>1, <1>j, <1>c, CallsAssumption
  <2> QED
    BY <2>1
<1>l. PICK l \in Nat : l = Len(hist) /\ DOMAIN hist = 1..l /\ DOMAIN effects = 1..l
  BY <1>0
<1>2. tool' = [i \in 1..m |-> Idle(c[i])]
  BY <1>j, <1>c, <1>m DEF DrainEnds
<1>3. DOMAIN tool' = 1..m /\ Len(tool') = m /\ \A i \in 1..m : tool'[i] = Idle(c[i])
  BY <1>2
<1>4. CASE c = <<>>
  <2>0. m = 0
    BY <1>m, <1>4
  <2>1. loop'.pc = "returned" /\ effects' = effects
    <3>r. PICK n, x : n = Returned(loop, x) /\ x = j.result
      OBVIOUS
    <3>1. LoopRec(n) /\ n.pc = "returned"
      BY <1>0, <3>r, LoopReturned
    <3>y. PICK y : y = j.content
      OBVIOUS
    <3>2. loop' = [n EXCEPT !.content = y] /\ effects' = effects
      BY <1>4, <1>j, <1>c, <3>r, <3>y DEF DrainEnds
    <3> QED
      BY <3>1, <3>2 DEF LoopRec
  <2>2. DOMAIN tool' = {}
    BY <1>3, <2>0
  <2>3. (\A n \in DOMAIN hist : hist[n].role = "assistant" => CallsAnswered(hist, n))'
    BY <1>0, AnsweredSame
  <2>4. (\A i \in DOMAIN tool : Honest(tool[i], effects[Len(hist) + 1 + i]))'
    BY <2>2
  <2>5. /\ hist' # <<>> => hist'[1].role = "assistant"
        /\ \A n \in DOMAIN hist' : hist'[n].role = "tool" =>
             /\ hist'[n].ok => effects'[n] > 0
             /\ effects'[n] > 1 => hist'[n].name \in Retried
    BY <1>0, <2>1 DEF HistInv
  <2>6. Len(effects') = Len(hist') + (IF loop'.pc = "tools" THEN Len(tool') + 1 ELSE 0)
    BY <1>0, <1>l, <2>1
  <2> QED
    BY <1>0, <1>3, <2>1, <2>3, <2>4, <2>5, <2>6 DEF HistInv
<1>5. CASE c # <<>>
  <2>1. loop'.pc = "tools"
    <3>1. loop' = [loop EXCEPT !.pc = "tools"]
      BY <1>5, <1>j, <1>c DEF DrainEnds
    <3> QED
      BY <1>0, <3>1 DEF LoopRec
  <2>n. PICK n \in Nat : n = m + 1
    OBVIOUS
  <2>z. PICK z : z = [i \in 1..n |-> 0]
    OBVIOUS
  <2>2. z \in Seq(Nat) /\ Len(z) = n /\ \A i \in 1..n : z[i] = 0
    BY <2>z
  <2>3. effects' = effects \o z
    BY <1>5, <1>j, <1>c, <1>m, <2>n, <2>z DEF DrainEnds
  <2>4. /\ effects' \in Seq(Nat) /\ Len(effects') = l + n
        /\ \A i \in 1..(l + n) : effects'[i] = IF i <= l THEN effects[i] ELSE z[i - l]
    <3>e. PICK e \in Seq(Nat) : e = effects /\ Len(e) = l
      BY <1>0, <1>l
    <3>y. PICK y \in Seq(Nat) : y = z /\ Len(y) = n
      BY <2>2
    <3>1. /\ e \o y \in Seq(Nat) /\ Len(e \o y) = l + n
          /\ \A i \in 1..(l + n) : (e \o y)[i] = IF i <= l THEN e[i] ELSE y[i - l]
      <4>1. e \o y \in Seq(Nat) /\ Len(e \o y) = l + n
        BY <3>e, <3>y
      <4>2. ASSUME NEW i \in 1..(l + n)
            PROVE  (e \o y)[i] = IF i <= l THEN e[i] ELSE y[i - l]
        <5>1. CASE i <= l
          <6>1. i \in 1..Len(e)
            BY <3>e, <5>1
          <6>2. (e \o y)[i] = e[i]
            BY <6>1
          <6> QED
            BY <5>1, <6>2
        <5>2. CASE ~(i <= l)
          <6>1. i - l \in 1..Len(y) /\ i = Len(e) + (i - l)
            BY <3>e, <3>y, <5>2
          <6>2. (e \o y)[i] = y[i - l]
            BY <3>e, <6>1
          <6> QED
            BY <5>2, <6>2
        <5> QED
          BY <5>1, <5>2
      <4> QED
        BY <4>1, <4>2
    <3> QED
      BY <2>3, <3>1, <3>e, <3>y
  <2>5. \A i \in 1..l : effects'[i] = effects[i]
    BY <2>4
  <2>6. \A i \in 1..m : effects'[l + 1 + i] = 0
    <3> TAKE i \in 1..m
    <3>1. l + 1 + i \in 1..(l + n) /\ ~(l + 1 + i <= l) /\ (l + 1 + i) - l \in 1..n
      BY <2>n
    <3> QED
      BY <2>2, <2>4, <3>1
  <2>7. (\A q \in DOMAIN hist : hist[q].role = "assistant" => CallsAnswered(hist, q))'
    BY <1>0, AnsweredSame
  <2>8. (\A i \in DOMAIN tool : Honest(tool[i], effects[Len(hist) + 1 + i]))'
    <3> SUFFICES ASSUME NEW i \in DOMAIN tool' PROVE Honest(tool'[i], effects'[Len(hist') + 1 + i])
      OBVIOUS
    <3>1. tool'[i] = Idle(c[i]) /\ effects'[Len(hist') + 1 + i] = 0
      BY <1>0, <1>3, <1>l, <2>6
    <3>2. Honest(Idle(c[i]), 0)
      BY DEF Honest, Idle
    <3> QED
      BY <3>1, <3>2
  <2>9. /\ hist' # <<>> => hist'[1].role = "assistant"
        /\ \A q \in DOMAIN hist' : hist'[q].role = "tool" =>
             /\ hist'[q].ok => effects'[q] > 0
             /\ effects'[q] > 1 => hist'[q].name \in Retried
    BY <1>0, <1>l, <2>5 DEF HistInv
  <2>10. Len(effects') = Len(hist') + (IF loop'.pc = "tools" THEN Len(tool') + 1 ELSE 0)
    BY <1>0, <1>3, <1>l, <2>1, <2>4, <2>n
  <2> QED
    BY <1>0, <1>3, <2>1, <2>4, <2>7, <2>8, <2>9, <2>10 DEF HistInv
<1> QED
  BY <1>4, <1>5

\* Two lists, one after the other.
LEMMA OneAfterTheOther ==
    ASSUME NEW S, NEW a \in Seq(S), NEW b \in Seq(S)
    PROVE  /\ a \o b \in Seq(S) /\ Len(a \o b) = Len(a) + Len(b)
           /\ \A i \in 1..Len(a) : (a \o b)[i] = a[i]
           /\ \A i \in 1..Len(b) : (a \o b)[Len(a) + i] = b[i]
<1>1. a \o b \in Seq(S) /\ Len(a \o b) = Len(a) + Len(b)
  OBVIOUS
<1>2. ASSUME NEW i \in 1..Len(a) PROVE (a \o b)[i] = a[i]
  OBVIOUS
<1>3. ASSUME NEW i \in 1..Len(b) PROVE (a \o b)[Len(a) + i] = b[i]
  OBVIOUS
<1> QED
  BY <1>1, <1>2, <1>3

\* The messages of a round: the calls, then one for each of them, in their order.
CallsNamed(outs, m) == DOMAIN outs = 1..m /\ \A i \in 1..m : outs[i].call.name \in Names

RoundOf(u, names, outs, m) ==
    /\ u \in Seq(Message) /\ Len(u) = m + 1 /\ u[1] = CallsMessage(names)
    /\ \A i \in 1..m : u[1 + i] = ResultMessage(i, outs[i])

LEMMA TurnIs ==
    ASSUME NEW m \in Nat, NEW outs, CallsNamed(outs, m), NEW names \in Seq(Names)
    PROVE  RoundOf(Turn(names, outs), names, outs, m)
<1>0. DOMAIN outs = 1..m /\ \A i \in 1..m : outs[i].call.name \in Names
  BY DEF CallsNamed
<1>v. PICK u : u = Turn(names, outs)
  OBVIOUS
<1>a. PICK a : a = <<CallsMessage(names)>>
  OBVIOUS
<1>2. CallsMessage(names) \in Message
  BY DEF CallsMessage, Message
<1>3. a \in Seq(Message) /\ Len(a) = 1 /\ a[1] = CallsMessage(names)
  BY <1>a, <1>2
<1>b. PICK b : b = [i \in DOMAIN outs |-> ResultMessage(i, outs[i])]
  OBVIOUS
<1>4. \A i \in 1..m : ResultMessage(i, outs[i]) \in Message
  <2> TAKE i \in 1..m
  <2>1. outs[i].call.name \in Names /\ (outs[i].out = "ok") \in BOOLEAN /\ i \in Nat
    BY <1>0
  <2> QED
    BY <2>1 DEF ResultMessage, Message
<1>5. b \in Seq(Message) /\ Len(b) = m /\ \A i \in 1..m : b[i] = ResultMessage(i, outs[i])
  BY <1>0, <1>b, <1>4
<1>u. u = a \o b
  BY <1>v, <1>a, <1>b DEF Turn
<1>6. /\ a \o b \in Seq(Message) /\ Len(a \o b) = Len(a) + Len(b)
      /\ \A i \in 1..Len(a) : (a \o b)[i] = a[i]
      /\ \A i \in 1..Len(b) : (a \o b)[Len(a) + i] = b[i]
  <2>1. a \in Seq(Message) /\ b \in Seq(Message)
    BY <1>3, <1>5
  <2> QED
    BY <2>1, OneAfterTheOther
<1>7. u \in Seq(Message) /\ Len(u) = m + 1 /\ u[1] = a[1] /\ \A i \in 1..m : u[1 + i] = b[i]
  <2>1. u \in Seq(Message) /\ Len(u) = 1 + m
    BY <1>3, <1>5, <1>6, <1>u
  <2>2. u[1] = a[1]
    <3>1. 1 \in 1..Len(a)
      BY <1>3
    <3>2. (a \o b)[1] = a[1]
      BY <1>6, <3>1
    <3> QED
      BY <1>u, <3>2
  <2>3. \A i \in 1..m : u[1 + i] = b[i]
    BY <1>3, <1>5, <1>6, <1>u
  <2> QED
    BY <2>1, <2>2, <2>3
<1> QED
  BY <1>v, <1>3, <1>5, <1>7 DEF RoundOf

LEMMA NamesAre ==
    ASSUME TextInv, loop.pc = "tools", NEW i \in DOMAIN tool
    PROVE  tool[i].call.name \in Names
<1>1. /\ loop.text \in Texts /\ i \in DOMAIN Judged[loop.text].calls
      /\ tool[i].call = Judged[loop.text].calls[i]
  BY DEF TextInv
<1> QED
  BY <1>1 DEF Names

\* The messages that were there still have their answers, and the first new one follows them.
LEMMA AnsweredBefore ==
    ASSUME NEW h, NEW g, NEW l \in Nat, DOMAIN h = 1..l, NEW L \in Nat, DOMAIN g = 1..L, l < L,
           \A q \in 1..l : g[q] = h[q], g[l + 1].role = "assistant",
           NEW n \in 1..l, Len(h[n].calls) \in Nat, DOMAIN h[n].calls = 1..Len(h[n].calls),
           CallsAnswered(h, n)
    PROVE  CallsAnswered(g, n)
<1>a. PICK c : c = h[n].calls
  OBVIOUS
<1>m. PICK m \in Nat : m = Len(c)
  BY <1>a
<1>c. c = h[n].calls /\ m = Len(c) /\ DOMAIN c = 1..m
  BY <1>a, <1>m
<1>1. /\ \A j \in 1..m : n + j \in 1..l /\ h[n + j].role = "tool"
                         /\ h[n + j].id = j /\ h[n + j].name = c[j]
      /\ n + m + 1 \in 1..l => h[n + m + 1].role = "assistant"
  BY <1>c DEF CallsAnswered
<1>2. g[n].calls = c
  BY <1>c
<1>3. \A j \in 1..m : n + j \in 1..L /\ g[n + j].role = "tool"
                      /\ g[n + j].id = j /\ g[n + j].name = c[j]
  <2> TAKE j \in 1..m
  <2>0. n + j \in 1..l
    BY <1>1
  <2>1. n + j \in 1..l /\ n + j \in 1..L
    BY <2>0
  <2> QED
    BY <1>1, <2>1
<1>4. n + m <= l
  <2>1. CASE m = 0
    BY <2>1
  <2>2. CASE m # 0
    <3>1. m \in 1..m
      BY <2>2
    <3> QED
      BY <1>1, <3>1
  <2> QED
    BY <2>1, <2>2
<1>5. n + m + 1 \in 1..L => g[n + m + 1].role = "assistant"
  <2>1. CASE n + m = l
    BY <2>1
  <2>2. CASE n + m # l
    <3>1. n + m + 1 \in 1..l
      BY <1>4, <2>2
    <3> QED
      BY <1>1, <3>1
  <2> QED
    BY <2>1, <2>2
<1>6. \A j \in DOMAIN g[n].calls :
        n + j \in DOMAIN g /\ g[n + j].role = "tool" /\ g[n + j].id = j /\ g[n + j].name = g[n].calls[j]
  BY <1>c, <1>2, <1>3
<1>7. n + Len(g[n].calls) + 1 \in DOMAIN g => g[n + Len(g[n].calls) + 1].role = "assistant"
  BY <1>c, <1>2, <1>5
<1> QED
  BY <1>6, <1>7 DEF CallsAnswered

LEMMA HistRound ==
    ASSUME LoopInvs, TextInv, HistInv, RoundEnds
    PROVE  HistInv'
<1>0. /\ loop.pc = "tools" /\ tool' = <<>> /\ effects' = effects
      /\ hist' = hist \o Turn([i \in DOMAIN tool |-> tool[i].call.name], tool)
      /\ hist \in Seq(Message) /\ effects \in Seq(Nat) /\ LoopRec(loop)
  BY DEF LoopInvs, ShapeInv, HistInv, RoundEnds
<1>1. PICK m \in Nat, l \in Nat :
        /\ l = Len(hist) /\ m = Len(tool) /\ DOMAIN tool = 1..m
        /\ DOMAIN hist = 1..l /\ DOMAIN effects = 1..(l + m + 1) /\ Len(effects) = l + m + 1
        /\ \A j \in DOMAIN tool : Nr(j) = l + 1 + j /\ Nr(j) \in DOMAIN effects
  BY <1>0, NrIs
<1>2. tool = [i \in 1..m |-> tool[i]] /\ \A i \in 1..m : tool[i].call.name \in Names
  BY <1>0, <1>1, NamesAre DEF LoopInvs, ShapeInv
<1>o. PICK outs : outs = tool
  OBVIOUS
<1>n. PICK names : names = [i \in DOMAIN outs |-> outs[i].call.name]
  OBVIOUS
<1>x. PICK u : u = Turn(names, outs)
  OBVIOUS
<1>u. /\ u = Turn([i \in DOMAIN tool |-> tool[i].call.name], tool)
      /\ names \in Seq(Names) /\ u \in Seq(Message)
      /\ Len(u) = m + 1 /\ Len(names) = m /\ \A i \in 1..m : names[i] = tool[i].call.name
      /\ u[1] = CallsMessage(names)
      /\ \A i \in 1..m : u[1 + i] = ResultMessage(i, tool[i])
  <2>1. DOMAIN outs = 1..m /\ \A i \in 1..m : outs[i].call.name \in Names
    BY <1>1, <1>2, <1>o
  <2>2. /\ names \in Seq(Names) /\ Len(names) = m
        /\ \A i \in 1..m : names[i] = outs[i].call.name
    BY <1>n, <2>1
  <2>3. /\ u \in Seq(Message) /\ Len(u) = m + 1 /\ u[1] = CallsMessage(names)
        /\ \A i \in 1..m : u[1 + i] = ResultMessage(i, outs[i])
    <3>1. names \in Seq(Names)
      BY <2>2
    <3>2. CallsNamed(outs, m)
      BY <2>1 DEF CallsNamed
    <3>3. RoundOf(u, names, outs, m)
      BY <1>x, <3>1, <3>2, TurnIs
    <3> QED
      BY <3>3 DEF RoundOf
  <2>4. u = Turn([i \in DOMAIN tool |-> tool[i].call.name], tool)
    BY <1>o, <1>n, <1>x
  <2> QED
    BY <1>o, <2>2, <2>3, <2>4
<1>L. PICK L \in Nat : L = l + m + 1
  OBVIOUS
<1>3. /\ hist' \in Seq(Message) /\ Len(hist') = L /\ DOMAIN hist' = 1..L
      /\ \A q \in 1..l : hist'[q] = hist[q]
      /\ \A q \in 1..(m + 1) : hist'[l + q] = u[q]
  <2>1. /\ hist \o u \in Seq(Message) /\ Len(hist \o u) = Len(hist) + Len(u)
        /\ \A i \in 1..Len(hist) : (hist \o u)[i] = hist[i]
        /\ \A i \in 1..Len(u) : (hist \o u)[Len(hist) + i] = u[i]
    <3>1. hist \in Seq(Message) /\ u \in Seq(Message)
      BY <1>0, <1>u
    <3> QED
      BY <3>1, OneAfterTheOther
  <2>2. /\ hist' \in Seq(Message) /\ Len(hist') = L
        /\ \A q \in 1..l : hist'[q] = hist[q]
        /\ \A q \in 1..(m + 1) : hist'[l + q] = u[q]
    <3>1. hist' = hist \o u /\ Len(hist) = l /\ Len(u) = m + 1
      BY <1>0, <1>1, <1>u
    <3>2. hist' \in Seq(Message) /\ \A q \in 1..l : hist'[q] = hist[q]
      BY <2>1, <3>1
    <3>3. Len(hist') = L
      BY <1>L, <2>1, <3>1
    <3>4. \A q \in 1..(m + 1) : hist'[l + q] = u[q]
      BY <2>1, <3>1
    <3> QED
      BY <3>2, <3>3, <3>4
  <2>3. DOMAIN hist' = 1..L
    BY <2>2
  <2> QED
    BY <2>2, <2>3
<1>4. /\ hist'[l + 1] = CallsMessage(names)
      /\ \A j \in 1..m : hist'[l + 1 + j] = ResultMessage(j, tool[j])
  <2>1. hist'[l + 1] = CallsMessage(names)
    <3>1. 1 \in 1..(m + 1)
      OBVIOUS
    <3> QED
      BY <1>3, <1>u, <3>1
  <2>2. ASSUME NEW j \in 1..m PROVE hist'[l + 1 + j] = ResultMessage(j, tool[j])
    <3>1. 1 + j \in 1..(m + 1) /\ l + (1 + j) = l + 1 + j
      OBVIOUS
    <3> QED
      BY <1>3, <1>u, <3>1
  <2> QED
    BY <2>1, <2>2
<1>5. /\ hist'[l + 1].role = "assistant" /\ hist'[l + 1].calls = names
      /\ \A j \in 1..m : /\ hist'[l + 1 + j].role = "tool" /\ hist'[l + 1 + j].id = j
                         /\ hist'[l + 1 + j].name = tool[j].call.name
                         /\ hist'[l + 1 + j].ok => tool[j].out = "ok"
  <2>1. CallsMessage(names).role = "assistant" /\ CallsMessage(names).calls = names
    BY DEF CallsMessage
  <2>2. ASSUME NEW j \in 1..m
        PROVE  /\ ResultMessage(j, tool[j]).role = "tool" /\ ResultMessage(j, tool[j]).id = j
               /\ ResultMessage(j, tool[j]).name = tool[j].call.name
               /\ ResultMessage(j, tool[j]).ok => tool[j].out = "ok"
    BY DEF ResultMessage
  <2> QED
    BY <1>4, <2>1, <2>2
<1>6. loop'.pc # "tools"
  <2>1. PICK n : loop' = [loop EXCEPT !.pc = "round", !.round = n]
    BY DEF RoundEnds
  <2> QED
    BY <1>0, <2>1 DEF LoopRec
<1>7. hist' # <<>> => hist'[1].role = "assistant"
  <2>1. CASE l = 0
    BY <1>5, <2>1
  <2>2. CASE l # 0
    <3>1. hist # <<>> /\ 1 \in 1..l
      BY <1>1, <2>2
    <3>2. hist[1].role = "assistant"
      BY <3>1 DEF HistInv
    <3> QED
      BY <1>3, <3>1, <3>2
  <2> QED
    BY <2>1, <2>2
<1>8. ASSUME NEW n \in 1..L
      PROVE  \/ n \in 1..l /\ hist'[n] = hist[n]
             \/ n = l + 1
             \/ \E j \in 1..m : n = l + 1 + j
  <2>1. CASE n <= l
    BY <1>3, <2>1
  <2>2. CASE n > l + 1
    <3>1. n - l - 1 \in 1..m /\ n = l + 1 + (n - l - 1)
      BY <1>L, <2>2
    <3> QED
      BY <3>1
  <2> QED
    BY <2>1, <2>2
<1>9. ASSUME NEW n \in 1..L, hist'[n].role = "assistant" PROVE CallsAnswered(hist', n)
  <2>1. CASE n \in 1..l /\ hist'[n] = hist[n]
    <3>1. CallsAnswered(hist, n)
      BY <1>1, <1>9, <2>1 DEF HistInv
    <3>2. hist[n] \in Message /\ hist[n].role = "assistant"
      BY <1>0, <1>1, <1>9, <2>1
    <3>3. hist[n].calls \in Seq(Names)
      BY <3>2 DEF Message
    <3>4. Len(hist[n].calls) \in Nat /\ DOMAIN hist[n].calls = 1..Len(hist[n].calls)
      BY <3>3
    <3>5. l < L
      BY <1>L
    <3>6. /\ DOMAIN hist = 1..l /\ DOMAIN hist' = 1..L /\ \A q \in 1..l : hist'[q] = hist[q]
          /\ hist'[l + 1].role = "assistant" /\ n \in 1..l
      BY <1>1, <1>3, <1>5, <2>1
    <3>g. PICK h, g : h = hist /\ g = hist'
      OBVIOUS
    <3>7. CallsAnswered(g, n)
      BY <3>1, <3>4, <3>5, <3>6, <3>g, AnsweredBefore
    <3> QED
      BY <3>g, <3>7
  <2>2. CASE n = l + 1
    <3>1. hist'[n].calls = names /\ DOMAIN names = 1..m /\ Len(names) = m
      BY <1>5, <1>u, <2>2
    <3>2. ASSUME NEW j \in 1..m
          PROVE  /\ n + j \in DOMAIN hist' /\ hist'[n + j].role = "tool"
                 /\ hist'[n + j].id = j /\ hist'[n + j].name = names[j]
      <4>1. n + j \in 1..L
        BY <1>L, <2>2
      <4>2. n + j = l + 1 + j
        BY <2>2
      <4>3. hist'[n + j].role = "tool" /\ hist'[n + j].id = j /\ hist'[n + j].name = tool[j].call.name
        BY <1>5, <4>2
      <4> QED
        BY <1>3, <1>u, <4>1, <4>3
    <3>3. n + m + 1 \notin 1..L
      BY <1>L, <2>2
    <3> QED
      BY <1>3, <3>1, <3>2, <3>3 DEF CallsAnswered
  <2>3. ~ \E j \in 1..m : n = l + 1 + j
    BY <1>5, <1>9
  <2> QED
    BY <1>8, <2>1, <2>2, <2>3
<1>10. ASSUME NEW n \in 1..L, hist'[n].role = "tool"
       PROVE  /\ hist'[n].ok => effects[n] > 0
              /\ effects[n] > 1 => hist'[n].name \in Retried
  <2>1. CASE n \in 1..l /\ hist'[n] = hist[n]
    BY <1>1, <1>10, <2>1 DEF HistInv
  <2>2. n # l + 1
    BY <1>5, <1>10
  <2>3. ASSUME NEW j \in 1..m, n = l + 1 + j
        PROVE  /\ hist'[n].ok => effects[n] > 0
               /\ effects[n] > 1 => hist'[n].name \in Retried
    <3>1. Honest(tool[j], effects[n])
      BY <1>1, <2>3 DEF HistInv
    <3>2. hist'[n].name = tool[j].call.name /\ (hist'[n].ok => tool[j].out = "ok")
      BY <1>5, <2>3
    <3> QED
      BY <3>1, <3>2 DEF Honest
  <2> QED
    BY <1>8, <2>1, <2>2, <2>3
<1>11. Len(effects') = Len(hist')
  BY <1>0, <1>1, <1>3, <1>L
<1>12. DOMAIN tool' = 1..0 /\ DOMAIN tool' = {}
  BY <1>0
<1>13. (\A n \in DOMAIN hist : hist[n].role = "assistant" => CallsAnswered(hist, n))'
  BY <1>3, <1>9
<1>14. (\A n \in DOMAIN hist : hist[n].role = "tool" =>
          /\ hist[n].ok => effects[n] > 0
          /\ effects[n] > 1 => hist[n].name \in Retried)'
  BY <1>0, <1>3, <1>10
<1>15. (\A i \in DOMAIN tool : Honest(tool[i], effects[Len(hist) + 1 + i]))'
  BY <1>12
<1>16. Len(effects') = Len(hist') + (IF loop'.pc = "tools" THEN Len(tool') + 1 ELSE 0)
  BY <1>3, <1>6, <1>11
<1> QED
  BY <1>0, <1>3, <1>7, <1>12, <1>13, <1>14, <1>15, <1>16 DEF HistInv

LEMMA HistKeeps ==
    ASSUME LoopInvs, TextInv, HistInv, [Next]_vars
    PROVE  HistInv'
<1>0. LoopRec(loop)
  BY DEF LoopInvs, ShapeInv
<1>1. CASE Prepare \/ RoundBegins \/ SendRefused
  <2>1. loop.pc # "tools" /\ hist' = hist /\ effects' = effects /\ tool' = tool
    BY <1>1 DEF Prepare, RoundBegins, SendRefused
  <2>2. loop'.pc # "tools"
    <3>1. \/ loop' = [loop EXCEPT !.pc = "round"] \/ loop' = [loop EXCEPT !.pc = "send"]
          \/ \E r : loop' = Returned(loop, r)
      BY <1>1 DEF Prepare, RoundBegins, SendRefused
    <3>2. ASSUME NEW r, loop' = Returned(loop, r) PROVE loop'.pc = "returned"
      BY <1>0, <3>2, LoopReturned
    <3> QED
      BY <1>0, <3>1, <3>2 DEF LoopRec
  <2> QED
    BY <2>1, <2>2, HistSame
<1>2. ASSUME NEW r \in Replies, SendAccepted(r) PROVE HistInv'
  <2>1. loop.pc # "tools" /\ hist' = hist /\ effects' = effects /\ tool' = tool
    BY <1>2 DEF SendAccepted
  <2>2. loop'.pc # "tools"
    <3>1. PICK x : loop' = [loop EXCEPT !.pc = "drain", !.text = <<>>, !.asked = x]
      BY <1>2 DEF SendAccepted
    <3> QED
      BY <1>0, <3>1 DEF LoopRec
  <2> QED
    BY <2>1, <2>2, HistSame
<1>3. ASSUME \/ SenderSends \/ SenderEnds \/ SenderStops
             \/ \E i \in 1..2 : Forward(i) \/ ForwardEnds(i)
             \/ ClientLeaves \/ HandlerLeaves \/ HandlerAnswers \/ HandlerMarksDone
             \/ PlainAnswers \/ Ended \/ UNCHANGED vars
      PROVE  HistInv'
  <2>1. loop' = loop /\ hist' = hist /\ effects' = effects /\ tool' = tool
    BY <1>3 DEF SenderSends, SenderEnds, SenderStops, Forward, ForwardEnds, ClientLeaves,
                HandlerLeaves, HandlerAnswers, HandlerMarksDone, PlainAnswers, Ended, vars
  <2> QED
    BY <2>1, HistSame
<1>4. CASE DrainChunk
  <2>1. loop.pc = "drain" /\ hist' = hist /\ effects' = effects /\ tool' = tool
    BY <1>4 DEF DrainChunk
  <2>2. loop'.pc # "tools"
    <3>1. loop'.pc \in {"drain", "emit"}
      BY <1>4, DrainGoesOn
    <3> QED
      BY <3>1
  <2> QED
    BY <2>1, <2>2, HistSame
<1>5. CASE DrainEmit
  <2>1. loop.pc = "emit" /\ hist' = hist /\ effects' = effects /\ tool' = tool
        /\ loop' = [loop EXCEPT !.pc = "drain", !.cur = <<>>]
    BY <1>5 DEF DrainEmit
  <2>2. loop'.pc = "drain"
    BY <1>0, <2>1 DEF LoopRec
  <2> QED
    BY <2>1, <2>2, HistSame
<1>6. CASE DrainEnds
  BY <1>6, HistCalls
<1>7. ASSUME NEW i \in DOMAIN tool,
             \/ ToolChecks(i) \/ EmitReads(i) \/ EmitWrites(i) \/ EmitAppends(i)
             \/ Execute(i) \/ ToolEnds(i)
      PROVE  HistInv'
  BY <1>7, HistSteps
<1>8. CASE RoundEnds
  BY <1>8, HistRound
<1> QED
  BY <1>1, <1>2, <1>3, <1>4, <1>5, <1>6, <1>7, <1>8 DEF Next, Environment, Program

-----------------------------------------------------------------------------
(* The theorems.                                                           *)

LEMMA StepsKeep == LoopInvs /\ [Next]_vars => LoopInvs'
<1> SUFFICES ASSUME LoopInvs, [Next]_vars PROVE LoopInvs'
  OBVIOUS
<1>1. ASSUME NEW r \in Replies, SendAccepted(r) PROVE LoopInvs'
  BY <1>1, AcceptKeeps
<1>2. CASE SenderSends \/ SenderEnds \/ SenderStops
  BY <1>2, SenderKeeps
<1>3. CASE Prepare \/ RoundBegins \/ SendRefused
  BY <1>3, StartKeeps
<1>4. ASSUME NEW i \in 1..2, Forward(i) \/ ForwardEnds(i) PROVE LoopInvs'
  BY <1>4, ForwardKeeps, ForwardEndsKeeps
<1>5. CASE DrainChunk
  BY <1>5, DrainKeeps
<1>6. CASE DrainEmit
  BY <1>6, DrainEmitKeeps
<1>7. CASE DrainEnds
  BY <1>7, DrainEndsKeeps
<1>8. ASSUME NEW i \in DOMAIN tool,
             \/ ToolChecks(i) \/ EmitReads(i) \/ EmitWrites(i) \/ EmitAppends(i)
             \/ Execute(i) \/ ToolEnds(i)
      PROVE  LoopInvs'
  BY <1>8, ChecksKeeps, EmitsKeeps
<1>9. CASE RoundEnds
  BY <1>9, RoundEndsKeeps
<1>10. CASE ClientLeaves \/ HandlerLeaves \/ HandlerAnswers \/ HandlerMarksDone \/ PlainAnswers
  BY <1>10, HandlersKeep
<1>11. CASE Ended \/ UNCHANGED vars
  <2>1. UNCHANGED vars
    BY <1>11 DEF Ended
  <2>2. ShapeInv'
    BY <2>1 DEF LoopInvs, vars, ShapeInv, LoopRec, PipeRec, ReplyRec, SseRec, ToolRec
  <2>3. LoopInv'
    BY <2>1 DEF LoopInvs, vars, LoopInv
  <2>4. PipeInv'
    BY <2>1 DEF LoopInvs, vars, PipeInv
  <2>5. SseInv'
    BY <2>1 DEF LoopInvs, vars, SseInv
  <2>6. FlowInv'
    BY <2>1 DEF LoopInvs, vars, FlowInv, Flight
  <2> QED
    BY <2>2, <2>3, <2>4, <2>5, <2>6 DEF LoopInvs
<1> QED
  BY <1>1, <1>2, <1>3, <1>4, <1>5, <1>6, <1>7, <1>8, <1>9, <1>10, <1>11
  DEF Next, Environment, Program

LEMMA AlwaysInv == Spec => []LoopInvs
<1>1. Init => LoopInvs
  BY InitKeeps
<1>2. LoopInvs /\ [Next]_vars => LoopInvs'
  BY StepsKeep
<1> QED
  BY <1>1, <1>2, PTL DEF Spec

\* Whatever the runner answers and however often it reports usage, a chat with
\* tools charges nothing: DrainLLMStreamChannelForward never looks at a chunk
\* that has only usage.
THEOREM ToolChatsAreFree == Spec => []NeverCharged
<1>1. LoopInvs => NeverCharged
  BY DEF LoopInvs, LoopInv, NeverCharged
<1> QED
  BY <1>1, AlwaysInv, PTL

\* The ids of the events of writeChatMCPLoopSSE grow unless two goroutines
\* were in emit at once, and no event follows MarkDone unless the client had left.
THEOREM EventsAreNumbered == Spec => []EventsSound
<1>1. LoopInvs => EventsSound
  BY DEF LoopInvs, SseInv, EventsSound
<1> QED
  BY <1>1, AlwaysInv, PTL

LEMMA RoundsInv == Spec => [](LoopInvs /\ TextInv /\ HistInv)
<1>1. Init => LoopInvs /\ TextInv /\ HistInv
  BY InitKeeps, TextStarts, HistStarts
<1>2. LoopInvs /\ TextInv /\ HistInv /\ [Next]_vars => (LoopInvs /\ TextInv /\ HistInv)'
  BY StepsKeep, TextKeeps, HistKeeps
<1> QED
  BY <1>1, <1>2, PTL DEF Spec

\* What Run tells the runner of its calls is true, over all rounds, for any tools,
\* replies, losses and orders in which the goroutines end: each message with calls is
\* followed by one message per call, with its number and name; a result was really
\* executed; and a server executed a call twice only if CallTool may retry it.
THEOREM ToolMessagesAreTrue == Spec => []ToolMessagesTrue
<1>1. HistInv => ToolMessagesTrue
  <2> SUFFICES ASSUME HistInv PROVE ToolMessagesTrue
    OBVIOUS
  <2>1. /\ hist \in Seq(Message)
        /\ hist # <<>> => hist[1].role = "assistant"
        /\ \A n \in DOMAIN hist : hist[n].role = "assistant" => CallsAnswered(hist, n)
        /\ \A n \in DOMAIN hist : hist[n].role = "tool" =>
             /\ hist[n].ok => effects[n] > 0
             /\ effects[n] > 1 => hist[n].name \in Retried
    BY DEF HistInv
  <2>2. /\ DOMAIN Told = DOMAIN hist
        /\ \A n \in DOMAIN hist : /\ Told[n].role = hist[n].role
                                  /\ Told[n].content = FormatContentForRunner(hist[n])
    BY DEF Told, PrepareMessagesForRunner
  <2>a. \A n \in DOMAIN hist : hist[n].role = "assistant" => Told[n].content = hist[n].calls
    BY <2>2 DEF FormatContentForRunner
  <2>t. ASSUME NEW n \in DOMAIN hist, hist[n].role = "tool"
        PROVE  /\ Told[n].content[1] = hist[n].id /\ Told[n].content[2] = hist[n].name
               /\ Told[n].content[3] => hist[n].ok
    <3>p. PICK x, y, z : x = hist[n].id /\ y = hist[n].name /\ z = hist[n].ok
      OBVIOUS
    <3>1. Told[n].content = <<x, y, z>>
      BY <2>2, <2>t, <3>p DEF FormatContentForRunner
    <3>2. <<x, y, z>>[1] = x /\ <<x, y, z>>[2] = y /\ <<x, y, z>>[3] = z
      OBVIOUS
    <3>3. Told[n].content[1] = x /\ Told[n].content[2] = y /\ Told[n].content[3] = z
      BY <3>1, <3>2
    <3> QED
      BY <3>p, <3>3
  <2>3. \A n \in DOMAIN hist :
          /\ hist[n].role = "assistant" => Told[n].content = hist[n].calls
          /\ hist[n].role = "tool" =>
               /\ Told[n].content[1] = hist[n].id /\ Told[n].content[2] = hist[n].name
               /\ Told[n].content[3] => hist[n].ok
    BY <2>a, <2>t
  <2>4. 1 \in DOMAIN Told => Told[1].role = "assistant"
    BY <2>1, <2>2
  <2>5. ASSUME NEW i \in DOMAIN Told, Told[i].role = "assistant"
        PROVE  LET calls == Told[i].content
                   next == i + Len(calls) + 1
               IN  /\ \A j \in DOMAIN calls :
                         /\ i + j \in DOMAIN Told
                         /\ Told[i + j].role = "tool"
                         /\ Told[i + j].content[1] = j
                         /\ Told[i + j].content[2] = calls[j]
                   /\ next \in DOMAIN Told => Told[next].role = "assistant"
    <3>1. CallsAnswered(hist, i) /\ Told[i].content = hist[i].calls
      BY <2>1, <2>2, <2>3, <2>5
    <3> QED
      BY <2>2, <2>3, <3>1 DEF CallsAnswered
  <2>6. ASSUME NEW n \in DOMAIN Told, Told[n].role = "tool"
        PROVE  /\ Told[n].content[3] => effects[n] > 0
               /\ effects[n] > 1 => Told[n].content[2] \in Retried
    BY <2>1, <2>2, <2>3, <2>6
  <2> QED
    BY <2>4, <2>5, <2>6 DEF ToolMessagesTrue
<1> QED
  BY <1>1, RoundsInv, PTL

\* The calls of a round are those Run reads from a text that is, chunk by chunk, a
\* beginning of the runner's answer; and they are those of the whole answer unless the
\* stream broke off: the sender, the two forwarders and the draining loop lose nothing.
CallsOfTheAnswer ==
    loop.pc = "tools" =>
      /\ loop.text \in Texts
      /\ DOMAIN tool = DOMAIN Judged[loop.text].calls
      /\ \A i \in DOMAIN tool : tool[i].call = Judged[loop.text].calls[i]
      /\ ~pipe.cut => loop.text = loop.asked

\* The calls that the loop executes are those the runner's answer asks for: the calls
\* of all of it, or, when the stream breaks off, those of what had been sent by then.
THEOREM CallsComeFromTheAnswer == Spec => []CallsOfTheAnswer
<1>1. TextInv => CallsOfTheAnswer
  BY DEF TextInv, CallsOfTheAnswer
<1> QED
  BY <1>1, RoundsInv, PTL

-----------------------------------------------------------------------------
(* The pieces of the answer keep the promise of AnswerStream.              *)

\* As long as Run has not returned no answer is whole.
LEMMA NotYetWhole ==
    ASSUME LoopInvs, loop.pc # "returned"
    PROVE  Over # "whole" /\ (reply' = reply => Over' = Over)
<1>1. ~reply.kept
  BY DEF LoopInvs, LoopInv
<1> QED
  BY <1>1 DEF Over

\* The next piece that is shown is the next that was made.
LEMMA ShowsNext ==
    ASSUME LoopInvs, loop.fwd, Flight # <<>>, Head(Flight).text # <<>>
    PROVE  /\ Len(shown) < Len(made)
           /\ shown \o PieceOf(Head(Flight)) = Append(shown, made[Len(shown) + 1])
<1>0. Flight \in Seq(Moving) /\ shown \in Seq(Pieces) /\ FlowInv
  BY HopsAre DEF LoopInvs, ShapeInv
<1>q. PICK q \in Seq(Moving) : q = Flight
  BY <1>0
<1>c. PICK c \in Moving : c = Head(q)
  BY <1>q
<1>a. PICK a \in Pieces : a = c.at
  BY <1>q, <1>c, ChunkIs
<1>1. PieceOf(c) = <<a>>
  BY <1>q, <1>c, <1>a DEF PieceOf
<1>2. PICK p \in Seq(Pieces) : made = shown \o p /\ Lists(q, p)
  BY <1>0, <1>q DEF FlowInv
<1>3. PICK s \in Seq(Pieces) : p = PieceOf(Head(q)) \o s
  BY <1>2, <1>q, ListsTail
<1>w. PICK w \in Seq(Pieces) : w = shown
  BY <1>0
<1>4. p = <<a>> \o s
  BY <1>1, <1>3, <1>c
<1>5. Len(p) > 0 /\ p[1] = a
  BY <1>4
<1>6. Len(w) < Len(w \o p) /\ (w \o p)[Len(w) + 1] = a /\ w \o <<a>> = Append(w, a)
  BY <1>5
<1> QED
  BY <1>1, <1>2, <1>6, <1>q, <1>c, <1>w

\* After the end of Run nothing is on its way.
LEMMA AllShown ==
    ASSUME LoopInvs, loop.pc = "returned", loop.fwd
    PROVE  shown = made
<1>1. 1 \in 1..3 /\ 2 \in 1..3 /\ 3 \in 1..3
  OBVIOUS
<1>2. loop.cur = <<>> /\ pipe.hop[1] = <<>> /\ pipe.hop[2] = <<>> /\ pipe.hop[3] = <<>>
  BY <1>1 DEF LoopInvs, LoopInv, PipeInv
<1>3. Flight = <<>>
  BY <1>2 DEF Flight
<1>4. PICK p \in Seq(Pieces) : made = shown \o p /\ Lists(Flight, p)
  BY DEF LoopInvs, FlowInv
<1>5. p = <<>>
  BY <1>3, <1>4, NothingListed
<1>6. shown \in Seq(Pieces)
  BY DEF LoopInvs, ShapeInv
<1> QED
  BY <1>4, <1>5, <1>6

LEMMA SenderMakes ==
    ASSUME LoopInvs, SenderSends
    PROVE  [Promise!Next]_(Promise!vars)
<1>0. /\ ShapeInv /\ PipeInv /\ LoopInv /\ made \in Seq(Pieces) /\ pipe.state = "open"
      /\ pipe.src # <<>> /\ UNCHANGED <<loop, reply, shown>>
  BY DEF LoopInvs, ShapeInv, SenderSends
<1>1. loop.pc \in {"drain", "emit"} /\ loop.round \in 1..MaxRounds
  <2>1. loop.pc \in {"drain", "emit"}
    BY <1>0 DEF PipeInv
  <2>2. loop.round <= MaxRounds /\ loop.round \in Nat \ {0}
    BY <1>0, <2>1, HopsAre DEF LoopInv, LoopRec
  <2> QED
    BY <2>1, <2>2, Constants
<1>2. Over # "whole" /\ Over' = Over
  BY <1>0, <1>1, NotYetWhole
<1>d. PICK d \in Sendable : d = Head(pipe.src)
  BY <1>0, HopsAre
<1>p. PICK p \in Pieces : p = <<loop.round, pipe.sent + 1>>
  <2>1. pipe.sent \in Nat /\ pipe.src \in Seq(Sendable)
    BY <1>0, HopsAre
  <2>2. Len(pipe.src) + pipe.sent <= MaxLength /\ Len(pipe.src) \in Nat \ {0}
    BY <1>0, <2>1 DEF PipeInv
  <2>3. pipe.sent + 1 \in 1..MaxLength
    BY <2>1, <2>2, Constants
  <2>4. <<loop.round, pipe.sent + 1>> \in Pieces
    BY <1>1, <2>3 DEF Pieces
  <2> QED
    BY <2>4
<1>c. PICK c : c = [d EXCEPT !.at = p]
  OBVIOUS
<1>3. made' = made \o PieceOf(c)
  BY <1>d, <1>p, <1>c DEF SenderSends
<1>4. c.at = p
  <2>1. PICK x, y, z, f : x = d.text /\ y = d.think /\ z = <<0, 0>> /\ f = FALSE
    OBVIOUS
  <2>2. d = [text |-> x, think |-> y, usage |-> f, at |-> z]
    BY <2>1, Constants DEF Chunk
  <2> QED
    BY <1>c, <2>2
<1>5. CASE c.text = <<>>
  <2>1. made' = made
    BY <1>0, <1>3, <1>5 DEF PieceOf
  <2> QED
    BY <1>0, <1>2, <2>1 DEF Promise!vars
<1>6. CASE c.text # <<>>
  <2>1. PieceOf(c) = <<p>>
    BY <1>4, <1>6 DEF PieceOf
  <2>2. made' = Append(made, p)
    BY <1>0, <1>3, <2>1
  <2>3. Promise!Make
    BY <1>0, <1>2, <2>2 DEF Promise!Make
  <2> QED
    BY <2>3 DEF Promise!Next
<1> QED
  BY <1>5, <1>6

LEMMA LoopShows ==
    ASSUME LoopInvs, DrainChunk \/ DrainEmit
    PROVE  [Promise!Next]_(Promise!vars)
<1>0. /\ ShapeInv /\ LoopInv /\ loop.pc \in {"drain", "emit"}
      /\ UNCHANGED <<reply, made>> /\ shown \in Seq(Pieces)
  BY DEF LoopInvs, ShapeInv, DrainChunk, DrainEmit
<1>1. Over # "whole" /\ Over' = Over
  BY <1>0, NotYetWhole
<1>2. CASE shown' = shown
  BY <1>0, <1>1, <1>2 DEF Promise!vars
<1>3. ASSUME NEW c, loop.fwd, Flight # <<>>, Head(Flight) = c, shown' = shown \o PieceOf(c)
      PROVE  [Promise!Next]_(Promise!vars)
  <2>1. CASE c.text = <<>>
    <3>1. shown' = shown
      BY <1>0, <1>3, <2>1 DEF PieceOf
    <3> QED
      BY <1>2, <3>1
  <2>2. CASE c.text # <<>>
    <3>1. Len(shown) < Len(made)
          /\ shown \o PieceOf(Head(Flight)) = Append(shown, made[Len(shown) + 1])
      BY <1>3, <2>2, ShowsNext
    <3>2. Promise!Show
      BY <1>0, <1>1, <1>3, <3>1 DEF Promise!Show
    <3> QED
      BY <3>2 DEF Promise!Next
  <2> QED
    BY <2>1, <2>2
<1>h. /\ pipe.hop[1] \in Seq(Moving) /\ pipe.hop[2] \in Seq(Moving) /\ pipe.hop[3] \in Seq(Moving)
      /\ loop.cur \in Seq(Moving)
  BY <1>0, HopsAre
<1>4. CASE DrainChunk /\ shown' # shown
  <2>b. PICK b \in Seq(Moving) : b = pipe.hop[3]
    BY <1>h
  <2>r. PICK r \in Seq(Moving) : r = pipe.hop[2] \o pipe.hop[1]
    <3>1. pipe.hop[2] \o pipe.hop[1] \in Seq(Moving)
      BY <1>h
    <3> QED
      BY <3>1
  <2>1. b # <<>> /\ loop.cur = <<>>
    BY <1>0, <1>4, <2>b DEF DrainChunk, LoopInv
  <2>2. b \o r # <<>> /\ Head(b \o r) = Head(b)
    BY <2>1, TakeFirst
  <2>3. Flight = b \o r
    <3>s. PICK s \in Seq(Moving) : s = b \o r
      <4>1. b \o r \in Seq(Moving)
        OBVIOUS
      <4> QED
        BY <4>1
    <3>1. <<>> \o s = s
      OBVIOUS
    <3> QED
      BY <2>b, <2>r, <2>1, <3>s, <3>1 DEF Flight
  <2>4. loop.fwd /\ shown' = shown \o PieceOf(Head(b))
    BY <1>4, <2>b DEF DrainChunk
  <2> QED
    BY <1>3, <2>2, <2>3, <2>4
<1>5. CASE DrainEmit
  <2>b. PICK b \in Seq(Moving) : b = loop.cur
    BY <1>h
  <2>r. PICK r \in Seq(Moving) : r = pipe.hop[3] \o (pipe.hop[2] \o pipe.hop[1])
    <3>x. PICK x \in Seq(Moving), y \in Seq(Moving), z \in Seq(Moving) :
            x = pipe.hop[3] /\ y = pipe.hop[2] /\ z = pipe.hop[1]
      BY <1>h
    <3>1. x \o (y \o z) \in Seq(Moving)
      OBVIOUS
    <3> QED
      BY <3>x, <3>1
  <2>1. Len(loop.cur) = 1 /\ loop.fwd
    BY <1>0, <1>5 DEF DrainEmit, LoopInv
  <2>2. Len(b) = 1
    BY <2>b, <2>1
  <2>3. b # <<>> /\ Head(b) = b[1]
    BY <2>2
  <2>4. b \o r # <<>> /\ Head(b \o r) = Head(b)
    BY <2>3, TakeFirst
  <2>5. Flight = b \o r
    BY <2>b, <2>r DEF Flight
  <2>6. shown' = shown \o PieceOf(Head(b))
    BY <1>5, <2>b, <2>3 DEF DrainEmit
  <2> QED
    BY <1>3, <2>1, <2>4, <2>5, <2>6
<1> QED
  BY <1>2, <1>4, <1>5

LEMMA HandlerFinishes ==
    ASSUME LoopInvs, HandlerLeaves \/ HandlerAnswers \/ PlainAnswers
    PROVE  [Promise!Next]_(Promise!vars)
<1>0. LoopInv /\ ReplyRec(reply) /\ reply.pc = "wait" /\ ~reply.kept /\ Over = "no"
      /\ UNCHANGED <<loop, made, shown>>
  BY DEF LoopInvs, ShapeInv, LoopInv, HandlerLeaves, HandlerAnswers, PlainAnswers, Over
<1>1. reply'.pc # "wait" /\ (reply'.kept => loop.pc = "returned")
  <2>1. CASE HandlerLeaves
    <3>1. reply' = [reply EXCEPT !.pc = "returned"]
      BY <2>1 DEF HandlerLeaves
    <3> QED
      BY <1>0, <3>1 DEF ReplyRec
  <2>2. CASE HandlerAnswers \/ PlainAnswers
    <3>1. loop.pc = "returned"
      BY <2>2 DEF HandlerAnswers, PlainAnswers
    <3>2. reply'.pc # "wait"
      BY <1>0, <2>2 DEF ReplyRec, HandlerAnswers, PlainAnswers
    <3> QED
      BY <3>1, <3>2
  <2> QED
    BY <2>1, <2>2
<1>2. CASE reply'.kept /\ loop.fwd
  <2>1. Over' = "whole"
    BY <1>0, <1>1, <1>2 DEF Over
  <2>2. shown = made
    BY <1>1, <1>2, AllShown
  <2> QED
    BY <1>0, <2>1, <2>2 DEF Promise!Next, Promise!Finish
<1>3. CASE ~(reply'.kept /\ loop.fwd)
  <2>1. Over' = "cut"
    BY <1>0, <1>1, <1>3 DEF Over
  <2> QED
    BY <1>0, <2>1 DEF Promise!Next, Promise!GiveUp
<1> QED
  BY <1>2, <1>3

\* The other steps neither make nor show a piece, nor end the answer.
LEMMA RestStutters ==
    ASSUME LoopInvs, UNCHANGED <<made, shown>>,
           \/ UNCHANGED reply /\ (loop.pc # "returned" \/ UNCHANGED loop)
           \/ HandlerMarksDone
    PROVE  [Promise!Next]_(Promise!vars)
<1>1. CASE UNCHANGED reply /\ loop.pc # "returned"
  <2>1. Over' = Over
    BY <1>1, NotYetWhole
  <2> QED
    BY <2>1 DEF Promise!vars
<1>2. CASE UNCHANGED <<reply, loop>>
  <2>1. Over' = Over
    BY <1>2 DEF Over
  <2> QED
    BY <2>1 DEF Promise!vars
<1>3. CASE HandlerMarksDone
  <2>1. reply.pc = "mark" /\ loop' = loop /\ reply' = [reply EXCEPT !.pc = "returned"] /\ ReplyRec(reply)
    BY <1>3 DEF HandlerMarksDone, LoopInvs, ShapeInv
  <2>2. reply'.pc = "returned" /\ reply'.kept = reply.kept
    BY <2>1 DEF ReplyRec
  <2>3. Over' = Over
    BY <2>1, <2>2 DEF Over
  <2> QED
    BY <2>3 DEF Promise!vars
<1> QED
  BY <1>1, <1>2, <1>3

LEMMA StepsArePromised == LoopInvs /\ [Next]_vars => [Promise!Next]_(Promise!vars)
<1> SUFFICES ASSUME LoopInvs, [Next]_vars PROVE [Promise!Next]_(Promise!vars)
  OBVIOUS
<1>1. CASE SenderSends
  BY <1>1, SenderMakes
<1>2. CASE DrainChunk \/ DrainEmit
  BY <1>2, LoopShows
<1>3. CASE HandlerLeaves \/ HandlerAnswers \/ PlainAnswers
  BY <1>3, HandlerFinishes
<1>4. CASE HandlerMarksDone
  <2>1. UNCHANGED <<made, shown>>
    BY <1>4 DEF HandlerMarksDone
  <2> QED
    BY <1>4, <2>1, RestStutters
<1>5. CASE Prepare \/ RoundBegins \/ SendRefused \/ DrainEnds \/ RoundEnds
  <2>1. UNCHANGED <<made, shown, reply>> /\ loop.pc # "returned"
    BY <1>5 DEF Prepare, RoundBegins, SendRefused, DrainEnds, RoundEnds
  <2> QED
    BY <2>1, RestStutters
<1>6. ASSUME NEW r \in Replies, SendAccepted(r) PROVE [Promise!Next]_(Promise!vars)
  <2>1. UNCHANGED <<made, shown, reply>> /\ loop.pc # "returned"
    BY <1>6 DEF SendAccepted
  <2> QED
    BY <2>1, RestStutters
<1>7. CASE ClientLeaves \/ SenderEnds \/ SenderStops \/ Ended \/ UNCHANGED vars
  <2>1. UNCHANGED <<made, shown, reply, loop>>
    BY <1>7 DEF ClientLeaves, SenderEnds, SenderStops, Ended, vars
  <2> QED
    BY <2>1, RestStutters
<1>8. ASSUME NEW i \in 1..2, Forward(i) \/ ForwardEnds(i) PROVE [Promise!Next]_(Promise!vars)
  <2>1. UNCHANGED <<made, shown, reply, loop>>
    BY <1>8 DEF Forward, ForwardEnds
  <2> QED
    BY <2>1, RestStutters
<1>9. ASSUME NEW i \in DOMAIN tool,
             \/ ToolChecks(i) \/ EmitReads(i) \/ EmitWrites(i) \/ EmitAppends(i)
             \/ Execute(i) \/ ToolEnds(i)
      PROVE  [Promise!Next]_(Promise!vars)
  <2>1. UNCHANGED <<made, shown, reply, loop>>
    BY <1>9 DEF ToolChecks, EmitReads, EmitWrites, EmitAppends, Execute, ToolEnds
  <2> QED
    BY <2>1, RestStutters
<1> QED
  BY <1>1, <1>2, <1>3, <1>4, <1>5, <1>6, <1>7, <1>8, <1>9 DEF Next, Environment, Program

\* Sender, forwarders and loop implement AnswerStream: the pieces of text reach
\* onChunk in the order of the runner, each once, and none is missing when the
\* handler has sent "end", unless onChunk had refused one.
THEOREM AnswersAreStreamedInOrder == Spec => StreamedInOrder
<1>1. Init => Promise!Init
  BY DEF Init, Promise!Init, Over
<1>2. LoopInvs /\ [Next]_vars => [Promise!Next]_(Promise!vars)
  BY StepsArePromised
<1> QED
  BY <1>1, <1>2, AlwaysInv, PTL DEF Spec, StreamedInOrder, Promise!Spec

=============================================================================

------------------------- MODULE StreamSessionProofs -------------------------
(***************************************************************************)
(* Theorems about StreamSession, for any number of writers and readers of  *)
(* the id, events and channel capacities.                                  *)
(***************************************************************************)
EXTENDS StreamSession, FiniteSetTheorems, NaturalsInduction, WellFoundedInduction, TLAPS

-----------------------------------------------------------------------------
(* Induction over numbers, by the smallest counterexample: the library's    *)
(* theorems for it take an operator, WFMin takes a set.                     *)

\* A set of numbers that is not empty has a smallest one.
LEMMA SmallestNat ==
    ASSUME NEW T \in SUBSET Nat, T # {}
    PROVE  \E n \in T : \A m \in T : n <= m
<1>1. IsWellFoundedOn(OpToRel(<, Nat), Nat)
  BY NatLessThanWellFounded
<1>2. PICK x \in T : \A y \in T : ~ (<<y, x>> \in OpToRel(<, Nat))
  BY <1>1, WFMin
<1>3. \A y \in T : ~(y < x)
  BY <1>2 DEF OpToRel
<1>4. \A y \in T : y \in Nat /\ x \in Nat
  OBVIOUS
<1> QED
  BY <1>3, <1>4

LEMMA NatSetInduction ==
      ASSUME NEW T, 0 \in T, \A n \in Nat \ {0} : n - 1 \in T => n \in T
      PROVE   Nat \subseteq T
<1> SUFFICES ASSUME Nat \ T # {} PROVE FALSE
  OBVIOUS
<1>1. PICK n \in Nat \ T : \A m \in Nat \ T : n <= m
  BY SmallestNat
<1>2. n # 0 /\ n - 1 \in Nat
  BY <1>1
<1>3. n - 1 \in T
  BY <1>1, <1>2
<1> QED
  BY <1>1, <1>2, <1>3

-----------------------------------------------------------------------------
(* EventsAfter.                                                            *)

Ordered(q) ==
    \A i, k \in 1..Len(q) : i < k /\ q[i].by = q[k].by => q[i].id < q[k].id

LEMMA RangeIs ==
    ASSUME NEW S, NEW q \in Seq(S)
    PROVE  Range(q) = {q[i] : i \in 1..Len(q)}
BY DEF Range

LEMMA EmptyRange == Range(<<>>) = {} /\ Ordered(<<>>)
<1>1. DOMAIN <<>> = {} /\ Len(<<>>) = 0
  OBVIOUS
<1> QED
  BY <1>1 DEF Range, Ordered

LEMMA RangeAppend ==
    ASSUME NEW S, NEW q \in Seq(S), NEW x \in S
    PROVE  Range(Append(q, x)) = Range(q) \cup {x}
<1> DEFINE p == Append(q, x)
<1>1. /\ p \in Seq(S) /\ Len(q) \in Nat /\ Len(p) = Len(q) + 1
      /\ \A i \in 1..Len(q) : p[i] = q[i]
      /\ p[Len(q) + 1] = x
  OBVIOUS
<1> HIDE DEF p
<1>2. Range(p) = {p[i] : i \in 1..Len(p)} /\ Range(q) = {q[i] : i \in 1..Len(q)}
  BY <1>1, RangeIs
<1>3. {p[i] : i \in 1..Len(p)} = {q[i] : i \in 1..Len(q)} \cup {x}
  <2>1. ASSUME NEW i \in 1..Len(p) PROVE p[i] \in {q[k] : k \in 1..Len(q)} \cup {x}
    BY <1>1
  <2>2. ASSUME NEW i \in 1..Len(q) PROVE q[i] \in {p[k] : k \in 1..Len(p)}
    BY <1>1
  <2>3. x \in {p[k] : k \in 1..Len(p)}
    BY <1>1
  <2> QED
    BY <2>1, <2>2, <2>3
<1> QED
  BY <1>2, <1>3 DEF p

LEMMA OrderedAppend ==
    ASSUME NEW S, NEW q \in Seq(S), NEW x \in S, Ordered(q),
           \A i \in 1..Len(q) : q[i].by = x.by => q[i].id < x.id
    PROVE  Ordered(Append(q, x))
<1> DEFINE p == Append(q, x)
<1>1. /\ Len(q) \in Nat /\ Len(p) = Len(q) + 1
      /\ \A i \in 1..Len(q) : p[i] = q[i]
      /\ p[Len(q) + 1] = x
  OBVIOUS
<1> HIDE DEF p
<1>2. ASSUME NEW i \in 1..Len(p), NEW k \in 1..Len(p), i < k, p[i].by = p[k].by
      PROVE  p[i].id < p[k].id
  <2>1. i \in 1..Len(q)
    BY <1>1, <1>2
  <2>2. CASE k = Len(q) + 1
    BY <1>1, <1>2, <2>1, <2>2
  <2>3. CASE k # Len(q) + 1
    <3>1. k \in 1..Len(q)
      BY <1>1, <2>3
    <3> QED
      BY <1>1, <1>2, <2>1, <3>1 DEF Ordered
  <2> QED
    BY <2>2, <2>3
<1>3. Ordered(p)
  BY <1>2 DEF Ordered
<1> QED
  BY <1>3 DEF p

LEMMA HeadTail ==
    ASSUME NEW S, NEW q \in Seq(S), q # <<>>
    PROVE  /\ Head(q) \in S /\ Tail(q) \in Seq(S)
           /\ Range(q) = Range(Tail(q)) \cup {Head(q)}
           /\ Ordered(q) => /\ Ordered(Tail(q))
                            /\ \A e \in Range(Tail(q)) : e.by = Head(q).by => Head(q).id < e.id
<1> DEFINE p == Tail(q)
<1>1. /\ p \in Seq(S) /\ Head(q) \in S /\ Len(q) \in Nat \ {0} /\ Len(p) = Len(q) - 1
      /\ \A i \in 1..Len(p) : p[i] = q[i + 1]
      /\ Head(q) = q[1]
  OBVIOUS
<1> HIDE DEF p
<1>2. Range(p) = {p[i] : i \in 1..Len(p)} /\ Range(q) = {q[i] : i \in 1..Len(q)}
  BY <1>1, RangeIs
<1>3. Range(q) = Range(p) \cup {Head(q)}
  <2>1. \A i \in 1..Len(q) : i = 1 \/ (i - 1 \in 1..Len(p) /\ q[i] = p[i - 1])
    BY <1>1
  <2>2. ASSUME NEW i \in 1..Len(q) PROVE q[i] \in Range(p) \cup {Head(q)}
    BY <1>1, <1>2, <2>1
  <2>3. ASSUME NEW i \in 1..Len(p) PROVE p[i] \in Range(q)
    BY <1>1, <1>2
  <2>4. Head(q) \in Range(q)
    BY <1>1, <1>2
  <2> QED
    BY <1>2, <2>2, <2>3, <2>4
<1>4. Ordered(q) => Ordered(p)
  BY <1>1 DEF Ordered
<1>5. Ordered(q) => \A e \in Range(p) : e.by = Head(q).by => Head(q).id < e.id
  <2> SUFFICES ASSUME Ordered(q), NEW e \in Range(p), e.by = Head(q).by
               PROVE  Head(q).id < e.id
    OBVIOUS
  <2>1. PICK i \in 1..Len(p) : e = p[i]
    BY <1>2
  <2>2. e = q[i + 1] /\ i + 1 \in 1..Len(q) /\ 1 \in 1..Len(q) /\ 1 < i + 1
    BY <1>1, <2>1
  <2>3. Head(q) = q[1]
    BY <1>1
  <2> QED
    BY <2>2, <2>3 DEF Ordered
<1> QED
  BY <1>1, <1>3, <1>4, <1>5 DEF p

\* out is the list of each prefix of s, up to length m.
Lists(out, s, n, m) ==
    out = [i \in 0..m |->
             IF i = 0 THEN <<>>
             ELSE IF s[i].id > n THEN Append(out[i - 1], s[i]) ELSE out[i - 1]]

LEMMA ListsExist ==
    ASSUME NEW s, NEW n
    PROVE  \A m \in Nat : \E g : Lists(g, s, n, m)
<1> DEFINE T == {m \in Nat : \E g : Lists(g, s, n, m)}
<1>1. 0 \in T
  <2>1. Lists([i \in 0..0 |-> <<>>], s, n, 0)
    BY DEF Lists
  <2> QED
    BY <2>1
<1>2. ASSUME NEW m \in Nat \ {0}, m - 1 \in T PROVE m \in T
  <2>1. PICK g : Lists(g, s, n, m - 1)
    BY <1>2
  <2> DEFINE h == [i \in 0..m |-> IF i < m THEN g[i]
                                  ELSE IF s[m].id > n THEN Append(g[m - 1], s[m]) ELSE g[m - 1]]
  <2>2. \A i \in 0..(m - 1) : h[i] = g[i]
    OBVIOUS
  <2>3. h[m] = IF s[m].id > n THEN Append(h[m - 1], s[m]) ELSE h[m - 1]
    BY <2>2
  <2>4. \A i \in 0..(m - 1) :
          g[i] = IF i = 0 THEN <<>>
                 ELSE IF s[i].id > n THEN Append(g[i - 1], s[i]) ELSE g[i - 1]
    BY <2>1 DEF Lists
  <2>5. \A i \in 0..m :
          h[i] = IF i = 0 THEN <<>>
                 ELSE IF s[i].id > n THEN Append(h[i - 1], s[i]) ELSE h[i - 1]
    <3> TAKE i \in 0..m
    <3>1. CASE i = m
      BY <2>3, <3>1
    <3>2. CASE i # m
      <4>1. i \in 0..(m - 1) /\ (i # 0 => i - 1 \in 0..(m - 1))
        BY <3>2
      <4> HIDE DEF h
      <4> QED
        BY <2>2, <2>4, <4>1
    <3> QED
      BY <3>1, <3>2
  <2>6. h = [i \in 0..m |-> h[i]]
    OBVIOUS
  <2>7. Lists(h, s, n, m)
    <3> HIDE DEF h
    <3> QED
      BY <2>5, <2>6 DEF Lists
  <2> QED
    BY <2>7
<1> HIDE DEF T
<1>3. Nat \subseteq T
  BY <1>1, <1>2, NatSetInduction
<1> QED
  BY <1>3 DEF T

\* A client that resumes gets the stored events with a larger id, all of them
\* and in the order they are stored in (registry.go, EventsAfter).
LEMMA EventsAfterSelects ==
    ASSUME NEW s \in Seq(Event), NEW n \in Nat
    PROVE  /\ EventsAfter(s, n) \in Seq(Event)
           /\ Range(EventsAfter(s, n)) = {e \in Range(s) : e.id > n}
           /\ Ordered(s) => Ordered(EventsAfter(s, n))
<1> DEFINE out == CHOOSE g : Lists(g, s, n, Len(s))
           Selects(q, i) == /\ q \in Seq(Event)
                            /\ Range(q) = {e \in Event : \E k \in 1..i : e = s[k] /\ e.id > n}
                            /\ Ordered(s) => Ordered(q)
           T == {i \in Nat : i <= Len(s) => Selects(out[i], i)}
<1>1. Len(s) \in Nat /\ \A k \in 1..Len(s) : s[k] \in Event
  OBVIOUS
<1>2. Lists(out, s, n, Len(s))
  BY <1>1, ListsExist
<1>3. EventsAfter(s, n) = out[Len(s)]
  BY DEF EventsAfter, Lists
<1>9. \A i \in 0..Len(s) :
        out[i] = IF i = 0 THEN <<>>
                 ELSE IF s[i].id > n THEN Append(out[i - 1], s[i]) ELSE out[i - 1]
  BY <1>2 DEF Lists
<1> HIDE DEF out
<1>4. 0 \in T
  <2>1. out[0] = <<>> /\ Len(<<>>) = 0 /\ <<>> \in Seq(Event)
    BY <1>1, <1>9
  <2>2. Selects(<<>>, 0)
    BY <2>1, EmptyRange
  <2> QED
    BY <2>1, <2>2
<1>5. ASSUME NEW i \in Nat \ {0}, i - 1 \in T PROVE i \in T
  <2> SUFFICES ASSUME i <= Len(s) PROVE Selects(out[i], i)
    OBVIOUS
  <2> DEFINE q == out[i - 1]
  <2>1. i \in 1..Len(s) /\ s[i] \in Event /\ s[i].id \in Nat
    BY <1>1 DEF Event
  <2>2. Selects(q, i - 1)
    BY <1>5, <2>1
  <2>3. out[i] = IF s[i].id > n THEN Append(q, s[i]) ELSE q
    BY <1>9, <2>1
  <2> HIDE DEF q
  <2>4. CASE ~(s[i].id > n)
    <3>1. \A e \in Event : (\E k \in 1..i : e = s[k] /\ e.id > n)
                            <=> (\E k \in 1..(i - 1) : e = s[k] /\ e.id > n)
      BY <2>1, <2>4
    <3> QED
      BY <2>2, <2>3, <2>4, <3>1
  <2>5. CASE s[i].id > n
    <3>1. /\ Append(q, s[i]) \in Seq(Event) /\ Len(Append(q, s[i])) = Len(q) + 1
          /\ \A k \in 1..Len(q) : Append(q, s[i])[k] = q[k]
          /\ Append(q, s[i])[Len(q) + 1] = s[i] /\ Len(q) \in Nat
      BY <2>1, <2>2
    <3>2. Range(Append(q, s[i])) = Range(q) \cup {s[i]}
      BY <2>1, <2>2, RangeAppend
    <3>3. {e \in Event : \E k \in 1..i : e = s[k] /\ e.id > n}
            = {e \in Event : \E k \in 1..(i - 1) : e = s[k] /\ e.id > n} \cup {s[i]}
      BY <2>1, <2>5
    <3>4. Ordered(s) => Ordered(Append(q, s[i]))
      <4> SUFFICES ASSUME Ordered(s) PROVE Ordered(Append(q, s[i]))
        OBVIOUS
      <4>1. ASSUME NEW k \in 1..Len(q), q[k].by = s[i].by
            PROVE  q[k].id < s[i].id
        <5>1. q[k] \in Range(q)
          BY <2>2, RangeIs
        <5>2. PICK j \in 1..(i - 1) : q[k] = s[j]
          BY <2>2, <5>1
        <5> QED
          BY <2>1, <4>1, <5>2 DEF Ordered
      <4>2. Ordered(q)
        BY <2>2
      <4> QED
        BY <2>2, <3>1, <4>1, <4>2, OrderedAppend
    <3> QED
      BY <2>2, <2>3, <2>5, <3>1, <3>2, <3>3, <3>4
  <2> QED
    BY <2>4, <2>5
<1> HIDE DEF T
<1>6. Nat \subseteq T
  BY <1>4, <1>5, NatSetInduction
<1>7. Selects(out[Len(s)], Len(s))
  BY <1>1, <1>6 DEF T
<1>8. {e \in Event : \E k \in 1..Len(s) : e = s[k] /\ e.id > n} = {e \in Range(s) : e.id > n}
  BY <1>1 DEF Range
<1> QED
  BY <1>3, <1>7, <1>8

-----------------------------------------------------------------------------
(* Which session, which writer and which event belong together.            *)

Started == {w \in Writers : wpc[w] # "new"}

\* A writer that has not started has nothing; the others have a session that was
\* made, and sends to do only for an event they have stored.
WriterInv ==
    /\ made <= Cardinality(Started)
    /\ \A w \in Writers :
         /\ wpc[w] = "new" => wsess[w] = None /\ eventID[w] = 0
         /\ wpc[w] # "new" => wsess[w] \in 1..made
         /\ wpc[w] \in {"new", "open"} => eventID[w] < MaxEvents
         /\ wpc[w] \in {"new", "finished", "cancelled"} => toSend[w] = {}
         /\ eventID[w] = 0 => toSend[w] = {}
         /\ eventID[w] > 0 => \E e \in Range(events[wsess[w]]) : e.by = w /\ e.id = eventID[w]

Reached == {"live", "closed", "gone"}

\* A reader with a session is subscribed to it while it is live and its channel
\* is open; only such readers are sent anything.
ReaderInv ==
    \A r \in Readers :
      /\ rpc[r] \in {"new", "notfound"} => rsess[r] = None
      /\ rpc[r] \notin {"new", "notfound"} => rsess[r] \in 1..made
      /\ rpc[r] \notin Reached \cup {"replayed", "checked"} => seen[r] = <<>>
      /\ rpc[r] \notin Reached => chan[r] = <<>> /\ ~closed[r]
      /\ \A s \in Sessions : r \in subs[s] => s = rsess[r] /\ rpc[r] = "live" /\ ~closed[r]
      /\ rpc[r] = "live" /\ ~closed[r] => r \in subs[rsess[r]]
      /\ \A w \in Writers : r \in toSend[w] => rsess[r] = wsess[w] /\ rpc[r] \in Reached

\* e was emitted into session s, and is its writer's last if it is the "end".
Emitted(e, s) ==
    /\ wsess[e.by] = s
    /\ e.id <= eventID[e.by]
    /\ e.end => e.id = eventID[e.by] /\ wpc[e.by] \notin {"new", "open"}

\* What reader r got, or will: emitted into its session, and by a writer that is
\* still sending to it before the event being sent.
Got(e, r) == Emitted(e, rsess[r]) /\ (r \in toSend[e.by] => e.id < eventID[e.by])

OrderInv ==
    /\ \A s \in Sessions : Ordered(events[s]) /\ \A e \in Range(events[s]) : Emitted(e, s)
    /\ \A r \in Readers :
         /\ Ordered(seen[r]) /\ Ordered(chan[r])
         /\ \A e \in Range(seen[r]) \cup Range(chan[r]) : Got(e, r)
         /\ \A e \in Range(seen[r]), f \in Range(chan[r]) : e.by = f.by => e.id < f.id

\* A channel closed while it is being sent to was closed by somebody else.
PanicInv ==
    \A w \in Writers : \A r \in toSend[w] : closed[r] => left \/ SharedSession

-----------------------------------------------------------------------------
(* Types.                                                                  *)

Linked == TypeOK /\ WriterInv /\ ReaderInv /\ OrderInv

\* Whose session is a session, and whose is not yet.
LEMMA SessionType ==
    ASSUME TypeOK, WriterInv, ReaderInv
    PROVE  /\ \A w \in Writers : wpc[w] # "new" => wsess[w] \in Sessions
           /\ \A r \in Readers : rpc[r] \notin {"new", "notfound"} => rsess[r] \in Sessions
           /\ registry # None => registry \in Sessions
           /\ 1..made \subseteq Sessions
<1>1. made <= Cardinality(Writers) /\ Cardinality(Writers) \in Nat /\ made \in Nat
  BY StreamAssumption, FS_CardinalityType DEF TypeOK
<1>2. 1..made \subseteq Sessions
  BY <1>1 DEF Sessions
<1> QED
  BY <1>2 DEF TypeOK, WriterInv, ReaderInv

\* The event a writer is delivering is the one it stored last.
LEMMA CurrentIs ==
    ASSUME Linked, NEW w \in Writers, eventID[w] > 0
    PROVE  /\ Current(w) \in Range(events[wsess[w]]) /\ Current(w) \in Event
           /\ Current(w).by = w /\ Current(w).id = eventID[w]
           /\ Emitted(Current(w), wsess[w])
           /\ \A e \in Range(events[wsess[w]]) :
                e.by = w /\ e.id = eventID[w] => e = Current(w)
<1> DEFINE s == wsess[w]
           q == events[s]
<1>1. s \in Sessions
  BY SessionType DEF Linked, TypeOK, WriterInv
<1>2. q \in Seq(Event) /\ Ordered(q) /\ \A e \in Range(q) : Emitted(e, s)
  BY <1>1 DEF Linked, TypeOK, OrderInv
<1>3. Range(q) = {q[i] : i \in 1..Len(q)}
  BY <1>2, RangeIs
<1>4. \E e \in Range(q) : e.by = w /\ e.id = eventID[w]
  BY DEF Linked, WriterInv
<1>5. Current(w) \in Range(q) /\ Current(w).by = w /\ Current(w).id = eventID[w]
  BY <1>4 DEF Current
<1>6. PICK j \in 1..Len(q) : Current(w) = q[j]
  BY <1>3, <1>5
<1>7. ASSUME NEW e \in Range(q), e.by = w, e.id = eventID[w] PROVE e = Current(w)
  <2>1. PICK k \in 1..Len(q) : e = q[k]
    BY <1>3, <1>7
  <2>2. q[j] \in Event /\ q[k] \in Event
    BY <1>2
  <2>3. ~(j < k) /\ ~(k < j)
    BY <1>2, <1>5, <1>6, <1>7, <2>1, <2>2 DEF Ordered, Event
  <2> QED
    BY <1>6, <2>1, <2>3
<1> QED
  BY <1>2, <1>5, <1>6, <1>7

\* Before a writer starts there is room for one more session.
LEMMA RoomForSession ==
    ASSUME TypeOK, WriterInv, NEW w \in Writers, wpc[w] = "new"
    PROVE  /\ made + 1 \in Sessions
           /\ wpc' = [wpc EXCEPT ![w] = "open"] =>
                Cardinality(Started)' = Cardinality(Started) + 1
<1>1. IsFiniteSet(Writers) /\ Started \in SUBSET Writers /\ w \notin Started
  BY StreamAssumption DEF Started
<1>2. IsFiniteSet(Started) /\ Cardinality(Started) \in Nat /\ Cardinality(Writers) \in Nat
  BY <1>1, FS_Subset, FS_CardinalityType
<1>3. Cardinality(Started \cup {w}) = Cardinality(Started) + 1
  BY <1>1, <1>2, FS_AddElement
<1>4. Cardinality(Started \cup {w}) <= Cardinality(Writers)
  BY <1>1, FS_Subset
<1>5. wpc' = [wpc EXCEPT ![w] = "open"] => Started' = Started \cup {w}
  BY DEF TypeOK, Started
<1>6. made \in Nat /\ made <= Cardinality(Started)
  BY DEF TypeOK, WriterInv
<1>7. made + 1 \in 1..Cardinality(Writers)
  BY <1>2, <1>3, <1>4, <1>6
<1> QED
  BY <1>3, <1>5, <1>7 DEF Sessions

LEMMA TypeInit == Init => TypeOK
<1>1. Cardinality(Writers) \in Nat
  BY StreamAssumption, FS_CardinalityType
<1> SUFFICES ASSUME Init PROVE TypeOK
  OBVIOUS
<1>2. <<>> \in Seq(Event) /\ 0 \in 0..MaxEvents /\ 0 \in 0..MaxNow
      /\ made \in 0..Cardinality(Writers)
  BY <1>1, StreamAssumption DEF Init
<1> QED
  BY <1>2 DEF Init, TypeOK

LEMMA MarkDoneType ==
    ASSUME TypeOK, NEW s \in Sessions, MarkDone(s)
    PROVE  /\ done' \in [Sessions -> BOOLEAN]
           /\ doneAt' \in [Sessions -> 0..MaxNow]
           /\ closed' \in [Readers -> BOOLEAN]
           /\ subs' \in [Sessions -> SUBSET Readers]
BY DEF TypeOK, MarkDone

LEMMA UnsubType ==
    ASSUME TypeOK, NEW r \in Readers, rsess[r] \in Sessions, Unsub(r)
    PROVE  closed' \in [Readers -> BOOLEAN] /\ subs' \in [Sessions -> SUBSET Readers]
<1>1. subs[rsess[r]] \ {r} \in SUBSET Readers
  BY DEF TypeOK
<1>2. subs' = [subs EXCEPT ![rsess[r]] = subs[rsess[r]] \ {r}]
      /\ closed' = [closed EXCEPT ![r] = closed[r] \/ r \in subs[rsess[r]]]
  BY DEF Unsub
<1> QED
  BY <1>1, <1>2 DEF TypeOK

LEMMA TypeInductive == Linked /\ [Next]_vars => TypeOK'
<1> SUFFICES ASSUME Linked, [Next]_vars PROVE TypeOK'
  OBVIOUS
<1> USE DEF regVars, sessVars, writerVars, readerVars, chanVars, histVars
<1>0. /\ TypeOK /\ WriterInv /\ ReaderInv
      /\ \A w \in Writers : wpc[w] # "new" => wsess[w] \in Sessions
      /\ \A r \in Readers : rpc[r] \notin {"new", "notfound"} => rsess[r] \in Sessions
      /\ registry # None => registry \in Sessions
      /\ 1..made \subseteq Sessions
  BY SessionType DEF Linked
<1>1. ASSUME NEW w \in Writers, WriterNext(w) PROVE TypeOK'
  <2>1. CASE Start(w)
    <3>1. CASE registry # None
      BY <1>0, <2>1, <3>1 DEF Start, TypeOK
    <3>2. CASE registry = None
      <4>1. made + 1 \in Sessions
        BY <1>0, <2>1, RoomForSession DEF Start
      <4>2. made' = made + 1 /\ registry' = made + 1 /\ wsess' = [wsess EXCEPT ![w] = made + 1]
        BY <2>1, <3>2 DEF Start
      <4>3. made' \in 0..Cardinality(Writers) /\ registry' \in 1..made'
        BY <1>0, <4>1, <4>2 DEF TypeOK, Sessions
      <4>4. wsess' \in [Writers -> Sessions \cup {None}]
        BY <1>0, <4>1, <4>2 DEF TypeOK
      <4> QED
        BY <1>0, <2>1, <3>2, <4>3, <4>4 DEF Start, TypeOK
    <3> QED
      BY <3>1, <3>2
  <2>2. ASSUME NEW isEnd \in BOOLEAN, Emit(w, isEnd) PROVE TypeOK'
    <3> DEFINE e == [by |-> w, id |-> eventID[w] + 1, end |-> isEnd]
    <3>1. eventID[w] + 1 \in 1..MaxEvents /\ wsess[w] \in Sessions
      BY <1>0, <2>2, StreamAssumption DEF Emit, TypeOK, WriterInv
    <3>2. e \in Event
      BY <3>1 DEF Event
    <3>3. events' \in [Sessions -> Seq(Event)]
      <4>1. Append(events[wsess[w]], e) \in Seq(Event)
        BY <1>0, <3>1, <3>2 DEF TypeOK
      <4>2. events' = [events EXCEPT ![wsess[w]] = Append(events[wsess[w]], e)]
        BY <2>2 DEF Emit
      <4> QED
        BY <1>0, <4>1, <4>2 DEF TypeOK
    <3>4. eventID' \in [Writers -> 0..MaxEvents] /\ toSend' \in [Writers -> SUBSET Readers]
      <4>1. eventID' = [eventID EXCEPT ![w] = eventID[w] + 1]
            /\ toSend' = [toSend EXCEPT ![w] = subs[wsess[w]]]
        BY <2>2 DEF Emit
      <4>2. subs[wsess[w]] \in SUBSET Readers /\ eventID[w] + 1 \in 0..MaxEvents
        BY <1>0, <3>1, StreamAssumption DEF TypeOK
      <4> QED
        BY <1>0, <4>1, <4>2 DEF TypeOK
    <3>5. window' \in [Readers -> SUBSET Event]
      BY <1>0, <2>2, <3>2 DEF Emit, TypeOK
    <3> QED
      BY <1>0, <2>2, <3>3, <3>4, <3>5 DEF Emit, TypeOK
  <2>3. ASSUME NEW r \in Readers, Deliver(w, r) PROVE TypeOK'
    <3>1. Current(w) \in Event
      <4>1. eventID[w] > 0
        BY <1>0, <2>3 DEF Deliver, WriterInv, TypeOK
      <4> QED
        BY <4>1, CurrentIs
    <3>2. chan' \in [Readers -> Seq(Event)] /\ dropped' \in [Readers -> SUBSET Event]
      <4>1. chan[r] \in Seq(Event) /\ dropped[r] \in SUBSET Event
        BY <1>0 DEF TypeOK
      <4>2. Append(chan[r], Current(w)) \in Seq(Event)
            /\ dropped[r] \cup {Current(w)} \in SUBSET Event
        BY <3>1, <4>1
      <4>3. \/ chan' = [chan EXCEPT ![r] = Append(chan[r], Current(w))] /\ UNCHANGED dropped
            \/ dropped' = [dropped EXCEPT ![r] = dropped[r] \cup {Current(w)}] /\ UNCHANGED chan
        BY <2>3 DEF Deliver
      <4>4. chan \in [Readers -> Seq(Event)] /\ dropped \in [Readers -> SUBSET Event]
        BY <1>0 DEF TypeOK
      <4>5. CASE UNCHANGED dropped /\ chan' = [chan EXCEPT ![r] = Append(chan[r], Current(w))]
        BY <4>2, <4>4, <4>5
      <4>6. CASE UNCHANGED chan /\ dropped' = [dropped EXCEPT ![r] = dropped[r] \cup {Current(w)}]
        BY <4>2, <4>4, <4>6
      <4> QED
        BY <4>3, <4>5, <4>6
    <3> QED
      BY <1>0, <2>3, <3>2 DEF Deliver, TypeOK
  <2>4. ASSUME NEW r \in Readers, DeliverPanics(w, r) PROVE TypeOK'
    BY <1>0, <2>4 DEF DeliverPanics, TypeOK
  <2>5. CASE Finish(w) \/ Cancel(w)
    <3>1. wsess[w] \in Sessions /\ MarkDone(wsess[w])
      BY <1>0, <2>5 DEF Finish, Cancel
    <3>2. /\ done' \in [Sessions -> BOOLEAN] /\ doneAt' \in [Sessions -> 0..MaxNow]
          /\ closed' \in [Readers -> BOOLEAN] /\ subs' \in [Sessions -> SUBSET Readers]
      BY <1>0, <3>1, MarkDoneType
    <3> QED
      BY <1>0, <2>5, <3>2 DEF Finish, Cancel, TypeOK
  <2> QED
    BY <1>1, <2>1, <2>2, <2>3, <2>4, <2>5 DEF WriterNext
<1>2. ASSUME NEW r \in Readers, ReaderNext(r) PROVE TypeOK'
  <2>1. CASE Get(r)
    BY <1>0, <2>1 DEF Get, Goto, TypeOK
  <2>2. CASE Replay(r)
    <3>1. rsess[r] \in Sessions
      BY <1>0, <2>2 DEF Replay
    <3>2. EventsAfter(events[rsess[r]], last[r]) \in Seq(Event)
      <4>1. events[rsess[r]] \in Seq(Event) /\ last[r] \in Nat
        BY <1>0, <3>1, StreamAssumption DEF TypeOK
      <4> QED
        BY <4>1, EventsAfterSelects
    <3> QED
      BY <1>0, <2>2, <3>2 DEF Replay, Goto, TypeOK
  <2>3. CASE CheckDone(r)
    BY <1>0, <2>3 DEF CheckDone, Goto, TypeOK
  <2>4. CASE Subscribe(r)
    BY <1>0, <2>4 DEF Subscribe, Goto, TypeOK
  <2>5. CASE Receive(r)
    <3>1. rsess[r] \in Sessions /\ chan[r] \in Seq(Event) /\ chan[r] # <<>>
      BY <1>0, <2>5 DEF Receive, TypeOK
    <3>2. Head(chan[r]) \in Event /\ Tail(chan[r]) \in Seq(Event)
      BY <3>1
    <3>3. seen' \in [Readers -> Seq(Event)] /\ chan' \in [Readers -> Seq(Event)]
      BY <1>0, <2>5, <3>2 DEF Receive, TypeOK
    <3>4. /\ rpc' = [rpc EXCEPT ![r] = "closed"] \/ UNCHANGED rpc
          /\ subs' \in [Sessions -> SUBSET Readers] /\ closed' \in [Readers -> BOOLEAN]
      <4>1. \/ /\ rpc' = [rpc EXCEPT ![r] = "closed"]
               /\ Unsub(r)
            \/ UNCHANGED <<rpc, subs, closed>>
        BY <2>5 DEF Receive, Goto
      <4>2. CASE rpc' = [rpc EXCEPT ![r] = "closed"] /\ Unsub(r)
        BY <1>0, <3>1, <4>2, UnsubType
      <4>3. CASE UNCHANGED <<rpc, subs, closed>>
        BY <1>0, <4>3 DEF TypeOK
      <4> QED
        BY <4>1, <4>2, <4>3
    <3> QED
      BY <1>0, <2>5, <3>3, <3>4 DEF Receive, TypeOK
  <2>6. CASE ReceiveClosed(r)
    BY <1>0, <2>6 DEF ReceiveClosed, Goto, Unsub, TypeOK
  <2>7. CASE Disconnect(r)
    BY <1>0, <2>7 DEF Disconnect, Goto, Unsub, TypeOK
  <2> QED
    BY <1>2, <2>1, <2>2, <2>3, <2>4, <2>5, <2>6, <2>7 DEF ReaderNext
<1>3. CASE Cleanup
  BY <1>0, <1>3, StreamAssumption DEF Cleanup, TypeOK
<1>4. CASE UNCHANGED vars
  BY <1>0, <1>4 DEF vars, TypeOK
<1> QED
  BY <1>1, <1>2, <1>3, <1>4 DEF Next

-----------------------------------------------------------------------------
(* Who is linked to what stays so.                                         *)

LEMMA WriterInductive == Linked /\ [Next]_vars => WriterInv'
<1> SUFFICES ASSUME Linked, [Next]_vars PROVE WriterInv'
  OBVIOUS
<1> USE DEF regVars, sessVars, writerVars, readerVars, chanVars, histVars
<1>0. TypeOK /\ WriterInv
  BY DEF Linked
<1>1. ASSUME NEW w \in Writers, WriterNext(w) PROVE WriterInv'
  <2>1. CASE Start(w)
    <3>1. /\ Cardinality(Started)' = Cardinality(Started) + 1
          /\ Cardinality(Started) \in Nat
      <4>1. wpc[w] = "new" /\ wpc' = [wpc EXCEPT ![w] = "open"]
        BY <2>1 DEF Start
      <4>2. Started \in SUBSET Writers
        BY DEF Started
      <4> QED
        BY <1>0, <4>1, <4>2, RoomForSession, StreamAssumption, FS_Subset, FS_CardinalityType
    <3>2. made \in Nat /\ made' \in {made, made + 1} /\ wsess'[w] \in 1..made'
      BY <1>0, <2>1 DEF Start, TypeOK
    <3>3. \A v \in Writers \ {w} : wsess'[v] = wsess[v] /\ wpc'[v] = wpc[v]
      BY <1>0, <2>1 DEF Start, TypeOK
    <3>4. wpc'[w] = "open" /\ eventID[w] = 0 /\ toSend[w] = {} /\ eventID[w] < MaxEvents
          /\ UNCHANGED <<eventID, toSend, events>>
      BY <1>0, <2>1 DEF Start, TypeOK, WriterInv
    <3>5. 1..made \subseteq 1..made'
      BY <3>2
    <3> QED
      BY <1>0, <3>1, <3>2, <3>3, <3>4, <3>5 DEF WriterInv
  <2>2. ASSUME NEW isEnd \in BOOLEAN, Emit(w, isEnd) PROVE WriterInv'
    <3> DEFINE e == [by |-> w, id |-> eventID[w] + 1, end |-> isEnd]
               s == wsess[w]
    <3>1. s \in Sessions /\ events[s] \in Seq(Event) /\ e \in Event
      <4>1. s \in Sessions /\ events[s] \in Seq(Event)
        BY <1>0, <2>2, SessionType DEF Emit, TypeOK, Linked
      <4>2. eventID[w] \in Nat /\ eventID[w] < MaxEvents
        BY <1>0, <2>2, StreamAssumption DEF Emit, TypeOK, WriterInv
      <4> QED
        BY <4>1, <4>2, StreamAssumption DEF Event
    <3>2. events' = [events EXCEPT ![s] = Append(events[s], e)]
      BY <2>2 DEF Emit
    <3>3. Range(events'[s]) = Range(events[s]) \cup {e}
      BY <1>0, <3>1, <3>2, RangeAppend DEF TypeOK
    <3>4. \A t \in Sessions \ {s} : events'[t] = events[t]
      BY <1>0, <3>2 DEF TypeOK
    <3>5. /\ wpc[w] = "open" /\ eventID'[w] = eventID[w] + 1 /\ eventID[w] \in Nat
          /\ wpc'[w] = (IF isEnd THEN "ending" ELSE "open")
          /\ isEnd \/ eventID[w] + 1 < MaxEvents
          /\ UNCHANGED <<made, wsess>>
      BY <1>0, <2>2 DEF Emit, TypeOK
    <3>6. \A v \in Writers \ {w} :
            wpc'[v] = wpc[v] /\ eventID'[v] = eventID[v] /\ toSend'[v] = toSend[v]
      BY <1>0, <2>2 DEF Emit, TypeOK
    <3>7. Started' = Started
      BY <3>5, <3>6 DEF Started
    <3>8. ASSUME NEW v \in Writers, eventID'[v] > 0
          PROVE  \E f \in Range(events'[wsess[v]]) : f.by = v /\ f.id = eventID'[v]
      <4>1. CASE v = w
        <5>1. e \in Range(events'[s]) /\ e.by = w /\ e.id = eventID[w] + 1
          BY <3>3
        <5> QED
          BY <3>5, <4>1, <5>1
      <4>2. CASE v # w
        <5>1. eventID[v] > 0 /\ wpc[v] # "new"
          BY <1>0, <3>6, <3>8, <4>2 DEF WriterInv
        <5>2. wsess[v] \in Sessions
          BY <5>1, SessionType DEF Linked
        <5>3. PICK f \in Range(events[wsess[v]]) : f.by = v /\ f.id = eventID[v]
          BY <1>0, <5>1 DEF WriterInv
        <5>4. f \in Range(events'[wsess[v]])
          BY <3>3, <3>4, <5>2, <5>3
        <5> QED
          BY <3>6, <4>2, <5>3, <5>4
      <4> QED
        BY <4>1, <4>2
    <3>9. ASSUME NEW v \in Writers
          PROVE  /\ wpc'[v] = "new" => wsess'[v] = None /\ eventID'[v] = 0
                 /\ wpc'[v] # "new" => wsess'[v] \in 1..made'
                 /\ wpc'[v] \in {"new", "open"} => eventID'[v] < MaxEvents
                 /\ wpc'[v] \in {"new", "finished", "cancelled"} => toSend'[v] = {}
                 /\ eventID'[v] = 0 => toSend'[v] = {}
      <4>1. CASE v = w
        BY <1>0, <3>5, <4>1 DEF WriterInv
      <4>2. CASE v # w
        BY <1>0, <3>5, <3>6, <4>2 DEF WriterInv
      <4> QED
        BY <4>1, <4>2
    <3>10. made' <= Cardinality(Started')
      BY <1>0, <3>5, <3>7 DEF WriterInv
    <3> QED
      BY <3>5, <3>8, <3>9, <3>10 DEF WriterInv
  <2>3. CASE \E r \in Readers : Deliver(w, r) \/ DeliverPanics(w, r)
    <3>1. /\ UNCHANGED <<made, wsess, eventID, events>>
          /\ \A v \in Writers : toSend'[v] \subseteq toSend[v]
          /\ \A v \in Writers : wpc'[v] = wpc[v] \/ (wpc'[v] = "panicked" /\ toSend[v] # {} /\ v = w)
      <4>1. ASSUME NEW r \in Readers, Deliver(w, r)
            PROVE  /\ UNCHANGED <<made, wsess, eventID, events, wpc>>
                   /\ \A v \in Writers : toSend'[v] \subseteq toSend[v]
        BY <1>0, <4>1 DEF Deliver, TypeOK
      <4>2. ASSUME NEW r \in Readers, DeliverPanics(w, r)
            PROVE  /\ UNCHANGED <<made, wsess, eventID, events, toSend>>
                   /\ toSend[w] # {}
                   /\ \A v \in Writers : wpc'[v] = wpc[v] \/ (wpc'[v] = "panicked" /\ v = w)
        BY <1>0, <4>2 DEF DeliverPanics, TypeOK
      <4> QED
        BY <2>3, <4>1, <4>2
    <3>2. Started' = Started
      BY <1>0, <3>1 DEF Started, WriterInv
    <3> QED
      BY <1>0, <3>1, <3>2 DEF WriterInv
  <2>4. CASE Finish(w) \/ Cancel(w)
    <3>1. /\ UNCHANGED <<made, wsess, eventID, events, toSend>>
          /\ toSend[w] = {} /\ wpc[w] \in {"open", "ending"}
          /\ wpc'[w] \in {"finished", "cancelled"}
          /\ \A v \in Writers \ {w} : wpc'[v] = wpc[v]
      BY <1>0, <2>4 DEF Finish, Cancel, TypeOK
    <3>2. Started' = Started
      BY <3>1 DEF Started
    <3> QED
      BY <1>0, <3>1, <3>2 DEF WriterInv
  <2> QED
    BY <1>1, <2>1, <2>2, <2>3, <2>4 DEF WriterNext
<1>2. CASE (\E r \in Readers : ReaderNext(r)) \/ Cleanup \/ UNCHANGED vars
  <2>1. UNCHANGED <<made, wpc, wsess, eventID, toSend, events>>
    BY <1>2 DEF ReaderNext, Get, Replay, CheckDone, Subscribe, Receive, ReceiveClosed,
         Disconnect, Cleanup, vars
  <2> QED
    BY <1>0, <2>1 DEF WriterInv, Started
<1> QED
  BY <1>1, <1>2 DEF Next

\* unsub, as the other subscribers see it.
LEMMA UnsubStep ==
    ASSUME TypeOK, NEW r \in Readers, rsess[r] \in Sessions, Unsub(r)
    PROVE  /\ \A q \in Readers \ {r} : closed'[q] = closed[q]
           /\ closed'[r] = (closed[r] \/ r \in subs[rsess[r]])
           /\ \A s \in Sessions, q \in Readers :
                q \in subs'[s] <=> q \in subs[s] /\ ~(q = r /\ s = rsess[r])
<1>1. \A q \in Readers \ {r} : closed'[q] = closed[q]
  BY DEF Unsub, TypeOK
<1>2. closed'[r] = (closed[r] \/ r \in subs[rsess[r]])
  BY DEF Unsub, TypeOK
<1>3. subs' = [subs EXCEPT ![rsess[r]] = subs[rsess[r]] \ {r}]
  BY DEF Unsub
<1>4. \A s \in Sessions : subs'[s] = IF s = rsess[r] THEN subs[s] \ {r} ELSE subs[s]
  BY <1>3 DEF TypeOK
<1> QED
  BY <1>1, <1>2, <1>4

LEMMA MarkDoneStep ==
    ASSUME TypeOK, NEW s \in Sessions, MarkDone(s)
    PROVE  /\ \A r \in Readers : closed'[r] <=> closed[r] \/ r \in subs[s]
           /\ subs'[s] = {} /\ done'[s]
           /\ \A t \in Sessions \ {s} : subs'[t] = subs[t] /\ done'[t] = done[t]
BY DEF TypeOK, MarkDone

LEMMA ReaderInductive == Linked /\ [Next]_vars => ReaderInv'
<1> SUFFICES ASSUME Linked, [Next]_vars PROVE ReaderInv'
  OBVIOUS
<1> USE DEF regVars, sessVars, writerVars, readerVars, chanVars, histVars
<1>0. TypeOK /\ WriterInv /\ ReaderInv
  BY DEF Linked
<1>1. ASSUME NEW w \in Writers, WriterNext(w) PROVE ReaderInv'
  <2>1. CASE Start(w)
    <3>1. UNCHANGED <<rpc, rsess, seen, chan, closed, subs, toSend>> /\ toSend[w] = {}
          /\ \A v \in Writers \ {w} : wsess'[v] = wsess[v]
      BY <1>0, <2>1 DEF Start, TypeOK, WriterInv
    <3>2. 1..made \subseteq 1..made'
      BY <1>0, <2>1 DEF Start, TypeOK
    <3> QED
      BY <1>0, <3>1, <3>2 DEF ReaderInv
  <2>2. ASSUME NEW isEnd \in BOOLEAN, Emit(w, isEnd) PROVE ReaderInv'
    <3>1. UNCHANGED <<rpc, rsess, seen, chan, closed, subs, wsess, made>>
          /\ \A v \in Writers \ {w} : toSend'[v] = toSend[v]
      BY <1>0, <2>2 DEF Emit, TypeOK
    <3>2. toSend'[w] = subs[wsess[w]] /\ wsess[w] \in Sessions
      BY <1>0, <2>2, SessionType DEF Emit, TypeOK
    <3>3. \A r \in subs[wsess[w]] : rsess[r] = wsess[w] /\ rpc[r] \in Reached
      BY <1>0, <3>2 DEF ReaderInv, TypeOK, Reached
    <3> QED
      BY <1>0, <3>1, <3>2, <3>3 DEF ReaderInv
  <2>3. ASSUME NEW r \in Readers, Deliver(w, r) PROVE ReaderInv'
    <3>1. /\ UNCHANGED <<rpc, rsess, seen, closed, subs, wsess, made>>
          /\ \A v \in Writers : toSend'[v] \subseteq toSend[v]
          /\ \A q \in Readers \ {r} : chan'[q] = chan[q]
          /\ r \in toSend[w]
      BY <1>0, <2>3 DEF Deliver, TypeOK
    <3>2. rpc[r] \in Reached
      <4>1. \A q \in Readers, v \in Writers : q \in toSend[v] => rpc[q] \in Reached
        BY <1>0 DEF ReaderInv
      <4> QED
        BY <3>1, <4>1
    <3> QED
      BY <1>0, <3>1, <3>2 DEF ReaderInv
  <2>4. ASSUME NEW r \in Readers, DeliverPanics(w, r) PROVE ReaderInv'
    BY <1>0, <2>4 DEF DeliverPanics, ReaderInv
  <2>5. CASE Finish(w) \/ Cancel(w)
    <3>1. UNCHANGED <<rpc, rsess, seen, chan, toSend, wsess, made>> /\ MarkDone(wsess[w])
          /\ wsess[w] \in Sessions
      BY <1>0, <2>5, SessionType DEF Finish, Cancel
    <3>2. /\ \A r \in Readers : closed'[r] <=> closed[r] \/ r \in subs[wsess[w]]
          /\ subs'[wsess[w]] = {}
          /\ \A t \in Sessions \ {wsess[w]} : subs'[t] = subs[t]
      BY <1>0, <3>1, MarkDoneStep
    <3>3. ASSUME NEW r \in Readers, NEW s \in Sessions, r \in subs'[s]
          PROVE  s = rsess[r] /\ rpc[r] = "live" /\ ~closed'[r]
      BY <1>0, <3>1, <3>2, <3>3 DEF ReaderInv
    <3>4. ASSUME NEW r \in Readers, rpc[r] = "live", ~closed'[r]
          PROVE  r \in subs'[rsess[r]]
      <4>1. rsess[r] \in Sessions
        BY <1>0, <3>4, SessionType
      <4> QED
        BY <1>0, <3>2, <3>4, <4>1 DEF ReaderInv
    <3>5. ASSUME NEW r \in Readers, rpc[r] \notin Reached PROVE ~closed'[r]
      BY <1>0, <3>1, <3>2, <3>5 DEF ReaderInv, Reached
    <3> QED
      BY <1>0, <3>1, <3>3, <3>4, <3>5 DEF ReaderInv
  <2> QED
    BY <1>1, <2>1, <2>2, <2>3, <2>4, <2>5 DEF WriterNext
<1>2. ASSUME NEW r \in Readers, ReaderNext(r) PROVE ReaderInv'
  <2>1. CASE Get(r)
    <3>1. /\ UNCHANGED <<seen, chan, closed, subs, toSend, wsess, made>> /\ rpc[r] = "new"
          /\ \A q \in Readers \ {r} : rpc'[q] = rpc[q] /\ rsess'[q] = rsess[q]
          /\ \/ rpc'[r] = "notfound" /\ rsess'[r] = rsess[r]
             \/ rpc'[r] = "found" /\ rsess'[r] \in 1..made
      BY <1>0, <2>1 DEF Get, Goto, TypeOK
    <3>2. /\ \A s \in Sessions : r \notin subs[s]
          /\ \A v \in Writers : r \notin toSend[v]
          /\ seen[r] = <<>> /\ chan[r] = <<>> /\ ~closed[r] /\ rsess[r] = None
      BY <1>0, <3>1 DEF ReaderInv, Reached
    <3>3. ASSUME NEW q \in Readers
          PROVE  /\ rpc'[q] \in {"new", "notfound"} => rsess'[q] = None
                 /\ rpc'[q] \notin {"new", "notfound"} => rsess'[q] \in 1..made
                 /\ rpc'[q] \notin Reached \cup {"replayed", "checked"} => seen[q] = <<>>
                 /\ rpc'[q] \notin Reached => chan[q] = <<>> /\ ~closed[q]
                 /\ \A s \in Sessions : q \in subs[s] => s = rsess'[q] /\ rpc'[q] = "live" /\ ~closed[q]
                 /\ rpc'[q] = "live" /\ ~closed[q] => q \in subs[rsess'[q]]
                 /\ \A v \in Writers : q \in toSend[v] => rsess'[q] = wsess[v] /\ rpc'[q] \in Reached
      <4>1. CASE q = r
        BY <3>1, <3>2, <4>1
      <4>2. CASE q # r
        BY <1>0, <3>1, <4>2 DEF ReaderInv
      <4> QED
        BY <4>1, <4>2
    <3> QED
      BY <3>1, <3>3 DEF ReaderInv
  <2>2. CASE Replay(r) \/ CheckDone(r)
    <3>1. UNCHANGED <<rsess, chan, closed, subs, toSend, wsess, made>>
          /\ rpc[r] \in {"found", "replayed"}
          /\ rpc'[r] \in {"replayed", "closed", "checked"}
          /\ \A q \in Readers \ {r} : rpc'[q] = rpc[q] /\ seen'[q] = seen[q]
      BY <1>0, <2>2 DEF Replay, CheckDone, Goto, TypeOK
    <3> QED
      BY <1>0, <3>1 DEF ReaderInv, Reached
  <2>3. CASE Subscribe(r)
    <3>1. UNCHANGED <<rsess, seen, chan, closed, toSend, wsess, made>>
          /\ rpc[r] = "checked" /\ rpc'[r] = "live" /\ rsess[r] \in Sessions
          /\ \A q \in Readers \ {r} : rpc'[q] = rpc[q]
      BY <1>0, <2>3, SessionType DEF Subscribe, Goto, TypeOK
    <3>2. subs' = [subs EXCEPT ![rsess[r]] = subs[rsess[r]] \cup {r}]
      BY <2>3 DEF Subscribe
    <3>3. \A s \in Sessions : subs'[s] = IF s = rsess[r] THEN subs[s] \cup {r} ELSE subs[s]
      BY <1>0, <3>2 DEF TypeOK
    <3>4. ~closed[r]
      BY <1>0, <3>1 DEF ReaderInv, Reached
    <3>5. ASSUME NEW q \in Readers, NEW s \in Sessions, q \in subs'[s]
          PROVE  s = rsess[q] /\ rpc'[q] = "live" /\ ~closed[q]
      <4>1. CASE q = r
        <5>1. r \notin subs[s]
          BY <1>0, <3>1 DEF ReaderInv
        <5> QED
          BY <3>1, <3>3, <3>4, <3>5, <4>1, <5>1
      <4>2. CASE q # r
        <5>1. q \in subs[s]
          BY <3>3, <3>5, <4>2
        <5> QED
          BY <1>0, <3>1, <4>2, <5>1 DEF ReaderInv
      <4> QED
        BY <4>1, <4>2
    <3>6. ASSUME NEW q \in Readers, rpc'[q] = "live", ~closed[q]
          PROVE  q \in subs'[rsess[q]]
      <4>1. rsess[q] \in Sessions /\ (q = r \/ q \in subs[rsess[q]])
        BY <1>0, <3>1, <3>6, SessionType DEF ReaderInv
      <4> QED
        BY <3>3, <4>1
    <3> QED
      BY <1>0, <3>1, <3>5, <3>6 DEF ReaderInv, Reached
  <2>4. CASE (Receive(r) /\ UNCHANGED <<rpc, subs, closed>>)
    <3>1. UNCHANGED <<rpc, rsess, closed, subs, toSend, wsess, made>> /\ rpc[r] = "live"
          /\ \A q \in Readers \ {r} : chan'[q] = chan[q] /\ seen'[q] = seen[q]
      BY <1>0, <2>4 DEF Receive, TypeOK
    <3> QED
      BY <1>0, <3>1 DEF ReaderInv, Reached
  <2>5. CASE \/ Receive(r) /\ Goto(r, "closed") /\ Unsub(r)
             \/ ReceiveClosed(r) \/ Disconnect(r)
    <3>1. UNCHANGED <<rsess, toSend, wsess, made>> /\ rpc[r] = "live" /\ Unsub(r)
          /\ rpc'[r] \in {"closed", "gone"} /\ rsess[r] \in Sessions
          /\ \A q \in Readers \ {r} : rpc'[q] = rpc[q] /\ seen'[q] = seen[q] /\ chan'[q] = chan[q]
      BY <1>0, <2>5, SessionType DEF Receive, ReceiveClosed, Disconnect, Goto, TypeOK
    <3>2. /\ \A q \in Readers \ {r} : closed'[q] = closed[q]
          /\ \A s \in Sessions, q \in Readers :
               q \in subs'[s] <=> q \in subs[s] /\ ~(q = r /\ s = rsess[r])
      BY <1>0, <3>1, UnsubStep
    <3>3. ASSUME NEW q \in Readers, NEW s \in Sessions, q \in subs'[s]
          PROVE  s = rsess[q] /\ rpc'[q] = "live" /\ ~closed'[q]
      BY <1>0, <3>1, <3>2, <3>3 DEF ReaderInv
    <3>4. ASSUME NEW q \in Readers, rpc'[q] = "live", ~closed'[q]
          PROVE  q \in subs'[rsess[q]]
      <4>1. q # r /\ rsess[q] \in Sessions
        BY <1>0, <3>1, <3>4, SessionType
      <4> QED
        BY <1>0, <3>1, <3>2, <3>4, <4>1 DEF ReaderInv
    <3> QED
      BY <1>0, <3>1, <3>2, <3>3, <3>4 DEF ReaderInv, Reached
  <2> QED
    BY <1>2, <2>1, <2>2, <2>3, <2>4, <2>5 DEF ReaderNext, Receive
<1>3. CASE Cleanup \/ UNCHANGED vars
  BY <1>0, <1>3 DEF Cleanup, vars, ReaderInv
<1> QED
  BY <1>1, <1>2, <1>3 DEF Next

-----------------------------------------------------------------------------
(* The order of events.                                                    *)

\* What a step may do to the writers without disturbing what was emitted.
Undisturbed(S) ==
    \A w \in S : /\ wsess[w] # None => wsess'[w] = wsess[w]
                 /\ eventID'[w] = eventID[w]
                 /\ wpc'[w] \in {"new", "open"} => wsess[w] = None \/ wpc[w] \in {"new", "open"}

LEMMA EmittedStays ==
    ASSUME Undisturbed(Writers), NEW e \in Event, NEW s \in Sessions, Emitted(e, s)
    PROVE  Emitted(e, s)'
BY NoneAssumption DEF Undisturbed, Emitted, Event

\* A reader that was sent something has a session.
LEMMA SeenHasSession ==
    ASSUME Linked, NEW r \in Readers, NEW e \in Range(seen[r]) \cup Range(chan[r])
    PROVE  e \in Event /\ rsess[r] \in Sessions /\ rpc[r] \in Reached \cup {"replayed", "checked"}
<1>1. seen[r] \in Seq(Event) /\ chan[r] \in Seq(Event)
  BY DEF Linked, TypeOK
<1>2. e \in Event
  BY <1>1, RangeIs
<1>3. seen[r] # <<>> \/ chan[r] # <<>>
  BY EmptyRange
<1>4. rpc[r] \in Reached \cup {"replayed", "checked"}
  BY <1>3 DEF Linked, ReaderInv
<1> QED
  BY <1>2, <1>4, SessionType DEF Linked, Reached

\* Steps that send nothing and store nothing keep the order.
LEMMA OrderKept ==
    ASSUME Linked, Undisturbed(Writers), UNCHANGED <<events, seen, chan>>,
           \A r \in Readers : rpc[r] \in Reached \cup {"replayed", "checked"} => rsess'[r] = rsess[r],
           \A w \in Writers : toSend'[w] \subseteq toSend[w]
    PROVE  OrderInv'
<1>1. ASSUME NEW s \in Sessions
      PROVE  Ordered(events'[s]) /\ \A e \in Range(events'[s]) : Emitted(e, s)'
  <2>1. Ordered(events[s]) /\ events[s] \in Seq(Event)
        /\ \A e \in Range(events[s]) : Emitted(e, s)
    BY DEF Linked, OrderInv, TypeOK
  <2>2. \A e \in Range(events[s]) : e \in Event
    BY <2>1, RangeIs
  <2> QED
    BY <2>1, <2>2, EmittedStays
<1>2. ASSUME NEW r \in Readers
      PROVE  /\ Ordered(seen'[r]) /\ Ordered(chan'[r])
             /\ \A e \in Range(seen'[r]) \cup Range(chan'[r]) : Got(e, r)'
             /\ \A e \in Range(seen'[r]), f \in Range(chan'[r]) : e.by = f.by => e.id < f.id
  <2>1. ASSUME NEW e \in Range(seen[r]) \cup Range(chan[r]) PROVE Got(e, r)'
    <3>1. e \in Event /\ rsess[r] \in Sessions /\ rsess'[r] = rsess[r] /\ e.by \in Writers
      BY SeenHasSession DEF Event
    <3>2. Got(e, r)
      BY DEF Linked, OrderInv
    <3>3. Emitted(e, rsess[r])'
      BY <3>1, <3>2, EmittedStays DEF Got, Emitted
    <3>4. eventID'[e.by] = eventID[e.by]
      BY <3>1 DEF Undisturbed
    <3> QED
      BY <3>1, <3>2, <3>3, <3>4 DEF Got
  <2> QED
    BY <2>1 DEF Linked, OrderInv
<1> QED
  BY <1>1, <1>2 DEF OrderInv

\* A new event comes after all that its writer has sent.
LEMMA EmitOrders ==
    ASSUME Linked, NEW w \in Writers, NEW isEnd \in BOOLEAN, Emit(w, isEnd)
    PROVE  OrderInv'
<1> USE DEF regVars, sessVars, writerVars, readerVars, chanVars, histVars
<1>x. PICK x : x = [by |-> w, id |-> eventID[w] + 1, end |-> isEnd]
  OBVIOUS
<1>s. PICK s : s = wsess[w]
  OBVIOUS
<1>0. TypeOK /\ WriterInv /\ ReaderInv
  BY DEF Linked
<1>1. s \in Sessions /\ events[s] \in Seq(Event) /\ x \in Event
  <2>1. s \in Sessions /\ events[s] \in Seq(Event)
    BY <1>0, <1>s, SessionType DEF Emit, TypeOK, Linked
  <2>2. eventID[w] \in Nat /\ eventID[w] < MaxEvents
    BY <1>0, StreamAssumption DEF Emit, TypeOK, WriterInv
  <2> QED
    BY <1>x, <2>1, <2>2, StreamAssumption DEF Event
<1>2. /\ events' = [events EXCEPT ![s] = Append(events[s], x)]
      /\ UNCHANGED <<wsess, rsess, seen, chan>>
      /\ wpc[w] = "open" /\ eventID[w] \in Nat /\ eventID'[w] = eventID[w] + 1
      /\ (isEnd => wpc'[w] = "ending")
      /\ \A v \in Writers \ {w} : wpc'[v] = wpc[v] /\ eventID'[v] = eventID[v]
      /\ \A v \in Writers \ {w} : toSend'[v] = toSend[v]
  BY <1>0, <1>x, <1>s DEF Emit, TypeOK
<1>3. \A t \in Sessions : events'[t] = IF t = s THEN Append(events[s], x) ELSE events[t]
  BY <1>0, <1>2 DEF TypeOK
<1>4. ASSUME NEW e \in Event, NEW t \in Sessions, Emitted(e, t)
      PROVE  Emitted(e, t)' /\ (e.by = w => e.id < eventID'[w])
  BY <1>2, <1>4 DEF Emitted, Event
<1>5. Emitted(x, s)'
  BY <1>x, <1>s, <1>2 DEF Emitted
<1>6. ASSUME NEW t \in Sessions
      PROVE  Ordered(events'[t]) /\ \A e \in Range(events'[t]) : Emitted(e, t)'
  <2>1. /\ Ordered(events[t]) /\ events[t] \in Seq(Event)
        /\ \A e \in Range(events[t]) : Emitted(e, t)
    BY DEF Linked, OrderInv, TypeOK
  <2>2. Range(events[t]) = {events[t][i] : i \in 1..Len(events[t])}
    BY <2>1, RangeIs
  <2>3. \A e \in Range(events[t]) : e \in Event /\ Emitted(e, t)' /\ (e.by = w => e.id < eventID'[w])
    BY <1>4, <2>1, <2>2
  <2>4. CASE t = s
    <3>1. Range(Append(events[s], x)) = Range(events[s]) \cup {x}
      BY <1>1, RangeAppend
    <3>2. \A i \in 1..Len(events[s]) : events[s][i].by = x.by => events[s][i].id < x.id
      BY <1>x, <1>2, <2>2, <2>3, <2>4
    <3>3. Ordered(Append(events[s], x))
      BY <1>1, <2>1, <2>4, <3>2, OrderedAppend
    <3> QED
      BY <1>3, <1>5, <2>3, <2>4, <3>1, <3>3
  <2>5. CASE t # s
    BY <1>3, <2>1, <2>3, <2>5
  <2> QED
    BY <2>4, <2>5
<1>7. ASSUME NEW r \in Readers, NEW e \in Range(seen[r]) \cup Range(chan[r]) PROVE Got(e, r)'
  <2>1. e \in Event /\ rsess[r] \in Sessions /\ e.by \in Writers
    BY SeenHasSession DEF Event
  <2>2. Got(e, r)
    BY DEF Linked, OrderInv
  <2>t. PICK t \in Sessions : t = rsess[r]
    BY <2>1
  <2>3. Emitted(e, t)' /\ (e.by = w => e.id < eventID'[w])
    BY <1>4, <2>1, <2>2, <2>t DEF Got
  <2> QED
    BY <1>2, <2>1, <2>2, <2>3, <2>t DEF Got
<1>8. \A r \in Readers : /\ Ordered(seen[r]) /\ Ordered(chan[r])
                         /\ \A e \in Range(seen[r]), f \in Range(chan[r]) : e.by = f.by => e.id < f.id
  BY DEF Linked, OrderInv
<1> QED
  BY <1>2, <1>6, <1>7, <1>8 DEF OrderInv

\* What is put into a channel comes after all its reader got from that writer.
LEMMA DeliverOrders ==
    ASSUME Linked, NEW w \in Writers, NEW r \in Readers, Deliver(w, r)
    PROVE  OrderInv'
<1> USE DEF regVars, sessVars, writerVars, readerVars, chanVars, histVars
<1>x. PICK x : x = Current(w)
  OBVIOUS
<1>0. TypeOK /\ WriterInv /\ ReaderInv /\ OrderInv
  BY DEF Linked
<1>1. /\ UNCHANGED <<events, seen, wpc, wsess, eventID, rsess>>
      /\ chan' = chan \/ chan' = [chan EXCEPT ![r] = Append(chan[r], x)]
      /\ r \in toSend[w] /\ r \notin toSend'[w]
      /\ \A v \in Writers : toSend'[v] \subseteq toSend[v]
  BY <1>0, <1>x DEF Deliver, TypeOK
<1>2. /\ x \in Event /\ x.by = w /\ x.id = eventID[w] /\ Emitted(x, wsess[w])
  <2>1. eventID[w] > 0
    BY <1>0, <1>1 DEF WriterInv, TypeOK
  <2> QED
    BY <1>x, <2>1, CurrentIs
<1>3. wsess[w] = rsess[r]
  BY <1>0, <1>1 DEF ReaderInv
<1>4. ASSUME NEW q \in Readers, NEW e, Got(e, q), e.by \in Writers PROVE Got(e, q)'
  BY <1>1, <1>4 DEF Got, Emitted
<1>5. Got(x, r)'
  BY <1>1, <1>2, <1>3 DEF Got, Emitted
<1>6. ASSUME NEW q \in Readers
      PROVE  /\ Ordered(seen'[q]) /\ Ordered(chan'[q])
             /\ \A e \in Range(seen'[q]) \cup Range(chan'[q]) : Got(e, q)'
             /\ \A e \in Range(seen'[q]), f \in Range(chan'[q]) : e.by = f.by => e.id < f.id
  <2>1. /\ Ordered(seen[q]) /\ Ordered(chan[q]) /\ chan[q] \in Seq(Event)
        /\ \A e \in Range(seen[q]) \cup Range(chan[q]) : Got(e, q)
        /\ \A e \in Range(seen[q]), f \in Range(chan[q]) : e.by = f.by => e.id < f.id
    BY <1>0 DEF OrderInv, TypeOK
  <2>2. \A e \in Range(seen[q]) \cup Range(chan[q]) : Got(e, q)' /\ e.by \in Writers
    BY <1>4, <2>1, SeenHasSession DEF Event
  <2>3. CASE chan'[q] = chan[q]
    BY <1>1, <2>1, <2>2, <2>3
  <2>4. CASE q = r /\ chan'[r] = Append(chan[r], x)
    <3>1. Range(chan'[r]) = Range(chan[r]) \cup {x}
      BY <1>2, <2>1, <2>4, RangeAppend
    <3>2. \A e \in Range(seen[r]) \cup Range(chan[r]) : e.by = x.by => e.id < x.id
      BY <1>1, <1>2, <2>1, <2>4 DEF Got
    <3>3. Range(chan[r]) = {chan[r][i] : i \in 1..Len(chan[r])}
      BY <2>1, <2>4, RangeIs
    <3>4. \A i \in 1..Len(chan[r]) : chan[r][i].by = x.by => chan[r][i].id < x.id
      BY <3>2, <3>3
    <3>5. Ordered(chan'[r])
      BY <1>2, <2>1, <2>4, <3>4, OrderedAppend
    <3> QED
      BY <1>1, <1>5, <2>1, <2>2, <2>4, <3>1, <3>2, <3>5
  <2>5. chan'[q] = chan[q] \/ (q = r /\ chan'[r] = Append(chan[r], x))
    BY <1>0, <1>1 DEF TypeOK
  <2> QED
    BY <2>3, <2>4, <2>5
<1>7. ASSUME NEW s \in Sessions
      PROVE  Ordered(events'[s]) /\ \A e \in Range(events'[s]) : Emitted(e, s)'
  BY <1>0, <1>1 DEF OrderInv, Emitted
<1> QED
  BY <1>6, <1>7 DEF OrderInv

\* The stored events and those received afterwards are in order.
LEMMA ReadOrders ==
    ASSUME Linked, NEW r \in Readers, Replay(r) \/ Receive(r)
    PROVE  OrderInv'
<1> USE DEF regVars, sessVars, writerVars, readerVars, chanVars, histVars
<1>0. TypeOK /\ WriterInv /\ ReaderInv /\ OrderInv
  BY DEF Linked
<1>1. /\ UNCHANGED <<events, wpc, wsess, eventID, rsess, toSend>>
      /\ \A q \in Readers \ {r} : seen'[q] = seen[q] /\ chan'[q] = chan[q]
  BY <1>0 DEF Replay, Receive, TypeOK
<1>2. \A s \in Sessions : Ordered(events'[s]) /\ \A e \in Range(events'[s]) : Emitted(e, s)'
  BY <1>0, <1>1 DEF OrderInv, Emitted
<1>3. \A e, q : Got(e, q)' <=> Got(e, q)
  BY <1>1 DEF Got, Emitted
<1>4. CASE Replay(r)
  <2> DEFINE all == events[rsess[r]]
             out == EventsAfter(all, last[r])
  <2>1. rpc[r] = "found" /\ rsess[r] \in Sessions
    BY <1>0, <1>4, SessionType DEF Replay
  <2>2. all \in Seq(Event) /\ Ordered(all) /\ last[r] \in Nat
        /\ \A e \in Range(all) : Emitted(e, rsess[r])
    BY <1>0, <2>1, StreamAssumption DEF TypeOK, OrderInv
  <2>3. Range(out) \subseteq Range(all) /\ Ordered(out)
    BY <2>2, EventsAfterSelects
  <2>4. seen'[r] = out /\ chan'[r] = <<>>
    BY <1>0, <1>4, <2>1 DEF Replay, TypeOK, ReaderInv, Reached
  <2>5. \A w \in Writers : r \notin toSend[w]
    BY <1>0, <2>1 DEF ReaderInv, Reached
  <2>6. \A e \in Range(all) : e.by \in Writers
    <3>1. Range(all) = {all[i] : i \in 1..Len(all)}
      BY <2>2, RangeIs
    <3> QED
      <4>1. \A i \in 1..Len(all) : all[i] \in Event
        BY <2>2
      <4> QED
        BY <3>1, <4>1 DEF Event
  <2>7. \A e \in Range(out) : Got(e, r)
    BY <2>2, <2>3, <2>5, <2>6 DEF Got
  <2> HIDE DEF all, out
  <2> QED
    BY <1>0, <1>1, <1>2, <1>3, <2>3, <2>4, <2>7, EmptyRange DEF OrderInv
<1>5. CASE Receive(r)
  <2> DEFINE x == Head(chan[r])
             rest == Tail(chan[r])
  <2>1. chan[r] \in Seq(Event) /\ chan[r] # <<>> /\ seen[r] \in Seq(Event)
        /\ Ordered(chan[r]) /\ Ordered(seen[r])
    BY <1>0, <1>5 DEF Receive, TypeOK, OrderInv
  <2>2. /\ x \in Event /\ Range(chan[r]) = Range(rest) \cup {x}
        /\ Ordered(rest)
        /\ \A e \in Range(rest) : e.by = x.by => x.id < e.id
    BY <2>1, HeadTail
  <2>3. seen'[r] = Append(seen[r], x) /\ chan'[r] = rest
    BY <1>0, <1>5 DEF Receive, TypeOK
  <2> HIDE DEF x, rest
  <2>4. Range(seen'[r]) = Range(seen[r]) \cup {x}
    BY <2>1, <2>2, <2>3, RangeAppend
  <2>5. /\ \A e \in Range(seen[r]) \cup Range(chan[r]) : Got(e, r)
        /\ \A e \in Range(seen[r]), f \in Range(chan[r]) : e.by = f.by => e.id < f.id
    BY <1>0 DEF OrderInv
  <2>6. \A i \in 1..Len(seen[r]) : seen[r][i].by = x.by => seen[r][i].id < x.id
    <3>1. Range(seen[r]) = {seen[r][i] : i \in 1..Len(seen[r])}
      BY <2>1, RangeIs
    <3> QED
      BY <2>2, <2>5, <3>1
  <2>7. Ordered(seen'[r])
    BY <2>1, <2>2, <2>3, <2>6, OrderedAppend
  <2> QED
    BY <1>0, <1>1, <1>2, <1>3, <2>2, <2>3, <2>4, <2>5, <2>7 DEF OrderInv
<1> QED
  BY <1>4, <1>5

LEMMA OrderInductive == Linked /\ [Next]_vars => OrderInv'
<1> SUFFICES ASSUME Linked, [Next]_vars PROVE OrderInv'
  OBVIOUS
<1> USE DEF regVars, sessVars, writerVars, readerVars, chanVars, histVars
<1>0. TypeOK /\ WriterInv /\ ReaderInv
  BY DEF Linked
<1>1. ASSUME NEW w \in Writers, WriterNext(w) PROVE OrderInv'
  <2>1. ASSUME NEW isEnd \in BOOLEAN, Emit(w, isEnd) PROVE OrderInv'
    BY <2>1, EmitOrders
  <2>2. ASSUME NEW r \in Readers, Deliver(w, r) PROVE OrderInv'
    BY <2>2, DeliverOrders
  <2>3. CASE Start(w)
    <3>1. /\ UNCHANGED <<events, seen, chan, rsess, toSend, eventID>>
          /\ wsess[w] = None /\ wpc[w] = "new"
          /\ \A v \in Writers \ {w} : wsess'[v] = wsess[v] /\ wpc'[v] = wpc[v]
      BY <1>0, <2>3 DEF Start, TypeOK, WriterInv
    <3>2. Undisturbed(Writers)
      BY <3>1 DEF Undisturbed
    <3> QED
      BY <3>1, <3>2, OrderKept
  <2>4. CASE (\E r \in Readers : DeliverPanics(w, r)) \/ Finish(w) \/ Cancel(w)
    <3>1. /\ UNCHANGED <<events, seen, chan, rsess, toSend, eventID, wsess>>
          /\ wpc'[w] \notin {"new", "open"}
          /\ \A v \in Writers \ {w} : wpc'[v] = wpc[v]
      <4>1. ASSUME NEW r \in Readers, DeliverPanics(w, r)
            PROVE  /\ UNCHANGED <<events, seen, chan, rsess, toSend, eventID, wsess>>
                   /\ wpc' = [wpc EXCEPT ![w] = "panicked"]
        BY <4>1 DEF DeliverPanics
      <4>2. CASE Finish(w) \/ Cancel(w)
        BY <1>0, <4>2 DEF Finish, Cancel, TypeOK
      <4> QED
        BY <1>0, <2>4, <4>1, <4>2 DEF TypeOK
    <3>2. Undisturbed(Writers)
      BY <3>1 DEF Undisturbed
    <3> QED
      BY <3>1, <3>2, OrderKept
  <2> QED
    BY <1>1, <2>1, <2>2, <2>3, <2>4 DEF WriterNext
<1>2. ASSUME NEW r \in Readers, ReaderNext(r) PROVE OrderInv'
  <2>1. CASE Replay(r) \/ Receive(r)
    BY <2>1, ReadOrders
  <2>2. CASE Get(r) \/ CheckDone(r) \/ Subscribe(r) \/ ReceiveClosed(r) \/ Disconnect(r)
    <3>1. /\ UNCHANGED <<events, seen, chan, toSend, eventID, wsess, wpc>>
          /\ \A q \in Readers : rpc[q] \in Reached \cup {"replayed", "checked"} => rsess'[q] = rsess[q]
      BY <1>0, <2>2 DEF Get, CheckDone, Subscribe, ReceiveClosed, Disconnect, TypeOK, Reached
    <3>2. Undisturbed(Writers)
      BY <3>1 DEF Undisturbed
    <3> QED
      BY <3>1, <3>2, OrderKept
  <2> QED
    BY <1>2, <2>1, <2>2 DEF ReaderNext
<1>3. CASE Cleanup \/ UNCHANGED vars
  <2>1. UNCHANGED <<events, seen, chan, toSend, eventID, wsess, wpc, rsess>>
    BY <1>3 DEF Cleanup, vars
  <2>2. Undisturbed(Writers)
    BY <2>1 DEF Undisturbed
  <2> QED
    BY <2>1, <2>2, OrderKept
<1> QED
  BY <1>1, <1>2, <1>3 DEF Next

LEMMA LinkedInvariant == Spec => []Linked
<1>1. Init => Linked
  <2> SUFFICES ASSUME Init PROVE Linked
    OBVIOUS
  <2>1. Started = {} /\ made = 0
    BY DEF Init, Started
  <2>2. WriterInv
    <3>1. made <= Cardinality(Started)
      BY <2>1, FS_EmptySet
    <3>2. \A w \in Writers : wpc[w] = "new" /\ wsess[w] = None /\ eventID[w] = 0 /\ toSend[w] = {}
      BY DEF Init
    <3> QED
      BY <3>1, <3>2, StreamAssumption DEF WriterInv
  <2>3. ReaderInv
    BY DEF Init, ReaderInv, Reached
  <2>4. OrderInv
    <3>1. /\ \A s \in Sessions : events[s] = <<>>
          /\ \A r \in Readers : seen[r] = <<>> /\ chan[r] = <<>>
      BY DEF Init
    <3> QED
      BY <3>1, EmptyRange DEF OrderInv
  <2> QED
    BY <2>2, <2>3, <2>4, TypeInit DEF Linked
<1>2. Linked /\ [Next]_vars => Linked'
  BY TypeInductive, WriterInductive, ReaderInductive, OrderInductive DEF Linked
<1> QED
  BY <1>1, <1>2, PTL DEF Spec

-----------------------------------------------------------------------------
(* What a resumed reader still has to be sent, and where it is.            *)

Served(r) == rpc[r] \in {"replayed", "checked", "live"} /\ ~closed[r]

Wanted(r) == {e \in Range(events[rsess[r]]) : e.id > last[r]}

Place(r) == Range(seen[r]) \cup Range(chan[r]) \cup window[r] \cup dropped[r] \cup OnTheWay(r)

Complete(r) == Served(r) => Wanted(r) \subseteq Place(r)

\* What a writer is delivering changes only with its own next event.
LEMMA CurrentStays ==
    ASSUME Linked, NEW v \in Writers, eventID[v] > 0,
           wsess'[v] = wsess[v], eventID'[v] = eventID[v],
           Range(events[wsess[v]]) \subseteq Range(events'[wsess[v]]),
           \A e \in Range(events'[wsess[v]]) : e \in Range(events[wsess[v]]) \/ e.by # v
    PROVE  Current(v)' = Current(v)
<1>c. PICK c : c = Current(v)
  OBVIOUS
<1>1. /\ c \in Range(events[wsess[v]]) /\ c.by = v /\ c.id = eventID[v]
      /\ \A e \in Range(events[wsess[v]]) : e.by = v /\ e.id = eventID[v] => e = c
  BY <1>c, CurrentIs
<1>2. \A e \in Range(events'[wsess'[v]]) : e.by = v /\ e.id = eventID'[v] <=> e = c
  BY <1>1
<1>3. c \in Range(events'[wsess'[v]])
  BY <1>1
<1>4. (CHOOSE e \in Range(events'[wsess'[v]]) : e.by = v /\ e.id = eventID'[v]) = c
  BY <1>2, <1>3
<1> QED
  BY <1>c, <1>4 DEF Current

\* Steps that store nothing and forget nothing of a reader keep what it has.
LEMMA CompleteKept ==
    ASSUME Linked, NEW r \in Readers, Complete(r),
           Served(r)' => Served(r),
           events' = events, rsess'[r] = rsess[r], last'[r] = last[r],
           Range(seen[r]) \cup Range(chan[r]) \subseteq Range(seen'[r]) \cup Range(chan'[r]),
           window'[r] = window[r], dropped'[r] = dropped[r],
           \A v \in Writers : r \in toSend[v] =>
              /\ r \in toSend'[v]
              /\ wsess'[v] = wsess[v]
              /\ eventID'[v] = eventID[v]
    PROVE  Complete(r)'
<1>1. Wanted(r)' = Wanted(r)
  BY DEF Wanted
<1>2. ASSUME NEW v \in Writers, r \in toSend[v] PROVE Current(v)' = Current(v)
  <2>1. eventID[v] > 0
    BY <1>2, StreamAssumption DEF Linked, WriterInv, TypeOK
  <2> QED
    BY <1>2, <2>1, CurrentStays
<1>3. OnTheWay(r) \subseteq OnTheWay(r)'
  BY <1>2 DEF OnTheWay
<1>4. Place(r) \subseteq Place(r)'
  BY <1>3 DEF Place
<1> QED
  BY <1>1, <1>4 DEF Complete

\* A new event is on its way to every reader that is subscribed, and is in the
\* window of those that replayed without being subscribed yet.
LEMMA EmitComplete ==
    ASSUME Linked, NEW w \in Writers, NEW isEnd \in BOOLEAN, Emit(w, isEnd),
           NEW r \in Readers, Complete(r)
    PROVE  Complete(r)'
<1> USE DEF regVars, sessVars, writerVars, readerVars, chanVars, histVars
<1>x. PICK x : x = [by |-> w, id |-> eventID[w] + 1, end |-> isEnd]
  OBVIOUS
<1>s. PICK s : s = wsess[w]
  OBVIOUS
<1>0. TypeOK /\ WriterInv /\ ReaderInv /\ OrderInv
  BY DEF Linked
<1>1. s \in Sessions /\ events[s] \in Seq(Event) /\ x \in Event /\ eventID[w] \in Nat
  <2>1. s \in Sessions /\ events[s] \in Seq(Event)
    BY <1>0, <1>s, SessionType DEF Emit, TypeOK
  <2>2. eventID[w] \in Nat /\ eventID[w] < MaxEvents
    BY <1>0, StreamAssumption DEF Emit, TypeOK, WriterInv
  <2> QED
    BY <1>x, <2>1, <2>2, StreamAssumption DEF Event
<1>2. /\ events' = [events EXCEPT ![s] = Append(events[s], x)]
      /\ UNCHANGED <<wsess, rsess, seen, chan, rpc, closed, last, dropped>>
      /\ toSend[w] = {} /\ toSend'[w] = subs[s] /\ eventID'[w] = eventID[w] + 1
      /\ \A v \in Writers \ {w} : toSend'[v] = toSend[v] /\ eventID'[v] = eventID[v]
  BY <1>0, <1>x, <1>s DEF Emit, TypeOK
<1>3. /\ \A t \in Sessions \ {s} : events'[t] = events[t]
      /\ Range(events'[s]) = Range(events[s]) \cup {x}
  BY <1>0, <1>1, <1>2, RangeAppend DEF TypeOK
<1>4. \A e \in Range(events[s]) : e.by = w => e.id <= eventID[w]
  BY <1>0, <1>1 DEF OrderInv, Emitted
<1>5. ASSUME NEW v \in Writers, r \in toSend[v]
      PROVE  r \in toSend'[v] /\ Current(v)' = Current(v)
  <2>0. eventID[v] \in Nat /\ eventID[v] # 0
    BY <1>0, <1>5, StreamAssumption DEF WriterInv, TypeOK
  <2>1. v # w /\ eventID[v] > 0
    BY <1>2, <1>5, <2>0
  <2>2. wsess[v] \in Sessions
    BY <1>0, <1>5, SessionType DEF WriterInv
  <2>3. /\ Range(events[wsess[v]]) \subseteq Range(events'[wsess[v]])
        /\ \A e \in Range(events'[wsess[v]]) : e \in Range(events[wsess[v]]) \/ e.by # v
    BY <1>x, <1>3, <2>1, <2>2
  <2> QED
    BY <1>2, <1>5, <2>1, <2>3, CurrentStays
<1>6. OnTheWay(r) \subseteq OnTheWay(r)'
  BY <1>5 DEF OnTheWay
<1>7. window[r] \subseteq window'[r]
      /\ (rsess[r] = s /\ rpc[r] \in {"replayed", "checked"} => x \in window'[r])
  BY <1>0, <1>x, <1>s DEF Emit
<1>8. Place(r) \subseteq Place(r)'
  BY <1>2, <1>6, <1>7 DEF Place
<1>9. ASSUME rsess[r] = s, Served(r) PROVE x \in Place(r)'
  <2>1. CASE rpc[r] \in {"replayed", "checked"}
    BY <1>7, <1>9, <2>1 DEF Place
  <2>2. CASE rpc[r] = "live"
    <3>1. r \in toSend'[w]
      BY <1>0, <1>2, <1>9, <2>2 DEF ReaderInv, Served
    <3>2. \A e \in Range(events'[wsess'[w]]) : e.by = w /\ e.id = eventID'[w] <=> e = x
      BY <1>x, <1>s, <1>1, <1>2, <1>3, <1>4
    <3>3. x \in Range(events'[wsess'[w]])
      BY <1>s, <1>2, <1>3
    <3>4. (CHOOSE e \in Range(events'[wsess'[w]]) : e.by = w /\ e.id = eventID'[w]) = x
      BY <3>2, <3>3
    <3>5. Current(w)' = x
      BY <3>4 DEF Current
    <3> QED
      BY <3>1, <3>5 DEF Place, OnTheWay
  <2> QED
    BY <1>9, <2>1, <2>2 DEF Served
<1>10. ASSUME Served(r) PROVE Wanted(r)' \subseteq Wanted(r) \cup (IF rsess[r] = s THEN {x} ELSE {})
  <2>1. rsess[r] \in Sessions
    BY <1>0, <1>10, SessionType DEF Served
  <2> QED
    BY <1>2, <1>3, <2>1 DEF Wanted
<1>11. Served(r)' <=> Served(r)
  BY <1>2 DEF Served
<1> QED
  BY <1>8, <1>9, <1>10, <1>11 DEF Complete

\* A send puts the event into the channel, or counts it as dropped.
LEMMA DeliverComplete ==
    ASSUME Linked, NEW w \in Writers, NEW q \in Readers, Deliver(w, q),
           NEW r \in Readers, Complete(r)
    PROVE  Complete(r)'
<1> USE DEF regVars, sessVars, writerVars, readerVars, chanVars, histVars
<1>x. PICK x : x = Current(w)
  OBVIOUS
<1>0. TypeOK /\ WriterInv /\ ReaderInv
  BY DEF Linked
<1>1. /\ UNCHANGED <<events, seen, wsess, eventID, rpc, rsess, closed, last, window>>
      /\ \/ chan' = [chan EXCEPT ![q] = Append(chan[q], x)] /\ dropped' = dropped
         \/ dropped' = [dropped EXCEPT ![q] = dropped[q] \cup {x}] /\ chan' = chan
      /\ \A v \in Writers : toSend'[v] = IF v = w THEN toSend[w] \ {q} ELSE toSend[v]
      /\ q \in toSend[w]
  BY <1>0, <1>x DEF Deliver, TypeOK
<1>2. CASE r # q
  <2>1. chan'[r] = chan[r] /\ dropped'[r] = dropped[r] /\ (Served(r)' <=> Served(r))
    BY <1>0, <1>1, <1>2 DEF TypeOK, Served
  <2> QED
    BY <1>1, <1>2, <2>1, CompleteKept
<1>3. CASE r = q
  <2>1. eventID[w] \in Nat /\ eventID[w] # 0
    BY <1>0, <1>1, StreamAssumption DEF WriterInv, TypeOK
  <2>2. x \in Event
    BY <1>x, <2>1, CurrentIs
  <2>3. Range(chan[r]) \cup dropped[r] \cup {x} \subseteq Range(chan'[r]) \cup dropped'[r]
    <3>1. chan[r] \in Seq(Event)
      BY <1>0 DEF TypeOK
    <3>2. CASE chan' = [chan EXCEPT ![q] = Append(chan[q], x)] /\ dropped' = dropped
      BY <1>0, <1>3, <2>2, <3>1, <3>2, RangeAppend DEF TypeOK
    <3>3. CASE dropped' = [dropped EXCEPT ![q] = dropped[q] \cup {x}] /\ chan' = chan
      BY <1>0, <1>3, <3>3 DEF TypeOK
    <3> QED
      BY <1>1, <3>2, <3>3
  <2>4. ASSUME NEW v \in Writers, r \in toSend[v] PROVE Current(v) \in OnTheWay(r)' \cup {x}
    <3>1. CASE v = w
      BY <1>x, <3>1
    <3>2. CASE v # w
      <4>1. eventID[v] \in Nat /\ eventID[v] # 0
        BY <1>0, <2>4, StreamAssumption DEF WriterInv, TypeOK
      <4>2. Current(v)' = Current(v)
        BY <1>1, <4>1, CurrentStays
      <4> QED
        BY <1>1, <2>4, <3>2, <4>2 DEF OnTheWay
    <3> QED
      BY <3>1, <3>2
  <2>5. Place(r) \subseteq Place(r)'
    BY <1>1, <2>3, <2>4 DEF Place, OnTheWay
  <2>6. Wanted(r)' = Wanted(r) /\ (Served(r)' <=> Served(r))
    BY <1>1 DEF Wanted, Served
  <2> QED
    BY <2>5, <2>6 DEF Complete
<1> QED
  BY <1>2, <1>3

LEMMA CompleteInductive ==
    Linked /\ NothingElseLost /\ [Next]_vars => NothingElseLost'
<1>0. NothingElseLost <=> \A r \in Readers : Complete(r)
  BY DEF NothingElseLost, Complete, Served, Wanted, Place
<1>p. NothingElseLost' <=> \A r \in Readers : Complete(r)'
  BY DEF NothingElseLost, Complete, Served, Wanted, Place
<1> SUFFICES ASSUME Linked, [Next]_vars, NEW r \in Readers, Complete(r) PROVE Complete(r)'
  BY <1>0, <1>p
<1> USE DEF regVars, sessVars, writerVars, readerVars, chanVars, histVars
<1>1. TypeOK /\ WriterInv /\ ReaderInv
  BY DEF Linked
<1>2. ASSUME NEW w \in Writers, WriterNext(w) PROVE Complete(r)'
  <2>1. ASSUME NEW isEnd \in BOOLEAN, Emit(w, isEnd) PROVE Complete(r)'
    BY <2>1, EmitComplete
  <2>2. ASSUME NEW q \in Readers, Deliver(w, q) PROVE Complete(r)'
    BY <2>2, DeliverComplete
  <2>3. CASE Start(w)
    <3>1. /\ UNCHANGED <<events, seen, chan, rpc, rsess, closed, last, window, dropped, toSend, eventID>>
          /\ toSend[w] = {}
          /\ \A v \in Writers \ {w} : wsess'[v] = wsess[v]
      BY <1>1, <2>3 DEF Start, TypeOK, WriterInv
    <3>2. Served(r)' => Served(r)
      BY <3>1 DEF Served
    <3> QED
      BY <3>1, <3>2, CompleteKept
  <2>4. CASE (\E q \in Readers : DeliverPanics(w, q)) \/ Finish(w) \/ Cancel(w)
    <3>1. /\ UNCHANGED <<events, seen, chan, rpc, rsess, last, window, dropped, toSend, eventID, wsess>>
          /\ (closed[r] => closed'[r])
      BY <1>1, <2>4 DEF DeliverPanics, Finish, Cancel, MarkDone
    <3>2. Served(r)' => Served(r)
      BY <1>1, <3>1 DEF Served
    <3> QED
      BY <3>1, <3>2, CompleteKept
  <2> QED
    BY <1>2, <2>1, <2>2, <2>3, <2>4 DEF WriterNext
<1>3. ASSUME NEW q \in Readers, ReaderNext(q) PROVE Complete(r)'
  <2>0. UNCHANGED <<events, toSend, eventID, wsess, window, dropped>>
    BY <1>3 DEF ReaderNext, Get, Replay, CheckDone, Subscribe, Receive, ReceiveClosed, Disconnect
  <2>1. CASE r # q
    <3>1. /\ rpc'[r] = rpc[r] /\ rsess'[r] = rsess[r] /\ last'[r] = last[r] /\ closed'[r] = closed[r]
          /\ seen'[r] = seen[r] /\ chan'[r] = chan[r]
      BY <1>1, <1>3, <2>1
      DEF ReaderNext, Get, Replay, CheckDone, Subscribe, Receive, ReceiveClosed, Disconnect, Goto,
          Unsub, TypeOK
    <3>2. Served(r)' => Served(r)
      BY <3>1 DEF Served
    <3> QED
      BY <2>0, <3>1, <3>2, CompleteKept
  <2>2. CASE Get(r) \/ ReceiveClosed(r) \/ Disconnect(r) \/ (Receive(r) /\ Goto(r, "closed") /\ Unsub(r))
    <3>1. rpc'[r] \in {"found", "notfound", "closed", "gone"}
      BY <1>1, <2>2 DEF Get, ReceiveClosed, Disconnect, Goto, TypeOK
    <3> QED
      BY <3>1 DEF Complete, Served
  <2>3. CASE Replay(r)
    <3>0. rsess[r] \in Sessions
      BY <1>1, <2>3, SessionType DEF Replay
    <3>1. events[rsess[r]] \in Seq(Event) /\ last[r] \in Nat
      BY <1>1, <3>0, StreamAssumption DEF TypeOK
    <3>2. /\ seen'[r] = EventsAfter(events[rsess[r]], last[r])
          /\ events' = events /\ rsess' = rsess /\ last' = last
      BY <1>1, <2>3 DEF Replay, TypeOK
    <3>3. Range(seen'[r]) = {e \in Range(events[rsess[r]]) : e.id > last[r]}
      BY <3>1, <3>2, EventsAfterSelects
    <3> QED
      BY <3>2, <3>3 DEF Complete, Wanted, Place
  <2>4. CASE CheckDone(r) \/ Subscribe(r)
    <3>1. /\ UNCHANGED <<rsess, last, seen, chan, closed>>
          /\ rpc[r] \in {"replayed", "checked"}
      BY <2>4 DEF CheckDone, Subscribe
    <3>2. Served(r)' => Served(r)
      BY <3>1 DEF Served
    <3> QED
      BY <2>0, <3>1, <3>2, CompleteKept
  <2>5. CASE Receive(r) /\ UNCHANGED <<rpc, subs, closed>>
    <3>1. chan[r] \in Seq(Event) /\ seen[r] \in Seq(Event) /\ chan[r] # <<>>
      BY <1>1, <2>5 DEF Receive, TypeOK
    <3>2. /\ UNCHANGED <<rsess, last, rpc, closed>>
          /\ seen'[r] = Append(seen[r], Head(chan[r])) /\ chan'[r] = Tail(chan[r])
      BY <1>1, <2>5 DEF Receive, TypeOK
    <3>3. /\ Range(seen'[r]) = Range(seen[r]) \cup {Head(chan[r])}
          /\ Range(chan[r]) = Range(chan'[r]) \cup {Head(chan[r])}
      BY <3>1, <3>2, HeadTail, RangeAppend
    <3>4. Served(r)' => Served(r)
      BY <3>2 DEF Served
    <3> QED
      BY <2>0, <3>2, <3>3, <3>4, CompleteKept
  <2> QED
    BY <1>3, <2>1, <2>2, <2>3, <2>4, <2>5 DEF ReaderNext, Receive
<1>4. CASE Cleanup \/ UNCHANGED vars
  <2>1. UNCHANGED <<events, seen, chan, rpc, rsess, closed, last, window, dropped, toSend, eventID, wsess>>
    BY <1>4 DEF Cleanup, vars
  <2>2. Served(r)' => Served(r)
    BY <2>1 DEF Served
  <2> QED
    BY <2>1, <2>2, CompleteKept
<1> QED
  BY <1>2, <1>3, <1>4 DEF Next

\* What a resumed client is sent of one generation is in the order in which it was
\* produced and nothing twice, and nothing is lost to it but what came between
\* EventsAfter and Subscribe or found its channel full (sse.go:131-173,
\* registry.go:81-115).
THEOREM ResumedReaderMissesOnlyTheWindow == Spec => []ResumesSoundly
<1>1. Init => NothingElseLost
  BY DEF Init, NothingElseLost
<1>2. Linked => SeenInOrder
  BY DEF Linked, OrderInv, Ordered, SeenInOrder
<1> QED
  BY <1>1, <1>2, LinkedInvariant, CompleteInductive, PTL DEF Spec, ResumesSoundly

-----------------------------------------------------------------------------
(* Panics and readers left behind.                                         *)

\* Sessions that are shared stay shared.
LEMMA SharedStays ==
    ASSUME TypeOK, WriterInv, [Next]_vars
    PROVE  (left \/ SharedSession) => (left \/ SharedSession)'
<1> USE DEF regVars, sessVars, writerVars, readerVars, chanVars, histVars
<1>1. left' = left \/ left' = TRUE
  BY DEF Next, WriterNext, ReaderNext, Start, Emit, Deliver, DeliverPanics, Finish, Cancel, Get, Replay,
         CheckDone, Subscribe, Receive, ReceiveClosed, Disconnect, Cleanup, vars
<1>2. ASSUME NEW v \in Writers, wsess[v] # None PROVE wsess'[v] = wsess[v]
  <2>1. CASE \E w \in Writers : Start(w)
    BY <1>2, <2>1 DEF Start, TypeOK, WriterInv
  <2>2. CASE ~\E w \in Writers : Start(w)
    <3>1. wsess' = wsess
      BY <2>2 DEF Next, WriterNext, ReaderNext, Emit, Deliver, DeliverPanics, Finish, Cancel, Get, Replay,
            CheckDone, Subscribe, Receive, ReceiveClosed, Disconnect, Cleanup, vars
    <3> QED
      BY <3>1
  <2> QED
    BY <2>1, <2>2
<1> QED
  BY <1>1, <1>2 DEF SharedSession

LEMMA PanicInductive ==
    Linked /\ PanicInv /\ PanicHasACause /\ [Next]_vars => PanicInv' /\ PanicHasACause'
<1> SUFFICES ASSUME Linked, PanicInv, PanicHasACause, [Next]_vars
             PROVE  PanicInv' /\ PanicHasACause'
  OBVIOUS
<1> USE DEF regVars, sessVars, writerVars, readerVars, chanVars, histVars
<1>0. TypeOK /\ WriterInv /\ ReaderInv /\ OrderInv
  BY DEF Linked
<1>c. (left \/ SharedSession) => (left' \/ SharedSession')
  BY <1>0, SharedStays
<1>1. ASSUME NEW v \in Writers, wpc'[v] = "panicked" PROVE left' \/ SharedSession'
  <2>1. CASE wpc[v] = "panicked"
    BY <1>c, <2>1 DEF PanicHasACause
  <2>2. CASE wpc[v] # "panicked"
    <3>0. \E w \in Writers, r \in Readers : DeliverPanics(w, r)
      <4>1. CASE \E w \in Writers : \/ Start(w) \/ Finish(w) \/ Cancel(w)
                                    \/ \E isEnd \in BOOLEAN : Emit(w, isEnd)
        <5>1. PICK w \in Writers : \/ wpc' = [wpc EXCEPT ![w] = "open"]
                                   \/ wpc' = [wpc EXCEPT ![w] = "ending"]
                                   \/ wpc' = [wpc EXCEPT ![w] = "finished"]
                                   \/ wpc' = [wpc EXCEPT ![w] = "cancelled"]
                                   \/ wpc' = wpc
          BY <4>1 DEF Start, Emit, Finish, Cancel
        <5>2. wpc'[v] # "panicked"
          BY <1>0, <2>2, <5>1 DEF TypeOK
        <5> QED
          BY <1>1, <5>2
      <4>2. CASE (\E w \in Writers, r \in Readers : Deliver(w, r)) \/ (\E r \in Readers : ReaderNext(r))
                   \/ Cleanup \/ UNCHANGED vars
        BY <1>1, <2>2, <4>2 DEF Deliver, ReaderNext, Get, Replay, CheckDone, Subscribe, Receive,
           ReceiveClosed, Disconnect, Cleanup, vars
      <4> QED
        BY <4>1, <4>2 DEF Next, WriterNext
    <3>1. \E r \in Readers : r \in toSend[v] /\ closed[r]
      BY <1>0, <1>1, <2>2, <3>0 DEF DeliverPanics, TypeOK
    <3> QED
      BY <1>c, <3>1 DEF PanicInv
  <2> QED
    BY <2>1, <2>2
<1>2. ASSUME NEW v \in Writers, NEW r \in Readers, r \in toSend'[v], closed'[r]
      PROVE  left' \/ SharedSession'
  <2>1. CASE \E w \in Writers, isEnd \in BOOLEAN : Emit(w, isEnd)
    <3>1. PICK w \in Writers : toSend' = [toSend EXCEPT ![w] = subs[wsess[w]]] /\ closed' = closed
                                /\ wpc[w] = "open"
      BY <2>1 DEF Emit
    <3>2. CASE v = w
      <4>1. wsess[w] \in Sessions
        BY <1>0, <3>1, SessionType
      <4>2. r \in subs[wsess[w]]
        BY <1>0, <1>2, <3>1, <3>2 DEF TypeOK
      <4> QED
        BY <1>0, <1>2, <3>1, <4>1, <4>2 DEF ReaderInv
    <3>3. CASE v # w
      BY <1>0, <1>2, <1>c, <3>1, <3>3 DEF TypeOK, PanicInv
    <3> QED
      BY <3>2, <3>3
  <2>2. CASE \E w \in Writers : Finish(w) \/ Cancel(w)
    <3>1. PICK w \in Writers : Finish(w) \/ Cancel(w)
      BY <2>2
    <3>2. /\ toSend' = toSend /\ toSend[w] = {}
          /\ closed'[r] = (closed[r] \/ r \in subs[wsess[w]])
          /\ wsess' = wsess /\ wsess[w] \in Sessions
      BY <1>0, <3>1, SessionType DEF Finish, Cancel, MarkDone
    <3>3. CASE closed[r]
      BY <1>2, <1>c, <3>2, <3>3 DEF PanicInv
    <3>4. CASE r \in subs[wsess[w]]
      <4>1. rsess[r] = wsess[w] /\ rsess[r] = wsess[v] /\ v # w
        BY <1>0, <1>2, <3>2, <3>4 DEF ReaderInv
      <4> QED
        BY <3>2, <4>1, NoneAssumption DEF SharedSession
    <3> QED
      BY <1>2, <3>2, <3>3, <3>4
  <2>3. CASE \E q \in Readers : Receive(q) /\ Head(chan[q]).end /\ Unsub(q)
    <3>1. PICK q \in Readers : Receive(q) /\ Head(chan[q]).end /\ Unsub(q)
      BY <2>3
    <3>2. toSend' = toSend /\ wsess' = wsess /\ (q # r => closed'[r] = closed[r])
      BY <1>0, <3>1 DEF Receive, Unsub, TypeOK
    <3>3. CASE closed[r]
      BY <1>2, <1>c, <3>2, <3>3 DEF PanicInv
    <3>4. CASE ~closed[r]
      <4>1. r = q /\ chan[r] \in Seq(Event) /\ chan[r] # <<>>
        BY <1>0, <1>2, <3>1, <3>2, <3>4 DEF Receive, TypeOK
      <4>2. PICK x : x = Head(chan[r])
        OBVIOUS
      <4>3. x \in Event /\ x \in Range(chan[r]) /\ x.by \in Writers /\ x.end
        <5>1. x \in Event /\ x \in Range(chan[r])
          BY <4>1, <4>2, HeadTail
        <5> QED
          BY <3>1, <4>1, <4>2, <5>1 DEF Event
      <4>4. /\ wsess[x.by] = rsess[r] /\ x.id = eventID[x.by]
            /\ (r \in toSend[x.by] => x.id < eventID[x.by])
            /\ eventID[x.by] \in Nat
        BY <1>0, <4>3, StreamAssumption DEF OrderInv, Got, Emitted, TypeOK
      <4>5. x.by # v /\ wsess[v] = wsess[x.by]
        BY <1>0, <1>2, <3>2, <4>4 DEF ReaderInv
      <4>6. wsess[v] # None
        BY <1>0, <1>2, <3>2, NoneAssumption, SessionType DEF WriterInv
      <4> QED
        BY <3>2, <4>3, <4>5, <4>6 DEF SharedSession
    <3> QED
      BY <3>3, <3>4
  <2>4. CASE \E q \in Readers : Disconnect(q)
    BY <2>4 DEF Disconnect
  <2>5. CASE \E q \in Readers : ReceiveClosed(q)
    <3>1. toSend' = toSend /\ (closed'[r] => closed[r])
      BY <1>0, <2>5 DEF ReceiveClosed, Unsub, TypeOK
    <3> QED
      BY <1>2, <1>c, <3>1 DEF PanicInv
  <2>6. CASE \/ \E w \in Writers : \/ Start(w)
                                   \/ \E q \in Readers : Deliver(w, q) \/ DeliverPanics(w, q)
             \/ \E q \in Readers : \/ Get(q) \/ Replay(q) \/ CheckDone(q) \/ Subscribe(q)
                                   \/ Receive(q) /\ UNCHANGED closed
             \/ Cleanup \/ UNCHANGED vars
    <3>1. closed' = closed
      BY <2>6 DEF Start, Deliver, DeliverPanics, Get, Replay, CheckDone, Subscribe, Cleanup, vars
    <3>2. toSend'[v] \subseteq toSend[v]
      <4>1. CASE \E w \in Writers, q \in Readers : Deliver(w, q)
        BY <1>0, <4>1 DEF Deliver, TypeOK
      <4>2. CASE ~\E w \in Writers, q \in Readers : Deliver(w, q)
        BY <2>6, <4>2 DEF Start, DeliverPanics, Get, Replay, CheckDone, Subscribe, Receive, Cleanup, vars
      <4> QED
        BY <4>1, <4>2
    <3> QED
      BY <1>2, <1>c, <3>1, <3>2 DEF PanicInv
  <2> QED
    BY <2>1, <2>2, <2>3, <2>4, <2>5, <2>6 DEF Next, WriterNext, ReaderNext, Receive
<1>3. TypeOK'
  BY <1>0, TypeInductive DEF Linked
<1> QED
  BY <1>1, <1>2, <1>3 DEF PanicInv, PanicHasACause, TypeOK

\* The send of Append panics only if a subscriber's client left, or if two
\* requests with the same id write to one session object (registry.go:81-115).
THEOREM PanicNeedsLeaverOrTwin == Spec => []PanicHasACause
<1>1. Init => PanicInv /\ PanicHasACause
  BY DEF Init, PanicInv, PanicHasACause
<1> QED
  BY <1>1, LinkedInvariant, PanicInductive, PTL DEF Spec

LEMMA StrandedInductive ==
    Linked /\ StrandedOnlyIfLate /\ [Next]_vars => StrandedOnlyIfLate'
<1> SUFFICES ASSUME Linked, StrandedOnlyIfLate, [Next]_vars,
                    NEW s \in Sessions, done'[s], NEW r \in subs'[s]
             PROVE  late'[r]
  BY DEF StrandedOnlyIfLate
<1> USE DEF regVars, sessVars, writerVars, readerVars, chanVars, histVars
<1>0. TypeOK /\ WriterInv /\ ReaderInv
  BY DEF Linked
<1>1. CASE \E w \in Writers : Start(w)
  <2>1. subs' = subs /\ late' = late /\ (done'[s] => done[s])
    BY <1>0, <1>1, SessionType DEF Start, TypeOK
  <2> QED
    BY <2>1 DEF StrandedOnlyIfLate
<1>2. CASE \E w \in Writers : Finish(w) \/ Cancel(w)
  <2>1. PICK w \in Writers : Finish(w) \/ Cancel(w)
    BY <1>2
  <2>2. /\ wsess[w] \in Sessions /\ late' = late
        /\ done' = [done EXCEPT ![wsess[w]] = TRUE] /\ subs' = [subs EXCEPT ![wsess[w]] = {}]
    BY <1>0, <2>1, SessionType DEF Finish, Cancel, MarkDone
  <2>3. s # wsess[w] /\ done[s] /\ r \in subs[s]
    BY <1>0, <2>2 DEF TypeOK
  <2> QED
    BY <2>2, <2>3 DEF StrandedOnlyIfLate
<1>3. CASE \E q \in Readers : Subscribe(q)
  <2>1. PICK q \in Readers : Subscribe(q)
    BY <1>3
  <2>2. /\ rsess[q] \in Sessions /\ rpc[q] = "checked" /\ done' = done
        /\ subs' = [subs EXCEPT ![rsess[q]] = subs[rsess[q]] \cup {q}]
        /\ late' = [late EXCEPT ![q] = done[rsess[q]]]
    BY <1>0, <2>1, SessionType DEF Subscribe
  <2>3. CASE r = q
    <3>1. s = rsess[q]
      BY <1>0, <2>2, <2>3 DEF ReaderInv, TypeOK
    <3> QED
      BY <1>0, <2>2, <2>3, <3>1 DEF TypeOK
  <2>4. CASE r # q
    <3>1. r \in subs[s] /\ r \in Readers
      BY <1>0, <2>2, <2>4 DEF TypeOK
    <3> QED
      BY <1>0, <2>2, <2>4, <3>1 DEF TypeOK, StrandedOnlyIfLate
  <2> QED
    BY <2>3, <2>4
<1>4. CASE \E q \in Readers : Receive(q) \/ ReceiveClosed(q) \/ Disconnect(q)
  <2>1. PICK q \in Readers : Receive(q) \/ ReceiveClosed(q) \/ Disconnect(q)
    BY <1>4
  <2>2. late' = late /\ done' = done /\ (subs' = subs \/ subs' = [subs EXCEPT ![rsess[q]] = subs[rsess[q]] \ {q}])
    BY <2>1 DEF Receive, ReceiveClosed, Disconnect, Unsub
  <2>3. subs'[s] \subseteq subs[s]
    BY <1>0, <2>2 DEF TypeOK
  <2> QED
    BY <2>2, <2>3 DEF StrandedOnlyIfLate
<1>5. CASE \/ \E w \in Writers : \/ \E isEnd \in BOOLEAN : Emit(w, isEnd)
                                 \/ \E q \in Readers : Deliver(w, q) \/ DeliverPanics(w, q)
           \/ \E q \in Readers : Get(q) \/ Replay(q) \/ CheckDone(q)
           \/ Cleanup \/ UNCHANGED vars
  <2>1. late' = late /\ done' = done /\ subs' = subs
    BY <1>5 DEF Emit, Deliver, DeliverPanics, Get, Replay, CheckDone, Cleanup, vars
  <2> QED
    BY <2>1 DEF StrandedOnlyIfLate
<1> QED
  BY <1>1, <1>2, <1>3, <1>4, <1>5 DEF Next, WriterNext, ReaderNext

\* A reader still subscribed to a session that is done asked IsDone before
\* MarkDone and subscribed after it: no other reader is left behind
\* (sse.go:143-147, registry.go:185-202).
THEOREM OnlyLateReadersAreStranded == Spec => []StrandedOnlyIfLate
<1>1. Init => StrandedOnlyIfLate
  BY DEF Init, StrandedOnlyIfLate
<1> QED
  BY <1>1, LinkedInvariant, StrandedInductive, PTL DEF Spec

=============================================================================

---------------------- MODULE MsgQueueRefinement_proofs ----------------------
(***************************************************************************)
(* The safety half of the refinement, for every ring size, set of posters, *)
(* delays and periods.  MsgQueue implements LateQueue wherever the ticks   *)
(* land.  It implements DelayQueue as long as no tick lands within a       *)
(* receive, and also wherever they land if no message is delayed.          *)
(***************************************************************************)
EXTENDS MsgQueueRefinement, MsgQueue_proofs, SequenceTheorems

-----------------------------------------------------------------------------
(* The ring as a walk: how many slots lie between two of its slots, and     *)
(* which one a walk meets after j steps.                                    *)

Between(t, h) == (h - t - 1) % Size

Ahead(t, j) == (t + j) % Size

LEMMA BetweenDef ==
  ASSUME NEW t \in Slot, NEW h \in Slot
  PROVE  /\ Between(t, h) = IF h > t THEN h - t - 1 ELSE h - t - 1 + Size
         /\ Between(t, h) \in 0 .. Size - 1
BY SizeAssumption DEF Slot, Between

LEMMA AheadDef ==
  ASSUME NEW t \in Slot, NEW j \in 0 .. Size
  PROVE  /\ Ahead(t, j) = IF t + j < Size THEN t + j ELSE t + j - Size
         /\ Ahead(t, j) \in Slot
BY SizeAssumption DEF Slot, Ahead

\* The window is what the walk meets.
LEMMA WindowIsWalk ==
  ASSUME NEW t \in Slot, NEW h \in Slot
  PROVE  /\ \A j \in 1 .. Between(t, h) : Ahead(t, j) \in Window(t, h)
         /\ \A i \in Window(t, h) : \E j \in 1 .. Between(t, h) : Ahead(t, j) = i
<1>s. Size \in Nat /\ Size >= 2 /\ Slot = 0 .. Size - 1
  BY SizeAssumption DEF Slot
<1>b. /\ Between(t, h) = IF h > t THEN h - t - 1 ELSE h - t - 1 + Size
      /\ Between(t, h) \in 0 .. Size - 1
  BY BetweenDef
<1>1. ASSUME NEW j \in 1 .. Between(t, h)
      PROVE  Ahead(t, j) \in Window(t, h)
  <2>1. j \in 0 .. Size
    BY <1>s, <1>b
  <2>2. /\ Ahead(t, j) = IF t + j < Size THEN t + j ELSE t + j - Size
        /\ Ahead(t, j) \in Slot
    BY <2>1, AheadDef
  <2> QED
    BY <1>s, <1>b, <2>2 DEF Window
<1>2. ASSUME NEW i \in Window(t, h)
      PROVE  \E j \in 1 .. Between(t, h) : Ahead(t, j) = i
  <2> DEFINE j == IF i > t THEN i - t ELSE i - t + Size
  <2>1. i \in Slot /\ i # t
    BY <1>s DEF Window
  <2>2. j \in 0 .. Size /\ j \in 1 .. Between(t, h)
    BY <1>s, <1>b, <2>1 DEF Window
  <2>3. Ahead(t, j) = IF t + j < Size THEN t + j ELSE t + j - Size
    BY <2>2, AheadDef
  <2>4. Ahead(t, j) = i
    BY <1>s, <2>1, <2>3
  <2> QED
    BY <2>2, <2>4
<1> QED
  BY <1>1, <1>2

\* Storing at the head of a ring that is not full makes the walk one longer.
LEMMA BetweenGrows ==
  ASSUME NEW t \in Slot, NEW h \in Slot, h # t
  PROVE  /\ Between(t, Succ(h)) = Between(t, h) + 1
         /\ Ahead(t, Between(t, h) + 1) = h
         /\ Between(t, h) < Size - 1
         /\ \A j \in 1 .. Between(t, h) : Ahead(t, j) # h
<1>s. Size \in Nat /\ Size >= 2 /\ Slot = 0 .. Size - 1
  BY SizeAssumption DEF Slot
<1>b. Between(t, h) = IF h > t THEN h - t - 1 ELSE h - t - 1 + Size
  BY BetweenDef
<1>1. Succ(h) \in Slot /\ Succ(h) = IF h = Size - 1 THEN 0 ELSE h + 1
  BY SuccDef, SuccType
<1>c. Between(t, Succ(h)) = IF Succ(h) > t THEN Succ(h) - t - 1 ELSE Succ(h) - t - 1 + Size
  BY <1>1, BetweenDef
<1>2. Between(t, Succ(h)) = Between(t, h) + 1 /\ Between(t, h) < Size - 1
  BY <1>s, <1>b, <1>1, <1>c
<1>3. Between(t, h) + 1 \in 0 .. Size
  BY <1>s, <1>b
<1>4. Ahead(t, Between(t, h) + 1) = h
  <2> DEFINE j == Between(t, h) + 1
  <2>1. Ahead(t, j) = IF t + j < Size THEN t + j ELSE t + j - Size
    BY <1>3, AheadDef
  <2> QED
    BY <1>s, <1>b, <2>1
<1>5. h \notin Window(t, h)
  BY <1>s DEF Window
<1> QED
  BY <1>2, <1>4, <1>5, WindowIsWalk

\* Moving the tail of a ring that is not empty makes it one shorter.
LEMMA BetweenShrinks ==
  ASSUME NEW t \in Slot, NEW h \in Slot, Between(t, h) > 0
  PROVE  /\ Between(Succ(t), h) = Between(t, h) - 1
         /\ Ahead(t, 1) = Succ(t)
         /\ \A j \in 0 .. Size - 1 : Ahead(Succ(t), j) = Ahead(t, j + 1)
<1>s. Size \in Nat /\ Size >= 2 /\ Slot = 0 .. Size - 1
  BY SizeAssumption DEF Slot
<1>b. Between(t, h) = IF h > t THEN h - t - 1 ELSE h - t - 1 + Size
  BY BetweenDef
<1>1. Succ(t) \in Slot /\ Succ(t) = IF t = Size - 1 THEN 0 ELSE t + 1
  BY SuccDef, SuccType
<1>c. Between(Succ(t), h) = IF h > Succ(t) THEN h - Succ(t) - 1 ELSE h - Succ(t) - 1 + Size
  BY <1>1, BetweenDef
<1>2. Between(Succ(t), h) = Between(t, h) - 1
  BY <1>s, <1>b, <1>1, <1>c
<1>3. Ahead(t, 1) = Succ(t)
  BY DEF Ahead, Succ
<1>4. ASSUME NEW j \in 0 .. Size - 1
      PROVE  Ahead(Succ(t), j) = Ahead(t, j + 1)
  <2>1. j \in 0 .. Size /\ j + 1 \in 0 .. Size
    BY <1>s
  <2>2. Ahead(Succ(t), j) = IF Succ(t) + j < Size THEN Succ(t) + j ELSE Succ(t) + j - Size
    BY <1>1, <2>1, AheadDef
  <2>3. Ahead(t, j + 1) = IF t + (j + 1) < Size THEN t + (j + 1) ELSE t + (j + 1) - Size
    BY <2>1, AheadDef
  <2> QED
    BY <1>s, <1>1, <2>2, <2>3
<1> QED
  BY <1>2, <1>3, <1>4

-----------------------------------------------------------------------------
(* The line of messages read off the ring, as the ring changes.             *)

PlainMessage ==
  [from : Poster \cup {NoTask}, asked : Nat, delay : Nat, reload : Nat]

\* What Line is of a ring l with its cursor at t and its head at h.
LineOf(l, t, h) == [j \in 1 .. Between(t, h) |-> Plain(l[Ahead(t, j)])]

LEMMA LineIs == Line = LineOf(list, Cursor, head)
BY DEF Line, LineOf, Between, Ahead

LEMMA PlainType ==
  ASSUME NEW m \in Message
  PROVE  /\ Plain(m) \in PlainMessage
         /\ Plain(m).from = m.from
         /\ Plain(m).asked = m.asked
         /\ Plain(m).delay = m.due
         /\ Plain(m).reload = m.reload
BY DEF Plain, PlainMessage, Message

LEMMA LineType ==
  ASSUME NEW l \in [Slot -> Message], NEW t \in Slot, NEW h \in Slot
  PROVE  /\ LineOf(l, t, h) \in Seq(PlainMessage)
         /\ Len(LineOf(l, t, h)) = Between(t, h)
         /\ \A j \in 1 .. Between(t, h) :
              /\ LineOf(l, t, h)[j] = Plain(l[Ahead(t, j)])
              /\ Ahead(t, j) \in Slot
              /\ l[Ahead(t, j)] \in Message
<1>1. Between(t, h) \in Nat /\ Between(t, h) < Size /\ Size \in Nat
  BY BetweenDef, SizeAssumption
<1>2. ASSUME NEW j \in 1 .. Between(t, h)
      PROVE  /\ Ahead(t, j) \in Slot
             /\ l[Ahead(t, j)] \in Message
             /\ Plain(l[Ahead(t, j)]) \in PlainMessage
  <2>1. j \in 0 .. Size
    BY <1>1
  <2> QED
    BY <2>1, AheadDef, PlainType
<1>3. LineOf(l, t, h) \in [1 .. Between(t, h) -> PlainMessage]
  BY <1>2 DEF LineOf
<1>4. LineOf(l, t, h) \in Seq(PlainMessage)
  BY <1>1, <1>3, SeqDef
<1>5. Len(LineOf(l, t, h)) = Between(t, h)
  BY <1>1, <1>3, <1>4, LenProperties
<1> QED
  BY <1>2, <1>4, <1>5 DEF LineOf

\* queue_push joins the line at its end.
LEMMA LineGrows ==
  ASSUME NEW l \in [Slot -> Message], NEW t \in Slot, NEW h \in Slot, h # t,
         NEW m \in Message
  PROVE  LineOf([l EXCEPT ![h] = m], t, Succ(h)) = Append(LineOf(l, t, h), Plain(m))
<1> DEFINE k == [l EXCEPT ![h] = m]
           s == LineOf(l, t, h)
           r == LineOf(k, t, Succ(h))
           n == Between(t, h)
<1>1. k \in [Slot -> Message] /\ Succ(h) \in Slot /\ Plain(m) \in PlainMessage
  BY SuccType, PlainType
<1>2. Between(t, Succ(h)) = n + 1 /\ n \in Nat
  BY BetweenGrows, BetweenDef
<1>3. /\ s \in Seq(PlainMessage) /\ Len(s) = n
      /\ \A j \in 1 .. n : s[j] = Plain(l[Ahead(t, j)]) /\ Ahead(t, j) \in Slot
  BY LineType
<1>4. /\ r \in Seq(PlainMessage) /\ Len(r) = n + 1
      /\ \A j \in 1 .. n + 1 : r[j] = Plain(k[Ahead(t, j)])
  <2> HIDE DEF k
  <2>1. /\ r \in Seq(PlainMessage) /\ Len(r) = Between(t, Succ(h))
        /\ \A j \in 1 .. Between(t, Succ(h)) : r[j] = Plain(k[Ahead(t, j)])
    BY <1>1, LineType
  <2> QED
    BY <1>2, <2>1
<1>5. /\ Append(s, Plain(m)) \in Seq(PlainMessage)
      /\ Len(Append(s, Plain(m))) = n + 1
      /\ \A j \in 1 .. n : Append(s, Plain(m))[j] = s[j]
      /\ Append(s, Plain(m))[n + 1] = Plain(m)
  BY <1>1, <1>3, AppendProperties
<1>6. ASSUME NEW j \in 1 .. n + 1
      PROVE  r[j] = Append(s, Plain(m))[j]
  <2>1. CASE j = n + 1
    <3>1. Ahead(t, n + 1) = h
      BY BetweenGrows
    <3> QED
      BY <1>4, <1>5, <2>1, <3>1
  <2>2. CASE j # n + 1
    <3>1. j \in 1 .. n
      BY <1>2, <2>2
    <3>2. Ahead(t, j) # h /\ Ahead(t, j) \in Slot
      BY <1>3, <3>1, BetweenGrows
    <3>3. k[Ahead(t, j)] = l[Ahead(t, j)]
      BY <3>2
    <3> HIDE DEF k, s, r
    <3> QED
      BY <1>3, <1>4, <1>5, <3>1, <3>3
  <2> QED
    BY <2>1, <2>2
<1> HIDE DEF s, r
<1>7. r = Append(s, Plain(m))
  BY <1>4, <1>5, <1>6, SeqEqual
<1> QED
  BY <1>7 DEF r, s

\* CopyOut takes the first of the line.
LEMMA LineShrinks ==
  ASSUME NEW l \in [Slot -> Message], NEW t \in Slot, NEW h \in Slot,
         Between(t, h) > 0
  PROVE  /\ LineOf(l, Succ(t), h) = Tail(LineOf(l, t, h))
         /\ LineOf(l, t, h) # <<>>
         /\ Head(LineOf(l, t, h)) = Plain(l[Succ(t)])
<1> DEFINE s == LineOf(l, t, h)
           r == LineOf(l, Succ(t), h)
           n == Between(t, h)
<1>1. Succ(t) \in Slot
  BY SuccType
<1>2. n \in Nat \ {0} /\ n < Size /\ Between(Succ(t), h) = n - 1 /\ Size \in Nat
  BY BetweenDef, BetweenShrinks, SizeAssumption
<1>3. /\ s \in Seq(PlainMessage) /\ Len(s) = n
      /\ \A j \in 1 .. n : s[j] = Plain(l[Ahead(t, j)])
  BY LineType
<1>4. /\ r \in Seq(PlainMessage) /\ Len(r) = n - 1
      /\ \A j \in 1 .. n - 1 : r[j] = Plain(l[Ahead(Succ(t), j)])
  <2>1. PICK u \in Slot : u = Succ(t)
    BY <1>1
  <2>2. /\ LineOf(l, u, h) \in Seq(PlainMessage)
        /\ Len(LineOf(l, u, h)) = Between(u, h)
        /\ \A j \in 1 .. Between(u, h) : LineOf(l, u, h)[j] = Plain(l[Ahead(u, j)])
    BY LineType
  <2> QED
    BY <1>2, <2>1, <2>2
<1>5. s # <<>>
  BY <1>2, <1>3
<1>6. /\ Tail(s) \in Seq(PlainMessage) /\ Len(Tail(s)) = n - 1
      /\ \A j \in 1 .. n - 1 : Tail(s)[j] = s[j + 1]
  BY <1>2, <1>3, <1>5, HeadTailProperties
<1>7. ASSUME NEW j \in 1 .. n - 1
      PROVE  r[j] = Tail(s)[j]
  <2>1. j \in 0 .. Size - 1 /\ j + 1 \in 1 .. n
    BY <1>2
  <2>2. Ahead(Succ(t), j) = Ahead(t, j + 1)
    BY <2>1, BetweenShrinks
  <2> HIDE DEF s, r
  <2> QED
    BY <1>3, <1>4, <1>6, <2>1, <2>2
<1>8. s[1] = Plain(l[Succ(t)])
  BY <1>2, <1>3, BetweenShrinks
<1> HIDE DEF s, r
<1>9. r = Tail(s)
  BY <1>2, <1>4, <1>6, <1>7, SeqEqual
<1>10. Head(s) = Plain(l[Succ(t)])
  BY <1>5, <1>8
<1> QED
  BY <1>5, <1>9, <1>10 DEF r, s

-----------------------------------------------------------------------------
(* The line in the middle of a receive: its last c messages are already put *)
(* back and hand, if any, comes between them and the rest.                  *)

Around(s, c, hand) ==
  SubSeq(s, Len(s) - c + 1, Len(s)) \o hand \o SubSeq(s, 1, Len(s) - c)

\* What stands at place k of it.
AroundAt(s, c, hand, k) ==
  IF k <= c THEN s[Len(s) - c + k]
  ELSE IF k <= c + Len(hand) THEN hand[k - c]
  ELSE s[k - c - Len(hand)]

LEMMA AroundType ==
  ASSUME NEW S, NEW s \in Seq(S), NEW c \in 0 .. Len(s), NEW hand \in Seq(S)
  PROVE  /\ Around(s, c, hand) \in Seq(S)
         /\ Len(Around(s, c, hand)) = Len(s) + Len(hand)
         /\ \A k \in 1 .. Len(s) + Len(hand) :
              Around(s, c, hand)[k] = AroundAt(s, c, hand, k)
<1> DEFINE n == Len(s)
           a == SubSeq(s, n - c + 1, n)
           b == SubSeq(s, 1, n - c)
           ah == a \o hand
<1>0. n \in Nat /\ c \in Nat /\ c <= n /\ Len(hand) \in Nat /\ \A i \in 1 .. n : s[i] \in S
  BY LenProperties, ElementOfSeq
<1>1. a \in Seq(S) /\ Len(a) = c /\ \A i \in 1 .. c : a[i] = s[n - c + i]
  <2>1. \A i \in n - c + 1 .. n : s[i] \in S
    BY <1>0
  <2>2. /\ a \in Seq(S) /\ Len(a) = IF n - c + 1 <= n THEN n - (n - c + 1) + 1 ELSE 0
        /\ \A i \in 1 .. n - (n - c + 1) + 1 : a[i] = s[(n - c + 1) + i - 1]
    BY <1>0, <2>1, SubSeqProperties
  <2> HIDE DEF a
  <2>3. Len(a) = c
    BY <1>0, <2>2
  <2>4. ASSUME NEW i \in 1 .. c PROVE a[i] = s[n - c + i]
    <3>1. i \in 1 .. n - (n - c + 1) + 1 /\ (n - c + 1) + i - 1 = n - c + i
      BY <1>0
    <3> QED
      BY <2>2, <3>1
  <2> QED
    BY <2>2, <2>3, <2>4
<1>2. b \in Seq(S) /\ Len(b) = n - c /\ \A i \in 1 .. n - c : b[i] = s[i]
  <2>1. \A i \in 1 .. n - c : s[i] \in S
    BY <1>0
  <2>2. /\ b \in Seq(S) /\ Len(b) = IF 1 <= n - c THEN (n - c) - 1 + 1 ELSE 0
        /\ \A i \in 1 .. (n - c) - 1 + 1 : b[i] = s[1 + i - 1]
    BY <1>0, <2>1, SubSeqProperties
  <2> HIDE DEF b
  <2>3. Len(b) = n - c
    BY <1>0, <2>2
  <2>4. ASSUME NEW i \in 1 .. n - c PROVE b[i] = s[i]
    <3>1. i \in 1 .. (n - c) - 1 + 1 /\ 1 + i - 1 = i
      BY <1>0
    <3> QED
      BY <2>2, <3>1
  <2> QED
    BY <2>2, <2>3, <2>4
<1> HIDE DEF a, b
<1>3. /\ ah \in Seq(S) /\ Len(ah) = c + Len(hand)
      /\ \A i \in 1 .. c + Len(hand) : ah[i] = IF i <= c THEN a[i] ELSE hand[i - c]
  BY <1>1, ConcatProperties
<1> HIDE DEF ah
<1>4. /\ ah \o b \in Seq(S) /\ Len(ah \o b) = (c + Len(hand)) + (n - c)
      /\ \A i \in 1 .. (c + Len(hand)) + (n - c) :
           (ah \o b)[i] = IF i <= c + Len(hand) THEN ah[i] ELSE b[i - (c + Len(hand))]
  <2> DEFINE d == ah \o b
  <2>1. /\ d \in Seq(S) /\ Len(d) = Len(ah) + Len(b)
        /\ \A i \in 1 .. Len(ah) + Len(b) :
             d[i] = IF i <= Len(ah) THEN ah[i] ELSE b[i - Len(ah)]
    BY <1>2, <1>3, ConcatProperties
  <2> HIDE DEF d
  <2>2. \A i \in 1 .. (c + Len(hand)) + (n - c) :
          d[i] = IF i <= c + Len(hand) THEN ah[i] ELSE b[i - (c + Len(hand))]
    BY <1>2, <1>3, <2>1
  <2> QED
    BY <1>2, <1>3, <2>1, <2>2 DEF d
<1>5. Around(s, c, hand) = ah \o b
  BY DEF Around, ah, a, b
<1>6. ASSUME NEW k \in 1 .. n + Len(hand)
      PROVE  (ah \o b)[k] = IF k <= c THEN s[n - c + k]
                            ELSE IF k <= c + Len(hand) THEN hand[k - c]
                            ELSE s[k - c - Len(hand)]
  <2>0. k \in 1 .. (c + Len(hand)) + (n - c)
    BY <1>0
  <2>1. (ah \o b)[k] = IF k <= c + Len(hand) THEN ah[k] ELSE b[k - (c + Len(hand))]
    BY <1>4, <2>0
  <2>2. k <= c + Len(hand) => ah[k] = IF k <= c THEN a[k] ELSE hand[k - c]
    BY <1>0, <1>3
  <2>3. k <= c => a[k] = s[n - c + k]
    <3>1. k <= c => k \in 1 .. c
      BY <1>0
    <3> QED
      BY <1>1, <3>1
  <2>4. k > c + Len(hand) => b[k - (c + Len(hand))] = s[k - (c + Len(hand))]
    <3>1. k > c + Len(hand) => k - (c + Len(hand)) \in 1 .. n - c
      BY <1>0
    <3> QED
      BY <1>2, <3>1
  <2>5. k - (c + Len(hand)) = k - c - Len(hand)
    BY <1>0
  <2> QED
    BY <1>0, <2>1, <2>2, <2>3, <2>4, <2>5
<1>7. Len(ah \o b) = n + Len(hand)
  BY <1>0, <1>4
<1>8. ASSUME NEW k \in 1 .. n + Len(hand)
      PROVE  (ah \o b)[k] = AroundAt(s, c, hand, k)
  BY <1>6 DEF AroundAt
<1> QED
  BY <1>4, <1>5, <1>7, <1>8

\* The two cases of it: an empty hand and one message in the hand.
LEMMA AroundEmpty ==
  ASSUME NEW S, NEW s \in Seq(S), NEW c \in 0 .. Len(s)
  PROVE  /\ Around(s, c, <<>>) \in Seq(S)
         /\ Len(Around(s, c, <<>>)) = Len(s)
         /\ \A k \in 1 .. Len(s) :
              Around(s, c, <<>>)[k] = IF k <= c THEN s[Len(s) - c + k] ELSE s[k - c]
<1> DEFINE hand == <<>>
           q == Around(s, c, hand)
<1>0. Len(s) \in Nat /\ hand \in Seq(S) /\ Len(hand) = 0
  BY LenProperties, EmptySeq
<1> HIDE DEF hand
<1>1. /\ q \in Seq(S)
      /\ Len(q) = Len(s) + Len(hand)
      /\ \A k \in 1 .. Len(s) + Len(hand) :
           q[k] = AroundAt(s, c, hand, k)
  BY <1>0, AroundType
<1> HIDE DEF q
<1>2. ASSUME NEW k \in 1 .. Len(s)
      PROVE  q[k] = IF k <= c THEN s[Len(s) - c + k] ELSE s[k - c]
  <2>1. k \in 1 .. Len(s) + Len(hand) /\ k - c - Len(hand) = k - c /\ c + Len(hand) = c
    BY <1>0
  <2>2. q[k] = AroundAt(s, c, hand, k)
    BY <1>1, <2>1
  <2> QED
    BY <1>0, <2>1, <2>2 DEF AroundAt
<1>3. Len(q) = Len(s)
  BY <1>0, <1>1
<1> QED
  BY <1>1, <1>2, <1>3 DEF q, hand

OneAt(s, c, m, k) ==
  IF k <= c THEN s[Len(s) - c + k] ELSE IF k = c + 1 THEN m ELSE s[k - c - 1]

LEMMA AroundOne ==
  ASSUME NEW S, NEW s \in Seq(S), NEW c \in 0 .. Len(s), NEW m \in S
  PROVE  /\ Around(s, c, <<m>>) \in Seq(S)
         /\ Len(Around(s, c, <<m>>)) = Len(s) + 1
         /\ \A k \in 1 .. Len(s) + 1 : Around(s, c, <<m>>)[k] = OneAt(s, c, m, k)
<1> DEFINE hand == <<m>>
           q == Around(s, c, hand)
<1>0. Len(s) \in Nat /\ hand \in Seq(S) /\ Len(hand) = 1 /\ hand[1] = m
  BY LenProperties
<1> HIDE DEF hand
<1>1. /\ q \in Seq(S)
      /\ Len(q) = Len(s) + Len(hand)
      /\ \A k \in 1 .. Len(s) + Len(hand) :
           q[k] = AroundAt(s, c, hand, k)
  BY <1>0, AroundType
<1> HIDE DEF q
<1>2. ASSUME NEW k \in 1 .. Len(s) + 1
      PROVE  q[k] = OneAt(s, c, m, k)
  <2>0. q[k] = AroundAt(s, c, hand, k)
    BY <1>0, <1>1
  <2>1. q[k] = IF k <= c THEN s[Len(s) - c + k]
               ELSE IF k <= c + 1 THEN hand[k - c]
               ELSE s[k - c - 1]
    BY <1>0, <2>0 DEF AroundAt
  <2>2. k = c + 1 => k - c = 1
    BY <1>0
  <2>3. ~(k <= c) /\ k <= c + 1 => k = c + 1
    BY <1>0
  <2>4. k = c + 1 => ~(k <= c) /\ k <= c + 1
    BY <1>0
  <2> QED
    BY <1>0, <2>1, <2>2, <2>3, <2>4 DEF OneAt
<1> QED
  BY <1>0, <1>1, <1>2 DEF q, hand

\* With nothing put back and nothing in hand it is the line itself.
LEMMA AroundNothing ==
  ASSUME NEW S, NEW s \in Seq(S)
  PROVE  Around(s, 0, <<>>) = s
<1> DEFINE q == Around(s, 0, <<>>)
<1>1. Len(s) \in Nat /\ 0 \in 0 .. Len(s)
  BY LenProperties
<1>2. /\ q \in Seq(S) /\ Len(q) = Len(s)
      /\ \A k \in 1 .. Len(s) : q[k] = IF k <= 0 THEN s[Len(s) - 0 + k] ELSE s[k - 0]
  BY <1>1, AroundEmpty
<1> HIDE DEF q
<1>3. ASSUME NEW k \in 1 .. Len(q) PROVE q[k] = s[k]
  <2>1. k \in 1 .. Len(s) /\ ~(k <= 0) /\ k - 0 = k
    BY <1>1, <1>2
  <2> QED
    BY <1>2, <2>1
<1> QED
  BY <1>2, <1>3, SeqEqual DEF q

\* A message taken from the front of the rest into the hand stays in its place.
LEMMA AroundTake ==
  ASSUME NEW S, NEW s \in Seq(S), NEW c \in 0 .. Len(s), c < Len(s)
  PROVE  Around(Tail(s), c, <<Head(s)>>) = Around(s, c, <<>>)
<1> DEFINE n == Len(s)
<1>1. n \in Nat \ {0} /\ s # <<>> /\ s[1] \in S
  BY LenProperties, ElementOfSeq
<1>2. /\ Tail(s) \in Seq(S) /\ Len(Tail(s)) = n - 1 /\ Head(s) = s[1]
      /\ \A i \in 1 .. n - 1 : Tail(s)[i] = s[i + 1]
  BY <1>1, HeadTailProperties
<1>3. PICK t \in Seq(S) : t = Tail(s)
  BY <1>2
<1>4. PICK m \in S : m = Head(s)
  BY <1>1, <1>2
<1> DEFINE q == Around(s, c, <<>>)
           p == Around(t, c, <<m>>)
<1>5. Len(t) = n - 1 /\ m = s[1] /\ \A i \in 1 .. n - 1 : t[i] = s[i + 1]
  BY <1>2, <1>3, <1>4
<1>6. /\ q \in Seq(S) /\ Len(q) = n
      /\ \A k \in 1 .. n : q[k] = IF k <= c THEN s[n - c + k] ELSE s[k - c]
  BY AroundEmpty
<1>7. c \in 0 .. Len(t)
  BY <1>1, <1>5
<1>8. /\ p \in Seq(S) /\ Len(p) = Len(t) + 1
      /\ \A k \in 1 .. Len(t) + 1 : p[k] = OneAt(t, c, m, k)
  BY <1>7, AroundOne
<1> HIDE DEF q, p
<1>9. ASSUME NEW k \in 1 .. n
      PROVE  p[k] = q[k]
  <2>0. k \in 1 .. Len(t) + 1
    BY <1>1, <1>5
  <2>1. CASE k <= c
    <3>1. (n - 1) - c + k \in 1 .. n - 1 /\ ((n - 1) - c + k) + 1 = n - c + k
      BY <1>1, <2>1
    <3>2. p[k] = t[(n - 1) - c + k] /\ q[k] = s[n - c + k]
      BY <1>5, <1>6, <1>8, <2>0, <2>1 DEF OneAt
    <3> QED
      BY <1>5, <3>1, <3>2
  <2>2. CASE k = c + 1
    <3>1. ~(k <= c) /\ k - c = 1
      BY <1>1, <2>2
    <3> QED
      BY <1>5, <1>6, <1>8, <2>0, <2>2, <3>1 DEF OneAt
  <2>3. CASE k > c + 1
    <3>1. k - c - 1 \in 1 .. n - 1 /\ (k - c - 1) + 1 = k - c /\ ~(k <= c) /\ k # c + 1
      BY <1>1, <2>3
    <3>2. p[k] = t[k - c - 1] /\ q[k] = s[k - c]
      BY <1>6, <1>8, <2>0, <3>1 DEF OneAt
    <3> QED
      BY <1>5, <3>1, <3>2
  <2> QED
    BY <1>1, <2>1, <2>2, <2>3
<1>10. Len(p) = n
  BY <1>1, <1>5, <1>8
<1>11. p = q
  BY <1>6, <1>8, <1>9, <1>10, SeqEqual
<1> QED
  BY <1>3, <1>4, <1>11 DEF p, q

\* So does one put back from the hand.
LEMMA AroundPut ==
  ASSUME NEW S, NEW s \in Seq(S), NEW c \in 0 .. Len(s), NEW m \in S
  PROVE  Around(Append(s, m), c + 1, <<>>) = Around(s, c, <<m>>)
<1> DEFINE n == Len(s)
           t == Append(s, m)
           q == Around(s, c, <<m>>)
           p == Around(t, c + 1, <<>>)
<1>1. n \in Nat /\ c \in Nat
  BY LenProperties
<1>2. /\ t \in Seq(S) /\ Len(t) = n + 1 /\ t[n + 1] = m
      /\ \A i \in 1 .. n : t[i] = s[i]
  BY AppendProperties
<1> HIDE DEF t
<1>4. /\ q \in Seq(S) /\ Len(q) = n + 1
      /\ \A k \in 1 .. n + 1 : q[k] = OneAt(s, c, m, k)
  BY AroundOne
<1>5. c + 1 \in 0 .. Len(t)
  BY <1>1, <1>2
<1>6. /\ p \in Seq(S) /\ Len(p) = Len(t)
      /\ \A k \in 1 .. Len(t) : p[k] = IF k <= c + 1 THEN t[Len(t) - (c + 1) + k]
                                       ELSE t[k - (c + 1)]
  BY <1>2, <1>5, AroundEmpty
<1> HIDE DEF q, p
<1>7. ASSUME NEW k \in 1 .. n + 1
      PROVE  p[k] = q[k]
  <2>0. k \in 1 .. Len(t) /\ Len(t) = n + 1
    BY <1>2
  <2>1. CASE k <= c
    <3>1. n - c + k \in 1 .. n /\ (n + 1) - (c + 1) + k = n - c + k /\ k <= c + 1
      BY <1>1, <2>1
    <3> QED
      BY <1>2, <1>4, <1>6, <2>0, <2>1, <3>1 DEF OneAt
  <2>2. CASE k = c + 1
    <3>1. (n + 1) - (c + 1) + k = n + 1 /\ ~(k <= c) /\ k <= c + 1
      BY <1>1, <2>2
    <3> QED
      BY <1>2, <1>4, <1>6, <2>0, <2>2, <3>1 DEF OneAt
  <2>3. CASE k > c + 1
    <3>1. /\ k - (c + 1) \in 1 .. n /\ k - (c + 1) = k - c - 1
          /\ ~(k <= c) /\ ~(k <= c + 1) /\ k # c + 1
      BY <1>1, <2>3
    <3>2. p[k] = t[k - (c + 1)]
      BY <1>6, <2>0, <3>1
    <3>3. t[k - (c + 1)] = s[k - (c + 1)]
      BY <1>2, <3>1
    <3>4. q[k] = s[k - c - 1]
      BY <1>4, <3>1 DEF OneAt
    <3> QED
      BY <3>1, <3>2, <3>3, <3>4
  <2> QED
    BY <1>1, <2>1, <2>2, <2>3
<1> QED
  BY <1>2, <1>4, <1>6, <1>7, SeqEqual DEF p, q, t

\* Taking the front of the rest out and moving what is before it to the back
\* leaves what the ring holds.
LEMMA AroundDeliver ==
  ASSUME NEW S, NEW s \in Seq(S), NEW c \in 0 .. Len(s), c < Len(s)
  PROVE  LET q == Around(s, c, <<>>)
         IN  /\ c + 1 \in 1 .. Len(q)
             /\ q[c + 1] = Head(s)
             /\ \A j \in 1 .. c : q[j] = s[Len(s) - c + j]
             /\ SubSeq(q, c + 2, Len(q)) \o SubSeq(q, 1, c) = Tail(s)
<1> DEFINE n == Len(s)
           q == Around(s, c, <<>>)
           a == SubSeq(q, c + 2, n)
           b == SubSeq(q, 1, c)
<1>1. n \in Nat \ {0} /\ c \in Nat /\ s # <<>> /\ <<>> \in Seq(S) /\ Len(<<>>) = 0
  BY LenProperties, EmptySeq
<1>2. /\ q \in Seq(S) /\ Len(q) = n
      /\ \A k \in 1 .. n : q[k] = IF k <= c THEN s[n - c + k] ELSE s[k - c]
  BY AroundEmpty
<1>3. /\ Tail(s) \in Seq(S) /\ Len(Tail(s)) = n - 1 /\ Head(s) = s[1]
      /\ \A i \in 1 .. n - 1 : Tail(s)[i] = s[i + 1]
  BY <1>1, HeadTailProperties
<1> HIDE DEF q
<1>4. \A i \in 1 .. n : q[i] \in S
  BY <1>2, ElementOfSeq
<1>5. a \in Seq(S) /\ Len(a) = n - c - 1 /\ \A i \in 1 .. n - c - 1 : a[i] = q[c + 1 + i]
  <2>1. \A i \in c + 2 .. n : q[i] \in S
    BY <1>1, <1>4
  <2>2. /\ a \in Seq(S) /\ Len(a) = IF c + 2 <= n THEN n - (c + 2) + 1 ELSE 0
        /\ \A i \in 1 .. n - (c + 2) + 1 : a[i] = q[(c + 2) + i - 1]
    BY <1>1, <2>1, SubSeqProperties
  <2> HIDE DEF a
  <2>3. Len(a) = n - c - 1
    BY <1>1, <2>2
  <2>4. ASSUME NEW i \in 1 .. n - c - 1 PROVE a[i] = q[c + 1 + i]
    <3>1. i \in 1 .. n - (c + 2) + 1 /\ (c + 2) + i - 1 = c + 1 + i
      BY <1>1
    <3> QED
      BY <2>2, <3>1
  <2> QED
    BY <2>2, <2>3, <2>4
<1>6. b \in Seq(S) /\ Len(b) = c /\ \A i \in 1 .. c : b[i] = q[i]
  <2>1. \A i \in 1 .. c : q[i] \in S
    BY <1>1, <1>4
  <2>2. /\ b \in Seq(S) /\ Len(b) = IF 1 <= c THEN c - 1 + 1 ELSE 0
        /\ \A i \in 1 .. c - 1 + 1 : b[i] = q[1 + i - 1]
    BY <1>1, <2>1, SubSeqProperties
  <2> HIDE DEF b
  <2>3. Len(b) = c
    BY <1>1, <2>2
  <2>4. ASSUME NEW i \in 1 .. c PROVE b[i] = q[i]
    <3>1. i \in 1 .. c - 1 + 1 /\ 1 + i - 1 = i
      BY <1>1
    <3> QED
      BY <2>2, <3>1
  <2> QED
    BY <2>2, <2>3, <2>4
<1> HIDE DEF a, b
<1>7. /\ a \o b \in Seq(S) /\ Len(a \o b) = (n - c - 1) + c
      /\ \A i \in 1 .. (n - c - 1) + c :
           (a \o b)[i] = IF i <= n - c - 1 THEN a[i] ELSE b[i - (n - c - 1)]
  <2>1. /\ a \o b \in Seq(S) /\ Len(a \o b) = Len(a) + Len(b)
        /\ \A i \in 1 .. Len(a) + Len(b) :
             (a \o b)[i] = IF i <= Len(a) THEN a[i] ELSE b[i - Len(a)]
    BY <1>5, <1>6, ConcatProperties
  <2> QED
    BY <1>5, <1>6, <2>1
<1>8. ASSUME NEW i \in 1 .. n - 1
      PROVE  (a \o b)[i] = Tail(s)[i]
  <2>0. i \in 1 .. (n - c - 1) + c
    BY <1>1
  <2>1. CASE i <= n - c - 1
    <3>1. /\ i \in 1 .. n - c - 1 /\ c + 1 + i \in 1 .. n /\ ~(c + 1 + i <= c)
          /\ (c + 1 + i) - c = i + 1
      BY <1>1, <2>1
    <3> QED
      BY <1>2, <1>3, <1>5, <1>7, <2>0, <2>1, <3>1
  <2>2. CASE ~(i <= n - c - 1)
    <3> DEFINE k == i - (n - c - 1)
    <3>1. /\ k \in 1 .. c /\ k \in 1 .. n /\ k <= c /\ n - c + k = i + 1
      BY <1>1, <2>2
    <3>2. (a \o b)[i] = q[k]
      BY <1>6, <1>7, <2>0, <2>2, <3>1
    <3> HIDE DEF k
    <3> QED
      BY <1>2, <1>3, <3>1, <3>2
  <2> QED
    BY <2>1, <2>2
<1>9. Len(a \o b) = n - 1
  BY <1>1, <1>7
<1>10. a \o b = Tail(s)
  BY <1>3, <1>7, <1>8, <1>9, SeqEqual
<1>11. /\ c + 1 \in 1 .. n /\ q[c + 1] = Head(s)
       /\ \A j \in 1 .. c : q[j] = s[n - c + j]
  <2>1. c + 1 \in 1 .. n /\ ~(c + 1 <= c) /\ (c + 1) - c = 1
    BY <1>1
  <2>2. q[c + 1] = Head(s)
    BY <1>2, <1>3, <2>1
  <2>3. ASSUME NEW j \in 1 .. c PROVE q[j] = s[n - c + j]
    <3>1. j \in 1 .. n /\ j <= c
      BY <1>1
    <3> QED
      BY <1>2, <3>1
  <2> QED
    BY <2>1, <2>2, <2>3
<1> QED
  BY <1>2, <1>10, <1>11 DEF q, a, b
-----------------------------------------------------------------------------
(* The invariant of a receive, wherever the ticks land: the messages put    *)
(* back are the last ones of the line, and the delay of one of those before *)
(* them is 0, so far as it is copied; nothing is found before the receive   *)
(* ends, and a refused message waits as it was posted.                      *)

DueAt(j) ==
  list[Ahead(Cursor, j)].delay = 0 /\ (rpc = "copy" /\ j = 1 => part = 0)

Reading ==
  /\ Examining => NumPutBack \in 0 .. Len(Line) /\ \E j \in 1 .. Unread : DueAt(j)
  /\ rpc = "put" => reg.delay > 0
  /\ rpc \notin {"reload", "commit"} => out = Blank
  /\ \A p \in Poster : ppc[p] # "idle" => pmsg[p] \in NewMessages(p)

\* How far the local tail is ahead of the stored one.
NumCopied(t, r) == (r - t) % Size

LEMMA NumCopiedGrows ==
  ASSUME NEW t \in Slot, NEW r \in Slot
  PROVE  /\ NumCopied(t, r) \in 0 .. Size - 1
         /\ NumCopied(t, t) = 0
         /\ NumCopied(t, r) + 1 < Size => NumCopied(t, Succ(r)) = NumCopied(t, r) + 1
<1>1. Size \in Nat /\ Size >= 2 /\ Slot = 0 .. Size - 1
  BY SizeAssumption DEF Slot
<1>2. Succ(r) \in Slot /\ Succ(r) = IF r = Size - 1 THEN 0 ELSE r + 1
  BY SuccDef, SuccType
<1>3. \A i \in Slot : NumCopied(t, i) = IF i >= t THEN i - t ELSE i - t + Size
  BY <1>1 DEF NumCopied
<1> QED
  BY <1>1, <1>2, <1>3

LastAreDelayed(s, c) == \A j \in 1 .. c : s[Len(s) - c + j].delay > 0

LEMMA LastOfTail ==
  ASSUME NEW s \in Seq(PlainMessage), NEW c \in 0 .. Len(s), c < Len(s),
         LastAreDelayed(s, c)
  PROVE  /\ Tail(s) \in Seq(PlainMessage)
         /\ c \in 0 .. Len(Tail(s))
         /\ LastAreDelayed(Tail(s), c)
<1>1. Len(s) \in Nat \ {0} /\ s # <<>>
  BY LenProperties
<1>2. PICK t \in Seq(PlainMessage) : t = Tail(s)
  BY <1>1, HeadTailProperties
<1>3. Len(t) = Len(s) - 1 /\ \A i \in 1 .. Len(t) : t[i] = s[i + 1]
  BY <1>1, <1>2, HeadTailProperties
<1>4. ASSUME NEW j \in 1 .. c PROVE t[Len(t) - c + j].delay > 0
  <2>1. /\ Len(t) - c + j \in 1 .. Len(t)
        /\ (Len(t) - c + j) + 1 = Len(s) - c + j
    BY <1>1, <1>3
  <2>2. t[Len(t) - c + j] = s[Len(s) - c + j]
    BY <1>3, <2>1
  <2> QED
    BY <2>2 DEF LastAreDelayed
<1>5. c \in 0 .. Len(t)
  BY <1>1, <1>3
<1>6. LastAreDelayed(t, c)
  BY <1>4 DEF LastAreDelayed
<1> QED
  BY <1>2, <1>5, <1>6

LEMMA LastOfAppend ==
  ASSUME NEW s \in Seq(PlainMessage), NEW c \in 0 .. Len(s),
         NEW m \in PlainMessage, m.delay > 0, LastAreDelayed(s, c)
  PROVE  /\ Append(s, m) \in Seq(PlainMessage)
         /\ c + 1 \in 0 .. Len(Append(s, m))
         /\ LastAreDelayed(Append(s, m), c + 1)
<1>1. Len(s) \in Nat
  BY LenProperties
<1>2. PICK t \in Seq(PlainMessage) : t = Append(s, m)
  BY AppendProperties
<1>3. Len(t) = Len(s) + 1 /\ t[Len(s) + 1] = m /\ \A i \in 1 .. Len(s) : t[i] = s[i]
  BY <1>2, AppendProperties
<1>4. ASSUME NEW j \in 1 .. c + 1 PROVE t[Len(t) - (c + 1) + j].delay > 0
  <2>1. CASE j = c + 1
    <3>1. Len(t) - (c + 1) + j = Len(s) + 1
      BY <1>1, <1>3, <2>1
    <3> QED
      BY <1>3, <3>1
  <2>2. CASE j # c + 1
    <3>1. /\ j \in 1 .. c /\ Len(s) - c + j \in 1 .. Len(s)
          /\ Len(t) - (c + 1) + j = Len(s) - c + j
      BY <1>1, <1>3, <2>2
    <3>2. t[Len(s) - c + j] = s[Len(s) - c + j]
      BY <1>3, <3>1
    <3> QED
      BY <3>1, <3>2 DEF LastAreDelayed
  <2> QED
    BY <2>1, <2>2
<1>5. c + 1 \in 0 .. Len(t)
  BY <1>1, <1>3
<1>6. LastAreDelayed(t, c + 1)
  BY <1>4 DEF LastAreDelayed
<1> QED
  BY <1>2, <1>5, <1>6

\* The line in every state, and where it starts.
LEMMA LineNow ==
  ASSUME TypeOK
  PROVE  /\ Line = LineOf(list, Cursor, head)
         /\ Cursor \in Slot
         /\ Line \in Seq(PlainMessage)
         /\ Len(Line) = Between(Cursor, head)
<1>1. Cursor \in Slot /\ head \in Slot /\ list \in [Slot -> Message]
  BY DEF TypeOK, Cursor
<1> QED
  BY <1>1, LineIs, LineType

\* What a receive has in front of it.
LEMMA Ahead1 ==
  ASSUME IndInv, Reading, Examining
  PROVE  /\ Cursor = rtail /\ rtail \in Slot /\ head \in Slot
         /\ Line \in Seq(PlainMessage) /\ Len(Line) = Between(rtail, head)
         /\ Len(Line) \in 1 .. Size - 1 /\ Size \in Nat
         /\ Unread = Len(Line) - NumPutBack /\ Unread \in 1 .. Len(Line)
         /\ NextTail = Ahead(rtail, 1)
<1>1. Cursor = rtail
  BY DEF Examining, Cursor, Scanning
<1>2. rtail \in Slot /\ head \in Slot
  BY DEF IndInv, TypeOK
<1>3. Line \in Seq(PlainMessage) /\ Len(Line) = Between(rtail, head)
  BY <1>1, LineNow DEF IndInv
<1>4. Between(rtail, head) \in 0 .. Size - 1 /\ Size \in Nat
  BY <1>2, BetweenDef, SizeAssumption
<1>5. Unread = Len(Line) - NumPutBack
  BY DEF Unread
<1>6. NumPutBack \in 0 .. Len(Line) /\ \E j \in 1 .. Unread : TRUE
  BY DEF Reading
<1>7. NextTail = Ahead(rtail, 1)
  BY DEF NextTail, Succ, Ahead
<1> QED
  BY <1>1, <1>2, <1>3, <1>4, <1>5, <1>6, <1>7

\* The message being copied, and its delay so far as it is copied.
LEMMA BeingCopied ==
  ASSUME IndInv, rpc = "copy"
  PROVE  /\ NextTail \in Slot /\ list[NextTail] \in Message
         /\ Patient(list[NextTail])
         /\ part + Digit(list[NextTail].delay) \in Nat
         /\ list[NextTail].delay = 0 /\ part = 0
              => part + Digit(list[NextTail].delay) = 0
<1>1. rtail \in Slot /\ head \in Slot /\ list \in [Slot -> Message]
  BY DEF IndInv, TypeOK
<1>2. Live = Window(rtail, head) /\ Live # {}
  BY DEF IndInv, Live, Cursor, Scanning, ScanWillFind
<1>3. NextTail \in Slot /\ NextTail \in Live
  BY <1>1, <1>2, SuccType, WindowShrinks DEF NextTail
<1>4. list[NextTail] \in Message /\ Patient(list[NextTail])
  BY <1>1, <1>3 DEF IndInv, MessagesPatient
<1> QED
  BY <1>3, <1>4, Copied DEF IndInv

\* How a turn of the loop and a put-back change the line.
LEMMA CopyOutLine ==
  ASSUME IndInv, Reading, CopyOut
  PROVE  /\ NumPutBack \in 0 .. Len(Line) /\ NumPutBack < Len(Line)
         /\ Line \in Seq(PlainMessage)
         /\ Line' = Tail(Line)
         /\ Head(Line) = Plain(list[NextTail])
         /\ rpc' = "put" => NumPutBack' = NumPutBack
<1>1. rpc = "copy" /\ rtail' = NextTail /\ list' = list /\ head' = head /\ tail' = tail
        /\ rpc' \in {"commit", "reload", "put"}
  BY DEF CopyOut
<1>2. /\ rtail \in Slot /\ tail \in Slot /\ head \in Slot
      /\ list \in [Slot -> Message] /\ NextTail = Succ(rtail)
  BY DEF IndInv, TypeOK, NextTail
<1>3. Cursor = rtail /\ Cursor' = Succ(rtail)
  BY <1>1, <1>2 DEF Cursor, Scanning
<1>4. Line = LineOf(list, rtail, head) /\ Line' = LineOf(list, Succ(rtail), head)
  BY <1>1, <1>3 DEF Line, LineOf, Between, Ahead
<1>5. /\ Line \in Seq(PlainMessage) /\ Len(Line) = Between(rtail, head)
      /\ Len(Line) \in 1 .. Size - 1 /\ Size \in Nat
      /\ Unread = Len(Line) - NumPutBack /\ Unread \in 1 .. Len(Line)
  BY <1>1, Ahead1 DEF Examining
<1>6. NumPutBack \in 0 .. Len(Line)
  BY <1>1 DEF Reading, Examining
<1>7. NumPutBack < Len(Line) /\ Between(rtail, head) > 0
  BY <1>5, <1>6
<1>8. rpc' = "put" => NumPutBack' = NumPutBack
  <2>1. NumPutBack = NumCopied(tail, rtail)
    BY <1>1 DEF NumPutBack, NumCopied
  <2>2. rpc' = "put" => NumPutBack' = NumCopied(tail, Succ(rtail)) - 1
    BY <1>1, <1>2 DEF NumPutBack, NumCopied
  <2>3. NumCopied(tail, rtail) + 1 < Size
    BY <1>5, <1>6, <1>7, <2>1
  <2>4. /\ NumCopied(tail, Succ(rtail)) = NumCopied(tail, rtail) + 1
        /\ NumCopied(tail, rtail) \in 0 .. Size - 1
    BY <1>2, <2>3, NumCopiedGrows
  <2> QED
    BY <1>5, <2>1, <2>2, <2>4
<1>9. Line' = Tail(Line) /\ Head(Line) = Plain(list[NextTail])
  BY <1>2, <1>4, <1>7, LineShrinks
<1> QED
  BY <1>5, <1>6, <1>7, <1>8, <1>9

\* PutBack stores what is in the hand at the end of the line.
LEMMA PutBackLine ==
  ASSUME IndInv, PutBack
  PROVE  /\ Line \in Seq(PlainMessage)
         /\ Plain(reg) \in PlainMessage
         /\ Line' = Append(Line, Plain(reg))
         /\ rpc = "put" => rpc' = "copy" /\ NumPutBack' = NumPutBack + 1
<1>t. TypeOK
  BY DEF IndInv
<1>1. /\ rpc \in {"put", "reload"} /\ rpc' = IF rpc = "put" THEN "copy" ELSE "commit"
      /\ list' = [list EXCEPT ![head] = reg] /\ head' = Succ(head)
      /\ tail' = tail /\ rtail' = rtail
  BY DEF PutBack
<1>2. /\ rtail \in Slot /\ tail \in Slot /\ head \in Slot /\ reg \in Message
      /\ list \in [Slot -> Message]
  BY <1>t DEF TypeOK
<1>3. Cursor = rtail /\ Cursor' = rtail /\ head # rtail
  BY <1>1 DEF Cursor, Scanning, IndInv, PutBackHasRoom
<1>4. Line = LineOf(list, rtail, head)
  BY <1>3 DEF Line, LineOf, Between, Ahead
<1>5. Line' = LineOf([list EXCEPT ![head] = reg], rtail, Succ(head))
  BY <1>1, <1>3 DEF Line, LineOf, Between, Ahead
<1>6. Line' = Append(Line, Plain(reg))
  BY <1>2, <1>3, <1>4, <1>5, LineGrows
<1>7. rpc = "put" => rpc' = "copy" /\ NumPutBack' = NumPutBack + 1
  <2>1. rpc = "put" => NumPutBack = NumCopied(tail, rtail) - 1
    BY DEF NumPutBack, NumCopied
  <2>2. rpc = "put" => NumPutBack' = NumCopied(tail, rtail) /\ rpc' = "copy"
    BY <1>1 DEF NumPutBack, NumCopied
  <2>3. NumCopied(tail, rtail) \in 0 .. Size - 1 /\ Size \in Nat
    BY <1>2, NumCopiedGrows, SizeAssumption
  <2> QED
    BY <2>1, <2>2, <2>3
<1> QED
  BY <1>2, <1>4, <1>6, <1>7, LineType, PlainType

\* A tick leaves every message of the line in its place and counts for it.
Counted(m) == [m EXCEPT !.delay = IF @ > 0 THEN @ - 1 ELSE 0]

LEMMA CountedType ==
  ASSUME NEW m \in PlainMessage
  PROVE  /\ Counted(m) \in PlainMessage
         /\ Counted(m) = [from |-> m.from, asked |-> m.asked, delay |-> Dec(m.delay),
                          reload |-> m.reload]
BY DEF Counted, PlainMessage, Dec

LEMMA TickLine ==
  ASSUME IndInv, IndInv', Tick
  PROVE  /\ Line \in Seq(PlainMessage) /\ Line' \in Seq(PlainMessage)
         /\ Len(Line') = Len(Line)
         /\ \A j \in 1 .. Len(Line) : Line'[j] = Counted(Line[j])
         /\ NumPutBack' = NumPutBack /\ Cursor' = Cursor
<1>t. TypeOK /\ TypeOK'
  BY DEF IndInv
<1>1. head' = head /\ tail' = tail /\ rtail' = rtail
  BY DEF Tick
<1>2. /\ rpc' = rpc \/ (rpc = "waiting" /\ rpc' = "retry")
      /\ Cursor' = Cursor
  BY <1>1 DEF Tick, WokenReceiver, Cursor, Scanning
<1>3. /\ Cursor \in Slot /\ head \in Slot
      /\ list \in [Slot -> Message] /\ list' \in [Slot -> Message]
  BY <1>t DEF TypeOK, Cursor
<1>4. Line = LineOf(list, Cursor, head) /\ Line' = LineOf(list', Cursor, head)
  BY <1>1, <1>2 DEF Line, LineOf, Between, Ahead
<1> DEFINE n == Between(Cursor, head)
<1>5. /\ Line \in Seq(PlainMessage) /\ Len(Line) = n
      /\ Line' \in Seq(PlainMessage) /\ Len(Line') = n
      /\ \A j \in 1 .. n : /\ Ahead(Cursor, j) \in Slot
                            /\ Line[j] = Plain(list[Ahead(Cursor, j)])
                            /\ Line'[j] = Plain(list'[Ahead(Cursor, j)])
  BY <1>3, <1>4, LineType
<1>6. ASSUME NEW i \in Live
      PROVE  Plain(list'[i]) = Counted(Plain(list[i]))
  <2>0. i \in Slot
    BY DEF Live, Window
  <2>1. list[i] \in Message /\ Plain(list[i]) \in PlainMessage
    BY <1>3, <2>0, PlainType
  <2>2. /\ list'[i].from = list[i].from /\ list'[i].asked = list[i].asked
        /\ list'[i].reload = list[i].reload /\ list'[i].due = Dec(list[i].due)
    BY <2>0, <2>1 DEF Tick, Message
  <2>3. Counted(Plain(list[i])) = [from |-> list[i].from, asked |-> list[i].asked,
                                   delay |-> Dec(list[i].due), reload |-> list[i].reload]
    BY <2>1, CountedType DEF Plain
  <2> QED
    BY <2>2, <2>3 DEF Plain
<1>7. ASSUME NEW j \in 1 .. n
      PROVE  Line'[j] = Counted(Line[j])
  <2>1. Ahead(Cursor, j) \in Live
    BY <1>3, WindowIsWalk DEF Live
  <2> QED
    BY <1>5, <1>6, <2>1
<1>8. NumPutBack' = NumPutBack
  BY <1>1, <1>2 DEF NumPutBack
<1> QED
  BY <1>2, <1>5, <1>7, <1>8

LEMMA InitReading == Init => Reading
  BY DEF Init, Reading, Examining

\* What Reading says of the posters, step by step.
LEMMA RefusedAsPosted ==
  ASSUME IndInv, Reading, [Next]_vars
  PROVE  \A p \in Poster : ppc'[p] # "idle" => pmsg'[p] \in NewMessages(p)
<1> DEFINE AsPosted == \A p \in Poster : ppc'[p] # "idle" => pmsg'[p] \in NewMessages(p)
<1>t. ppc \in [Poster -> {"idle", "waiting", "retry"}] /\ pmsg \in [Poster -> Message]
  BY DEF IndInv, TypeOK
<1>1. ASSUME NEW p \in Poster, NEW m \in NewMessages(p), Post(p, m)
      PROVE  AsPosted
  <2>1. CASE ppc' = Woken(ppc) /\ UNCHANGED pmsg
    BY <1>t, <2>1 DEF Woken, Reading
  <2>2. CASE ppc' = [ppc EXCEPT ![p] = "waiting"] /\ pmsg' = [pmsg EXCEPT ![p] = m]
    BY <1>t, <2>2 DEF Reading
  <2> QED
    BY <1>1, <2>1, <2>2 DEF Post
<1>2. ASSUME NEW p \in Poster, Retry(p)
      PROVE  AsPosted
  <2>1. CASE ppc' = [Woken(ppc) EXCEPT ![p] = "idle"] /\ pmsg' = [pmsg EXCEPT ![p] = Blank]
    BY <1>t, <2>1 DEF Woken, Reading
  <2>2. CASE ppc' = [ppc EXCEPT ![p] = "waiting"] /\ UNCHANGED pmsg
    BY <1>t, <1>2, <2>2 DEF Reading, Retry
  <2> QED
    BY <1>2, <2>1, <2>2 DEF Retry
<1>3. CASE UNCHANGED pmsg /\ (ppc' = ppc \/ ppc' = Woken(ppc))
  BY <1>t, <1>3 DEF Woken, Reading
<1> QED
  BY <1>1, <1>2, <1>3
     DEF Next, ReceiverStep, PostAsyncRefused, ReceiveAsyncEmpty, Receive, EnterWait,
         CopyByte, CopyOut, PutBack, Commit, Tick, vars

\* A receive begins with a message that is due.
LEMMA ReceiveReads ==
  ASSUME IndInv, IndInv', Receive, rpc' = "copy"
  PROVE  /\ NumPutBack' \in 0 .. Len(Line')
         /\ \E j \in 1 .. Unread' : DueAt(j)'
<1>t. TypeOK /\ TypeOK'
  BY DEF IndInv
<1>1. /\ rtail' = tail /\ tail' = tail /\ head' = head /\ list' = list
      /\ part' = part /\ ~MsgQAllDelayed /\ rpc # "copy"
  BY DEF Receive
<1>2. head \in Slot /\ tail \in Slot /\ list \in [Slot -> Message]
  BY <1>t DEF TypeOK
<1>3. NumPutBack' = 0
  <2>1. NumCopied(tail, tail) = 0
    BY <1>2, NumCopiedGrows
  <2> QED
    BY <1>1, <2>1 DEF NumPutBack, NumCopied
<1>4. Line' = LineOf(list, tail, head) /\ Cursor' = tail
  BY <1>1 DEF Line, LineOf, Between, Ahead, Cursor, Scanning
<1>5. Len(Line') = Between(tail, head) /\ Between(tail, head) \in 0 .. Size - 1
  BY <1>2, <1>4, LineType, BetweenDef
<1>6. Unread' = Between(tail, head) /\ Len(Line') \in Nat
  BY <1>3, <1>5, SizeAssumption DEF Unread
<1>7. PICK i \in Window(tail, head) : ~(list[i].delay > 0)
  BY <1>1 DEF MsgQAllDelayed
<1>8. PICK j \in 1 .. Between(tail, head) : Ahead(tail, j) = i
  BY <1>2, WindowIsWalk
<1>9. list'[Ahead(Cursor', j)].delay = 0
  <2>1. list[i] \in Message
    BY <1>2 DEF Window
  <2> QED
    BY <1>1, <1>4, <1>7, <1>8, <2>1 DEF Message
<1>10. part' = 0
  BY <1>1 DEF IndInv, CopySound
<1>11. DueAt(j)'
  BY <1>9, <1>10 DEF DueAt
<1> QED
  BY <1>3, <1>6, <1>8, <1>11

\* A byte copied from a message whose delay is 0 is 0.
LEMMA CopyByteReads ==
  ASSUME IndInv, Reading, CopyByte
  PROVE  /\ NumPutBack' = NumPutBack /\ Line' = Line /\ Unread' = Unread
         /\ \E j \in 1 .. Unread' : DueAt(j)'
<1>1. /\ rpc = "copy" /\ rpc' = "copy"
      /\ UNCHANGED <<list, head, tail, rtail>>
      /\ part' = part + Digit(list[NextTail].delay)
  BY DEF CopyByte
<1>2. Cursor' = Cursor /\ NumPutBack' = NumPutBack /\ Line' = Line /\ Unread' = Unread
  BY <1>1 DEF Cursor, Scanning, NumPutBack, Line, Unread
<1>3. PICK j \in 1 .. Unread : DueAt(j)
  BY <1>1 DEF Reading, Examining
<1>4. NextTail = Ahead(Cursor, 1)
  BY <1>1, Ahead1 DEF Examining
<1>5. j = 1 => part' = 0
  BY <1>1, <1>3, <1>4, BeingCopied DEF DueAt
<1>6. DueAt(j)'
  BY <1>1, <1>2, <1>3, <1>5 DEF DueAt
<1> QED
  BY <1>2, <1>6

\* A turn that puts its message aside leaves the due one in the rest.
LEMMA CopyOutReads ==
  ASSUME IndInv, IndInv', Reading, CopyOut, rpc' = "put"
  PROVE  /\ NumPutBack' \in 0 .. Len(Line') /\ \E j \in 1 .. Unread' : DueAt(j)'
         /\ Unread' = Unread - 1 /\ reg'.delay > 0
<1>1. /\ NumPutBack \in 0 .. Len(Line) /\ NumPutBack < Len(Line)
      /\ Line \in Seq(PlainMessage) /\ Line' = Tail(Line)
      /\ NumPutBack' = NumPutBack
  BY CopyOutLine
<1>2. /\ rpc = "copy" /\ rtail' = Succ(rtail) /\ list' = list
      /\ reg' = [list[NextTail] EXCEPT !.delay = part + Digit(list[NextTail].delay)]
      /\ ~TimedOut(reg')
  BY DEF CopyOut, NextTail
<1>3. reg'.delay = part + Digit(list[NextTail].delay) /\ reg'.delay > 0
  <2>1. list[NextTail] \in Message /\ part + Digit(list[NextTail].delay) \in Nat
    BY <1>2, BeingCopied
  <2>2. reg'.delay = part + Digit(list[NextTail].delay)
    BY <1>2, <2>1 DEF Message
  <2> QED
    BY <1>2, <2>1, <2>2 DEF TimedOut
<1>4. /\ Cursor = rtail /\ rtail \in Slot /\ head \in Slot
      /\ Len(Line) = Between(rtail, head) /\ Len(Line) \in 1 .. Size - 1 /\ Size \in Nat
      /\ Unread = Len(Line) - NumPutBack /\ Unread \in 1 .. Len(Line)
      /\ NextTail = Ahead(rtail, 1)
  BY <1>2, Ahead1 DEF Examining
<1>5. Len(Tail(Line)) = Len(Line) - 1
  <2>1. Line # <<>>
    BY <1>1, <1>4, LenProperties
  <2> QED
    BY <1>1, <2>1, HeadTailProperties
<1>6. Unread' = Unread - 1 /\ NumPutBack' \in 0 .. Len(Line')
  BY <1>1, <1>4, <1>5 DEF Unread
<1>7. PICK j \in 1 .. Unread : DueAt(j)
  BY <1>2 DEF Reading, Examining
<1>8. j # 1
  <2>1. ~(list[NextTail].delay = 0 /\ part = 0)
    BY <1>2, <1>3, BeingCopied
  <2> QED
    BY <1>2, <1>4, <1>7, <2>1 DEF DueAt
<1>9. j - 1 \in 1 .. Unread - 1 /\ j - 1 \in 0 .. Size - 1 /\ (j - 1) + 1 = j
  BY <1>4, <1>7, <1>8
<1>10. Ahead(Succ(rtail), j - 1) = Ahead(rtail, j)
  <2>1. Between(rtail, head) > 0
    BY <1>4
  <2>2. \A k \in 0 .. Size - 1 : Ahead(Succ(rtail), k) = Ahead(rtail, k + 1)
    BY <1>4, <2>1, BetweenShrinks
  <2>3. Ahead(Succ(rtail), j - 1) = Ahead(rtail, (j - 1) + 1)
    BY <1>9, <2>2
  <2> QED
    BY <1>9, <2>3
<1>11. Cursor' = Succ(rtail)
  BY <1>2 DEF Cursor, Scanning
<1>12. DueAt(j - 1)'
  BY <1>2, <1>4, <1>7, <1>10, <1>11 DEF DueAt
<1> QED
  BY <1>3, <1>6, <1>9, <1>12

\* So does putting it back.
LEMMA PutBackReads ==
  ASSUME IndInv, Reading, PutBack, rpc = "put"
  PROVE  /\ NumPutBack' \in 0 .. Len(Line') /\ \E j \in 1 .. Unread' : DueAt(j)'
         /\ Unread' = Unread /\ rpc' = "copy"
<1>1. /\ Line \in Seq(PlainMessage) /\ Plain(reg) \in PlainMessage
      /\ Line' = Append(Line, Plain(reg))
      /\ rpc' = "copy" /\ NumPutBack' = NumPutBack + 1
  BY PutBackLine
<1>2. NumPutBack \in 0 .. Len(Line)
  BY DEF Reading, Examining
<1>3. /\ Cursor = rtail /\ rtail \in Slot /\ head \in Slot
      /\ Len(Line) = Between(rtail, head) /\ Len(Line) \in 1 .. Size - 1 /\ Size \in Nat
      /\ Unread = Len(Line) - NumPutBack /\ Unread \in 1 .. Len(Line)
  BY Ahead1 DEF Examining
<1>4. Len(Line') = Len(Line) + 1
  BY <1>1, AppendProperties
<1>5. Unread' = Unread /\ NumPutBack' \in 0 .. Len(Line')
  BY <1>1, <1>2, <1>3, <1>4 DEF Unread
<1>6. PICK j \in 1 .. Unread : DueAt(j)
  BY DEF Reading, Examining
<1>7. /\ list' = [list EXCEPT ![head] = reg] /\ part' = part /\ rtail' = rtail
      /\ head # rtail
  BY DEF PutBack, IndInv, PutBackHasRoom
<1>8. Ahead(rtail, j) # head /\ Ahead(rtail, j) \in Slot
  <2>1. j \in 1 .. Between(rtail, head) /\ j \in 0 .. Size
    BY <1>3, <1>6
  <2> QED
    BY <1>3, <1>7, <2>1, BetweenGrows, AheadDef
<1>9. list'[Ahead(rtail, j)] = list[Ahead(rtail, j)]
  BY <1>7, <1>8 DEF IndInv, TypeOK
<1>10. part' = 0
  BY <1>7 DEF IndInv, CopySound
<1>11. Cursor' = rtail
  BY <1>1, <1>7 DEF Cursor, Scanning
<1>12. DueAt(j)'
  BY <1>3, <1>6, <1>9, <1>10, <1>11 DEF DueAt
<1> QED
  BY <1>1, <1>5, <1>12

\* And so does a tick, wherever it lands.
LEMMA TickReads ==
  ASSUME IndInv, IndInv', Reading, Tick, Examining
  PROVE  /\ NumPutBack' \in 0 .. Len(Line') /\ \E j \in 1 .. Unread' : DueAt(j)'
         /\ Unread' = Unread /\ rpc' = rpc
<1>1. Len(Line') = Len(Line) /\ NumPutBack' = NumPutBack /\ Cursor' = Cursor
  BY TickLine
<1>2. NumPutBack \in 0 .. Len(Line)
  BY DEF Reading
<1>3. Unread' = Unread
  BY <1>1 DEF Unread
<1>4. rpc' = rpc /\ part' = part
  BY DEF Tick, Examining, WokenReceiver
<1>5. PICK j \in 1 .. Unread : DueAt(j)
  BY DEF Reading
<1> DEFINE i == Ahead(Cursor, j)
<1>6. i \in Slot
  <2>1. Cursor \in Slot /\ j \in 0 .. Size
    BY <1>5, Ahead1
  <2> QED
    BY <2>1, AheadDef
<1>7. list'[i].delay = 0
  <2>1. list[i] \in Message /\ list[i].delay = 0
    BY <1>5, <1>6 DEF IndInv, TypeOK, DueAt
  <2> HIDE DEF i
  <2>2. list'[i].delay = IF i \in Ticked THEN Dec(list[i].delay) ELSE list[i].delay
    BY <1>6, <2>1 DEF Tick, Message
  <2> QED
    BY <2>1, <2>2 DEF Dec
<1>8. DueAt(j)'
  BY <1>1, <1>4, <1>5, <1>7 DEF DueAt
<1> QED
  BY <1>1, <1>2, <1>3, <1>4, <1>5, <1>8

LEMMA NextReading ==
  ASSUME IndInv, IndInv', Reading, [Next]_vars
  PROVE  Reading'
<1>t. TypeOK /\ TypeOK'
  BY DEF IndInv
<1>p. \A p \in Poster : ppc'[p] # "idle" => pmsg'[p] \in NewMessages(p)
  BY RefusedAsPosted
<1>1. ASSUME NEW p \in Poster, (\E m \in NewMessages(p) : Post(p, m)) \/ Retry(p)
      PROVE  Reading'
  <2>1. rpc \in {"idle", "retry", "waiting"} /\ out' = out
          /\ rpc' \in {"idle", "retry", "waiting"}
    BY <1>t, <1>1 DEF TypeOK, Receiving, Scanning, Post, Retry, Push, WokenReceiver
  <2> QED
    BY <1>p, <2>1 DEF Reading, Examining
<1>2. CASE Receive
  <2>1. rpc' \in {"copy", "towait"} /\ out' = out /\ rpc \in {"idle", "retry"}
    BY <1>2 DEF Receive
  <2>2. rpc' = "copy" => /\ NumPutBack' \in 0 .. Len(Line')
                         /\ \E j \in 1 .. Unread' : DueAt(j)'
    BY <1>2, ReceiveReads
  <2> QED
    BY <1>p, <2>1, <2>2 DEF Reading, Examining
<1>3. CASE EnterWait
  BY <1>p, <1>3 DEF EnterWait, Reading, Examining
<1>4. CASE CopyOut
  <2>1. /\ rpc = "copy" /\ rpc' \in {"commit", "reload", "put"}
        /\ rpc' = "put" => out' = out
    BY <1>4 DEF CopyOut
  <2>2. rpc' = "put" => /\ NumPutBack' \in 0 .. Len(Line')
                        /\ \E j \in 1 .. Unread' : DueAt(j)'
                        /\ reg'.delay > 0
    BY <1>4, CopyOutReads
  <2> QED
    BY <1>p, <2>1, <2>2 DEF Reading, Examining
<1>5. CASE PutBack
  <2>1. /\ rpc' = IF rpc = "put" THEN "copy" ELSE "commit"
        /\ rpc \in {"put", "reload"} /\ out' = out
    BY <1>5 DEF PutBack
  <2>2. rpc = "put" => /\ NumPutBack' \in 0 .. Len(Line')
                       /\ \E j \in 1 .. Unread' : DueAt(j)'
    BY <1>5, PutBackReads
  <2> QED
    BY <1>p, <2>1, <2>2 DEF Reading, Examining
<1>6. CASE Commit
  BY <1>p, <1>6 DEF Commit, Reading, Examining
<1>7. CASE Tick
  <2>1. /\ rpc' = rpc \/ (rpc = "waiting" /\ rpc' = "retry")
        /\ out' = out /\ (rpc = "put" => reg'.delay = reg.delay)
    BY <1>t, <1>7 DEF Tick, WokenReceiver, TypeOK, Message
  <2>2. Examining => /\ NumPutBack' \in 0 .. Len(Line')
                     /\ \E j \in 1 .. Unread' : DueAt(j)'
    BY <1>7, TickReads
  <2> QED
    BY <1>p, <2>1, <2>2 DEF Reading, Examining
<1>8. CASE UNCHANGED vars
  <2>1. Line' = Line /\ NumPutBack' = NumPutBack /\ Unread' = Unread /\ Cursor' = Cursor
    BY <1>8 DEF vars, Line, NumPutBack, Unread, Cursor, Scanning
  <2>2. \A j \in Int : DueAt(j)' <=> DueAt(j)
    BY <1>8, <2>1 DEF vars, DueAt
  <2>3. Examining => /\ NumPutBack' \in 0 .. Len(Line')
                     /\ \E j \in 1 .. Unread' : DueAt(j)'
    <3> SUFFICES ASSUME Examining
                 PROVE  /\ NumPutBack' \in 0 .. Len(Line')
                        /\ \E j \in 1 .. Unread' : DueAt(j)'
      OBVIOUS
    <3>1. PICK j \in 1 .. Unread : DueAt(j)
      BY DEF Reading
    <3>2. DueAt(j)'
      BY <2>2, <3>1
    <3> QED
      BY <2>1, <3>1, <3>2 DEF Reading
  <2> QED
    BY <1>p, <1>8, <2>3 DEF vars, Reading, Examining
<1>9. CASE CopyByte
  <2>1. rpc = "copy" /\ rpc' = "copy" /\ out' = out
    BY <1>9 DEF CopyByte
  <2>2. NumPutBack' = NumPutBack /\ Line' = Line /\ \E j \in 1 .. Unread' : DueAt(j)'
    BY <1>9, CopyByteReads
  <2> QED
    BY <1>p, <2>1, <2>2 DEF Reading, Examining
<1> QED
  BY <1>1, <1>2, <1>3, <1>4, <1>5, <1>6, <1>7, <1>8, <1>9
     DEF Next, ReceiverStep, PostAsyncRefused, ReceiveAsyncEmpty

LEMMA ReadingInvariance == Spec => []Reading
<1>1. Init => Reading
  BY InitReading
<1>2. IndInv /\ IndInv' /\ Reading /\ [Next]_vars => Reading'
  BY NextReading
<1> QED
  BY <1>1, <1>2, Invariance, PTL DEF Spec

\* The loop of os_msg_receive ends, although nothing in the code bounds it and
\* the clock interrupt may change the queue under it: there is always a message
\* left that it has not put back, and every turn leaves one fewer of them.
THEOREM ReceiveLoopEnds == Spec => ScanEnds
<1> DEFINE Ends == /\ Examining => Unread > 0
                   /\ Examining /\ Examining' =>
                        Unread' = IF rpc = "copy" /\ rpc' = "put" THEN Unread - 1 ELSE Unread
<1>1. ASSUME IndInv, IndInv', Reading, [Next]_vars
      PROVE  Ends
  <2>1. ASSUME Examining PROVE Unread > 0
    <3>1. Unread \in 1 .. Len(Line) /\ Len(Line) \in 1 .. Size - 1 /\ Size \in Nat
      BY <1>1, <2>1, Ahead1
    <3> QED
      BY <3>1
  <2>2. ASSUME Examining, Examining'
        PROVE  Unread' = IF rpc = "copy" /\ rpc' = "put" THEN Unread - 1 ELSE Unread
    <3>1. ~Receive /\ ~EnterWait /\ ~Commit /\ ~ReceiveAsyncEmpty
      BY <2>2 DEF Examining, Receive, EnterWait, Commit, ReceiveAsyncEmpty
    <3>2. \A p \in Poster : /\ ~Retry(p) /\ \A m \in NewMessages(p) : ~Post(p, m)
                            /\ ~PostAsyncRefused(p)
      BY <2>2 DEF Examining, Receiving, Scanning, Retry, Post, PostAsyncRefused
    <3>3. CASE CopyOut
      <4>1. rpc = "copy" /\ rpc' = "put"
        BY <2>2, <3>3 DEF CopyOut, Examining
      <4> QED
        BY <1>1, <3>3, <4>1, CopyOutReads
    <3>4. CASE PutBack
      <4>1. rpc = "put"
        BY <2>2, <3>4 DEF PutBack, Examining
      <4> QED
        BY <1>1, <3>4, <4>1, PutBackReads
    <3>5. CASE Tick
      <4>1. Unread' = Unread /\ rpc' = rpc
        BY <1>1, <2>2, <3>5, TickReads
      <4> QED
        BY <4>1
    <3>6. CASE UNCHANGED vars
      <4>1. Unread' = Unread /\ rpc' = rpc
        BY <3>6 DEF vars, Unread, Line, NumPutBack, Cursor, Scanning
      <4> QED
        BY <4>1
    <3>7. CASE CopyByte
      <4>1. Unread' = Unread /\ rpc' = "copy"
        BY <1>1, <3>7, CopyByteReads DEF CopyByte
      <4> QED
        BY <4>1
    <3> QED
      BY <1>1, <3>1, <3>2, <3>3, <3>4, <3>5, <3>6, <3>7 DEF Next, ReceiverStep
  <2> QED
    BY <2>1, <2>2
<1>2. Ends => [Ends]_vars
  OBVIOUS
<1> QED
  BY <1>1, Invariance, ReadingInvariance, PTL DEF Spec, ScanEnds

-----------------------------------------------------------------------------
(* The line as DelayQueue sees it.                                          *)

LEMMA BarQuiet ==
  ASSUME TypeOK, rpc \notin {"copy", "put", "reload"}
  PROVE  QueueBar = Line
<1>1. NumPutBack = 0 /\ InHand = <<>>
  BY DEF NumPutBack, InHand
<1>2. QueueBar = Around(Line, 0, <<>>)
  BY <1>1 DEF QueueBar, Around
<1> QED
  BY <1>2, LineNow, AroundNothing

LEMMA BarQuietNext ==
  ASSUME TypeOK', rpc' \notin {"copy", "put", "reload"}
  PROVE  QueueBar' = Line'
<1>1. NumPutBack' = 0 /\ InHand' = <<>>
  BY DEF NumPutBack, InHand
<1>2. QueueBar' = Around(Line', 0, <<>>)
  BY <1>1 DEF QueueBar, Around
<1>3. Line' = LineOf(list', Cursor', head')
  BY DEF Line, LineOf, Between, Ahead
<1>4. Cursor' \in Slot /\ head' \in Slot /\ list' \in [Slot -> Message]
  BY DEF TypeOK, Cursor
<1> QED
  BY <1>2, <1>3, <1>4, LineType, AroundNothing

\* A message that joins the line while nobody receives.
LEMMA PushRefines ==
  ASSUME IndInv, IndInv', ~Receiving, head # tail,
         NEW m \in Message, Push(m)
  PROVE  Abstract!Post(Plain(m))
<1>t. TypeOK /\ TypeOK'
  BY DEF IndInv
<1>1. rpc \in {"idle", "retry", "waiting"} /\ rpc' \in {"idle", "retry", "waiting"}
  BY <1>t DEF TypeOK, Receiving, Scanning, Push, WokenReceiver
<1>2. list' = [list EXCEPT ![head] = m] /\ head' = Succ(head) /\ tail' = tail /\ out' = out
  BY DEF Push
<1>3. head \in Slot /\ tail \in Slot /\ list \in [Slot -> Message]
  BY <1>t DEF TypeOK
<1>4. Line = LineOf(list, tail, head) /\ Line' = LineOf([list EXCEPT ![head] = m], tail, Succ(head))
  BY <1>1, <1>2 DEF Line, LineOf, Between, Ahead, Cursor, Scanning
<1>5. Line' = Append(Line, Plain(m))
  BY <1>3, <1>4, LineGrows
<1>6. Len(Line) < Capacity
  <2>1. Len(Line) = Between(tail, head)
    BY <1>3, <1>4, LineType
  <2>2. Between(tail, head) < Size - 1
    BY <1>3, BetweenGrows
  <2> QED
    BY <2>1, <2>2 DEF Capacity
<1>7. QueueBar = Line /\ QueueBar' = Line'
  BY <1>t, <1>1, BarQuiet, BarQuietNext
<1> QED
  BY <1>2, <1>5, <1>6, <1>7 DEF Abstract!Post, OutBar

\* The posts of the code are the posts DelayQueue allows.
AbstractPost ==
  \/ \E p \in Poster, d \in Delays : Abstract!Post(Abstract!Message(p, d, 0))
  \/ \E p \in Poster, r \in Periods : Abstract!Post(Abstract!Message(p, r, r))

LEMMA PostIsAbstract ==
  ASSUME NEW p \in Poster, NEW m \in NewMessages(p), Abstract!Post(Plain(m))
  PROVE  AbstractPost
<1> DEFINE new(d, r) ==
      [from |-> p, asked |-> d, delay |-> d, reload |-> r, due |-> d]
<1>1. \A d, r : Plain(new(d, r)) = Abstract!Message(p, d, r)
  BY DEF Plain, Abstract!Message
<1>2. CASE \E d \in Delays : m = new(d, 0)
  <2>1. PICK d \in Delays : m = new(d, 0)
    BY <1>2
  <2>2. Abstract!Post(Abstract!Message(p, d, 0))
    BY <1>1, <2>1
  <2> QED
    BY <2>2 DEF AbstractPost
<1>3. CASE \E r \in Periods : m = new(r, r)
  <2>1. PICK r \in Periods : m = new(r, r)
    BY <1>3
  <2>2. Abstract!Post(Abstract!Message(p, r, r))
    BY <1>1, <2>1
  <2> QED
    BY <2>2 DEF AbstractPost
<1> QED
  BY <1>2, <1>3 DEF NewMessages

\* A turn of os_msg_receive's loop that puts its message aside changes nothing;
\* one that takes it is the delivery of the first message beyond those put back.
LEMMA CopyOutTakes ==
  ASSUME IndInv, IndInv', Reading, CopyOut
  PROVE  \/ rpc' = "put" /\ UNCHANGED <<QueueBar, OutBar>>
         \/ /\ rpc' \in {"reload", "commit"}
            /\ OutBar = Plain(Blank)
            /\ NumPutBack + 1 \in 1 .. Len(QueueBar)
            /\ QueueBar[NumPutBack + 1] = Plain(out')
            /\ \A j \in 1 .. NumPutBack : QueueBar[j] = Line[Len(Line) - NumPutBack + j]
            /\ Abstract!Take(NumPutBack + 1)
<1> DEFINE s == Line
           c == NumPutBack
           l == list[NextTail]
           m == [l EXCEPT !.delay = part + Digit(l.delay)]
           q == Around(s, c, <<>>)
<1>t. TypeOK /\ TypeOK'
  BY DEF IndInv
<1>1. /\ c \in 0 .. Len(s) /\ c < Len(s) /\ s \in Seq(PlainMessage)
      /\ Line' = Tail(s) /\ Head(s) = Plain(l)
      /\ rpc' = "put" => NumPutBack' = c
  BY CopyOutLine
<1>2. rpc = "copy"
  BY DEF CopyOut
<1>3. QueueBar = q
  <2>1. InHand = <<>>
    BY <1>2 DEF InHand
  <2> QED
    BY <1>2, <2>1 DEF QueueBar, Around
<1>4. out = Blank
  BY <1>2 DEF Reading
<1>5. /\ l \in Message /\ part + Digit(l.delay) \in Nat
      /\ m \in Message /\ Plain(m) = Plain(l)
  <2>1. l \in Message /\ part + Digit(l.delay) \in Nat
    BY <1>2, BeingCopied
  <2> HIDE DEF l
  <2> QED
    BY <2>1 DEF Plain, Message
<1>6. /\ Plain(m) \in PlainMessage /\ Plain(m).reload = m.reload /\ m.reload \in Nat
      /\ Head(s) = Plain(m)
  BY <1>1, <1>5, PlainType DEF Message
<1>7. \/ TimedOut(m) /\ ~Periodic(m) /\ rpc' = "commit" /\ reg' = m /\ out' = m
      \/ /\ TimedOut(m) /\ Periodic(m) /\ rpc' = "reload" /\ out' = m
         /\ reg' = [m EXCEPT !.delay = m.reload, !.due = m.reload]
      \/ ~TimedOut(m) /\ rpc' = "put" /\ reg' = m /\ out' = out
  BY DEF CopyOut
<1> HIDE DEF c, s, m, l
<1>8. Tail(s) \in Seq(PlainMessage)
  <2>1. s # <<>>
    BY <1>1, LenProperties
  <2> QED
    BY <1>1, <2>1, HeadTailProperties
<1>9. CASE ~TimedOut(m)
  <2>1. rpc' = "put" /\ reg' = m /\ out' = out
    BY <1>7, <1>9
  <2>2. InHand' = <<Plain(m)>>
    BY <2>1 DEF InHand
  <2>3. QueueBar' = Around(Tail(s), c, <<Plain(m)>>)
    BY <1>1, <2>1, <2>2 DEF QueueBar, Around
  <2>4. Around(Tail(s), c, <<Head(s)>>) = q
    BY <1>1, AroundTake
  <2> QED
    BY <1>3, <1>6, <2>1, <2>3, <2>4 DEF OutBar
<1>10. CASE TimedOut(m)
  <2> DEFINE rest == SubSeq(q, c + 2, Len(q)) \o SubSeq(q, 1, c)
             back == IF Plain(m).reload > 0
                     THEN <<[Plain(m) EXCEPT !.delay = Plain(m).reload]>>
                     ELSE <<>>
  <2>1. /\ c + 1 \in 1 .. Len(q) /\ q[c + 1] = Plain(m)
        /\ \A j \in 1 .. c : q[j] = s[Len(s) - c + j]
        /\ rest = Tail(s)
    BY <1>1, <1>6, AroundDeliver
  <2>2. out' = m /\ rpc' \in {"reload", "commit"}
    BY <1>7, <1>10
  <2>3. QueueBar' = Tail(s) \o back
    <3>1. CASE Periodic(m)
      <4>1. rpc' = "reload" /\ reg' = [m EXCEPT !.delay = m.reload, !.due = m.reload]
        BY <1>7, <1>10, <3>1
      <4>2. Plain(reg') = [Plain(m) EXCEPT !.delay = Plain(m).reload]
        BY <1>5, <4>1 DEF Plain, Message
      <4>3. back = <<Plain(reg')>>
        BY <1>6, <3>1, <4>2 DEF Periodic
      <4>4. InHand' = <<Plain(reg')>>
        BY <4>1 DEF InHand, Plain
      <4> HIDE DEF back
      <4> QED
        BY <1>1, <4>1, <4>3, <4>4 DEF QueueBar
    <3>2. CASE ~Periodic(m)
      <4>1. rpc' = "commit"
        BY <1>7, <1>10, <3>2
      <4>2. back = <<>>
        BY <1>6, <3>2 DEF Periodic
      <4>3. QueueBar' = Tail(s)
        BY <1>1, <1>t, <4>1, BarQuietNext
      <4>4. Tail(s) \o <<>> = Tail(s)
        BY <1>8, ConcatEmptySeq
      <4> HIDE DEF back
      <4> QED
        BY <4>2, <4>3, <4>4
    <3> QED
      BY <3>1, <3>2
  <2>5. (c + 1) + 1 = c + 2 /\ (c + 1) - 1 = c
    BY <1>1
  <2>6. SubSeq(q, (c + 1) + 1, Len(q)) \o SubSeq(q, 1, (c + 1) - 1) = Tail(s)
    BY <2>1, <2>5
  <2>7. OutBar = Plain(Blank) /\ OutBar' = Plain(m) /\ Plain(out') = Plain(m)
    BY <1>4, <2>2 DEF OutBar, Plain
  <2>8. OutBar' = q[c + 1] /\ q[c + 1] = Plain(out')
    BY <2>1, <2>7
  <2>9. QueueBar' = SubSeq(q, (c + 1) + 1, Len(q)) \o SubSeq(q, 1, (c + 1) - 1)
                    \o IF q[c + 1].reload > 0
                       THEN <<[q[c + 1] EXCEPT !.delay = q[c + 1].reload]>>
                       ELSE <<>>
    <3>1. back = IF q[c + 1].reload > 0
                 THEN <<[q[c + 1] EXCEPT !.delay = q[c + 1].reload]>>
                 ELSE <<>>
      BY <2>1
    <3> HIDE DEF back, q
    <3> QED
      BY <2>3, <2>6, <3>1
  <2> HIDE DEF q
  <2>10. Abstract!Take(c + 1)
    BY <1>3, <2>8, <2>9 DEF Abstract!Take
  <2>11. /\ OutBar = Plain(Blank) /\ c + 1 \in 1 .. Len(QueueBar)
         /\ QueueBar[c + 1] = Plain(out')
         /\ \A j \in 1 .. c : QueueBar[j] = s[Len(s) - c + j]
    BY <1>3, <2>1, <2>7, <2>8
  <2> QED
    BY <2>2, <2>10, <2>11 DEF c, s
<1> QED
  BY <1>9, <1>10

\* Putting a message back moves it from the receiver's hand into the ring.
LEMMA PutBackRefines ==
  ASSUME IndInv, IndInv', Reading, PutBack
  PROVE  UNCHANGED <<QueueBar, OutBar>>
<1>t. TypeOK /\ TypeOK'
  BY DEF IndInv
<1>1. /\ Line \in Seq(PlainMessage) /\ Plain(reg) \in PlainMessage
      /\ Line' = Append(Line, Plain(reg))
      /\ rpc = "put" => rpc' = "copy" /\ NumPutBack' = NumPutBack + 1
  BY PutBackLine
<1>2. rpc \in {"put", "reload"} /\ out' = out
  BY DEF PutBack
<1>3. InHand = <<Plain(reg)>>
  BY <1>2 DEF InHand
<1>4. CASE rpc = "put"
  <2>1. QueueBar = Around(Line, NumPutBack, <<Plain(reg)>>)
    BY <1>3, <1>4 DEF QueueBar, Around
  <2>2. InHand' = <<>> /\ rpc' = "copy"
    BY <1>1, <1>4 DEF InHand
  <2>3. QueueBar' = Around(Append(Line, Plain(reg)), NumPutBack + 1, <<>>)
    BY <1>1, <1>4, <2>2 DEF QueueBar, Around
  <2>4. NumPutBack \in 0 .. Len(Line)
    BY <1>4 DEF Reading, Examining
  <2> QED
    BY <1>1, <1>2, <2>1, <2>3, <2>4, AroundPut DEF OutBar
<1>5. CASE rpc = "reload"
  <2>1. QueueBar = Line \o <<Plain(reg)>>
    BY <1>3, <1>5 DEF QueueBar
  <2>2. rpc' = "commit"
    BY <1>5 DEF PutBack
  <2>3. QueueBar' = Append(Line, Plain(reg))
    BY <1>1, <1>t, <2>2, BarQuietNext
  <2>4. Append(Line, Plain(reg)) = Line \o <<Plain(reg)>>
    BY <1>1, AppendIsConcat
  <2> QED
    BY <1>2, <2>1, <2>3, <2>4 DEF OutBar
<1> QED
  BY <1>2, <1>4, <1>5

\* The end of os_msg_receive gives the message to the receiver.
LEMMA CommitRefines ==
  ASSUME IndInv, IndInv', Commit
  PROVE  Abstract!Return
<1>t. TypeOK /\ TypeOK'
  BY DEF IndInv
<1>1. /\ rpc = "commit" /\ rpc' = "idle" /\ tail' = rtail
      /\ list' = list /\ head' = head /\ out' = Blank
  BY DEF Commit, StoredTail
<1>2. Line' = Line
  BY <1>1 DEF Line, Cursor, Scanning
<1>3. QueueBar' = QueueBar
  BY <1>t, <1>1, <1>2, BarQuiet, BarQuietNext
<1>4. OutBar # Plain(Blank)
  <2>1. out.from \in Poster
    BY <1>1 DEF IndInv, NeverEarly
  <2>2. Plain(out).from # Plain(Blank).from
    BY <2>1, PosterAssumption DEF Plain, Blank
  <2> QED
    BY <2>2 DEF OutBar
<1> QED
  BY <1>1, <1>3, <1>4 DEF Abstract!Return, OutBar

LEMMA InitRefines == Init => Abstract!Init
<1> SUFFICES ASSUME Init PROVE Abstract!Init
  OBVIOUS
<1>t. TypeOK
  BY InitIndInv DEF IndInv
<1>1. rpc = "idle" /\ head = 1 /\ tail = 0 /\ out = Blank
  BY DEF Init
<1>2. Between(0, 1) = 0
  BY BetweenDef, SizeAssumption DEF Slot
<1>3. Line \in Seq(PlainMessage) /\ Len(Line) = 0
  BY <1>t, <1>1, <1>2, LineNow DEF Cursor, Scanning
<1>4. Line = <<>>
  BY <1>3, EmptySeq
<1>5. QueueBar = Line
  BY <1>t, <1>1, BarQuiet
<1> QED
  BY <1>1, <1>4, <1>5 DEF Abstract!Init, OutBar

-----------------------------------------------------------------------------
(* Ticks.                                                                   *)

LEMMA AroundAll ==
  ASSUME NEW S, NEW s \in Seq(S), NEW hand \in Seq(S)
  PROVE  Around(s, Len(s), hand) = s \o hand
<1>1. Len(s) \in Nat /\ Len(s) - Len(s) + 1 = 1 /\ Len(s) - Len(s) = 0
  BY LenProperties
<1>2. SubSeq(s, 1, Len(s)) = s /\ SubSeq(s, 1, 0) = <<>>
  BY <1>1, SubSeqFull, SubSeqEmpty
<1>3. s \o hand \in Seq(S)
  BY ConcatProperties
<1>4. (s \o hand) \o <<>> = s \o hand
  BY <1>3, ConcatEmptySeq
<1> QED
  BY <1>1, <1>2, <1>4 DEF Around

\* The line as DelayQueue sees it, at any place of a receive.
BarAt == IF rpc = "reload" THEN Len(Line) ELSE NumPutBack

LEMMA BarIsAround ==
  ASSUME IndInv, Reading
  PROVE  /\ InHand \in Seq(PlainMessage) /\ BarAt \in 0 .. Len(Line)
         /\ QueueBar = Around(Line, BarAt, InHand)
<1>t. TypeOK
  BY DEF IndInv
<1>1. Line \in Seq(PlainMessage) /\ Len(Line) \in Nat
  BY <1>t, LineNow, LenProperties
<1>2. InHand \in Seq(PlainMessage)
  <2>1. <<Plain(reg)>> \in Seq(PlainMessage) /\ <<>> \in Seq(PlainMessage)
    BY <1>t, PlainType DEF TypeOK
  <2> QED
    BY <2>1 DEF InHand
<1>3. CASE rpc = "reload"
  BY <1>1, <1>2, <1>3, AroundAll DEF QueueBar, BarAt
<1>4. CASE rpc # "reload"
  <2>1. NumPutBack \in 0 .. Len(Line)
    BY <1>1 DEF Reading, Examining, NumPutBack
  <2> QED
    BY <1>2, <1>4, <2>1 DEF QueueBar, BarAt, Around
<1> QED
  BY <1>3, <1>4

\* q becomes r by a tick.
Ticks(q, r) ==
  /\ q \in Seq(PlainMessage) /\ r \in Seq(PlainMessage) /\ Len(r) = Len(q)
  /\ \A k \in 1 .. Len(q) : r[k] = Counted(q[k])

LEMMA AroundTicks ==
  ASSUME NEW s, NEW t, Ticks(s, t), NEW c \in 0 .. Len(s), NEW g, NEW h, Ticks(g, h)
  PROVE  Ticks(Around(s, c, g), Around(t, c, h))
<1> DEFINE q == Around(s, c, g)
           r == Around(t, c, h)
           n == Len(s)
           e == Len(g)
<1>1. /\ s \in Seq(PlainMessage) /\ t \in Seq(PlainMessage) /\ Len(t) = n
      /\ g \in Seq(PlainMessage) /\ h \in Seq(PlainMessage) /\ Len(h) = e
      /\ \A j \in 1 .. n : t[j] = Counted(s[j])
      /\ \A j \in 1 .. e : h[j] = Counted(g[j])
  BY DEF Ticks
<1>2. n \in Nat /\ e \in Nat /\ c \in Nat /\ c <= n
  BY <1>1, LenProperties
<1>3. /\ q \in Seq(PlainMessage) /\ Len(q) = n + e
      /\ \A k \in 1 .. n + e : q[k] = AroundAt(s, c, g, k)
  BY <1>1, AroundType
<1>4. /\ r \in Seq(PlainMessage) /\ Len(r) = n + e
      /\ \A k \in 1 .. n + e : r[k] = AroundAt(t, c, h, k)
  <2>1. c \in 0 .. Len(t) /\ t \in Seq(PlainMessage) /\ h \in Seq(PlainMessage)
    BY <1>1
  <2>2. /\ r \in Seq(PlainMessage) /\ Len(r) = Len(t) + Len(h)
        /\ \A k \in 1 .. Len(t) + Len(h) : r[k] = AroundAt(t, c, h, k)
    BY <2>1, AroundType
  <2>3. Len(t) = n /\ Len(h) = e
    BY <1>1
  <2> QED
    BY <2>2, <2>3
<1> HIDE DEF q, r
<1>5. ASSUME NEW k \in 1 .. n + e
      PROVE  r[k] = Counted(q[k])
  <2>1. CASE k <= c
    <3>1. n - c + k \in 1 .. n
      BY <1>2, <2>1
    <3>2. q[k] = s[n - c + k] /\ r[k] = t[n - c + k]
      BY <1>1, <1>3, <1>4, <2>1 DEF AroundAt
    <3> QED
      BY <1>1, <3>1, <3>2
  <2>2. CASE ~(k <= c) /\ k <= c + e
    <3>1. k - c \in 1 .. e
      BY <1>2, <2>2
    <3>2. q[k] = g[k - c] /\ r[k] = h[k - c]
      BY <1>1, <1>3, <1>4, <2>2 DEF AroundAt
    <3> QED
      BY <1>1, <3>1, <3>2
  <2>3. CASE ~(k <= c) /\ ~(k <= c + e)
    <3>1. k - c - e \in 1 .. n
      BY <1>2, <2>3
    <3>2. q[k] = s[k - c - e] /\ r[k] = t[k - c - e]
      BY <1>1, <1>3, <1>4, <2>3 DEF AroundAt
    <3> QED
      BY <1>1, <3>1, <3>2
  <2> QED
    BY <2>1, <2>2, <2>3
<1>6. Len(q) = n + e /\ Len(r) = Len(q)
  BY <1>3, <1>4
<1> QED
  BY <1>3, <1>4, <1>5, <1>6 DEF Ticks, q, r

LEMMA SeqByPlaces ==
  ASSUME NEW S, NEW s \in Seq(S)
  PROVE  s = [k \in 1 .. Len(s) |-> s[k]]
BY LenProperties

\* The message in the receiver's hand is counted too: it is no longer in the ring,
\* and its delay field misses the tick.
LEMMA HandTicks ==
  ASSUME IndInv, IndInv', Tick
  PROVE  Ticks(InHand, InHand')
<1>1. rpc' = rpc \/ (rpc = "waiting" /\ rpc' = "retry")
  BY DEF Tick, WokenReceiver
<1>2. CASE rpc \in {"put", "reload"}
  <2>1. InHand = <<Plain(reg)>> /\ InHand' = <<Plain(reg')>>
    BY <1>1, <1>2 DEF InHand, Plain
  <2>2. reg \in Message /\ reg' \in Message
    BY DEF IndInv, TypeOK
  <2>3. reg' = [reg EXCEPT !.due = Dec(reg.due)]
    BY <1>2 DEF Tick
  <2>4. Plain(reg) \in PlainMessage /\ Plain(reg') \in PlainMessage
    BY <2>2, PlainType
  <2>5. Plain(reg') = Counted(Plain(reg))
    <3>1. Counted(Plain(reg)) = [from |-> reg.from, asked |-> reg.asked,
                                 delay |-> Dec(reg.due), reload |-> reg.reload]
      BY <2>4, CountedType DEF Plain
    <3> QED
      BY <2>2, <2>3, <3>1 DEF Plain, Message
  <2> QED
    BY <2>1, <2>4, <2>5 DEF Ticks
<1>3. CASE rpc \notin {"put", "reload"}
  <2>1. InHand = <<>> /\ InHand' = <<>>
    BY <1>1, <1>3 DEF InHand
  <2> QED
    BY <2>1, EmptySeq DEF Ticks
<1> QED
  BY <1>2, <1>3

\* A tick, wherever it lands, is a tick of the line.
LEMMA TickRefines ==
  ASSUME IndInv, IndInv', Reading, Tick
  PROVE  Abstract!Tick
<1> DEFINE q == QueueBar
           r == QueueBar'
<1>1. Ticks(Line, Line') /\ NumPutBack' = NumPutBack
  BY TickLine DEF Ticks
<1>2. out' = out /\ (rpc' = rpc \/ (rpc = "waiting" /\ rpc' = "retry"))
  BY DEF Tick, WokenReceiver
<1>3. /\ InHand \in Seq(PlainMessage) /\ BarAt \in 0 .. Len(Line)
      /\ q = Around(Line, BarAt, InHand)
  BY BarIsAround
<1>4. Ticks(InHand, InHand')
  BY HandTicks
<1>5. r = Around(Line', BarAt, InHand')
  <2>1. Line' \in Seq(PlainMessage) /\ Len(Line') = Len(Line) /\ InHand' \in Seq(PlainMessage)
    BY <1>1, <1>4 DEF Ticks
  <2>2. CASE rpc = "reload"
    <3>1. QueueBar' = Line' \o InHand'
      BY <1>2, <2>2 DEF QueueBar
    <3>2. BarAt = Len(Line')
      BY <2>1, <2>2 DEF BarAt
    <3> QED
      BY <2>1, <3>1, <3>2, AroundAll
  <2>3. CASE rpc # "reload"
    <3>1. rpc' # "reload"
      BY <1>2, <2>3
    <3>2. QueueBar' = Around(Line', NumPutBack', InHand')
      BY <3>1 DEF QueueBar, Around
    <3>3. BarAt = NumPutBack
      BY <2>3 DEF BarAt
    <3> QED
      BY <1>1, <3>2, <3>3
  <2> QED
    BY <2>2, <2>3
<1>6. Ticks(q, r)
  BY <1>1, <1>3, <1>4, <1>5, AroundTicks
<1> HIDE DEF q, r
<1>7. r = [k \in 1 .. Len(q) |-> r[k]]
  BY <1>6, SeqByPlaces DEF Ticks
<1>8. r = [k \in 1 .. Len(q) |-> Counted(q[k])]
  BY <1>6, <1>7 DEF Ticks
<1> QED
  BY <1>2, <1>8 DEF Abstract!Tick, OutBar, Counted, q, r

-----------------------------------------------------------------------------
(* LateQueue, wherever the ticks land.                                      *)

LEMMA PostRefines ==
  ASSUME IndInv, IndInv', Reading, NEW p \in Poster,
         (\E m \in NewMessages(p) : Post(p, m)) \/ Retry(p)
  PROVE  AbstractPost \/ UNCHANGED <<QueueBar, OutBar>>
<1>t. TypeOK
  BY DEF IndInv
<1>1. CASE UNCHANGED <<list, head, tail, rpc, rtail, reg, place, part, out>>
  BY <1>1 DEF QueueBar, OutBar, Line, NumPutBack, InHand, Cursor, Scanning
<1>2. ASSUME NEW m \in NewMessages(p), ~Receiving, ~Full, Push(m)
      PROVE  AbstractPost
  <2>1. m \in Message
    BY NewMessageType
  <2>2. Abstract!Post(Plain(m))
    BY <1>2, <2>1, PushRefines DEF Full
  <2> QED
    BY <2>2, PostIsAbstract
<1>3. ASSUME NEW m \in NewMessages(p), Post(p, m)
      PROVE  AbstractPost \/ UNCHANGED <<QueueBar, OutBar>>
  BY <1>1, <1>2, <1>3 DEF Post
<1>4. ASSUME Retry(p)
      PROVE  AbstractPost \/ UNCHANGED <<QueueBar, OutBar>>
  <2>1. pmsg[p] \in NewMessages(p)
    BY <1>4 DEF Reading, Retry
  <2> QED
    BY <1>1, <1>2, <1>4, <2>1 DEF Retry
<1> QED
  BY <1>3, <1>4

\* The start of a receive, and its wait, change nothing.
LEMMA ReceiveRefines ==
  ASSUME IndInv, IndInv', Receive \/ EnterWait
  PROVE  UNCHANGED <<QueueBar, OutBar>>
<1>t. TypeOK /\ TypeOK'
  BY DEF IndInv
<1>1. /\ head' = head /\ tail' = tail /\ list' = list /\ out' = out
      /\ rpc' = "copy" => rtail' = tail
      /\ rpc \in {"idle", "retry", "towait"} /\ rpc' \in {"copy", "towait", "waiting"}
  BY DEF Receive, EnterWait
<1>2. Cursor' = Cursor
  BY <1>1 DEF Cursor, Scanning
<1>3. Line' = Line
  BY <1>1, <1>2 DEF Line
<1>4. QueueBar = Line
  BY <1>t, <1>1, BarQuiet
<1>5. CASE rpc' = "copy"
  <2>1. NumPutBack' = 0 /\ InHand' = <<>>
    <3>1. NumCopied(tail, tail) = 0
      BY <1>t, NumCopiedGrows DEF TypeOK
    <3> QED
      BY <1>1, <1>5, <3>1 DEF NumPutBack, InHand, NumCopied
  <2>2. QueueBar' = Around(Line, 0, <<>>)
    BY <1>3, <1>5, <2>1 DEF QueueBar, Around
  <2>3. QueueBar' = Line
    BY <1>t, <2>2, LineNow, AroundNothing
  <2> QED
    BY <1>1, <1>4, <2>3 DEF OutBar
<1>6. CASE rpc' # "copy"
  <2>1. QueueBar' = Line'
    BY <1>t, <1>1, <1>6, BarQuietNext
  <2> QED
    BY <1>1, <1>3, <1>4, <2>1 DEF OutBar
<1> QED
  BY <1>5, <1>6

\* What every step but the delivery and the tick refines.
LEMMA OtherSteps ==
  ASSUME IndInv, IndInv', Reading, [Next]_vars
  PROVE  CopyOut \/ Tick \/ AbstractPost \/ Abstract!Return
           \/ UNCHANGED <<QueueBar, OutBar>>
<1>1. ASSUME NEW p \in Poster, (\E m \in NewMessages(p) : Post(p, m)) \/ Retry(p)
      PROVE  AbstractPost \/ UNCHANGED <<QueueBar, OutBar>>
  BY <1>1, PostRefines
<1>2. CASE Receive \/ EnterWait
  BY <1>2, ReceiveRefines
<1>3. CASE PutBack
  BY <1>3, PutBackRefines
<1>4. CASE Commit
  BY <1>4, CommitRefines
<1>5. CASE UNCHANGED vars
  BY <1>5 DEF vars, QueueBar, OutBar, Line, NumPutBack, InHand, Cursor, Scanning
<1>6. CASE CopyByte
  <2>1. Line' = Line /\ NumPutBack' = NumPutBack
    BY <1>6, CopyByteReads
  <2> QED
    BY <1>6, <2>1 DEF CopyByte, QueueBar, OutBar, InHand
<1> QED
  BY <1>1, <1>2, <1>3, <1>4, <1>5, <1>6
     DEF Next, ReceiverStep, PostAsyncRefused, ReceiveAsyncEmpty

LEMMA LateStep ==
  ASSUME IndInv, IndInv', Reading, [Next]_vars
  PROVE  [Abstract!LateNext]_<<QueueBar, OutBar>>
<1>1. CASE CopyOut
  <2>1. CASE UNCHANGED <<QueueBar, OutBar>>
    BY <2>1
  <2>2. CASE /\ rpc' \in {"reload", "commit"}
             /\ OutBar = Plain(Blank)
             /\ NumPutBack + 1 \in 1 .. Len(QueueBar)
             /\ QueueBar[NumPutBack + 1] = Plain(out')
             /\ Abstract!Take(NumPutBack + 1)
    <3>1. out'.due = 0 \/ out'.asked >= Byte
      BY <2>2 DEF IndInv, NeverEarly
    <3>2. Plain(out').delay = out'.due /\ Plain(out').asked = out'.asked
      BY DEF Plain
    <3>3. Abstract!DeliverSome
      BY <2>2, <3>1, <3>2 DEF Abstract!DeliverSome
    <3> QED
      BY <3>3 DEF Abstract!LateNext
  <2> QED
    BY <1>1, <2>1, <2>2, CopyOutTakes
<1>2. CASE Tick
  BY <1>2, TickRefines DEF Abstract!LateNext
<1>3. CASE AbstractPost \/ Abstract!Return \/ UNCHANGED <<QueueBar, OutBar>>
  BY <1>3 DEF AbstractPost, Abstract!LateNext
<1> QED
  BY <1>1, <1>2, <1>3, OtherSteps

\* A queue of any size, with any posters, delays and periods, is the line
\* LateQueue describes wherever the clock interrupt lands, also between two
\* bytes of a delay that os_msg_receive copies: bounded, nothing lost or served
\* twice, the messages passed over kept in order, and no message that asked for
\* a delay of one byte served before its time.
THEOREM LateRefinement == Spec => ImplementsLateQueue
<1>1. Init => Abstract!Init
  BY InitRefines
<1>2. IndInv /\ IndInv' /\ Reading /\ [Next]_vars
        => [Abstract!LateNext]_<<QueueBar, OutBar>>
  BY LateStep
<1> QED
  BY <1>1, <1>2, ReadingInvariance, Invariance, PTL
     DEF Spec, ImplementsLateQueue, Abstract!LateSpec, Abstract!vars
-----------------------------------------------------------------------------
(* DelayQueue: the messages a receive has put back are all delayed, unless a*)
(* tick lands between its steps.                                            *)

Rotated == Examining => LastAreDelayed(Line, NumPutBack)

LEMMA DeliverRefines ==
  ASSUME IndInv, IndInv', Reading, Rotated, CopyOut, rpc' # "put" => out'.due = 0
  PROVE  Abstract!Deliver \/ UNCHANGED <<QueueBar, OutBar>>
<1>1. CASE UNCHANGED <<QueueBar, OutBar>>
  BY <1>1
<1>2. CASE /\ rpc' \in {"reload", "commit"}
           /\ OutBar = Plain(Blank)
           /\ NumPutBack + 1 \in 1 .. Len(QueueBar)
           /\ QueueBar[NumPutBack + 1] = Plain(out')
           /\ \A j \in 1 .. NumPutBack : QueueBar[j] = Line[Len(Line) - NumPutBack + j]
           /\ Abstract!Take(NumPutBack + 1)
  <2>1. NumPutBack \in Nat /\ LastAreDelayed(Line, NumPutBack)
    BY CopyOutLine DEF Rotated, Examining, CopyOut
  <2>2. (NumPutBack + 1) - 1 = NumPutBack
    BY <2>1
  <2>3. \A j \in 1 .. (NumPutBack + 1) - 1 : QueueBar[j].delay > 0
    BY <1>2, <2>1, <2>2 DEF LastAreDelayed
  <2>4. QueueBar[NumPutBack + 1].delay = 0
    BY <1>2 DEF Plain
  <2> QED
    BY <1>2, <2>3, <2>4 DEF Abstract!Deliver
<1> QED
  BY <1>1, <1>2, CopyOutTakes

LEMMA NextRotated ==
  ASSUME Preempt = FALSE, IndInv, IndInv', QuietInv, Reading, Rotated, [Next]_vars
  PROVE  Rotated'
<1>t. TypeOK
  BY DEF IndInv
<1>1. ASSUME NEW p \in Poster, (\E m \in NewMessages(p) : Post(p, m)) \/ Retry(p)
      PROVE  Rotated'
  BY <1>t, <1>1 DEF TypeOK, Receiving, Scanning, Post, Retry, Push, WokenReceiver,
                    Rotated, Examining
<1>2. CASE Receive
  <2>1. rpc' \in {"copy", "towait"} /\ (rpc' = "copy" => rtail' = tail /\ tail' = tail)
    BY <1>2 DEF Receive
  <2>2. NumCopied(tail, tail) = 0
    BY <1>t, NumCopiedGrows DEF TypeOK
  <2>3. rpc' = "copy" => NumPutBack' = 0
    BY <2>1, <2>2 DEF NumPutBack, NumCopied
  <2> QED
    BY <2>1, <2>3 DEF Rotated, Examining, LastAreDelayed
<1>3. CASE CopyOut
  <2>1. rpc = "copy" /\ rpc' \in {"commit", "reload", "put"}
    BY <1>3 DEF CopyOut
  <2>2. /\ NumPutBack \in 0 .. Len(Line) /\ NumPutBack < Len(Line)
        /\ Line \in Seq(PlainMessage) /\ Line' = Tail(Line)
        /\ rpc' = "put" => NumPutBack' = NumPutBack
    BY <1>3, CopyOutLine
  <2>3. LastAreDelayed(Line, NumPutBack)
    BY <2>1 DEF Rotated, Examining
  <2>4. LastAreDelayed(Tail(Line), NumPutBack)
    BY <2>2, <2>3, LastOfTail
  <2> QED
    BY <2>1, <2>2, <2>4 DEF Rotated, Examining
<1>4. CASE PutBack
  <2>1. rpc' = (IF rpc = "put" THEN "copy" ELSE "commit") /\ rpc \in {"put", "reload"}
    BY <1>4 DEF PutBack
  <2>2. /\ Line \in Seq(PlainMessage) /\ Plain(reg) \in PlainMessage
        /\ Line' = Append(Line, Plain(reg))
        /\ rpc = "put" => NumPutBack' = NumPutBack + 1
    BY <1>4, PutBackLine
  <2>3. ASSUME rpc = "put"
        PROVE  LastAreDelayed(Line', NumPutBack')
    <3>1. NumPutBack \in 0 .. Len(Line) /\ LastAreDelayed(Line, NumPutBack)
      BY <2>3 DEF Reading, Rotated, Examining
    <3>2. Plain(reg).delay > 0
      BY <2>3 DEF Reading, QuietInv, Exact, Plain
    <3>3. LastAreDelayed(Append(Line, Plain(reg)), NumPutBack + 1)
      BY <2>2, <3>1, <3>2, LastOfAppend
    <3> QED
      BY <2>2, <2>3, <3>3
  <2> QED
    BY <2>1, <2>3 DEF Rotated, Examining
<1>5. CASE EnterWait \/ Commit
  BY <1>5 DEF EnterWait, Commit, Rotated, Examining
<1>6. CASE Tick
  BY <1>t, <1>6 DEF TypeOK, Receiving, Scanning, Tick, WokenReceiver, Rotated, Examining
<1>7. CASE CopyByte \/ UNCHANGED vars
  <2>1. Line' = Line /\ NumPutBack' = NumPutBack /\ rpc' = rpc
    BY <1>7 DEF CopyByte, vars, Line, NumPutBack, Cursor, Scanning
  <2> QED
    BY <2>1 DEF Rotated, Examining
<1> QED
  BY <1>1, <1>2, <1>3, <1>4, <1>5, <1>6, <1>7
     DEF Next, ReceiverStep, PostAsyncRefused, ReceiveAsyncEmpty

LEMMA ExactStep ==
  ASSUME IndInv, IndInv', Reading, Rotated, [Next]_vars,
         CopyOut /\ rpc' # "put" => out'.due = 0
  PROVE  [Abstract!Next]_<<QueueBar, OutBar>>
<1>1. CASE CopyOut
  BY <1>1, DeliverRefines DEF Abstract!Next
<1>2. CASE Tick
  BY <1>2, TickRefines DEF Abstract!Next
<1>3. CASE AbstractPost \/ Abstract!Return \/ UNCHANGED <<QueueBar, OutBar>>
  BY <1>3 DEF AbstractPost, Abstract!Next
<1> QED
  BY <1>1, <1>2, <1>3, OtherSteps

\* As long as no tick lands within os_msg_receive, a queue of any size, with
\* any posters, delays and periods, is the line DelayQueue describes: bounded,
\* the first due message first, the delayed ones passed over kept in order,
\* nothing lost or served twice, and every tick counted.
THEOREM Refinement ==
  ASSUME Preempt = FALSE
  PROVE  Spec => ImplementsDelayQueue
<1>1. Init => Abstract!Init
  BY InitRefines
<1>2. IndInv /\ IndInv' /\ Reading /\ Rotated /\ [Next]_vars
        => [Abstract!Next]_<<QueueBar, OutBar>>
  <2> SUFFICES ASSUME IndInv, IndInv', Reading, Rotated, [Next]_vars
               PROVE  [Abstract!Next]_<<QueueBar, OutBar>>
    OBVIOUS
  <2>1. ASSUME CopyOut, rpc' # "put"
        PROVE  out'.due = 0
    <3>1. rpc' \in {"reload", "commit"}
      BY <2>1 DEF CopyOut
    <3> QED
      BY <3>1 DEF IndInv, NeverEarly
  <2> QED
    BY <2>1, ExactStep
<1>3. Init => Rotated
  BY DEF Init, Rotated, Examining
<1>4. IndInv /\ IndInv' /\ QuietInv /\ Reading /\ Rotated /\ [Next]_vars => Rotated'
  BY NextRotated
<1>5. Spec => []QuietInv
  BY QuietInvariance
<1> QED
  BY <1>1, <1>2, <1>3, <1>4, <1>5, ReadingInvariance, Invariance, PTL
     DEF Spec, ImplementsDelayQueue, Abstract!Spec, Abstract!vars
-----------------------------------------------------------------------------
(* The queues of this application: nothing is posted with a delay or a      *)
(* period.  A tick then changes no message, and a receive takes the first   *)
(* one, so it does not matter where the ticks land.                         *)

AtOnce(m) == m.asked = 0 /\ m.delay = 0 /\ m.reload = 0 /\ m.due = 0

UndelayedInv ==
  /\ \A i \in Slot : AtOnce(list[i])
  /\ \A p \in Poster : AtOnce(pmsg[p])
  /\ AtOnce(out)
  /\ part = 0
  /\ rpc \notin {"put", "reload"}
  /\ rpc = "copy" => rtail = tail
  /\ rpc \in {"towait", "waiting"} => Empty

LEMMA NewMessageAtOnce ==
  ASSUME Delays \subseteq {0}, Periods = {}
  PROVE  \A p \in Poster : \A m \in NewMessages(p) : AtOnce(m)
BY DEF NewMessages, AtOnce

LEMMA InitUndelayed == Init => UndelayedInv
  BY DEF Init, UndelayedInv, AtOnce, Blank

\* The first slot of a ring that is not empty is one that a walk meets.
LEMMA FirstIsMet ==
  ASSUME NEW t \in Slot, NEW h \in Slot, Succ(t) # h
  PROVE  Succ(t) \in Window(t, h)
<1>1. Succ(t) \in Slot /\ Succ(t) = IF t = Size - 1 THEN 0 ELSE t + 1
  BY SuccDef, SuccType
<1> QED
  BY <1>1, SizeAssumption DEF Slot, Window

LEMMA PushUndelayed ==
  ASSUME IndInv, UndelayedInv, ~Receiving, NEW m, AtOnce(m), Push(m)
  PROVE  /\ \A i \in Slot : AtOnce(list'[i])
         /\ rpc' \in {"idle", "retry"} /\ UNCHANGED <<part, out>>
<1>1. list \in [Slot -> Message] /\ head \in Slot
  BY DEF IndInv, TypeOK
<1>2. \A i \in Slot : list'[i] = IF i = head THEN m ELSE list[i]
  BY <1>1 DEF Push
<1>3. rpc \in {"idle", "retry", "waiting"}
  BY DEF IndInv, TypeOK, Receiving, Scanning
<1>4. rpc' \in {"idle", "retry"} /\ UNCHANGED <<part, out>>
  BY <1>3 DEF Push, WokenReceiver
<1> QED
  BY <1>2, <1>4 DEF UndelayedInv

LEMMA TickUndelayed ==
  ASSUME IndInv, UndelayedInv, Tick
  PROVE  /\ \A i \in Slot : AtOnce(list'[i])
         /\ UNCHANGED <<head, tail, rtail, part, out, pmsg, rpc>>
<1>1. list \in [Slot -> Message]
  BY DEF IndInv, TypeOK
<1>2. \A i \in Slot : list[i] \in Message /\ AtOnce(list[i])
  BY <1>1 DEF UndelayedInv
<1>3. ~ \E i \in Ticked : list[i].delay = 1
  BY <1>2 DEF Ticked, Window, AtOnce
<1>4. UNCHANGED <<head, tail, rtail, part, out, pmsg, rpc>>
  BY <1>3 DEF Tick
<1>5. ASSUME NEW i \in Slot
      PROVE  AtOnce(list'[i])
  <2>1. list'[i] = [list[i] EXCEPT !.delay = IF i \in Ticked THEN Dec(@) ELSE @,
                                   !.due = IF i \in Live THEN Dec(@) ELSE @]
    BY DEF Tick
  <2>2. list[i] \in Message /\ AtOnce(list[i]) /\ Dec(0) = 0
    BY <1>2 DEF Dec
  <2> QED
    BY <2>1, <2>2 DEF Message, AtOnce
<1> QED
  BY <1>4, <1>5

LEMMA NextUndelayed ==
  ASSUME Delays \subseteq {0}, Periods = {}, IndInv, IndInv', UndelayedInv, [Next]_vars
  PROVE  UndelayedInv'
<1>t. TypeOK /\ TypeOK'
  BY DEF IndInv
<1>1. ASSUME NEW p \in Poster, NEW m \in NewMessages(p), Post(p, m)
      PROVE  UndelayedInv'
  <2>1. AtOnce(m)
    BY NewMessageAtOnce
  <2>2. \A q \in Poster : pmsg'[q] = pmsg[q] \/ pmsg'[q] = m
    BY <1>t, <1>1 DEF Post, TypeOK
  <2>3. \A q \in Poster : AtOnce(pmsg'[q])
    BY <2>1, <2>2 DEF UndelayedInv
  <2>4. CASE Push(m)
    BY <1>1, <2>1, <2>3, <2>4, PushUndelayed DEF UndelayedInv, Post
  <2>5. CASE UNCHANGED <<list, head, tail, rpc, rtail, reg, place, part, out>>
    BY <2>3, <2>5 DEF UndelayedInv, Empty
  <2> QED
    BY <1>1, <2>4, <2>5 DEF Post
<1>2. ASSUME NEW p \in Poster, Retry(p)
      PROVE  UndelayedInv'
  <2>1. AtOnce(pmsg[p]) /\ AtOnce(Blank)
    BY DEF UndelayedInv, AtOnce, Blank
  <2>2. \A q \in Poster : pmsg'[q] = pmsg[q] \/ pmsg'[q] = Blank
    BY <1>t, <1>2 DEF Retry, TypeOK
  <2>3. \A q \in Poster : AtOnce(pmsg'[q])
    BY <2>1, <2>2 DEF UndelayedInv
  <2>4. CASE Push(pmsg[p])
    BY <1>2, <2>1, <2>3, <2>4, PushUndelayed DEF UndelayedInv, Retry
  <2>5. CASE UNCHANGED <<list, head, tail, rpc, rtail, reg, place, part, out>>
    BY <2>3, <2>5 DEF UndelayedInv, Empty
  <2> QED
    BY <1>2, <2>4, <2>5 DEF Retry
<1>3. CASE Receive
  <2>1. MsgQAllDelayed => Empty
    <3> SUFFICES ASSUME ~Empty PROVE ~MsgQAllDelayed
      OBVIOUS
    <3>1. Succ(tail) \in Window(tail, head) /\ Succ(tail) \in Slot
      BY <1>t, FirstIsMet, SuccType DEF TypeOK, Empty
    <3>2. list[Succ(tail)].delay = 0
      BY <3>1 DEF UndelayedInv, AtOnce
    <3> QED
      BY <3>1, <3>2 DEF MsgQAllDelayed
  <2>2. /\ UNCHANGED <<list, head, tail, part, out, pmsg>>
        /\ \/ rpc' = "copy" /\ rtail' = tail
           \/ rpc' = "towait" /\ Empty
    BY <1>3, <2>1 DEF Receive
  <2> QED
    BY <2>2 DEF UndelayedInv, Empty
<1>4. CASE EnterWait
  BY <1>4 DEF EnterWait, UndelayedInv, Empty
<1>5. CASE CopyByte
  <2>1. NextTail \in Slot /\ list[NextTail].delay = 0
    BY <1>t, SuccType DEF TypeOK, NextTail, UndelayedInv, AtOnce
  <2>2. part' = 0
    BY <1>5, <2>1, BeingCopied DEF CopyByte, UndelayedInv
  <2> QED
    BY <1>5, <2>2 DEF CopyByte, UndelayedInv, Empty
<1>6. CASE CopyOut
  <2> DEFINE l == list[NextTail]
             m == [l EXCEPT !.delay = part + Digit(l.delay)]
  <2>1. l \in Message /\ AtOnce(l)
    BY <1>t, SuccType DEF TypeOK, NextTail, UndelayedInv
  <2>2. part + Digit(l.delay) = 0
    BY <1>6, <2>1, BeingCopied DEF CopyOut, UndelayedInv, AtOnce
  <2>3. AtOnce(m)
    <3> HIDE DEF l
    <3> QED
      BY <2>1, <2>2 DEF Message, AtOnce
  <2>4. TimedOut(m) /\ ~Periodic(m)
    BY <2>3 DEF AtOnce, TimedOut, Periodic
  <2>5. rpc' = "commit" /\ out' = m /\ part' = 0 /\ UNCHANGED <<list, pmsg>>
    BY <1>6, <2>4 DEF CopyOut
  <2> HIDE DEF m
  <2> QED
    BY <2>3, <2>5 DEF UndelayedInv
<1>7. CASE PutBack
  BY <1>7 DEF PutBack, UndelayedInv
<1>8. CASE Commit
  <2>1. AtOnce(out')
    BY <1>8 DEF Commit, AtOnce, Blank
  <2> QED
    BY <1>8, <2>1 DEF Commit, UndelayedInv
<1>9. CASE Tick
  BY <1>9, TickUndelayed DEF UndelayedInv, Empty
<1>10. CASE UNCHANGED vars
  BY <1>10 DEF vars, UndelayedInv, Empty
<1> QED
  BY <1>1, <1>2, <1>3, <1>4, <1>5, <1>6, <1>7, <1>8, <1>9, <1>10
     DEF Next, ReceiverStep, PostAsyncRefused, ReceiveAsyncEmpty

LEMMA UndelayedInvariance ==
  ASSUME Delays \subseteq {0}, Periods = {}
  PROVE  Spec => []UndelayedInv
<1>1. IndInv /\ IndInv' /\ UndelayedInv /\ [Next]_vars => UndelayedInv'
  BY NextUndelayed
<1> QED
  BY <1>1, InitUndelayed, Invariance, PTL DEF Spec

\* Nothing is ever put back, and what is taken was due from the start.
LEMMA UndelayedStep ==
  ASSUME IndInv, IndInv', Reading, UndelayedInv, UndelayedInv', [Next]_vars
  PROVE  [Abstract!Next]_<<QueueBar, OutBar>>
<1>1. Rotated
  <2>1. NumCopied(tail, tail) = 0
    BY NumCopiedGrows DEF IndInv, TypeOK
  <2>2. Examining => NumPutBack = 0
    BY <2>1 DEF UndelayedInv, Examining, NumPutBack, NumCopied
  <2> QED
    BY <2>2 DEF Rotated, LastAreDelayed
<1>2. out'.due = 0
  BY DEF UndelayedInv, AtOnce
<1> QED
  BY <1>1, <1>2, ExactStep

\* A queue whose messages are never delayed is the line DelayQueue describes
\* wherever the clock interrupt lands: first in, first out, in the port as it
\* is shipped.
THEOREM UndelayedRefinement ==
  ASSUME Delays \subseteq {0}, Periods = {}
  PROVE  Spec => ImplementsDelayQueue
<1>1. Init => Abstract!Init
  BY InitRefines
<1>2. IndInv /\ IndInv' /\ Reading /\ UndelayedInv /\ UndelayedInv' /\ [Next]_vars
        => [Abstract!Next]_<<QueueBar, OutBar>>
  BY UndelayedStep
<1> QED
  BY <1>1, <1>2, UndelayedInvariance, ReadingInvariance, Invariance, PTL
     DEF Spec, ImplementsDelayQueue, Abstract!Spec, Abstract!vars

\* And its receiver never waits while there is something to receive.
THEOREM UndelayedWaits ==
  ASSUME Delays \subseteq {0}, Periods = {}
  PROVE  Spec => [](rpc = "waiting" => Live = {})
<1>1. IndInv /\ UndelayedInv => (rpc = "waiting" => Live = {})
  <2> SUFFICES ASSUME IndInv, UndelayedInv, rpc = "waiting" PROVE Live = {}
    OBVIOUS
  <2>1. Cursor = tail /\ Succ(tail) = head /\ tail \in Slot /\ head \in Slot
    BY DEF IndInv, TypeOK, Cursor, Scanning, UndelayedInv, Empty
  <2> QED
    BY <2>1, WindowEmpty DEF Live
<1> QED
  BY <1>1, UndelayedInvariance, Invariance, PTL
=============================================================================

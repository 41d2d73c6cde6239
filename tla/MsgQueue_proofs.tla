-------------------------- MODULE MsgQueue_proofs --------------------------
(***************************************************************************)
(* Proofs about MsgQueue for every ring size, set of posters, set of       *)
(* delays and periods, with and without ticks inside a receive.            *)
(***************************************************************************)
EXTENDS MsgQueue, TLAPS

-----------------------------------------------------------------------------
(* Arithmetic of the ring. *)

\* Succ is the increment that wraps at the last slot.
LEMMA SuccDef ==
  \A i \in Slot : Succ(i) = IF i = Size - 1 THEN 0 ELSE i + 1
<1>1. Size \in Nat /\ Size >= 2
  BY SizeAssumption
<1>2. ASSUME NEW i \in Slot
      PROVE  Succ(i) = IF i = Size - 1 THEN 0 ELSE i + 1
  BY <1>1 DEF Succ, Slot
<1> QED
  BY <1>2

LEMMA SuccType == \A i \in Slot : Succ(i) \in Slot
  BY SuccDef, SizeAssumption DEF Slot

\* Advancing the head of a ring that is not full adds the slot it was at.
LEMMA WindowGrows ==
  ASSUME NEW t \in Slot, NEW h \in Slot, h # t
  PROVE  /\ Window(t, Succ(h)) = Window(t, h) \cup {h}
         /\ h \notin Window(t, h)
  BY SuccDef, SizeAssumption DEF Slot, Window

\* Advancing the cursor over a ring that is not empty removes one slot.
LEMMA WindowShrinks ==
  ASSUME NEW t \in Slot, NEW h \in Slot, Window(t, h) # {}
  PROVE  /\ Succ(t) \in Window(t, h)
         /\ Window(Succ(t), h) = Window(t, h) \ {Succ(t)}
         /\ h # Succ(t)
  BY SuccDef, SizeAssumption DEF Slot, Window

\* The only empty window is the one whose head follows the tail.
LEMMA WindowEmpty ==
  ASSUME NEW t \in Slot, NEW h \in Slot, Succ(t) = h
  PROVE  Window(t, h) = {}
  BY SuccDef, SizeAssumption DEF Slot, Window

-----------------------------------------------------------------------------
(* Arithmetic of the copied bytes. *)

LEMMA Division ==
  ASSUME NEW a \in Nat, NEW b \in Nat \ {0}
  PROVE  /\ a \div b \in Nat /\ a % b \in Nat
         /\ a = (a \div b) * b + (a % b) /\ a % b < b
BY Z3

LEMMA Remainder ==
  ASSUME NEW a \in Nat, NEW b \in Nat \ {0}, NEW q \in Nat, NEW r \in Nat,
         a = q * b + r, r < b
  PROVE  a % b = r
BY Z3

\* A number below the divisor is its own remainder.
LEMMA Small ==
  ASSUME NEW a \in Nat, NEW b \in Nat \ {0}, a < b
  PROVE  a \div b = 0 /\ a % b = a
BY Z3

LEMMA Product ==
  ASSUME NEW a \in Nat, NEW b \in Nat \ {0}, NEW c \in Nat, a < c
  PROVE  a * b + b <= c * b
<1>1. PICK k \in Nat : c = a + 1 + k
  <2>1. c - a - 1 \in Nat /\ c = a + 1 + (c - a - 1)
    OBVIOUS
  <2> QED BY <2>1
<1>2. c * b = a * b + b + k * b
  BY <1>1
<1>3. k * b >= 0 /\ k * b \in Nat /\ a * b \in Nat
  OBVIOUS
<1> QED
  BY <1>2, <1>3

\* One more digit of base b.
LEMMA DigitSum ==
  ASSUME NEW d \in Nat, NEW p \in Nat \ {0}, NEW b \in Nat \ {0}
  PROVE  (d % p) + ((d \div p) % b) * p = d % (p * b)
<1> DEFINE q == d \div p
           r == d % p
           t == q \div b
           s == q % b
<1>1. q \in Nat /\ r \in Nat /\ d = q * p + r /\ r < p
  BY Division
<1>2. t \in Nat /\ s \in Nat /\ q = t * b + s /\ s < b
  <2> HIDE DEF q
  <2> QED BY <1>1, Division
<1> HIDE DEF q, r, t, s
<1>3. q * p = t * (p * b) + s * p
  BY <1>1, <1>2
<1>4. s * p + p <= p * b
  <2>1. s * p + p <= b * p
    BY <1>2, Product
  <2> QED BY <2>1
<1>5. s * p \in Nat /\ t * (p * b) \in Nat /\ p * b \in Nat
  BY <1>1, <1>2
<1>6. p * b # 0
  BY <1>1, <1>4, <1>5
<1>7. d % (p * b) = r + s * p
  <2> DEFINE m == p * b
             n == r + s * p
  <2>1. m \in Nat \ {0} /\ n \in Nat /\ n < m /\ d = t * m + n
    BY <1>1, <1>2, <1>3, <1>4, <1>5, <1>6
  <2> HIDE DEF m, n
  <2>2. d % m = n
    BY <1>2, <2>1, Remainder
  <2> QED BY <2>2 DEF m, n
<1> QED
  BY <1>7 DEF q, r, s

\* Before the first byte is read nothing is known of the delay.
LEMMA FreshCopy ==
  ASSUME place = 1, part = 0, NEW d \in Nat
  PROVE  part = d % place
  BY Remainder

\* A byte above the delay is 0, and the first one is all of a delay below Byte.
LEMMA DigitValue ==
  ASSUME place \in Nat \ {0}, NEW d \in Nat
  PROVE  /\ Digit(d) \in Nat
         /\ d < place => Digit(d) = 0
         /\ place = 1 /\ d < Byte => Digit(d) = d
<1>b. Byte \in Nat \ {0}
  BY ByteAssumption
<1> DEFINE q == d \div place
<1>1. q \in Nat
  BY Division
<1>2. Digit(d) = (q % Byte) * place
  BY DEF Digit
<1>3. d < place => q = 0
  BY Small
<1>4. place = 1 => q = d
  BY Division
<1> HIDE DEF q
<1>5. q % Byte \in Nat
  BY <1>b, <1>1, Division
<1>6. q < Byte => q % Byte = q
  BY <1>b, <1>1, Small
<1> DEFINE s == q % Byte
<1> HIDE DEF s
<1>7. s * place \in Nat /\ (s = 0 => s * place = 0) /\ (place = 1 => s * place = s)
  BY <1>5 DEF s
<1> QED
  BY <1>b, <1>2, <1>3, <1>4, <1>6, <1>7 DEF s

\* What the bytes read up to and including this one amount to.
LEMMA Copied ==
  ASSUME TypeOK, CopySound, rpc = "copy", NextTail \in Slot,
         Patient(list[NextTail])
  PROVE  LET m == list[NextTail]
             v == part + Digit(m.delay)
         IN  /\ v \in Nat
             /\ Narrow(m) => m.due <= v /\ v <= m.asked
             /\ ~Preempt => v = m.delay % (place * Byte)
             /\ m.delay = 0 /\ part = 0 => v = 0
<1> DEFINE m == list[NextTail]
           v == part + Digit(m.delay)
<1>1. m \in Message /\ place \in Nat \ {0} /\ part \in Nat
  BY DEF TypeOK
<1>2. m.delay \in Nat /\ m.due \in Nat /\ m.asked \in Nat
  BY <1>1 DEF Message
<1>3. /\ Digit(m.delay) \in Nat
      /\ m.delay < place => Digit(m.delay) = 0
      /\ place = 1 /\ m.delay < Byte => Digit(m.delay) = m.delay
  BY <1>1, <1>2, DigitValue
<1>4. v \in Nat
  BY <1>1, <1>3
<1>5. ASSUME Narrow(m)
      PROVE  m.due <= v /\ v <= m.asked
  <2>1. m.due <= m.delay /\ m.delay <= m.asked /\ m.asked < Byte
    BY <1>5 DEF Patient, Narrow
  <2>2. CASE place = 1
    <3>1. part = 0 /\ Digit(m.delay) = m.delay
      BY <1>2, <1>3, <2>1, <2>2, ByteAssumption DEF CopySound
    <3> QED BY <1>2, <2>1, <3>1
  <2>3. CASE place # 1
    <3>1. place >= Byte /\ m.due <= part /\ part <= m.asked
      BY <1>1, <1>5, <2>3 DEF CopySound
    <3>2. Digit(m.delay) = 0
      BY <1>1, <1>2, <1>3, <2>1, <3>1, ByteAssumption
    <3> QED BY <1>1, <3>1, <3>2
  <2> QED BY <2>2, <2>3
<1>6. ASSUME ~Preempt
      PROVE  v = m.delay % (place * Byte)
  <2>1. part = m.delay % place
    BY <1>6 DEF CopySound
  <2>2. Byte \in Nat \ {0}
    BY ByteAssumption
  <2>3. (m.delay % place) + ((m.delay \div place) % Byte) * place
          = m.delay % (place * Byte)
    BY <1>1, <1>2, <2>2, DigitSum
  <2> QED BY <2>1, <2>3 DEF Digit
<1>7. m.delay = 0 /\ part = 0 => v = 0
  BY <1>1, <1>3
<1> QED
  BY <1>4, <1>5, <1>6, <1>7

\* A delay that no tick changes meanwhile is copied as it is.
LEMMA WholeCopy ==
  ASSUME TypeOK, CopySound, CopyOut, NextTail \in Slot, Patient(list[NextTail]),
         ~Preempt
  PROVE  part + Digit(list[NextTail].delay) = list[NextTail].delay
<1> DEFINE n == place * Byte
           d == list[NextTail].delay
<1>2. part + Digit(d) = d % n
  BY Copied DEF CopyOut
<1>3. place \in Nat \ {0} /\ d \in Nat /\ d < Word /\ n >= Word
  BY DEF TypeOK, Message, Patient, CopyOut
<1>4. n \in Nat
  BY <1>3, ByteAssumption
<1> HIDE DEF n, d
<1>5. n \in Nat \ {0} /\ d < n
  BY <1>3, <1>4, ByteAssumption
<1>6. d % n = d
  BY <1>3, <1>5, Small
<1> QED
  BY <1>2, <1>6 DEF d

-----------------------------------------------------------------------------
(* The inductive invariant. *)

LEMMA BlankType == Blank \in Message
  BY DEF Blank, Message

LEMMA NewMessageType ==
  \A p \in Poster : \A m \in NewMessages(p) :
    m \in Message /\ Patient(m) /\ m.from = p
<1>1. \A d \in Delays \cup Periods : d \in Nat /\ d < Word
  BY DelayAssumption, ByteAssumption
<1> QED
  BY <1>1 DEF NewMessages, Message, Patient, Narrow

\* Where no copy begins or ends, nothing changes for it.
LEMMA NotCopying ==
  ASSUME CopySound, rpc # "copy", rpc' # "copy", UNCHANGED <<place, part>>
  PROVE  CopySound'
  BY DEF CopySound

\* A turn of the loop begins with nothing copied.
LEMMA CopyStarts ==
  ASSUME CopySound, TypeOK', rpc # "copy", rpc' = "copy",
         UNCHANGED <<place, part>>, NextTail' \in Slot
  PROVE  CopySound' /\ part' = 0
<1>1. place = 1 /\ part = 0 /\ place' = 1 /\ part' = 0
  BY DEF CopySound
<1> DEFINE d == list'[NextTail'].delay
<1>2. d \in Nat
  BY DEF TypeOK, Message
<1> HIDE DEF d
<1>3. part = d % place
  BY <1>1, <1>2, FreshCopy
<1>4. part' = d % place'
  BY <1>1, <1>3
<1> QED
  BY <1>1, <1>4 DEF CopySound, d

\* What a successful queue_push keeps, whoever calls it.
LEMMA PushKeeps ==
  ASSUME IndInv, ~Receiving, head # tail,
         NEW m \in Message, Patient(m), Push(m)
  PROVE  /\ list' \in [Slot -> Message]
         /\ head' \in Slot
         /\ rpc' \in {"idle", "retry"}
         /\ \A i \in Live' : Patient(list'[i])
<1>1. list \in [Slot -> Message] /\ head \in Slot /\ tail \in Slot
  BY DEF IndInv, TypeOK
<1>2. list' = [list EXCEPT ![head] = m] /\ head' = Succ(head) /\ tail' = tail
  BY DEF Push
<1>3. rpc \in {"idle", "retry", "waiting"}
  BY DEF IndInv, TypeOK, Receiving, Scanning
<1>4. rpc' \in {"idle", "retry"}
  BY <1>3 DEF Push, WokenReceiver
<1>5. Live = Window(tail, head) /\ Live' = Window(tail, head')
  BY <1>2, <1>3, <1>4 DEF Live, Cursor, Scanning
<1>6. Live' = Live \cup {head}
  BY <1>1, <1>2, <1>5, WindowGrows
<1>7. \A i \in Live' : Patient(list'[i])
  <2>1. TAKE i \in Live'
  <2>2. i \in Slot
    BY <1>5 DEF Window
  <2>3. CASE i = head
    BY <1>1, <1>2, <2>3
  <2>4. CASE i # head
    BY <1>1, <1>2, <1>6, <2>2, <2>4 DEF IndInv, MessagesPatient
  <2> QED BY <2>3, <2>4
<1> QED
  BY <1>1, <1>2, <1>4, <1>7, SuccType

LEMMA InitIndInv == Init => IndInv
<1> SUFFICES ASSUME Init PROVE IndInv
  OBVIOUS
<1>1. 0 \in Slot /\ 1 \in Slot
  BY SizeAssumption DEF Slot
<1>2. TypeOK
  BY <1>1, BlankType DEF Init, TypeOK
<1>3. Live = {}
  BY <1>1, WindowEmpty, SuccDef, SizeAssumption DEF Init, Live, Cursor, Scanning
<1> QED
  BY <1>2, <1>3 DEF Init, IndInv, ScanWillFind, PutBackHasRoom, NeverEarly,
                    MessagesPatient, CopySound

LEMMA NextIndInv == IndInv /\ [Next]_vars => IndInv'
<1> SUFFICES ASSUME IndInv, [Next]_vars PROVE IndInv'
  OBVIOUS
<1> USE DEF IndInv
<1>t. TypeOK
  OBVIOUS
<1>1. ASSUME NEW p \in Poster, NEW m \in NewMessages(p), Post(p, m)
      PROVE  IndInv'
  <2>0. rpc \notin {"copy", "put", "reload", "commit"}
    BY <1>1 DEF Post, Receiving, Scanning
  <2>1. m \in Message /\ Patient(m) /\ m.from = p
    BY NewMessageType
  <2>2. CASE head # tail /\ Push(m) /\ ppc' = Woken(ppc) /\ UNCHANGED pmsg
    <3>1. /\ list' \in [Slot -> Message]
          /\ head' \in Slot
          /\ rpc' \in {"idle", "retry"}
          /\ \A i \in Live' : Patient(list'[i])
      BY <1>1, <2>1, <2>2, PushKeeps DEF Post
    <3>2. TypeOK'
      BY <1>t, <2>2, <3>1 DEF TypeOK, Push, Woken
    <3>3. MessagesPatient'
      BY <1>t, <2>2, <3>1 DEF MessagesPatient, Woken, TypeOK
    <3>4. CopySound'
      BY <2>0, <2>2, <3>1, NotCopying DEF Push
    <3> QED
      BY <3>1, <3>2, <3>3, <3>4 DEF ScanWillFind, PutBackHasRoom, NeverEarly
  <2>3. CASE /\ ppc' = [ppc EXCEPT ![p] = "waiting"]
             /\ pmsg' = [pmsg EXCEPT ![p] = m]
             /\ UNCHANGED <<list, head, tail, rpc, rtail, reg, place, part, out>>
    <3>1. Live' = Live
      BY <2>3 DEF Live, Cursor, Scanning
    <3>2. TypeOK'
      BY <1>t, <2>1, <2>3 DEF TypeOK
    <3>3. MessagesPatient'
      BY <1>t, <2>1, <2>3, <3>1 DEF MessagesPatient, TypeOK
    <3>4. CopySound'
      BY <2>0, <2>3, NotCopying
    <3> QED
      BY <2>0, <2>3, <3>1, <3>2, <3>3, <3>4
         DEF ScanWillFind, PutBackHasRoom, NeverEarly
  <2> QED
    BY <1>1, <2>2, <2>3 DEF Post, Full
<1>2. ASSUME NEW p \in Poster, Retry(p)
      PROVE  IndInv'
  <2>0. rpc \notin {"copy", "put", "reload", "commit"}
    BY <1>2 DEF Retry, Receiving, Scanning
  <2>1. pmsg[p] \in Message /\ Patient(pmsg[p])
    BY <1>t, <1>2 DEF TypeOK, MessagesPatient, Retry
  <2>2. CASE /\ head # tail
             /\ Push(pmsg[p])
             /\ ppc' = [Woken(ppc) EXCEPT ![p] = "idle"]
             /\ pmsg' = [pmsg EXCEPT ![p] = Blank]
    <3>1. /\ list' \in [Slot -> Message]
          /\ head' \in Slot
          /\ rpc' \in {"idle", "retry"}
          /\ \A i \in Live' : Patient(list'[i])
      BY <1>2, <2>1, <2>2, PushKeeps DEF Retry
    <3>2. TypeOK'
      BY <1>t, <2>2, <3>1, BlankType DEF TypeOK, Push, Woken
    <3>3. MessagesPatient'
      BY <1>t, <2>2, <3>1 DEF MessagesPatient, Woken, TypeOK
    <3>4. CopySound'
      BY <2>0, <2>2, <3>1, NotCopying DEF Push
    <3> QED
      BY <3>1, <3>2, <3>3, <3>4 DEF ScanWillFind, PutBackHasRoom, NeverEarly
  <2>3. CASE /\ ppc' = [ppc EXCEPT ![p] = "waiting"]
             /\ UNCHANGED <<list, head, tail, rpc, rtail, reg, place, part, out, pmsg>>
    <3>1. Live' = Live
      BY <2>3 DEF Live, Cursor, Scanning
    <3>2. TypeOK'
      BY <1>t, <2>3 DEF TypeOK
    <3>3. MessagesPatient'
      BY <1>t, <1>2, <2>3, <3>1 DEF MessagesPatient, TypeOK, Retry
    <3>4. CopySound'
      BY <2>0, <2>3, NotCopying
    <3> QED
      BY <2>0, <2>3, <3>1, <3>2, <3>3, <3>4
         DEF ScanWillFind, PutBackHasRoom, NeverEarly
  <2> QED
    BY <1>2, <2>2, <2>3 DEF Retry, Full
<1>3. CASE Receive
  <2>1. TypeOK'
    BY <1>t, <1>3 DEF TypeOK, Receive
  <2>2. Live' = Live /\ Live = Window(tail, head)
    BY <1>3 DEF Live, Cursor, Scanning, Receive
  <2>3. rpc # "copy" /\ rpc' \in {"copy", "towait"} /\ UNCHANGED <<place, part>>
    BY <1>3 DEF Receive
  <2>4. NextTail' \in Slot
    BY <2>1, SuccType DEF TypeOK, NextTail
  <2>5. CopySound' /\ (rpc' = "copy" => part' = 0)
    BY <2>1, <2>3, <2>4, NotCopying, CopyStarts
  <2>6. ScanWillFind'
    <3>1. ASSUME rpc' = "copy"
          PROVE  \E i \in Live : list[i].delay = 0
      BY <1>t, <1>3, <2>2, <3>1 DEF Receive, MsgQAllDelayed, TypeOK, Message, Window
    <3> QED
      BY <1>3, <2>2, <2>3, <2>5, <3>1 DEF ScanWillFind, Receive
  <2> QED
    BY <1>3, <2>1, <2>2, <2>5, <2>6
       DEF Receive, PutBackHasRoom, NeverEarly, MessagesPatient
<1>4. CASE EnterWait
  <2>1. TypeOK'
    BY <1>t, <1>4 DEF TypeOK, EnterWait
  <2>2. Live' = Live
    BY <1>4 DEF Live, Cursor, Scanning, EnterWait
  <2>3. CopySound'
    BY <1>4, NotCopying DEF EnterWait
  <2> QED
    BY <1>4, <2>1, <2>2, <2>3
       DEF EnterWait, ScanWillFind, PutBackHasRoom, NeverEarly, MessagesPatient
<1>5. CASE CopyByte \/ CopyOut
  <2> DEFINE s == Succ(rtail)
             v == part + Digit(list[s].delay)
             m == [list[s] EXCEPT !.delay = v]
  <2>1. rpc = "copy" /\ Live = Window(rtail, head) /\ NextTail = s
    BY <1>5 DEF Live, Cursor, Scanning, CopyByte, CopyOut, NextTail
  <2>2. Live # {}
    BY <2>1 DEF ScanWillFind
  <2>3. s \in Slot /\ s \in Live /\ Window(s, head) = Live \ {s} /\ head # s
    BY <1>t, <2>1, <2>2, WindowShrinks, SuccType DEF TypeOK
  <2>4. list[s] \in Message /\ Patient(list[s])
    BY <1>t, <2>3 DEF TypeOK, MessagesPatient
  <2>5. /\ v \in Nat
        /\ Narrow(list[s]) => list[s].due <= v /\ v <= list[s].asked
        /\ ~Preempt => v = list[s].delay % (place * Byte)
        /\ list[s].delay = 0 /\ part = 0 => v = 0
    BY <1>t, <2>1, <2>3, <2>4, Copied
  <2>6. list' = list /\ head' = head /\ tail' = tail /\ ppc' = ppc /\ pmsg' = pmsg
    BY <1>5 DEF CopyByte, CopyOut
  <2>7. place \in Nat \ {0} /\ place * Byte \in Nat \ {0} /\ place * Byte >= Byte
    <3>1. place \in Nat \ {0} /\ Byte \in Nat /\ Byte >= 2
      BY <1>t, ByteAssumption DEF TypeOK
    <3>2. CASE place = 1
      BY <3>1, <3>2
    <3>3. CASE place # 1
      <4>1. 1 * Byte + Byte <= place * Byte
        BY <3>1, <3>3, Product
      <4>2. place * Byte \in Nat
        BY <3>1
      <4> QED BY <3>1, <4>1, <4>2
    <3> QED BY <3>2, <3>3
  <2>8. CASE CopyByte
    <3>1. /\ rpc' = rpc /\ rtail' = rtail /\ reg' = reg /\ out' = out
          /\ part' = v /\ place' = place * Byte
      BY <2>1, <2>8 DEF CopyByte
    <3>2. Live' = Live /\ NextTail' = s
      BY <2>1, <2>6, <3>1 DEF Live, Cursor, Scanning, NextTail
    <3>3. TypeOK'
      BY <1>t, <2>5, <2>6, <2>7, <3>1 DEF TypeOK
    <3>4. place' # 1
      BY <2>7, <3>1, ByteAssumption
    <3>5. CopySound'
      BY <2>1, <2>5, <2>6, <2>7, <3>1, <3>2, <3>4 DEF CopySound
    <3>6. ScanWillFind'
      <4>1. PICK i \in Live : list[i].delay = 0 /\ (i = s => part = 0)
        BY <2>1 DEF ScanWillFind
      <4>2. i = s => part' = 0
        BY <2>5, <3>1, <4>1
      <4> QED
        BY <2>6, <3>2, <4>1, <4>2 DEF ScanWillFind
    <3> QED
      BY <2>1, <2>6, <3>1, <3>2, <3>3, <3>5, <3>6
         DEF PutBackHasRoom, NeverEarly, MessagesPatient
  <2>9. CASE CopyOut
    <3>1. /\ rtail' = s /\ place' = 1 /\ part' = 0 /\ place * Byte >= Word
          /\ rpc' \in {"commit", "reload", "put"}
      BY <2>1, <2>9 DEF CopyOut
    <3>2. Live' = Live \ {s}
      BY <2>3, <2>6, <3>1 DEF Live, Cursor, Scanning
    <3>3. CopySound'
      BY <3>1 DEF CopySound
    <3>4. ~Preempt => v = list[s].delay
      BY <1>t, <2>1, <2>3, <2>4, <2>9, WholeCopy
    <3>5. m = [from |-> list[s].from, asked |-> list[s].asked, delay |-> v,
               reload |-> list[s].reload, due |-> list[s].due]
      BY <2>4 DEF Message
    <3>6. m \in Message /\ Patient(m)
      BY <2>4, <2>5, <3>4, <3>5 DEF Message, Patient, Narrow
    <3>7. v = 0 => m.due = 0 \/ (Preempt /\ m.asked >= Byte)
      BY <2>4, <2>5, <3>4, <3>5, ByteAssumption, PreemptAssumption
         DEF Message, Patient, Narrow
    <3>8. CASE v = 0 /\ list[s].reload = 0 /\ rpc' = "commit" /\ reg' = m /\ out' = m
      <4>1. TypeOK'
        BY <1>t, <2>3, <2>6, <3>1, <3>6, <3>8 DEF TypeOK
      <4> QED
        BY <2>6, <3>2, <3>3, <3>6, <3>7, <3>8, <4>1
           DEF ScanWillFind, PutBackHasRoom, NeverEarly, MessagesPatient, Patient
    <3>9. CASE /\ v = 0 /\ list[s].reload > 0 /\ rpc' = "reload"
               /\ reg' = [m EXCEPT !.delay = list[s].reload, !.due = list[s].reload]
               /\ out' = m
      <4>1. reg' = [from |-> list[s].from, asked |-> list[s].asked,
                    delay |-> list[s].reload, reload |-> list[s].reload,
                    due |-> list[s].reload]
        BY <3>5, <3>9
      <4>2. reg' \in Message /\ Patient(reg')
        <5>1. list[s].reload <= list[s].asked /\ (~Preempt => list[s].asked < Word)
          BY <2>4 DEF Patient
        <5> QED
          BY <2>4, <4>1, <5>1, ByteAssumption DEF Message, Patient, Narrow
      <4>3. TypeOK'
        BY <1>t, <2>3, <2>6, <3>1, <3>6, <3>9, <4>2 DEF TypeOK
      <4> QED
        BY <2>3, <2>6, <3>1, <3>2, <3>3, <3>6, <3>7, <3>9, <4>2, <4>3
           DEF ScanWillFind, PutBackHasRoom, NeverEarly, MessagesPatient, Patient
    <3>10. CASE v > 0 /\ rpc' = "put" /\ reg' = m /\ UNCHANGED out
      <4>1. TypeOK'
        BY <1>t, <2>3, <2>6, <3>1, <3>6, <3>10 DEF TypeOK
      <4>2. ScanWillFind'
        <5>1. PICK i \in Live : list[i].delay = 0 /\ (i = s => part = 0)
          BY <2>1 DEF ScanWillFind
        <5>2. i # s
          BY <2>5, <3>10, <5>1
        <5> QED
          BY <2>6, <3>2, <3>10, <5>1, <5>2 DEF ScanWillFind
      <4> QED
        BY <2>3, <2>6, <3>1, <3>2, <3>3, <3>6, <3>10, <4>1, <4>2
           DEF PutBackHasRoom, NeverEarly, MessagesPatient
    <3>11. m.delay = v /\ m.reload = list[s].reload /\ list[s].reload \in Nat
      BY <2>4, <3>5 DEF Message
    <3> QED
      BY <2>1, <2>5, <2>9, <3>8, <3>9, <3>10, <3>11
         DEF CopyOut, TimedOut, Periodic
  <2> QED
    BY <1>5, <2>8, <2>9
<1>6. CASE PutBack
  <2>1. list' = [list EXCEPT ![head] = reg] /\ head' = Succ(head)
          /\ tail' = tail /\ rtail' = rtail /\ reg' = reg /\ out' = out
          /\ ppc' = ppc /\ pmsg' = pmsg
          /\ rpc' = (IF rpc = "put" THEN "copy" ELSE "commit")
          /\ rpc \in {"put", "reload"}
    BY <1>6 DEF PutBack
  <2>2. Live = Window(rtail, head) /\ Live' = Window(rtail, Succ(head))
    BY <2>1 DEF Live, Cursor, Scanning
  <2>3. Live' = Live \cup {head} /\ head \notin Live /\ Live \subseteq Slot
    BY <1>t, <2>1, <2>2, WindowGrows DEF PutBackHasRoom, TypeOK, Window
  <2>4. TypeOK'
    BY <1>t, <1>6, <2>1, SuccType DEF TypeOK, PutBack
  <2>5. \A i \in Live : list'[i] = list[i]
    BY <1>t, <2>1, <2>3 DEF TypeOK
  <2>6. list'[head] = reg
    BY <1>t, <2>1 DEF TypeOK
  <2>9. CopySound' /\ (rpc' = "copy" => part' = 0)
    <3>1. NextTail' \in Slot
      BY <2>4, SuccType DEF TypeOK, NextTail
    <3> QED
      BY <1>6, <2>1, <2>4, <3>1, NotCopying, CopyStarts DEF PutBack
  <2>7. ScanWillFind'
    BY <2>1, <2>3, <2>5, <2>9 DEF ScanWillFind
  <2>8. MessagesPatient'
    BY <2>1, <2>3, <2>5, <2>6 DEF MessagesPatient
  <2> QED
    BY <2>1, <2>4, <2>7, <2>8, <2>9 DEF PutBackHasRoom, NeverEarly
<1>7. CASE Commit
  <2>1. TypeOK'
    BY <1>t, <1>7, BlankType, SizeAssumption DEF TypeOK, Commit, StoredTail, Woken, Slot
  <2>2. Live' = Live
    BY <1>7 DEF Live, Cursor, Scanning, Commit, StoredTail
  <2>3. MessagesPatient'
    BY <1>t, <1>7, <2>2 DEF MessagesPatient, Commit, Woken, TypeOK
  <2>4. CopySound'
    BY <1>7, NotCopying DEF Commit
  <2> QED
    BY <1>7, <2>1, <2>3, <2>4 DEF Commit, ScanWillFind, PutBackHasRoom, NeverEarly
<1>8. CASE Tick
  <2>1. rpc' = rpc \/ (rpc = "waiting" /\ rpc' = "retry")
    BY <1>8 DEF Tick, WokenReceiver
  <2>2. Live' = Live /\ Live \subseteq Slot
    BY <1>8, <2>1 DEF Live, Cursor, Scanning, Tick, Window
  <2>3. \A n \in Nat : Dec(n) \in Nat /\ Dec(n) <= n
    BY DEF Dec
  <2>20. ASSUME NEW i \in Slot
         PROVE  /\ list[i] \in Message
                /\ list'[i] \in Message
                /\ list'[i].from = list[i].from
                /\ list'[i].asked = list[i].asked
                /\ list'[i].reload = list[i].reload
                /\ list'[i].delay = list[i].delay \/ list'[i].delay = Dec(list[i].delay)
                /\ i \in Live => list'[i].due = Dec(list[i].due)
                /\ i \notin Ticked => list'[i].delay = list[i].delay
    <3> DEFINE dl == IF i \in Ticked THEN Dec(list[i].delay) ELSE list[i].delay
               du == IF i \in Live THEN Dec(list[i].due) ELSE list[i].due
    <3>1. list[i] \in Message
      BY <1>t DEF TypeOK
    <3>2. dl \in Nat /\ du \in Nat
      BY <2>3, <3>1 DEF Message
    <3>3. list'[i] = [list[i] EXCEPT !.delay = dl, !.due = du]
      BY <1>8 DEF Tick
    <3>4. list'[i] = [from |-> list[i].from, asked |-> list[i].asked, delay |-> dl,
                      reload |-> list[i].reload, due |-> du]
      BY <3>1, <3>3 DEF Message
    <3> QED
      BY <3>1, <3>2, <3>4 DEF Message
  <2>4. list' \in [Slot -> Message]
    BY <1>8, <2>20 DEF Tick
  <2>5. reg' \in Message /\ (Patient(reg) => Patient(reg'))
    <3> DEFINE du == IF rpc \in {"put", "reload"} THEN Dec(reg.due) ELSE reg.due
    <3>1. reg \in Message
      BY <1>t DEF TypeOK
    <3>2. du \in Nat /\ du <= reg.due
      BY <2>3, <3>1 DEF Message
    <3>3. reg' = [reg EXCEPT !.due = du]
      BY <1>8 DEF Tick
    <3>4. reg' = [from |-> reg.from, asked |-> reg.asked, delay |-> reg.delay,
                  reload |-> reg.reload, due |-> du]
      BY <3>1, <3>3 DEF Message
    <3> QED
      BY <3>1, <3>2, <3>4, ByteAssumption DEF Message, Patient, Narrow
  <2>6. ppc' \in [Poster -> {"idle", "waiting", "retry"}]
          /\ \A p \in Poster : ppc'[p] # "idle" => ppc[p] # "idle"
    BY <1>t, <1>8 DEF Tick, TypeOK, Woken
  <2>7. TypeOK'
    BY <1>t, <1>8, <2>1, <2>4, <2>5, <2>6 DEF Tick, TypeOK
  <2>8. \A i \in Live : Patient(list[i]) => Patient(list'[i])
    BY <2>2, <2>20, ByteAssumption DEF Message, Patient, Narrow, Dec
  <2>9. \A i \in Live : list[i].delay = 0 => list'[i].delay = 0
    BY <2>2, <2>20 DEF Dec, Message
  <2>10. UNCHANGED <<head, rtail, place, part, out, pmsg>>
    BY <1>8 DEF Tick
  <2>11. MessagesPatient'
    BY <2>1, <2>2, <2>5, <2>6, <2>8, <2>10 DEF MessagesPatient
  <2>12. ScanWillFind'
    BY <2>1, <2>2, <2>9, <2>10 DEF ScanWillFind, NextTail
  <2>13. CopySound'
    <3>1. CASE rpc # "copy"
      BY <2>1, <2>10, <3>1, NotCopying
    <3>2. CASE rpc = "copy"
      <4>1. Preempt /\ rpc' = "copy" /\ NextTail' = NextTail
        BY <1>8, <2>1, <2>10, <3>2 DEF Tick, Receiving, Scanning, NextTail
      <4>2. NextTail \in Live
        <5>1. Live = Window(rtail, head) /\ Live # {}
          BY <3>2 DEF Live, Cursor, Scanning, ScanWillFind
        <5> QED
          BY <1>t, <5>1, WindowShrinks DEF TypeOK, NextTail
      <4> DEFINE i == NextTail
      <4>3. list'[i].asked = list[i].asked /\ list'[i].due <= list[i].due
              /\ list[i].due \in Nat /\ list'[i].due \in Nat /\ list[i].asked \in Nat
        BY <2>2, <2>3, <2>20, <4>2 DEF Message
      <4>4. part \in Nat
        BY <1>t DEF TypeOK
      <4> HIDE DEF i
      <4>5. Narrow(list'[i]) /\ place' > 1 => list'[i].due <= part /\ part <= list'[i].asked
        BY <2>10, <3>2, <4>3, <4>4 DEF CopySound, Narrow, i
      <4> QED
        BY <2>10, <3>2, <4>1, <4>5 DEF CopySound, i
    <3> QED BY <3>1, <3>2
  <2> QED
    BY <2>1, <2>2, <2>7, <2>10, <2>11, <2>12, <2>13 DEF PutBackHasRoom, NeverEarly
<1>9. CASE UNCHANGED vars
  <2>1. Live' = Live
    BY <1>9 DEF vars, Live, Cursor, Scanning
  <2>2. TypeOK'
    BY <1>t, <1>9 DEF vars, TypeOK
  <2>3. NextTail' = NextTail
    BY <1>9 DEF vars, NextTail
  <2> QED
    BY <1>9, <2>1, <2>2, <2>3
       DEF vars, ScanWillFind, PutBackHasRoom, NeverEarly, MessagesPatient, CopySound
<1> QED
  BY <1>1, <1>2, <1>3, <1>4, <1>5, <1>6, <1>7, <1>8, <1>9
     DEF Next, ReceiverStep, PostAsyncRefused, ReceiveAsyncEmpty

\* The strengthened invariant holds of every behaviour of the queue.
THEOREM Invariance == Spec => []IndInv
<1>1. Init => IndInv
  BY InitIndInv
<1>2. IndInv /\ [Next]_vars => IndInv'
  BY NextIndInv
<1> QED
  BY <1>1, <1>2, PTL DEF Spec

\* Type correctness (os_msgqueue.c: head and tail never leave the ring).
THEOREM TypeCorrect == Spec => []TypeOK
BY Invariance, PTL DEF IndInv

\* The receive loop always has a due message ahead of it.
THEOREM ScanFinds == Spec => []ScanWillFind
BY Invariance, PTL DEF IndInv

\* A put-back never finds the ring full.
THEOREM PutBackSafe == Spec => []PutBackHasRoom
BY Invariance, PTL DEF IndInv

\* A message whose delay fits in the bytes read at once is never received before
\* its delay has elapsed, wherever the ticks land, and without ticks inside a
\* receive no message is.
THEOREM NotEarly == Spec => []NeverEarly
BY Invariance, PTL DEF IndInv

-----------------------------------------------------------------------------
(* No step loses or duplicates a message. *)

LEMMA PushConserves ==
  ASSUME IndInv, ~Receiving, head # tail, NEW m \in Message, Push(m)
  PROVE  /\ \A i \in Live : i \in Live' /\ Same(list'[i], list[i])
         /\ \A i \in Live' \ Live : i = head /\ list'[i] = m
<1>1. list \in [Slot -> Message] /\ head \in Slot /\ tail \in Slot
  BY DEF IndInv, TypeOK
<1>2. list' = [list EXCEPT ![head] = m] /\ head' = Succ(head) /\ tail' = tail
  BY DEF Push
<1>3. rpc \in {"idle", "retry", "waiting"} /\ rpc' \in {"idle", "retry", "waiting"}
  BY DEF IndInv, TypeOK, Receiving, Scanning, Push, WokenReceiver
<1>4. Live = Window(tail, head) /\ Live' = Window(tail, head')
  BY <1>2, <1>3 DEF Live, Cursor, Scanning
<1>5. Live' = Live \cup {head} /\ head \notin Live /\ Live \subseteq Slot
  BY <1>1, <1>2, <1>4, WindowGrows DEF Window
<1> QED
  BY <1>1, <1>2, <1>5 DEF Same

LEMMA StepConserves == IndInv /\ [Next]_vars => (Conserved \/ UNCHANGED vars)
<1> SUFFICES ASSUME IndInv, Next PROVE Conserved
  BY DEF Conserved
<1>t. TypeOK
  BY DEF IndInv
<1>1. ASSUME NEW p \in Poster, NEW m \in NewMessages(p), Post(p, m)
      PROVE  Conserved
  <2>1. m \in Message /\ m.from = p
    BY NewMessageType
  <2>2. rpc \notin {"copy", "put", "reload"} /\ ppc[p] = "idle"
    BY <1>1 DEF Post, Receiving, Scanning
  <2>3. CASE head # tail /\ Push(m) /\ ppc' = Woken(ppc)
    <3>1. /\ \A i \in Live : i \in Live' /\ Same(list'[i], list[i])
          /\ \A i \in Live' \ Live : i = head /\ list'[i] = m
      BY <1>1, <2>1, <2>3, PushConserves DEF Post
    <3>2. ppc'[p] # "waiting"
      BY <2>3 DEF Woken
    <3> QED
      BY <2>1, <2>2, <3>1, <3>2 DEF Conserved
  <2>4. CASE UNCHANGED <<list, head, tail, rpc, rtail, reg, out>>
    <3>1. Live' = Live
      BY <2>4 DEF Live, Cursor, Scanning
    <3> QED
      BY <2>4, <2>2, <3>1 DEF Conserved, Same
  <2> QED
    BY <1>1, <2>3, <2>4 DEF Post, Full
<1>2. ASSUME NEW p \in Poster, Retry(p)
      PROVE  Conserved
  <2>1. pmsg[p] \in Message /\ pmsg[p].from = p
    BY <1>t, <1>2 DEF TypeOK, IndInv, MessagesPatient, Retry
  <2>2. rpc \notin {"copy", "put", "reload"} /\ ppc[p] = "retry"
    BY <1>2 DEF Retry, Receiving, Scanning
  <2>3. CASE /\ head # tail
             /\ Push(pmsg[p])
             /\ ppc' = [Woken(ppc) EXCEPT ![p] = "idle"]
    <3>1. /\ \A i \in Live : i \in Live' /\ Same(list'[i], list[i])
          /\ \A i \in Live' \ Live : i = head /\ list'[i] = pmsg[p]
      BY <1>2, <2>1, <2>3, PushConserves DEF Retry
    <3>2. ppc'[p] # "waiting"
      BY <2>3 DEF Woken
    <3> QED
      BY <2>1, <2>2, <3>1, <3>2 DEF Conserved
  <2>4. CASE UNCHANGED <<list, head, tail, rpc, rtail, reg, out>>
    <3>1. Live' = Live
      BY <2>4 DEF Live, Cursor, Scanning
    <3> QED
      BY <2>4, <2>2, <3>1 DEF Conserved, Same
  <2> QED
    BY <1>2, <2>3, <2>4 DEF Retry, Full
<1>3. CASE Receive \/ EnterWait \/ CopyByte \/ Commit
  <2>1. Live' = Live /\ list' = list
    BY <1>3 DEF Live, Cursor, Scanning, Receive, EnterWait, CopyByte, Commit,
                StoredTail
  <2>2. rpc \notin {"put", "reload"}
    BY <1>3 DEF Receive, EnterWait, CopyByte, Commit
  <2> QED
    BY <2>1, <2>2 DEF Conserved, Same
<1>4. CASE CopyOut
  <2> DEFINE s == Succ(rtail)
             v == part + Digit(list[s].delay)
             m == [list[s] EXCEPT !.delay = v]
  <2>1. Live = Window(rtail, head) /\ Live' = Window(s, head) /\ Cursor = rtail
    BY <1>4 DEF Live, Cursor, Scanning, CopyOut, NextTail
  <2>2. Live # {}
    BY <1>4 DEF IndInv, ScanWillFind, CopyOut
  <2>3. s \in Slot /\ s \in Live /\ Live' = Live \ {s}
    BY <1>t, <2>1, <2>2, WindowShrinks, SuccType DEF TypeOK
  <2>4. list[s] \in Message /\ list' = list /\ rpc = "copy"
    BY <1>t, <1>4, <2>3 DEF TypeOK, CopyOut
  <2>5. m.from = list[s].from /\ m.asked = list[s].asked
          /\ m.reload = list[s].reload /\ list[s].reload \in Nat
    BY <2>4 DEF Message
  <2>6. \/ reg' = m
        \/ reg' = [m EXCEPT !.delay = m.reload, !.due = m.reload]
    BY <1>4 DEF CopyOut, NextTail
  <2>7. Same(reg', list[s])
    BY <2>4, <2>6 DEF Same, Message
  <2>8. rpc' = "commit" => out' = m /\ ~(m.reload > 0)
    BY <1>4 DEF CopyOut, NextTail, Periodic
  <2>9. rpc' = "commit" => Same(out', list[s]) /\ list[s].reload = 0
    <3>1. Same(m, list[s])
      BY <2>5 DEF Same
    <3>2. ~(m.reload > 0) => list[s].reload = 0
      BY <2>5
    <3> QED BY <2>8, <3>1, <3>2
  <2> QED
    BY <2>1, <2>3, <2>4, <2>7, <2>9 DEF Conserved, Same
<1>5. CASE PutBack
  <2>1. list' = [list EXCEPT ![head] = reg] /\ head' = Succ(head) /\ rtail' = rtail
          /\ rpc' \in {"copy", "commit"} /\ rpc \in {"put", "reload"}
    BY <1>5 DEF PutBack
  <2>2. Live = Window(rtail, head) /\ Live' = Window(rtail, Succ(head))
    BY <2>1 DEF Live, Cursor, Scanning
  <2>3. Live' = Live \cup {head} /\ head \notin Live /\ Live \subseteq Slot
    BY <1>t, <2>1, <2>2, WindowGrows DEF IndInv, PutBackHasRoom, TypeOK, Window
  <2>4. list'[head] = reg /\ \A i \in Live : list'[i] = list[i]
    BY <1>t, <2>1, <2>3 DEF TypeOK
  <2> QED
    BY <2>1, <2>3, <2>4 DEF Conserved, Same
<1>6. CASE Tick
  <2>1. rpc' = rpc \/ (rpc = "waiting" /\ rpc' = "retry")
    BY <1>6 DEF Tick, WokenReceiver
  <2>2. Live' = Live /\ Live \subseteq Slot
    BY <1>6, <2>1 DEF Live, Cursor, Scanning, Tick, Window
  <2>3. \A i \in Live : Same(list'[i], list[i])
    <3>1. TAKE i \in Live
    <3>2. list[i] \in Message
      BY <1>t, <2>2 DEF TypeOK
    <3>3. PICK dl, du : list'[i] = [list[i] EXCEPT !.delay = dl, !.due = du]
      BY <1>6, <2>2 DEF Tick
    <3> QED
      BY <3>2, <3>3 DEF Same, Message
  <2>4. Same(reg', reg)
    <3>1. PICK du : reg' = [reg EXCEPT !.due = du]
      BY <1>6 DEF Tick
    <3> QED
      BY <1>t, <3>1 DEF Same, Message, TypeOK
  <2> QED
    BY <2>1, <2>2, <2>3, <2>4 DEF Conserved
<1>7. CASE UNCHANGED vars
  <2>1. Live' = Live
    BY <1>7 DEF vars, Live, Cursor, Scanning
  <2> QED
    BY <1>7, <2>1 DEF vars, Conserved, Same
<1> QED
  BY <1>1, <1>2, <1>3, <1>4, <1>5, <1>6, <1>7
     DEF Next, ReceiverStep, PostAsyncRefused, ReceiveAsyncEmpty

\* os_msg_post and os_msg_receive neither lose nor duplicate a message,
\* whatever the size of the ring and wherever the ticks land.
THEOREM Conservation == Spec => NothingLost
<1>1. IndInv /\ [Next]_vars => [Conserved]_vars
  BY StepConserves
<1> QED
  BY <1>1, Invariance, PTL DEF Spec, NothingLost

-----------------------------------------------------------------------------
(* A receiver that waits has nothing undelayed to receive. *)

\* What makes NoLostWakeUp inductive: it already holds of the receiver that is
\* about to wait.
WaitInv ==
  rpc \in {"towait", "waiting"} =>
    \A i \in Live : list[i].delay > 0 \/ (Preempt /\ list[i].asked > 0)

\* A tick that makes a message due wakes the receiver, or comes before it waits.
LEMMA TickWaits ==
  ASSUME IndInv, WaitInv, Tick
  PROVE  WaitInv'
<1>t. TypeOK
  BY DEF IndInv
<1>1. rpc' = rpc \/ (rpc = "waiting" /\ rpc' = "retry")
  BY DEF Tick, WokenReceiver
<1>2. Live' = Live /\ Live \subseteq Slot
  BY <1>1 DEF Live, Cursor, Scanning, Tick, Window
<1>3. ASSUME rpc' \in {"towait", "waiting"}, NEW i \in Live
      PROVE  list'[i].delay > 0 \/ (Preempt /\ list'[i].asked > 0)
  <2>1. rpc' = rpc /\ ~Scanning
    BY <1>1, <1>3 DEF Scanning
  <2>2. Live = Ticked
    BY <2>1 DEF Live, Cursor, Ticked
  <2>3. list[i] \in Message /\ Patient(list[i])
    BY <1>t, <1>2 DEF TypeOK, IndInv, MessagesPatient
  <2>4. list'[i] = [list[i] EXCEPT !.delay = Dec(@), !.due = Dec(@)]
    BY <1>2, <2>2, <1>3 DEF Tick
  <2>5. list'[i].delay = Dec(list[i].delay) /\ list'[i].asked = list[i].asked
    BY <2>3, <2>4 DEF Message
  <2>6. list[i].delay > 0 \/ (Preempt /\ list[i].asked > 0)
    BY <1>3, <2>1 DEF WaitInv
  <2>7. CASE Preempt
    <3>1. list[i].asked > 0
      BY <2>3, <2>6, ByteAssumption DEF Patient, Narrow, Message
    <3> QED BY <2>5, <2>7, <3>1
  <2>8. CASE ~Preempt
    <3>1. rpc = "waiting" /\ list[i].delay > 0
      BY <1>3, <2>1, <2>6, <2>8 DEF Tick, Receiving
    <3>2. list[i].delay # 1
      BY <1>3, <2>1, <2>2, <3>1 DEF Tick, WokenReceiver
    <3> QED BY <2>3, <2>5, <3>1, <3>2 DEF Dec, Message
  <2> QED BY <2>7, <2>8
<1> QED
  BY <1>2, <1>3 DEF WaitInv

LEMMA NextWaits == IndInv /\ WaitInv /\ [Next]_vars => WaitInv'
<1> SUFFICES ASSUME IndInv, WaitInv, [Next]_vars PROVE WaitInv'
  OBVIOUS
<1>t. TypeOK
  BY DEF IndInv
<1>1. ASSUME ~Receiving, NEW m, Push(m)
      PROVE  WaitInv'
  <2>1. rpc \in {"idle", "retry", "waiting"}
    BY <1>t, <1>1 DEF TypeOK, Receiving, Scanning
  <2> QED
    BY <1>1, <2>1 DEF Push, WokenReceiver, WaitInv
<1>2. CASE UNCHANGED <<list, head, tail, rpc, rtail>>
  <2>1. Live' = Live
    BY <1>2 DEF Live, Cursor, Scanning
  <2> QED
    BY <1>2, <2>1 DEF WaitInv
<1>3. CASE Receive
  <2>1. Live' = Live /\ Live = Window(tail, head)
    BY <1>3 DEF Live, Cursor, Scanning, Receive
  <2>2. rpc' \in {"copy", "towait"} /\ list' = list
    BY <1>3 DEF Receive
  <2>3. ASSUME rpc' = "towait", NEW i \in Live
        PROVE  list[i].delay > 0
    <3>1. CASE Empty
      BY <1>t, <2>1, <2>3, <3>1, WindowEmpty DEF Empty, TypeOK
    <3>2. CASE MsgQAllDelayed
      BY <2>1, <2>3, <3>2 DEF MsgQAllDelayed
    <3> QED
      BY <1>3, <2>3, <3>1, <3>2 DEF Receive
  <2> QED
    BY <2>1, <2>2, <2>3 DEF WaitInv
<1>4. CASE EnterWait
  <2>1. Live' = Live /\ list' = list /\ rpc = "towait"
    BY <1>4 DEF Live, Cursor, Scanning, EnterWait
  <2> QED
    BY <2>1 DEF WaitInv
<1>5. CASE CopyByte \/ CopyOut \/ PutBack \/ Commit
  BY <1>5 DEF CopyByte, CopyOut, PutBack, Commit, WaitInv
<1>6. CASE Tick
  BY <1>6, TickWaits
<1>7. CASE \E p \in Poster : \/ \E m \in NewMessages(p) : Post(p, m)
                             \/ Retry(p)
  BY <1>1, <1>2, <1>7 DEF Post, Retry
<1> QED
  BY <1>2, <1>3, <1>4, <1>5, <1>6, <1>7
     DEF Next, ReceiverStep, PostAsyncRefused, ReceiveAsyncEmpty, vars

\* A task never waits in OS_MSG_Q_RECEIVE while a message that was posted without
\* a delay is in its queue, wherever the ticks land; nor while any message there
\* is due, if no tick lands between its test and its wait.
THEOREM WaitsForNothingDue == Spec => []NoLostWakeUp
<1>1. Init => WaitInv
  BY DEF Init, WaitInv
<1>2. IndInv /\ WaitInv /\ [Next]_vars => WaitInv'
  BY NextWaits
<1>3. WaitInv => NoLostWakeUp
  BY DEF WaitInv, NoLostWakeUp
<1> QED
  BY <1>1, <1>2, <1>3, Invariance, PTL DEF Spec

-----------------------------------------------------------------------------
(* Without ticks inside a receive (Preempt = FALSE) the delays are exact, as *)
(* the refinement of DelayQueue needs.                                       *)

\* A message's delay field holds what is left to wait.
Exact(m) == m.delay = m.due

\* The messages outside the ring are exact too.
QuietInv ==
  /\ DelayCountsTicks
  /\ rpc \in {"put", "reload"} => Exact(reg)
  /\ \A p \in Poster : ppc[p] # "idle" => Exact(pmsg[p])

LEMMA NewMessageExact ==
  \A p \in Poster : \A m \in NewMessages(p) : m \in Message /\ Exact(m)
  BY DelayAssumption DEF NewMessages, Message, Exact

LEMMA InitQuiet == Init => QuietInv
<1> SUFFICES ASSUME Init PROVE QuietInv
  OBVIOUS
<1>1. 0 \in Slot /\ Succ(0) = 1
  BY SuccDef, SizeAssumption DEF Slot
<1>2. Live = {}
  BY <1>1, WindowEmpty, SizeAssumption DEF Init, Live, Cursor, Scanning, Slot
<1> QED
  BY <1>2 DEF Init, QuietInv, DelayCountsTicks

\* A push of an exact message wakes the receiver and keeps the ring exact.
LEMMA PushQuiet ==
  ASSUME IndInv, QuietInv, ~Receiving, head # tail,
         NEW m \in Message, Exact(m), Push(m)
  PROVE  DelayCountsTicks' /\ rpc' \in {"idle", "retry"}
<1>1. rpc \in {"idle", "retry", "waiting"}
  BY DEF IndInv, TypeOK, Receiving, Scanning
<1>2. rpc' \in {"idle", "retry"}
  BY <1>1 DEF Push, WokenReceiver
<1>3. \A i \in Live : i \in Live' /\ list'[i] = list[i]
  <2>1. list \in [Slot -> Message] /\ head \in Slot /\ tail \in Slot
    BY DEF IndInv, TypeOK
  <2>2. list' = [list EXCEPT ![head] = m] /\ head' = Succ(head) /\ tail' = tail
    BY DEF Push
  <2>3. Live = Window(tail, head) /\ Live' = Window(tail, head')
    BY <1>1, <1>2, <2>2 DEF Live, Cursor, Scanning
  <2>4. Live' = Live \cup {head} /\ head \notin Live /\ Live \subseteq Slot
    BY <2>1, <2>2, <2>3, WindowGrows DEF Window
  <2> QED
    BY <2>1, <2>2, <2>4
<1>4. \A i \in Live' \ Live : list'[i] = m
  BY PushConserves
<1> QED
  BY <1>2, <1>3, <1>4 DEF QuietInv, DelayCountsTicks, Exact

\* A tick between two receives counts every message of the ring.
LEMMA TickQuiet ==
  ASSUME IndInv, QuietInv, ~Receiving, Tick
  PROVE  QuietInv'
<1>t. TypeOK
  BY DEF IndInv
<1>1. rpc \in {"idle", "retry", "waiting"}
  BY <1>t DEF TypeOK, Receiving, Scanning
<1>2. rpc' \in {"idle", "retry", "waiting"}
  BY <1>1 DEF Tick, WokenReceiver
<1>3. Live = Ticked /\ Live' = Live /\ Live \subseteq Slot
  BY <1>1, <1>2 DEF Tick, Live, Cursor, Scanning, Ticked, Window
<1>4. ASSUME NEW i \in Live
      PROVE  /\ list[i] \in Message
             /\ list'[i].delay = Dec(list[i].delay)
             /\ list'[i].due = Dec(list[i].due)
  <2>1. list[i] \in Message
    BY <1>t, <1>3 DEF TypeOK
  <2>2. list'[i] = [list[i] EXCEPT !.delay = Dec(@), !.due = Dec(@)]
    BY <1>3, <1>4 DEF Tick
  <2> QED
    BY <2>1, <2>2 DEF Message
<1>5. DelayCountsTicks'
  BY <1>3, <1>4 DEF QuietInv, DelayCountsTicks
<1>6. \A p \in Poster : ppc'[p] # "idle" => ppc[p] # "idle"
  BY <1>t DEF Tick, TypeOK, Woken
<1>7. pmsg' = pmsg
  BY DEF Tick
<1> QED
  BY <1>2, <1>3, <1>5, <1>6, <1>7 DEF QuietInv

LEMMA NextQuiet ==
  ASSUME Preempt = FALSE
  PROVE  IndInv /\ QuietInv /\ [Next]_vars => QuietInv'
<1> SUFFICES ASSUME IndInv, QuietInv, [Next]_vars PROVE QuietInv'
  OBVIOUS
<1>t. TypeOK
  BY DEF IndInv
<1>1. ASSUME NEW p \in Poster, NEW m \in NewMessages(p), Post(p, m)
      PROVE  QuietInv'
  <2>1. m \in Message /\ Exact(m)
    BY NewMessageExact
  <2>2. CASE head # tail /\ Push(m) /\ ppc' = Woken(ppc) /\ UNCHANGED pmsg
    <3>1. DelayCountsTicks' /\ rpc' \in {"idle", "retry"}
      BY <1>1, <2>1, <2>2, PushQuiet DEF Post
    <3>2. \A q \in Poster : ppc'[q] # "idle" => ppc[q] # "idle"
      BY <1>t, <2>2 DEF TypeOK, Woken
    <3> QED
      BY <2>2, <3>1, <3>2 DEF QuietInv
  <2>3. CASE /\ ppc' = [ppc EXCEPT ![p] = "waiting"]
             /\ pmsg' = [pmsg EXCEPT ![p] = m]
             /\ UNCHANGED <<list, head, tail, rpc, rtail, reg, place, part, out>>
    <3>1. Live' = Live
      BY <2>3 DEF Live, Cursor, Scanning
    <3>2. \A q \in Poster : ppc'[q] # "idle" => Exact(pmsg'[q])
      BY <1>t, <2>1, <2>3 DEF TypeOK, QuietInv
    <3> QED
      BY <2>3, <3>1, <3>2 DEF QuietInv, DelayCountsTicks
  <2> QED
    BY <1>1, <2>2, <2>3 DEF Post, Full
<1>2. ASSUME NEW p \in Poster, Retry(p)
      PROVE  QuietInv'
  <2>1. pmsg[p] \in Message /\ Exact(pmsg[p]) /\ ppc[p] # "idle"
    BY <1>t, <1>2 DEF TypeOK, QuietInv, Retry
  <2>2. CASE /\ head # tail
             /\ Push(pmsg[p])
             /\ ppc' = [Woken(ppc) EXCEPT ![p] = "idle"]
             /\ pmsg' = [pmsg EXCEPT ![p] = Blank]
    <3>1. DelayCountsTicks' /\ rpc' \in {"idle", "retry"}
      BY <1>2, <2>1, <2>2, PushQuiet DEF Retry
    <3>2. \A q \in Poster : ppc'[q] # "idle" =>
                              q # p /\ ppc[q] # "idle" /\ pmsg'[q] = pmsg[q]
      BY <1>t, <2>2 DEF TypeOK, Woken
    <3> QED
      BY <3>1, <3>2 DEF QuietInv
  <2>3. CASE /\ ppc' = [ppc EXCEPT ![p] = "waiting"]
             /\ UNCHANGED <<list, head, tail, rpc, rtail, reg, place, part, out, pmsg>>
    <3>1. Live' = Live
      BY <2>3 DEF Live, Cursor, Scanning
    <3>2. \A q \in Poster : ppc'[q] # "idle" => Exact(pmsg'[q])
      BY <1>t, <2>1, <2>3 DEF TypeOK, QuietInv
    <3> QED
      BY <2>3, <3>1, <3>2 DEF QuietInv, DelayCountsTicks
  <2> QED
    BY <1>2, <2>2, <2>3 DEF Retry, Full
<1>3. CASE Receive \/ EnterWait \/ CopyByte
  <2>1. Live' = Live /\ list' = list /\ ppc' = ppc /\ pmsg' = pmsg
          /\ rpc' \notin {"put", "reload"}
    BY <1>3 DEF Live, Cursor, Scanning, Receive, EnterWait, CopyByte
  <2> QED
    BY <2>1 DEF QuietInv, DelayCountsTicks
<1>5. CASE CopyOut
  <2> DEFINE s == Succ(rtail)
             v == part + Digit(list[s].delay)
             m == [list[s] EXCEPT !.delay = v]
  <2>1. Live = Window(rtail, head) /\ Live' = Window(s, head) /\ NextTail = s
    BY <1>5 DEF Live, Cursor, Scanning, CopyOut, NextTail
  <2>2. Live # {}
    BY <1>5 DEF IndInv, ScanWillFind, CopyOut
  <2>3. s \in Slot /\ s \in Live /\ Live' = Live \ {s}
    BY <1>t, <2>1, <2>2, WindowShrinks, SuccType DEF TypeOK
  <2>4. list[s] \in Message /\ Exact(list[s])
    BY <1>t, <2>3 DEF TypeOK, QuietInv, DelayCountsTicks, Exact
  <2>5. list' = list /\ ppc' = ppc /\ pmsg' = pmsg
          /\ rpc' \in {"commit", "reload", "put"}
    BY <1>5 DEF CopyOut
  <2>6. v = list[s].delay
    BY <1>t, <1>5, <2>1, <2>3, WholeCopy DEF IndInv, MessagesPatient
  <2>7. rpc' = "put" => reg' = m
    BY <1>5 DEF CopyOut, NextTail
  <2>8. rpc' = "reload" => reg' = [m EXCEPT !.delay = m.reload, !.due = m.reload]
    BY <1>5 DEF CopyOut, NextTail
  <2>9. rpc' \in {"put", "reload"} => Exact(reg')
    BY <2>4, <2>6, <2>7, <2>8 DEF Message, Exact
  <2>10. DelayCountsTicks'
    BY <2>3, <2>5 DEF QuietInv, DelayCountsTicks
  <2> QED
    BY <2>5, <2>9, <2>10 DEF QuietInv
<1>6. CASE PutBack
  <2>1. list' = [list EXCEPT ![head] = reg] /\ head' = Succ(head)
          /\ rtail' = rtail /\ ppc' = ppc /\ pmsg' = pmsg
          /\ rpc' \in {"copy", "commit"} /\ rpc \in {"put", "reload"}
    BY <1>6 DEF PutBack
  <2>2. Live = Window(rtail, head) /\ Live' = Window(rtail, Succ(head))
    BY <2>1 DEF Live, Cursor, Scanning
  <2>3. Live' = Live \cup {head} /\ head \notin Live /\ Live \subseteq Slot
    BY <1>t, <2>1, <2>2, WindowGrows DEF IndInv, PutBackHasRoom, TypeOK, Window
  <2>4. list'[head] = reg /\ \A i \in Live : list'[i] = list[i]
    BY <1>t, <2>1, <2>3 DEF TypeOK
  <2>5. DelayCountsTicks'
    BY <2>1, <2>3, <2>4 DEF QuietInv, DelayCountsTicks, Exact
  <2> QED
    BY <2>1, <2>5 DEF QuietInv
<1>7. CASE Commit
  <2>1. Live' = Live
    BY <1>7 DEF Live, Cursor, Scanning, Commit, StoredTail
  <2>2. \A p \in Poster : ppc'[p] # "idle" => ppc[p] # "idle"
    BY <1>t, <1>7 DEF TypeOK, Commit, Woken
  <2> QED
    BY <1>7, <2>1, <2>2 DEF Commit, QuietInv, DelayCountsTicks
<1>8. CASE Tick
  BY <1>8, TickQuiet DEF Tick
<1>9. CASE UNCHANGED vars
  <2>1. Live' = Live
    BY <1>9 DEF vars, Live, Cursor, Scanning
  <2> QED
    BY <1>9, <2>1 DEF vars, QuietInv, DelayCountsTicks
<1> QED
  BY <1>1, <1>2, <1>3, <1>5, <1>6, <1>7, <1>8, <1>9
     DEF Next, ReceiverStep, PostAsyncRefused, ReceiveAsyncEmpty

LEMMA QuietInvariance ==
  ASSUME Preempt = FALSE
  PROVE  Spec => []QuietInv
<1>1. Init => QuietInv
  BY InitQuiet
<1>2. IndInv /\ QuietInv /\ [Next]_vars => QuietInv'
  BY NextQuiet
<1> QED
  BY <1>1, <1>2, Invariance, PTL DEF Spec
=============================================================================

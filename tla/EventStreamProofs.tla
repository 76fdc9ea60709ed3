--------------------------- MODULE EventStreamProofs ---------------------------
(***************************************************************************)
(* Proofs about EventStream, for every capacity of a listener's queue and  *)
(* of the replay: a page gets broadcasts in order and none twice, and a    *)
(* view of it that fetches again on events is not left with an old         *)
(* snapshot.                                                               *)
(***************************************************************************)
EXTENDS EventStream, SequenceTheorems, WellFoundedInduction, TLAPS

-----------------------------------------------------------------------------
(* Lemmas on sequences of IDs *)

\* IDs are numbers.
LEMMA IDsAreNumbers == EventID \subseteq Nat
BY StreamAssumption DEF EventID

\* So is what a sequence of IDs holds.
LEMMA IDSequence ==
  ASSUME NEW s \in Seq(EventID)
  PROVE  /\ Len(s) \in Nat /\ DOMAIN s = 1..Len(s)
         /\ \A k \in DOMAIN s : s[k] \in EventID /\ s[k] \in Nat
         /\ s = <<>> <=> Len(s) = 0
<1>1. Len(s) \in Nat /\ DOMAIN s = 1..Len(s)
  BY LenProperties
<1>2. \A k \in 1..Len(s) : s[k] \in EventID
  BY ElementOfSeq
<1>3. s = <<>> <=> Len(s) = 0
  BY <1>1, EmptySeq
<1>. QED
  BY <1>1, <1>2, <1>3, IDsAreNumbers

\* A set of positions has a first one.
LEMMA FirstPosition ==
  ASSUME NEW T, T \subseteq Nat, T # {}
  PROVE  \E x \in T : \A y \in T : x <= y
<1>1. IsWellFoundedOn(OpToRel(<, Nat), Nat)
  BY NatLessThanWellFounded
<1>2. PICK x \in T : \A y \in T : <<y, x>> \notin OpToRel(<, Nat)
  BY <1>1, WFMin, Zenon
<1>3. ASSUME NEW y \in T PROVE x <= y
  <2>1. <<y, x>> \in Nat \X Nat /\ x \in Nat /\ y \in Nat
    OBVIOUS
  <2>2. ~(y < x)
    BY <1>2, <2>1 DEF OpToRel
  <2>. QED
    BY <2>1, <2>2
<1>. QED
  BY <1>3

\* What a sequence looks like without its first d elements.
IsRest(r, s, d) ==
  /\ r \in Seq(EventID) /\ d \in 0..Len(s)
  /\ Len(r) = Len(s) - d
  /\ \A i \in DOMAIN r : r[i] = s[i + d]

\* The rest of an ascending sequence ascends.
LEMMA RestAscends ==
  ASSUME NEW s \in Seq(EventID), NEW r, NEW d, IsRest(r, s, d), Ascending(s)
  PROVE  Ascending(r)
<1>1. ASSUME NEW i \in DOMAIN r, NEW j \in DOMAIN r, i < j PROVE r[i] < r[j]
  <2>1. /\ i + d \in DOMAIN s /\ j + d \in DOMAIN s /\ i + d < j + d
        /\ r[i] = s[i + d] /\ r[j] = s[j + d]
    BY <1>1 DEF IsRest
  <2>. QED
    BY <2>1 DEF Ascending
<1>. QED
  BY <1>1 DEF Ascending

\* A sequence of IDs is its own rest, and its tail is one.
LEMMA RestsOf ==
  ASSUME NEW s \in Seq(EventID)
  PROVE  /\ IsRest(s, s, 0)
         /\ s # <<>> => IsRest(Tail(s), s, 1)
<1>1. IsRest(s, s, 0)
  BY DEF IsRest
<1>2. ASSUME s # <<>> PROVE IsRest(Tail(s), s, 1)
  BY <1>2 DEF IsRest
<1>. QED
  BY <1>1, <1>2

\* The replay for a connection: what has a later ID than the last one received.
LEMMA AfterIsRest ==
  ASSUME NEW id \in Nat, events \in Seq(EventID), Ascending(events)
  PROVE  \E d \in 0..Len(events) :
           /\ IsRest(After(id), events, d)
           /\ \A k \in DOMAIN events : events[k] > id <=> k >= d + 1
<1> DEFINE T == {k \in DOMAIN events : events[k] > id}
           Cut(n) == \A k \in DOMAIN events : events[k] > id <=> k >= n
           n0 == CHOOSE n \in 1..Len(events) + 1 : Cut(n)
<1>1. /\ \A k \in DOMAIN events : events[k] \in Nat
      /\ DOMAIN events = 1..Len(events) /\ Len(events) \in Nat
  BY IDSequence
<1>2. \E n \in 1..Len(events) + 1 : Cut(n)
  <2>1. CASE T = {}
    <3>1. \A k \in DOMAIN events : ~(events[k] > id) /\ ~(k >= Len(events) + 1)
      BY <2>1
    <3>. QED
      BY <3>1
  <2>2. CASE T # {}
    <3>1. PICK x \in T : \A y \in T : x <= y
      <4>1. T \subseteq Nat
        BY <1>1
      <4> HIDE DEF T
      <4>. QED
        BY <2>2, <4>1, FirstPosition
    <3>2. ASSUME NEW k \in DOMAIN events, k >= x PROVE events[k] > id
      <4>1. x = k \/ events[x] < events[k]
        BY <3>1, <3>2 DEF Ascending
      <4>. QED
        BY <1>1, <3>1, <4>1
    <3>3. Cut(x)
      BY <3>1, <3>2
    <3>. QED
      BY <1>1, <3>1, <3>3
  <2>. QED
    BY <2>1, <2>2
<1>3. n0 \in 1..Len(events) + 1 /\ Cut(n0)
  BY <1>2
<1>4. After(id) = SubSeq(events, n0, Len(events))
  BY DEF After
<1> HIDE DEF n0, T
<1>5. IsRest(After(id), events, n0 - 1)
  <2>1. \A i \in n0..Len(events) : events[i] \in EventID
    BY <1>3
  <2>2. /\ After(id) \in Seq(EventID)
        /\ Len(After(id)) = IF n0 <= Len(events) THEN Len(events) - n0 + 1 ELSE 0
        /\ \A i \in 1..(Len(events) - n0 + 1) : After(id)[i] = events[n0 + i - 1]
    BY <1>3, <1>4, <2>1, SubSeqProperties
  <2>3. DOMAIN After(id) = 1..(Len(events) - n0 + 1)
    BY <1>1, <1>3, <2>2, IDSequence
  <2>4. Len(After(id)) = Len(events) - (n0 - 1)
    BY <1>1, <1>3, <2>2
  <2>5. ASSUME NEW i \in DOMAIN After(id) PROVE After(id)[i] = events[i + (n0 - 1)]
    <3>1. i \in 1..(Len(events) - n0 + 1) /\ n0 + i - 1 = i + (n0 - 1)
      BY <1>1, <1>3, <2>3
    <3>. QED
      BY <2>2, <3>1
  <2>. QED
    BY <1>1, <1>3, <2>2, <2>4, <2>5 DEF IsRest
<1>6. n0 - 1 \in 0..Len(events) /\ (n0 - 1) + 1 = n0
  BY <1>1, <1>3
<1>. QED
  BY <1>3, <1>5, <1>6

\* What is kept of the events when one more is broadcast.
LEMMA NewestIsRest ==
  ASSUME NEW s \in Seq(EventID), NEW n \in Nat \ {0}, s # <<>>
  PROVE  \E d \in 0..Len(s) :
           /\ IsRest(Newest(s, n), s, d)
           /\ Newest(s, n) # <<>> /\ Len(Newest(s, n)) <= n
<1>1. CASE Len(s) <= n
  BY <1>1, RestsOf DEF Newest
<1>2. CASE Len(s) > n
  <2> DEFINE d == Len(s) - n
             r == SubSeq(s, Len(s) - n + 1, Len(s))
  <2>1. /\ r \in Seq(EventID)
        /\ Len(r) = n
        /\ \A i \in 1..n : r[i] = s[i + d]
    BY <1>2, SubSeqProperties
  <2>2. Newest(s, n) = r
    BY <1>2 DEF Newest
  <2>3. d \in 0..Len(s) /\ IsRest(r, s, d)
    BY <1>2, <2>1 DEF IsRest
  <2> HIDE DEF d, r
  <2>4. r # <<>> /\ Len(r) <= n
    BY <2>1, IDSequence
  <2>. QED
    BY <2>2, <2>3, <2>4
<1>. QED
  BY <1>1, <1>2

\* The newest event kept.
LEMMA LastEventIs ==
  ASSUME events \in Seq(EventID)
  PROVE  /\ LastEvent \in EventID
         /\ events # <<>> => LastEvent = events[Len(events)]
         /\ events = <<>> => LastEvent = 0
BY StreamAssumption DEF LastEvent, Last, EventID

\* Appending a later ID.
LEMMA AppendAscends ==
  ASSUME NEW s \in Seq(EventID), Ascending(s), NEW id \in EventID,
         \A k \in DOMAIN s : s[k] < id
  PROVE  /\ Append(s, id) \in Seq(EventID) /\ Ascending(Append(s, id))
         /\ DOMAIN Append(s, id) = 1..Len(s) + 1
         /\ Len(Append(s, id)) = Len(s) + 1 /\ Append(s, id) # <<>>
         /\ \A k \in DOMAIN s : Append(s, id)[k] = s[k]
         /\ Append(s, id)[Len(s) + 1] = id
<1>1. /\ Append(s, id) \in Seq(EventID) /\ Len(Append(s, id)) = Len(s) + 1
      /\ DOMAIN Append(s, id) = 1..Len(s) + 1
      /\ \A k \in DOMAIN s : Append(s, id)[k] = s[k]
      /\ Append(s, id)[Len(s) + 1] = id
  OBVIOUS
<1>2. Append(s, id) # <<>>
  BY <1>1, IDSequence
<1>3. Ascending(Append(s, id))
  BY DEF Ascending
<1>. QED
  BY <1>1, <1>2, <1>3

\* One more frame on the wire.
LEMMA AppendFrame ==
  ASSUME NEW w \in Seq(Frame), NEW f \in Frame
  PROVE  /\ Append(w, f) \in Seq(Frame)
         /\ DOMAIN w = 1..Len(w) /\ Len(w) \in Nat
         /\ DOMAIN Append(w, f) = 1..Len(w) + 1
         /\ \A i \in DOMAIN w : Append(w, f)[i] = w[i]
         /\ Append(w, f)[Len(w) + 1] = f
OBVIOUS

\* The frames left when one has arrived.
LEMMA TailFrames ==
  ASSUME NEW w \in Seq(Frame), w # <<>>
  PROVE  /\ Head(w) = w[1] /\ w[1] \in Frame /\ 1 \in DOMAIN w
         /\ Tail(w) \in Seq(Frame)
         /\ DOMAIN w = 1..Len(w) /\ Len(w) \in Nat
         /\ DOMAIN Tail(w) = 1..Len(w) - 1
         /\ \A i \in DOMAIN Tail(w) : i + 1 \in DOMAIN w /\ Tail(w)[i] = w[i + 1]
OBVIOUS

\* The IDs left when the first of them has been written.
LEMMA TailIDs ==
  ASSUME NEW s \in Seq(EventID), s # <<>>, Ascending(s)
  PROVE  /\ Head(s) = s[1] /\ s[1] \in EventID /\ 1 \in DOMAIN s
         /\ Tail(s) \in Seq(EventID) /\ Ascending(Tail(s)) /\ Len(Tail(s)) = Len(s) - 1
         /\ \A i \in DOMAIN Tail(s) :
              i + 1 \in DOMAIN s /\ Tail(s)[i] = s[i + 1] /\ s[1] < Tail(s)[i]
<1>1. /\ Head(s) = s[1] /\ s[1] \in EventID /\ 1 \in DOMAIN s
      /\ Tail(s) \in Seq(EventID) /\ Len(Tail(s)) = Len(s) - 1
      /\ \A i \in DOMAIN Tail(s) :
           i \in Nat /\ i > 0 /\ i + 1 \in DOMAIN s /\ Tail(s)[i] = s[i + 1]
  OBVIOUS
<1>2. Ascending(Tail(s))
  BY <1>1 DEF Ascending
<1>3. \A i \in DOMAIN Tail(s) : s[1] < Tail(s)[i]
  BY <1>1 DEF Ascending
<1>. QED
  BY <1>1, <1>2, <1>3

\* What the steps below need of the types.
StreamData ==
  /\ events \in Seq(EventID) /\ nextEventID \in Nat
  /\ stream.queue \in Seq(EventID) /\ stream.replay \in Seq(EventID)
  /\ \A k \in DOMAIN events : events[k] \in Nat
  /\ \A k \in DOMAIN stream.queue : stream.queue[k] \in Nat
  /\ \A k \in DOMAIN stream.replay : stream.replay[k] \in Nat
  /\ wire \in Seq(Frame) /\ \A i \in DOMAIN wire : wire[i] \in Frame /\ wire[i].id \in Nat
  /\ page.last \in Nat /\ page.seen \in Nat /\ page.shown \in Nat
  /\ LastEvent \in Nat

\* It follows from the type invariant.
LEMMA StreamTyped ==
  ASSUME StreamTypeOK
  PROVE  StreamData
<1>1. /\ events \in Seq(EventID) /\ wire \in Seq(Frame)
      /\ stream.queue \in Seq(EventID) /\ stream.replay \in Seq(EventID)
      /\ nextEventID \in EventID
      /\ page.last \in EventID /\ page.seen \in EventID /\ page.shown \in EventID
  BY DEF StreamTypeOK
<1>2. \A i \in DOMAIN wire : wire[i] \in Frame
  BY <1>1
<1>3. \A i \in DOMAIN wire : wire[i].id \in Nat
  BY <1>2, IDsAreNumbers DEF Frame
<1>. QED
  BY <1>1, <1>2, <1>3, IDSequence, IDsAreNumbers, LastEventIs DEF StreamData

-----------------------------------------------------------------------------
(* The server's steps *)

\* broadcast: the newest ID comes after all others, and a listener to which it
\* is not offered has an older event waiting.
LEMMA BroadcastStep ==
  ASSUME StreamInv, Broadcast
  PROVE  StreamInv'
<1> DEFINE id == nextEventID + 1
<1>1. StreamData
  BY StreamTyped DEF StreamInv
<1>2. id \in EventID /\ nextEventID' = id /\ nextEventID < id /\ id \in Nat
  BY <1>1, StreamAssumption DEF Broadcast, EventID, StreamData
<1>3. /\ UNCHANGED <<wire, page>>
      /\ stream'.open = stream.open /\ stream'.replay = stream.replay
      /\ \/ stream' = stream /\ (stream.open => stream.queue # <<>>)
         \/ stream.open /\ stream'.queue = Append(stream.queue, id)
            /\ Len(stream.queue) < QueueSize
  <2>1. stream.queue = <<>> => Len(stream.queue) < QueueSize
    BY StreamAssumption
  <2>. QED
    BY <1>2, <2>1 DEF Broadcast, StreamInv, StreamTypeOK
<1> HIDE DEF id
<1>4. /\ events' \in Seq(EventID) /\ Len(events') <= ReplaySize
      /\ Ascending(events') /\ \A k \in DOMAIN events' : events'[k] <= id
      /\ events' # <<>> /\ events'[Len(events')] = id
  <2> DEFINE s == Append(events, id)
  <2>1. \A k \in DOMAIN events : events[k] < id
    BY <1>1, <1>2 DEF StreamData, StreamInv, Numbered
  <2>9. events \in Seq(EventID) /\ Ascending(events)
    BY <1>1 DEF StreamData, StreamInv, Numbered
  <2>2. /\ s \in Seq(EventID) /\ Ascending(s) /\ s # <<>>
        /\ DOMAIN s = 1..Len(events) + 1 /\ s[Len(events) + 1] = id
        /\ \A k \in DOMAIN events : s[k] = events[k]
        /\ Len(s) = Len(events) + 1
    BY <1>2, <2>1, <2>9, AppendAscends
  <2>3. events' = Newest(s, ReplaySize)
    BY <1>2 DEF Broadcast
  <2> HIDE DEF s
  <2>4. PICK d \in 0..Len(s) : /\ IsRest(events', s, d)
                               /\ events' # <<>> /\ Len(events') <= ReplaySize
    BY <2>2, <2>3, NewestIsRest, StreamAssumption
  <2>5. events' \in Seq(EventID) /\ Ascending(events')
    BY <2>2, <2>4, RestAscends DEF IsRest
  <2>6. DOMAIN events' = 1..Len(events') /\ Len(events') \in Nat /\ Len(events') # 0
        /\ Len(events') + d = Len(s) /\ Len(events) \in Nat
    BY <1>1, <2>2, <2>4, <2>5, IDSequence DEF IsRest, StreamData
  <2>7. events'[Len(events')] = id
    BY <2>2, <2>4, <2>6 DEF IsRest
  <2>8. ASSUME NEW k \in DOMAIN events' PROVE events'[k] <= id
    <3>1. k = Len(events') \/ events'[k] < id
      BY <2>5, <2>6, <2>7 DEF Ascending
    <3>2. events'[k] \in Nat
      BY <2>5, IDSequence
    <3>. QED
      BY <1>2, <2>7, <3>1, <3>2
  <2>. QED
    BY <2>4, <2>5, <2>7, <2>8
<1>5. LastEvent' = id
  BY <1>4 DEF LastEvent, Last
<1>6. StreamTypeOK'
  <2>1. stream' \in [open: BOOLEAN, queue: Seq(EventID), replay: Seq(EventID)]
        /\ Len(stream'.queue) <= QueueSize
    <3>1. CASE stream' = stream
      BY <3>1 DEF StreamInv, StreamTypeOK
    <3>2. CASE stream' = [stream EXCEPT !.queue = Append(stream.queue, id)]
               /\ Len(stream.queue) < QueueSize
      <4>1. Append(stream.queue, id) \in Seq(EventID)
            /\ Len(Append(stream.queue, id)) = Len(stream.queue) + 1
            /\ Len(stream.queue) \in Nat
        BY <1>1, <1>2 DEF StreamData
      <4>2. Len(stream.queue) + 1 <= QueueSize
        BY <3>2, <4>1, StreamAssumption
      <4>3. stream \in [open: BOOLEAN, queue: Seq(EventID), replay: Seq(EventID)]
        BY DEF StreamInv, StreamTypeOK
      <4>. QED
        BY <3>2, <4>1, <4>2, <4>3
    <3>. QED
      BY <1>2, <3>1, <3>2 DEF Broadcast
  <2>. QED
    BY <1>2, <1>3, <1>4, <2>1 DEF StreamInv, StreamTypeOK
<1>7. Connected'
  BY <1>3 DEF StreamInv, Connected
<1>8. /\ stream.queue \in Seq(EventID) /\ Ascending(stream.queue)
      /\ \A k \in DOMAIN stream.queue : stream.queue[k] < id
      /\ DOMAIN stream.queue = 1..Len(stream.queue) /\ Len(stream.queue) \in Nat
  BY <1>1, <1>2, IDSequence DEF StreamData, StreamInv, Numbered, Unwritten
<1>13. LET q == Append(stream.queue, id)
       IN /\ Ascending(q) /\ DOMAIN q = 1..Len(stream.queue) + 1 /\ q # <<>>
          /\ \A k \in DOMAIN stream.queue : q[k] = stream.queue[k]
          /\ q[Len(stream.queue) + 1] = id
  BY <1>2, <1>8, AppendAscends
<1>14. stream.open => stream'.queue # <<>>
  BY <1>3, <1>13
<1>15. Ascending(stream'.queue)
  BY <1>3, <1>8, <1>13
<1>16. ASSUME NEW k \in DOMAIN stream'.queue
       PROVE  \/ k \in DOMAIN stream.queue /\ stream'.queue[k] = stream.queue[k]
              \/ stream'.queue[k] = id
  BY <1>3, <1>8, <1>13
<1>9. Numbered'
  <2>1. ASSUME NEW k \in DOMAIN stream'.queue PROVE stream'.queue[k] <= id
    <3>1. \A l \in DOMAIN stream.queue : stream.queue[l] \in Nat
      BY <1>1 DEF StreamData
    <3>. QED
      BY <1>2, <1>8, <1>16, <3>1
  <2>2. \A k \in DOMAIN stream.replay : stream.replay[k] <= id
    BY <1>1, <1>2 DEF StreamInv, Numbered, StreamData
  <2>3. /\ \A i \in DOMAIN wire : wire[i].id <= id
        /\ page.seen <= page.last /\ page.last <= id
    BY <1>1, <1>2 DEF StreamInv, Numbered, StreamData
  <2>. QED
    BY <1>2, <1>3, <1>4, <2>1, <2>2, <2>3 DEF Numbered
<1>17. \A k \in DOMAIN stream.replay : stream.replay[k] < id
  BY <1>1, <1>2 DEF StreamData, StreamInv, Numbered
<1>18. page.seen < id /\ page.last < id /\ \A i \in DOMAIN wire : wire[i].id < id
  BY <1>1, <1>2 DEF StreamData, StreamInv, Numbered
<1>10. Unwritten'
  BY <1>3, <1>15, <1>16, <1>17, <1>18 DEF StreamInv, Unwritten
<1>11. Written'
  BY <1>3, <1>16, <1>18 DEF StreamInv, Written
<1>12. Informed'
  BY <1>1, <1>2, <1>3, <1>5, <1>14, <1>18 DEF Informed, StreamData
<1>. QED
  BY <1>6, <1>7, <1>9, <1>10, <1>11, <1>12 DEF StreamInv

\* handleEvents, on registration: the replay is what the page has not seen, and
\* with nothing to replay the page has seen the last broadcast.
LEMMA ConnectStep ==
  ASSUME StreamInv, Connect
  PROVE  StreamInv'
<1>1. StreamData
  BY StreamTyped DEF StreamInv
<1> DEFINE r == After(page.last)
<1>2. /\ UNCHANGED <<events, nextEventID, page>> /\ wire' = <<>>
      /\ stream' = [open |-> TRUE, queue |-> <<>>, replay |-> r]
      /\ page.on
  BY DEF Connect, NotSeen
<1>3. /\ events \in Seq(EventID) /\ Ascending(events) /\ page.last \in Nat
      /\ page.seen <= page.last /\ page.seen \in Nat
      /\ \A k \in DOMAIN events : events[k] <= nextEventID /\ events[k] \in Nat
  BY <1>1 DEF StreamData, StreamInv, Numbered
<1>4. PICK d \in 0..Len(events) :
           /\ IsRest(r, events, d)
           /\ \A k \in DOMAIN events : events[k] > page.last <=> k >= d + 1
  BY <1>3, AfterIsRest
<1> HIDE DEF r
<1>5. r \in Seq(EventID) /\ Ascending(r)
  BY <1>3, <1>4, RestAscends DEF IsRest
<1>6. ASSUME NEW k \in DOMAIN r PROVE page.seen < r[k] /\ r[k] <= nextEventID
  <2>1. k + d \in DOMAIN events /\ r[k] = events[k + d] /\ k + d >= d + 1
    BY <1>3, <1>4, <1>5 DEF IsRest
  <2>. QED
    BY <1>3, <1>4, <2>1
<1>7. r = <<>> => LastEvent <= page.last
  <2>1. CASE r = <<>> /\ events # <<>>
    <3>1. d = Len(events) /\ Len(events) \in DOMAIN events
      BY <1>3, <1>4, <2>1, IDSequence DEF IsRest
    <3>2. ~(events[Len(events)] > page.last)
      BY <1>3, <1>4, <3>1
    <3>3. events[Len(events)] \in Nat
      BY <1>3, <3>1
    <3>. QED
      BY <1>3, <2>1, <3>2, <3>3, LastEventIs
  <2>2. CASE events = <<>>
    BY <1>3, <2>2, LastEventIs
  <2>. QED
    BY <2>1, <2>2
<1>8. LastEvent' = LastEvent
  BY <1>2 DEF LastEvent
<1>9. StreamTypeOK'
  <2>1. <<>> \in Seq(EventID) /\ <<>> \in Seq(Frame) /\ Len(<<>>) <= QueueSize
    BY StreamAssumption
  <2>. QED
    BY <1>2, <1>5, <2>1 DEF StreamInv, StreamTypeOK
<1>10. Connected'
  BY <1>2 DEF StreamInv, Connected
<1>11. Numbered'
  BY <1>2, <1>6 DEF StreamInv, Numbered
<1>12. Unwritten'
  BY <1>2, <1>5, <1>6 DEF StreamInv, Unwritten, Ascending
<1>13. Written'
  BY <1>2 DEF Written
<1>14. Informed'
  BY <1>2, <1>7, <1>8 DEF StreamInv, Informed, UpToDate
<1>. QED
  BY <1>9, <1>10, <1>11, <1>12, <1>13, <1>14 DEF StreamInv

\* What writing an event does: it is newer than everything written before and
\* older than what is still to be written.
LEMMA WriteStep ==
  ASSUME StreamInv, WriteReplay \/ WriteQueued
  PROVE  StreamInv'
<1>1. StreamData
  BY StreamTyped DEF StreamInv
<1> DEFINE r == stream.replay
           q == stream.queue
           id == IF r # <<>> THEN Head(r) ELSE Head(q)
           r1 == IF r # <<>> THEN Tail(r) ELSE r
           q1 == IF r # <<>> THEN q ELSE Tail(q)
           f == [id |-> id, beat |-> FALSE]
<1>2. r # <<>> \/ q # <<>>
  BY DEF WriteReplay, WriteQueued
<1>3. /\ UNCHANGED <<events, nextEventID, page>> /\ wire' = Append(wire, f)
      /\ stream' = [open |-> stream.open, queue |-> q1, replay |-> r1]
  <2>1. stream \in [open: BOOLEAN, queue: Seq(EventID), replay: Seq(EventID)]
    BY DEF StreamInv, StreamTypeOK
  <2>2. CASE WriteReplay
    BY <2>1, <2>2 DEF WriteReplay
  <2>3. CASE WriteQueued
    BY <2>1, <2>3 DEF WriteQueued
  <2>. QED
    BY <2>2, <2>3
<1>4. /\ r \in Seq(EventID) /\ Ascending(r) /\ q \in Seq(EventID) /\ Ascending(q)
      /\ Len(q) <= QueueSize
      /\ \A k \in DOMAIN r : \A l \in DOMAIN q : r[k] < q[l]
      /\ \A k \in DOMAIN r : page.seen < r[k] /\ r[k] <= nextEventID
      /\ \A l \in DOMAIN q : page.seen < q[l] /\ q[l] <= nextEventID
  BY <1>1 DEF StreamData, StreamInv, StreamTypeOK, Numbered, Unwritten
<1> HIDE DEF r, q
<1>5. /\ r1 \in Seq(EventID) /\ Ascending(r1) /\ q1 \in Seq(EventID) /\ Ascending(q1)
      /\ id \in EventID /\ id <= nextEventID /\ page.seen < id /\ Len(q1) <= QueueSize
  <2>1. CASE r # <<>>
    BY <1>4, <2>1, TailIDs
  <2>2. CASE r = <<>> /\ q # <<>>
    <3>1. Len(Tail(q)) <= QueueSize
      BY <1>4, <2>2, TailIDs, StreamAssumption, IDSequence
    <3>. QED
      BY <1>4, <2>2, <3>1, TailIDs
  <2>. QED
    BY <1>2, <2>1, <2>2
<1>6. /\ \A k \in DOMAIN r1 : /\ \E n \in DOMAIN r : r1[k] = r[n]
                            /\ id < r1[k]
      /\ \A l \in DOMAIN q1 : /\ \E n \in DOMAIN q : q1[l] = q[n]
                            /\ id < q1[l]
  <2>1. CASE r # <<>>
    BY <1>4, <2>1, TailIDs
  <2>2. CASE r = <<>> /\ q # <<>>
    BY <1>4, <2>2, TailIDs
  <2>. QED
    BY <1>2, <2>1, <2>2
<1>7. \/ \E n \in DOMAIN r : id = r[n]
      \/ \E n \in DOMAIN q : id = q[n]
  BY <1>2, <1>4, TailIDs
<1> HIDE DEF id, r1, q1
<1>8. /\ wire' \in Seq(Frame)
      /\ DOMAIN wire = 1..Len(wire) /\ Len(wire) \in Nat
      /\ DOMAIN wire' = 1..Len(wire) + 1
      /\ \A i \in DOMAIN wire : wire'[i] = wire[i]
      /\ wire'[Len(wire) + 1] = f
  <2>1. f \in Frame /\ wire \in Seq(Frame)
    BY <1>1, <1>5 DEF Frame, StreamData
  <2>. QED
    BY <1>3, <2>1, AppendFrame
<1>9. StreamTypeOK'
  BY <1>3, <1>5, <1>8 DEF StreamInv, StreamTypeOK
<1>10. Connected'
  BY <1>2, <1>3 DEF StreamInv, Connected, Closed, r, q
<1>11. Numbered'
  BY <1>3, <1>4, <1>5, <1>6, <1>8 DEF StreamInv, Numbered
<1>12. Unwritten'
  BY <1>3, <1>4, <1>5, <1>6 DEF Unwritten
<1>13. Written'
  <2>1. \A i \in DOMAIN wire : ~wire[i].beat => wire[i].id < id
    BY <1>7 DEF StreamInv, Written, r, q
  <2>2. /\ \A i \in DOMAIN wire : page.seen < wire[i].id
        /\ \A i, j \in DOMAIN wire :
             i < j /\ (wire[j].beat \/ ~wire[i].beat) => wire[i].id < wire[j].id
        /\ \A i \in DOMAIN wire : ~wire[i].beat =>
             /\ \A k \in DOMAIN r : wire[i].id < r[k]
             /\ \A k \in DOMAIN q : wire[i].id < q[k]
    BY DEF StreamInv, Written, r, q
  <2>3. ASSUME NEW i \in DOMAIN wire'
        PROVE  \/ i \in DOMAIN wire /\ wire'[i] = wire[i]
               \/ /\ i = Len(wire) + 1 /\ wire'[i] = f
                  /\ \A j \in DOMAIN wire' : ~(i < j)
    BY <1>8
  <2>. QED
    BY <1>3, <1>5, <1>6, <2>1, <2>2, <2>3 DEF Written
<1>14. Informed'
  <2>1. LastEvent' = LastEvent
    BY <1>3 DEF LastEvent
  <2>2. Len(wire) + 1 \in DOMAIN wire' /\ ~wire'[Len(wire) + 1].beat
    BY <1>8
  <2>3. ASSUME NEW i \in DOMAIN wire', wire'[i].beat
        PROVE  i \in DOMAIN wire /\ wire'[i] = wire[i]
    BY <1>8, <2>3
  <2>4. ASSUME NEW i \in DOMAIN wire, NEW j \in DOMAIN wire
        PROVE  j \in DOMAIN wire' /\ wire'[j] = wire[j]
    BY <1>8
  <2>. QED
    BY <1>3, <2>1, <2>2, <2>3, <2>4 DEF StreamInv, Informed, UpToDate
<1>. QED
  BY <1>9, <1>10, <1>11, <1>12, <1>13, <1>14 DEF StreamInv

\* The ticker: a heartbeat takes an ID too, and passes what is queued.
LEMMA HeartbeatStep ==
  ASSUME StreamInv, Heartbeat
  PROVE  StreamInv'
<1> DEFINE id == nextEventID + 1
           f == [id |-> id, beat |-> TRUE]
<1>1. StreamData
  BY StreamTyped DEF StreamInv
<1>2. id \in EventID /\ nextEventID' = id /\ nextEventID < id /\ id \in Nat
  BY <1>1, StreamAssumption DEF Heartbeat, EventID, StreamData
<1>3. /\ UNCHANGED <<events, stream>> /\ stream.open /\ stream.replay = <<>>
      /\ wire' = Append(wire, f)
      /\ page' = [page EXCEPT !.overtaken = page.overtaken \/ stream.queue # <<>>]
  BY <1>2 DEF Heartbeat
<1> HIDE DEF id
<1>4. page \in [on: BOOLEAN, live: BOOLEAN, last: EventID, seen: EventID,
                shown: EventID, overtaken: BOOLEAN]
  BY DEF StreamInv, StreamTypeOK
<1>5. /\ page'.on = page.on /\ page'.last = page.last /\ page'.seen = page.seen
      /\ page'.shown = page.shown /\ page'.live = page.live
      /\ ~page'.overtaken => ~page.overtaken /\ stream.queue = <<>>
      /\ page' \in [on: BOOLEAN, live: BOOLEAN, last: EventID, seen: EventID,
                    shown: EventID, overtaken: BOOLEAN]
  BY <1>3, <1>4
<1>6. /\ wire' \in Seq(Frame)
      /\ DOMAIN wire = 1..Len(wire) /\ Len(wire) \in Nat
      /\ DOMAIN wire' = 1..Len(wire) + 1
      /\ \A i \in DOMAIN wire : wire'[i] = wire[i]
      /\ wire'[Len(wire) + 1] = f
  <2>1. f \in Frame /\ wire \in Seq(Frame)
    BY <1>1, <1>2 DEF Frame, StreamData
  <2>. QED
    BY <1>3, <2>1, AppendFrame
<1>7. ASSUME NEW i \in DOMAIN wire'
      PROVE  \/ i \in DOMAIN wire /\ wire'[i] = wire[i]
             \/ /\ i = Len(wire) + 1 /\ wire'[i] = f
                /\ \A j \in DOMAIN wire' : ~(i < j)
                /\ \A j \in DOMAIN wire : j < i
  BY <1>6
<1>8. ASSUME NEW i \in DOMAIN wire PROVE i \in DOMAIN wire' /\ wire'[i] = wire[i]
  BY <1>6
<1>9. StreamTypeOK'
  BY <1>2, <1>3, <1>5, <1>6 DEF StreamInv, StreamTypeOK
<1>10. Connected'
  BY <1>3, <1>5 DEF StreamInv, Connected
<1>11. Numbered'
  <2>1. /\ \A k \in DOMAIN events : events[k] <= id
        /\ \A k \in DOMAIN stream.replay : stream.replay[k] <= id
        /\ \A k \in DOMAIN stream.queue : stream.queue[k] <= id
        /\ \A i \in DOMAIN wire : wire[i].id <= id
        /\ page.seen <= page.last /\ page.last <= id /\ Ascending(events)
    BY <1>1, <1>2 DEF StreamInv, Numbered, StreamData
  <2>. QED
    BY <1>2, <1>3, <1>5, <1>7, <2>1 DEF Numbered
<1>12. Unwritten'
  BY <1>3, <1>5 DEF StreamInv, Unwritten
<1>13. Written'
  <2>1. page.seen < id /\ \A i \in DOMAIN wire : wire[i].id < id
    BY <1>1, <1>2 DEF StreamInv, Numbered, StreamData
  <2>. QED
    BY <1>3, <1>5, <1>7, <2>1 DEF StreamInv, Written
<1>14. Informed'
  <2>1. LastEvent' = LastEvent /\ (UpToDate' <=> UpToDate)
    BY <1>3, <1>5 DEF LastEvent, UpToDate
  <2>2. ASSUME page'.on, page'.live, ~page'.overtaken
        PROVE  /\ LastEvent <= page.last => UpToDate
               /\ \A i \in DOMAIN wire :
                    wire[i].beat /\ (\A j \in DOMAIN wire : j < i => wire[j].beat)
                    /\ LastEvent <= wire[i].id => UpToDate
               /\ (\A i \in DOMAIN wire : wire[i].beat) => UpToDate
    BY <1>3, <1>5, <2>2 DEF StreamInv, Informed
  <2>. QED
    BY <1>3, <1>5, <1>7, <1>8, <2>1, <2>2 DEF Informed
<1>. QED
  BY <1>9, <1>10, <1>11, <1>12, <1>13, <1>14 DEF StreamInv

\* A connection that ends takes what is under way with it.
LEMMA BreakStep ==
  ASSUME StreamInv, Break
  PROVE  StreamInv'
<1>1. /\ UNCHANGED <<events, nextEventID, page>>
      /\ stream' = [open |-> FALSE, queue |-> <<>>, replay |-> <<>>] /\ wire' = <<>>
  BY DEF Break, Closed
<1>2. <<>> \in Seq(EventID) /\ <<>> \in Seq(Frame) /\ Len(<<>>) <= QueueSize
  BY StreamAssumption
<1>3. StreamTypeOK'
  BY <1>1, <1>2 DEF StreamInv, StreamTypeOK
<1>4. Connected' /\ Numbered'
  BY <1>1 DEF StreamInv, Connected, Closed, Numbered
<1>5. Unwritten' /\ Written'
  BY <1>1 DEF Unwritten, Written, Ascending
<1>6. Informed'
  BY <1>1 DEF StreamInv, Informed, UpToDate, LastEvent
<1>. QED
  BY <1>3, <1>4, <1>5, <1>6 DEF StreamInv

-----------------------------------------------------------------------------
(* The page's steps *)

\* A page that opens has the newest snapshot and no connection yet.
LEMMA OpenPageStep ==
  ASSUME StreamInv, OpenPage
  PROVE  StreamInv'
<1>1. /\ UNCHANGED <<events, nextEventID, stream, wire>>
      /\ page' \in [on: {TRUE}, live: BOOLEAN, last: {0}, seen: {0}, shown: {LastEvent},
                    overtaken: {FALSE}]
      /\ stream = [open |-> FALSE, queue |-> <<>>, replay |-> <<>>] /\ wire = <<>>
  BY DEF OpenPage, NoPage, StreamInv, Connected, Closed
<1>2. LastEvent \in EventID /\ LastEvent \in Nat /\ 0 \in EventID /\ nextEventID \in Nat
  BY StreamTyped, LastEventIs, StreamAssumption DEF StreamInv, StreamTypeOK, StreamData, EventID
<1>3. StreamTypeOK'
  BY <1>1, <1>2 DEF StreamInv, StreamTypeOK
<1>4. Connected'
  BY <1>1 DEF Connected, Closed
<1>5. Numbered'
  BY <1>1, <1>2 DEF StreamInv, Numbered
<1>6. Unwritten' /\ Written'
  BY <1>1 DEF Unwritten, Written, Ascending
<1>7. Informed'
  BY <1>1, <1>2 DEF Informed, UpToDate, LastEvent
<1>. QED
  BY <1>3, <1>4, <1>5, <1>6, <1>7 DEF StreamInv

\* A view that takes the place of another has the newest snapshot.
LEMMA NavigateStep ==
  ASSUME StreamInv, Navigate
  PROVE  StreamInv'
<1>1. page \in [on: BOOLEAN, live: BOOLEAN, last: EventID, seen: EventID,
                shown: EventID, overtaken: BOOLEAN]
  BY DEF StreamInv, StreamTypeOK
<1>2. LastEvent \in EventID /\ LastEvent \in Nat
  BY StreamTyped, LastEventIs, StreamAssumption DEF StreamInv, StreamTypeOK, StreamData, EventID
<1>3. /\ UNCHANGED <<events, nextEventID, stream, wire>>
      /\ page' \in [on: BOOLEAN, live: BOOLEAN, last: EventID, seen: EventID,
                    shown: EventID, overtaken: BOOLEAN]
      /\ page.on /\ page'.on /\ page'.last = page.last /\ page'.seen = page.seen
      /\ page'.shown = LastEvent
  BY <1>1, <1>2 DEF Navigate
<1>4. StreamTypeOK'
  BY <1>3 DEF StreamInv, StreamTypeOK
<1>5. Connected' /\ Numbered' /\ Unwritten' /\ Written'
  BY <1>3 DEF StreamInv, Connected, Numbered, Unwritten, Written
<1>6. Informed'
  BY <1>2, <1>3 DEF Informed, UpToDate, LastEvent
<1>. QED
  BY <1>4, <1>5, <1>6 DEF StreamInv

\* A frame arrives: an event makes a live view fetch its snapshot, a heartbeat
\* only moves the last ID.
LEMMA ReceiveStep ==
  ASSUME StreamInv, Receive
  PROVE  StreamInv'
<1> DEFINE f == wire[1]
<1>1. StreamData
  BY StreamTyped DEF StreamInv
<1>2. wire \in Seq(Frame) /\ wire # <<>> /\ wire' = Tail(wire)
      /\ UNCHANGED <<events, nextEventID, stream>>
  BY <1>1 DEF StreamData, Receive
<1>3. /\ Head(wire) = f /\ f \in Frame /\ 1 \in DOMAIN wire
      /\ wire' \in Seq(Frame)
      /\ \A i \in DOMAIN wire' :
           i \in Nat /\ i > 0 /\ i + 1 \in DOMAIN wire /\ wire'[i] = wire[i + 1]
      /\ \A i \in DOMAIN wire : i = 1 \/ (\E j \in DOMAIN wire' : i = j + 1)
  <2>1. /\ Head(wire) = f /\ f \in Frame /\ 1 \in DOMAIN wire /\ wire' \in Seq(Frame)
        /\ DOMAIN wire = 1..Len(wire) /\ Len(wire) \in Nat
        /\ DOMAIN wire' = 1..Len(wire) - 1
        /\ \A i \in DOMAIN wire' : i + 1 \in DOMAIN wire /\ wire'[i] = wire[i + 1]
    BY <1>2, TailFrames
  <2> HIDE DEF f
  <2>2. ASSUME NEW i \in DOMAIN wire, i # 1 PROVE \E j \in DOMAIN wire' : i = j + 1
    <3>1. i - 1 \in DOMAIN wire' /\ i = (i - 1) + 1
      BY <2>1, <2>2
    <3>. QED
      BY <3>1
  <2>3. \A i \in DOMAIN wire' : i \in Nat /\ i > 0
    BY <2>1
  <2>. QED
    BY <2>1, <2>2, <2>3
<1>4. /\ \A i \in DOMAIN wire : i \in Nat /\ i > 0
      /\ f.id \in EventID /\ f.id \in Nat
  BY <1>1, <1>2, <1>3, TailFrames DEF StreamData, Frame
<1>5. page \in [on: BOOLEAN, live: BOOLEAN, last: EventID, seen: EventID,
                shown: EventID, overtaken: BOOLEAN]
  BY DEF StreamInv, StreamTypeOK
<1>6. page' = [page EXCEPT !.last = f.id,
                           !.seen = IF ~f.beat THEN f.id ELSE page.seen,
                           !.shown = IF ~f.beat /\ page.live THEN LastEvent ELSE page.shown,
                           !.overtaken = page.overtaken /\ ~(~f.beat /\ page.live)]
  BY <1>3 DEF Receive
<1> HIDE DEF f
<1>7. /\ page'.on = page.on /\ page'.live = page.live /\ page'.last = f.id
      /\ f.beat => /\ page'.seen = page.seen /\ page'.shown = page.shown
                   /\ page'.overtaken = page.overtaken
      /\ ~f.beat => page'.seen = f.id
      /\ ~f.beat /\ page.live => page'.shown = LastEvent
      /\ page' \in [on: BOOLEAN, live: BOOLEAN, last: EventID, seen: EventID,
                    shown: EventID, overtaken: BOOLEAN]
  <2>1. LastEvent \in EventID
    BY LastEventIs DEF StreamInv, StreamTypeOK
  <2>2. CASE f.beat
    BY <1>4, <1>5, <1>6, <2>2
  <2>3. CASE ~f.beat
    BY <1>4, <1>5, <1>6, <2>1, <2>3
  <2>. QED
    BY <2>2, <2>3
<1>8. /\ page.seen < f.id /\ f.id <= nextEventID
      /\ ~f.beat => /\ \A k \in DOMAIN stream.replay : f.id < stream.replay[k]
                    /\ \A k \in DOMAIN stream.queue : f.id < stream.queue[k]
                    /\ \A j \in DOMAIN wire : 1 < j => f.id < wire[j].id
  BY <1>3 DEF StreamInv, Written, Numbered, f
<1>9. page'.seen = page.seen \/ (~f.beat /\ page'.seen = f.id)
  BY <1>7
<1>10. StreamTypeOK'
  BY <1>2, <1>3, <1>7 DEF StreamInv, StreamTypeOK
<1>11. Connected'
  BY <1>2, <1>7 DEF StreamInv, Connected, Closed, NoPage
<1>12. Numbered'
  <2>1. page'.seen <= page'.last /\ page'.last <= nextEventID
    BY <1>1, <1>4, <1>7, <1>8, <1>9 DEF StreamData
  <2>2. \A i \in DOMAIN wire' : wire'[i].id <= nextEventID
    BY <1>3 DEF StreamInv, Numbered
  <2>. QED
    BY <1>2, <2>1, <2>2 DEF StreamInv, Numbered
<1>13. Unwritten'
  BY <1>2, <1>8, <1>9 DEF StreamInv, Unwritten
<1>14. Written'
  <2>1. ASSUME NEW i \in DOMAIN wire' PROVE page'.seen < wire'[i].id
    <3>1. i + 1 \in DOMAIN wire /\ wire'[i] = wire[i + 1] /\ 1 < i + 1
      BY <1>3
    <3>. QED
      BY <1>8, <1>9, <3>1 DEF StreamInv, Written
  <2>2. ASSUME NEW i \in DOMAIN wire', NEW j \in DOMAIN wire', i < j,
               wire'[j].beat \/ ~wire'[i].beat
        PROVE  wire'[i].id < wire'[j].id
    <3>1. /\ i + 1 \in DOMAIN wire /\ wire'[i] = wire[i + 1]
          /\ j + 1 \in DOMAIN wire /\ wire'[j] = wire[j + 1] /\ i + 1 < j + 1
      BY <1>3, <2>2
    <3>. QED
      BY <2>2, <3>1 DEF StreamInv, Written
  <2>3. ASSUME NEW i \in DOMAIN wire', ~wire'[i].beat
        PROVE  /\ \A k \in DOMAIN stream.replay : wire'[i].id < stream.replay[k]
               /\ \A k \in DOMAIN stream.queue : wire'[i].id < stream.queue[k]
    BY <1>3, <2>3 DEF StreamInv, Written
  <2>. QED
    BY <1>2, <2>1, <2>2, <2>3 DEF Written
<1>15. Informed'
  <2>1. LastEvent' = LastEvent /\ LastEvent \in Nat
    BY <1>1, <1>2 DEF LastEvent, StreamData
  <2>2. CASE ~f.beat
    BY <1>7, <2>1, <2>2 DEF Informed, UpToDate
  <2>3. CASE f.beat
    <3> SUFFICES ASSUME page.on, page.live, ~page.overtaken
                 PROVE  Informed'
      BY <1>7, <2>3 DEF Informed
    <3>1. UpToDate' <=> UpToDate
      BY <1>7, <2>1, <2>3 DEF UpToDate
    <3>2. LastEvent <= f.id => UpToDate
      BY <1>3, <1>4, <2>3 DEF StreamInv, Informed, f
    <3>3. ASSUME NEW i \in DOMAIN wire', wire'[i].beat,
                 \A j \in DOMAIN wire' : j < i => wire'[j].beat, LastEvent <= wire'[i].id
          PROVE  UpToDate
      <4>1. i + 1 \in DOMAIN wire /\ wire'[i] = wire[i + 1]
        BY <1>3
      <4>2. ASSUME NEW j \in DOMAIN wire, j < i + 1 PROVE wire[j].beat
        <5>1. CASE j = 1
          BY <2>3, <5>1 DEF f
        <5>2. CASE \E l \in DOMAIN wire' : j = l + 1
          BY <1>3, <3>3, <4>2, <5>2
        <5>. QED
          BY <1>3, <5>1, <5>2
      <4>. QED
        BY <3>3, <4>1, <4>2 DEF StreamInv, Informed
    <3>4. ASSUME stream.open, stream.replay = <<>>, stream.queue = <<>>,
                 \A i \in DOMAIN wire' : wire'[i].beat
          PROVE  UpToDate
      <4>1. \A j \in DOMAIN wire : wire[j].beat
        BY <1>3, <2>3, <3>4 DEF f
      <4>. QED
        BY <3>4, <4>1 DEF StreamInv, Informed
    <3>. QED
      BY <1>2, <1>7, <2>1, <3>1, <3>2, <3>3, <3>4 DEF Informed
  <2>. QED
    BY <2>2, <2>3
<1>. QED
  BY <1>10, <1>11, <1>12, <1>13, <1>14, <1>15 DEF StreamInv

\* Without a page there is no connection.
LEMMA ClosePageStep ==
  ASSUME StreamInv, ClosePage \/ StreamStops
  PROVE  StreamInv'
<1>1. /\ stream' = [open |-> FALSE, queue |-> <<>>, replay |-> <<>>] /\ wire' = <<>>
      /\ page' = [on |-> FALSE, live |-> FALSE, last |-> 0, seen |-> 0, shown |-> 0,
                 overtaken |-> FALSE]
      /\ UNCHANGED <<events, nextEventID>> \/ (events' = <<>> /\ nextEventID' = 0)
  BY DEF ClosePage, StreamStops, Closed, NoPage
<1>2. /\ <<>> \in Seq(EventID) /\ <<>> \in Seq(Frame) /\ 0 \in EventID
      /\ Len(<<>>) <= QueueSize /\ Len(<<>>) <= ReplaySize
  BY StreamAssumption DEF EventID
<1>3. StreamTypeOK'
  BY <1>1, <1>2 DEF StreamInv, StreamTypeOK
<1>4. Connected'
  BY <1>1 DEF Connected, Closed, NoPage
<1>5. Numbered'
  <2>1. nextEventID' \in Nat
    BY <1>3, IDsAreNumbers DEF StreamTypeOK
  <2>2. Ascending(events') /\ \A k \in DOMAIN events' : events'[k] <= nextEventID'
    BY <1>1 DEF StreamInv, Numbered, Ascending
  <2>. QED
    BY <1>1, <2>1, <2>2 DEF Numbered
<1>6. Unwritten' /\ Written' /\ Informed'
  BY <1>1 DEF Unwritten, Written, Ascending, Informed
<1>. QED
  BY <1>3, <1>4, <1>5, <1>6 DEF StreamInv

-----------------------------------------------------------------------------
(* The stream *)

\* The process starts without events and without a page.
LEMMA StreamStarts == StreamInit => StreamInv
<1> SUFFICES ASSUME StreamInit PROVE StreamInv
  OBVIOUS
<1>1. /\ events = <<>> /\ nextEventID = 0 /\ wire = <<>>
      /\ stream = [open |-> FALSE, queue |-> <<>>, replay |-> <<>>]
      /\ page = [on |-> FALSE, live |-> FALSE, last |-> 0, seen |-> 0, shown |-> 0,
                 overtaken |-> FALSE]
  BY DEF StreamInit, Closed, NoPage
<1>2. /\ <<>> \in Seq(EventID) /\ <<>> \in Seq(Frame) /\ 0 \in EventID
      /\ Len(<<>>) <= QueueSize /\ Len(<<>>) <= ReplaySize
  BY StreamAssumption DEF EventID
<1>3. StreamTypeOK
  BY <1>1, <1>2 DEF StreamTypeOK
<1>4. Connected /\ Numbered
  BY <1>1 DEF Connected, Closed, NoPage, Numbered, Ascending
<1>5. Unwritten /\ Written /\ Informed
  BY <1>1 DEF Unwritten, Written, Ascending, Informed
<1>. QED
  BY <1>3, <1>4, <1>5 DEF StreamInv

\* Every step of the server and of the page keeps the invariant.
LEMMA StreamSteps == StreamInv /\ [StreamNext]_streamVars => StreamInv'
<1> SUFFICES ASSUME StreamInv, [StreamNext]_streamVars PROVE StreamInv'
  OBVIOUS
<1>1. CASE UNCHANGED streamVars
  BY <1>1 DEF streamVars, StreamInv, StreamTypeOK, Connected, Numbered, Unwritten, Written,
     Informed, UpToDate, LastEvent
<1>2. CASE StreamNext
  BY <1>2, BroadcastStep, ConnectStep, WriteStep, HeartbeatStep, BreakStep, OpenPageStep,
     NavigateStep, ReceiveStep, ClosePageStep DEF StreamNext
<1>. QED
  BY <1>1, <1>2

\* The invariant implies the two properties of a page: broadcasts come in order
\* and none twice, and a live view for which nothing is under way is up to date.
LEMMA StreamPromises == StreamInv => NoneTwice /\ PageCurrent
<1> SUFFICES ASSUME StreamInv PROVE NoneTwice /\ PageCurrent
  OBVIOUS
<1> DEFINE r == stream.replay
           q == stream.queue
           u == r \o q
<1>1. /\ r \in Seq(EventID) /\ q \in Seq(EventID) /\ Ascending(r) /\ Ascending(q)
      /\ \A k \in DOMAIN r : \A l \in DOMAIN q : r[k] < q[l]
      /\ \A k \in DOMAIN r : page.seen < r[k]
      /\ \A l \in DOMAIN q : page.seen < q[l]
  BY StreamTyped DEF StreamData, StreamInv, Unwritten
<1>2. \A i \in DOMAIN wire : ~wire[i].beat =>
        /\ page.seen < wire[i].id
        /\ \A j \in DOMAIN wire : ~wire[j].beat /\ i < j => wire[i].id < wire[j].id
        /\ \A k \in DOMAIN r : wire[i].id < r[k]
        /\ \A l \in DOMAIN q : wire[i].id < q[l]
  BY DEF StreamInv, Written
<1> HIDE DEF r, q
<1>3. ASSUME NEW k \in DOMAIN u
      PROVE  \/ k \in DOMAIN r /\ u[k] = r[k]
             \/ k - Len(r) \in DOMAIN q /\ u[k] = q[k - Len(r)] /\ k > Len(r)
  BY <1>1, ConcatProperties
<1>4. DOMAIN r = 1..Len(r) /\ Len(r) \in Nat /\ DOMAIN u = 1..Len(u) /\ Len(u) \in Nat
  BY <1>1, ConcatProperties
<1> HIDE DEF u
<1>5. Ascending(u)
  <2>1. ASSUME NEW i \in DOMAIN u, NEW j \in DOMAIN u, i < j PROVE u[i] < u[j]
    <3>1. CASE i \in DOMAIN r /\ j \in DOMAIN r /\ u[i] = r[i] /\ u[j] = r[j]
      BY <1>1, <2>1, <3>1 DEF Ascending
    <3>2. CASE i \in DOMAIN r /\ u[i] = r[i] /\ j - Len(r) \in DOMAIN q /\ u[j] = q[j - Len(r)]
      BY <1>1, <3>2
    <3>3. CASE /\ i - Len(r) \in DOMAIN q /\ u[i] = q[i - Len(r)]
               /\ j - Len(r) \in DOMAIN q /\ u[j] = q[j - Len(r)]
      <4>1. i - Len(r) < j - Len(r)
        BY <1>4, <2>1
      <4>. QED
        BY <1>1, <3>3, <4>1 DEF Ascending
    <3>4. ~(i > Len(r) /\ j \in DOMAIN r)
      BY <1>4, <2>1
    <3>. QED
      BY <1>3, <3>1, <3>2, <3>3, <3>4
  <2>. QED
    BY <2>1 DEF Ascending
<1>6. NoneTwice
  BY <1>1, <1>2, <1>3, <1>5 DEF NoneTwice, u, r, q
<1>7. PageCurrent
  BY DEF StreamInv, PageCurrent, Quiet, Informed, UpToDate
<1>. QED
  BY <1>6, <1>7

\* The stream's own invariant, from which the two properties follow.
THEOREM StreamSafe == StreamSpec => []StreamInv
<1>. QED
  BY StreamStarts, StreamSteps, PTL DEF StreamSpec

\* handleEvents and EventSource (portal_api.go:600-663): whatever is dropped,
\* replayed, lost or overtaken by a heartbeat, broadcasts reach a page in order
\* and none of them twice.
THEOREM BroadcastsComeOnce == StreamSpec => []NoneTwice
<1>. QED
  BY StreamSafe, StreamPromises, PTL

\* A view that fetches again on every event (App.tsx:56-63), connected and with
\* nothing under way, shows the newest snapshot, unless a heartbeat passed a
\* queued event.
THEOREM PagesAreCurrent == StreamSpec => []PageCurrent
<1>. QED
  BY StreamSafe, StreamPromises, PTL

=============================================================================

------------------------ MODULE SmtCacheOrder_proofs ------------------------
(* The second layer of SmtCache's invariant: the heights.                           *)
EXTENDS SmtCacheTypes_proofs

\* What the heights are.
LEMMA HeightTypes ==
    ASSUME TypeInv
    PROVE  /\ DbHeight \in Nat /\ Height \in Nat
           /\ toPush # <<>> => PushHeight \in Nat
           /\ \A m \in InFlight : m \in Images
           /\ \A m \in Filled : m \in Images /\ m.height \in Nat /\ m.data \in Data /\ m.data # <<>>
           /\ \A i \in DOMAIN current : current[i] \in Snapshots /\ current[i].height \in Nat
           /\ \A i \in DOMAIN snapshots : snapshots[i] \in Snapshots /\ snapshots[i].height \in Nat
           /\ \A w \in Slots : worker[w].image.height \in Nat /\ worker[w].top \in Nat
           /\ confirmed.data \subseteq Nat
           /\ \A t \in {"batch", "stop"} : flusher[t].height \in Nat
<1> USE DEF TypeInv
<1>1. DbHeight \in Nat /\ Height \in Nat
  <2>1. db \in [AllKeys -> Heights]
    BY Zenon DEF DataTypes, Trees
  <2>2. Len(tree) \in 1 .. (MaxBlocks + 1)
    BY Zenon DEF DataTypes
  <2>3. DbHeight \in Heights
    BY Zenon, <2>1, Constants DEF DbHeight
  <2>4. Height \in Nat
    BY <2>2, Constants DEF Height
  <2> QED
    BY Zenon, <2>3, <2>4, Constants
<1>2. toPush # <<>> => PushHeight \in Nat
  <2>1. PICK D \in SUBSET AllKeys : toPush \in [D -> Heights]
    BY Zenon DEF DataTypes, Data
  <2>2. toPush # <<>> => "lastHeight" \in D
    BY Zenon, <2>1 DEF Shapes
  <2> QED
    BY Zenon, <2>1, <2>2, Constants DEF PushHeight
<1>3. \A m \in InFlight : m \in Images
  BY DEF InFlight, ThreadTypes, Workers, Dispatchers, Flushing
<1>4. \A m \in Images : m.height \in Nat /\ m.data \in Data
  BY Zenon, Constants DEF Images
<1>5. \A m \in Filled : m \in Images /\ m.height \in Nat /\ m.data \in Data /\ m.data # <<>>
  BY Zenon, <1>3, <1>4 DEF Filled
<1>6. /\ \A i \in DOMAIN current : current[i] \in Snapshots
      /\ \A i \in DOMAIN snapshots : snapshots[i] \in Snapshots
  BY DEF DataTypes
<1>7. \A s \in Snapshots : s.height \in Nat
  BY DEF Snapshots
<1>8. \A w \in Slots : worker[w].image \in Images /\ worker[w].top \in Nat
  BY Zenon, Constants DEF ThreadTypes, Workers
<1>9. confirmed.data \subseteq Nat
  BY Zenon, Constants DEF HeapTypes, Heaps
<1>10. \A t \in {"batch", "stop"} : flusher[t].height \in Nat
  BY Zenon, Constants DEF ThreadTypes, Flushers
<1> QED
  BY Zenon, <1>1, <1>2, <1>3, <1>4, <1>5, <1>6, <1>7, <1>8, <1>9, <1>10

-----------------------------------------------------------------------------
(* The images in flight. *)

\* The images in flight stay where they are.
LineSame ==
    /\ Flushing' = Flushing /\ \A w \in Flushing : worker'[w].image = worker[w].image
    /\ dispatcher'.held = dispatcher.held
    /\ UNCHANGED channel

LEMMA LineFrame ==
    ASSUME LineSame
    PROVE  /\ Filled' = Filled
           /\ TypeInv /\ db' = db /\ Height <= Height' /\ Height' \in Nat /\ LineOK => LineOK'
<1>1. InFlight' = InFlight
  BY Zenon DEF LineSame, InFlight
<1>2. Filled' = Filled
  BY Zenon, <1>1 DEF Filled
<1>3. LineOrdered => LineOrdered'
  BY Zenon DEF LineSame, LineOrdered, Ordered
<1>4. ASSUME TypeInv, db' = db, Height <= Height', Height' \in Nat, LineOK PROVE LineOK'
  <2>1. DbHeight' = DbHeight
    BY Zenon, <1>4 DEF DbHeight
  <2>2. \A m \in Filled : m.height \in Nat
    BY Zenon, <1>4, HeightTypes
  <2>3. DbHeight \in Nat /\ Height \in Nat
    BY Zenon, <1>4, HeightTypes
  <2>4. DbHeight' <= Height'
    BY <1>4, <2>1, <2>3 DEF LineOK
  <2>5. \A m \in Filled : DbHeight' <= m.height /\ m.height <= Height'
    BY <1>4, <2>1, <2>2, <2>3 DEF LineOK
  <2> QED
    BY Zenon, <1>2, <1>3, <1>4, <2>4, <2>5 DEF LineOK, Stamped
<1> QED
  BY Zenon, <1>2, <1>4

LEMMA ReceiveLine ==
    ASSUME TypeInv, Receive
    PROVE  Filled' = Filled /\ (LineOK => LineOK')
<1>1. /\ UNCHANGED <<worker, db, tree>> /\ dispatcher.held = NoImage
      /\ dispatcher'.held = channel[1] /\ channel' = Tail(channel)
      /\ channel \in Seq(Images) /\ channel # <<>>
  BY DEF Receive, TypeInv, ThreadTypes, Dispatchers, seqVars
<1>2. /\ 1 \in DOMAIN channel /\ DOMAIN channel \subseteq Int
      /\ \A i \in DOMAIN channel' : i + 1 \in DOMAIN channel /\ channel'[i] = channel[i + 1]
      /\ \A i \in DOMAIN channel : i = 1 \/ (i - 1 \in DOMAIN channel' /\ channel'[i - 1] = channel[i])
      /\ DOMAIN channel' \subseteq Nat \ {0}
  <2>1. /\ DOMAIN channel = 1 .. Len(channel) /\ DOMAIN channel' = 1 .. (Len(channel) - 1)
        /\ 1 \in DOMAIN channel
        /\ \A i \in DOMAIN channel' : i + 1 \in DOMAIN channel /\ channel'[i] = channel[i + 1]
        /\ \A i \in DOMAIN channel : i = 1 \/ i - 1 \in DOMAIN channel'
    BY Zenon, <1>1, ListTail
  <2>2. \A i \in DOMAIN channel : i - 1 \in DOMAIN channel' => channel'[i - 1] = channel[i]
    <3>1. \A i \in DOMAIN channel : (i - 1) + 1 = i
      BY <2>1
    <3> QED
      BY Zenon, <2>1, <3>1
  <2> QED
    BY <2>1, <2>2
<1>3. Flushing' = Flushing
  BY Zenon, <1>1 DEF Flushing
<1>4. NoImage.data = <<>>
  BY Zenon DEF NoImage
<1>5. Filled' \subseteq Filled
  BY <1>1, <1>2, <1>3 DEF Filled, InFlight
<1>6. ASSUME NEW m \in Filled PROVE m \in Filled'
  <2>1. m.data # <<>> /\ m \in InFlight
    BY Zenon DEF Filled
  <2>2. m \in InFlight'
    <3>1. CASE m \in {worker[w].image : w \in Flushing}
      BY Zenon, <1>1, <1>3, <3>1 DEF InFlight
    <3>2. CASE \E i \in DOMAIN channel : m = channel[i]
      <4>1. PICK i \in DOMAIN channel : m = channel[i]
        BY Zenon, <3>2
      <4>2. i = 1 \/ (i - 1 \in DOMAIN channel' /\ channel'[i - 1] = m)
        BY Zenon, <1>2, <4>1
      <4>3. i = 1 => m = dispatcher'.held
        BY Zenon, <1>1, <4>1
      <4> QED
        BY Zenon, <4>2, <4>3 DEF InFlight
    <3> QED
      BY Zenon, <1>1, <1>4, <2>1, <3>1, <3>2 DEF InFlight
  <2> QED
    BY Zenon, <2>1, <2>2 DEF Filled
<1>7. ASSUME LineOrdered PROVE LineOrdered'
  <2>1. \A i \in DOMAIN channel' : 1 < i + 1
    BY <1>2
  <2>2. \A i, j \in DOMAIN channel' : i < j => i + 1 < j + 1
    BY <1>2
  <2>3. \A i \in DOMAIN channel' : Ordered(dispatcher'.held, channel'[i])
    BY Zenon, <1>1, <1>2, <1>7, <2>1 DEF LineOrdered
  <2>4. \A i, j \in DOMAIN channel' : i < j => Ordered(channel'[i], channel'[j])
    BY Zenon, <1>2, <1>7, <2>2 DEF LineOrdered
  <2>5. \A w \in Flushing : /\ Ordered(worker[w].image, dispatcher'.held)
                            /\ \A i \in DOMAIN channel' : Ordered(worker[w].image, channel'[i])
    BY Zenon, <1>1, <1>2, <1>7 DEF LineOrdered
  <2> QED
    BY Zenon, <1>1, <1>3, <2>3, <2>4, <2>5 DEF LineOrdered, Ordered
<1>8. DbHeight' = DbHeight /\ Height' = Height
  BY Zenon, <1>1 DEF DbHeight, Height
<1> QED
  BY Zenon, <1>5, <1>6, <1>7, <1>8 DEF LineOK, Stamped

LEMMA DispatchLine ==
    ASSUME TypeInv, Dispatch
    PROVE  Filled' = Filled /\ (LineOK => LineOK')
<1>1. PICK w \in Slots :
        /\ worker[w].pc = "free"
        /\ worker' = [worker EXCEPT ![w] = [pc |-> "flush", image |-> dispatcher.held, top |-> 0]]
  BY Zenon DEF Dispatch
<1>2. /\ UNCHANGED <<channel, db, tree>> /\ dispatcher'.held = NoImage /\ NoImage.data = <<>>
  BY Zenon DEF Dispatch, TypeInv, ThreadTypes, Dispatchers, seqVars, NoImage
<1>3. /\ Flushing' = Flushing \cup {w} /\ w \notin Flushing
      /\ worker'[w].image = dispatcher.held
      /\ \A v \in Flushing : worker'[v].image = worker[v].image
  BY Zenon, <1>1 DEF Flushing, TypeInv, ThreadTypes
<1>4. Filled' = Filled
  BY Zenon, <1>2, <1>3 DEF Filled, InFlight
<1>5. ASSUME LineOrdered PROVE LineOrdered'
  BY <1>2, <1>3, <1>5 DEF LineOrdered, Ordered
<1>6. DbHeight' = DbHeight /\ Height' = Height
  BY Zenon, <1>2 DEF DbHeight, Height
<1> QED
  BY Zenon, <1>4, <1>5, <1>6 DEF LineOK, Stamped

\* A write that fails, or the image of a worker that is done, leaves the line.
LEMMA LeaveLine ==
    ASSUME TypeInv, NEW w \in Slots, NEW p, p # "flush",
           worker[w].pc = "flush", worker' = [worker EXCEPT ![w].pc = p],
           UNCHANGED <<channel, dispatcher>>
    PROVE  /\ Filled' \subseteq Filled
           /\ \A m \in Filled : m \in Filled' \/ m = worker[w].image
           /\ LineOrdered => LineOrdered'
           /\ worker[w].image.data # <<>> => worker[w].image \in Filled
           /\ worker[w].image.data = <<>> => Filled' = Filled
<1>1. /\ w \in Flushing /\ Flushing' = Flushing \ {w}
      /\ \A v \in Slots : worker'[v].image = worker[v].image
  BY Zenon DEF Flushing, TypeInv, ThreadTypes, Workers
<1>2. Filled' \subseteq Filled
  BY <1>1 DEF Filled, InFlight, Flushing
<1>3. \A m \in Filled : m \in Filled' \/ m = worker[w].image
  BY <1>1 DEF Filled, InFlight, Flushing
<1>4. LineOrdered => LineOrdered'
  BY Zenon, <1>1 DEF LineOrdered, Ordered, Flushing
<1>5. worker[w].image.data # <<>> => worker[w].image \in Filled
  BY Zenon, <1>1 DEF Filled, InFlight
<1>6. worker[w].image.data = <<>> => worker[w].image \notin Filled
  BY Zenon DEF Filled
<1> QED
  BY Zenon, <1>2, <1>3, <1>4, <1>5, <1>6

LEMMA FlushFailsLine ==
    ASSUME TypeInv, NEW w \in Slots, FlushFails(w)
    PROVE  Filled' \subseteq Filled /\ (LineOK => LineOK')
<1>1. /\ worker[w].pc = "flush" /\ worker' = [worker EXCEPT ![w].pc = "free"]
      /\ UNCHANGED <<channel, dispatcher, db, tree>>
  BY Zenon DEF FlushFails, seqVars
<1>2. Filled' \subseteq Filled /\ (LineOrdered => LineOrdered')
  BY Zenon, <1>1, LeaveLine
<1>3. DbHeight' = DbHeight /\ Height' = Height
  BY Zenon, <1>1 DEF DbHeight, Height
<1> QED
  BY Zenon, <1>2, <1>3 DEF LineOK, Stamped

\* A write takes the lowest image of the line: the database moves on to its block.
LEMMA FlushLine ==
    ASSUME InOrder, TypeInv, LineOK, NEW w \in Slots, Flush(w)
    PROVE  /\ Filled' \subseteq Filled
           /\ LineOK'
           /\ DbHeight <= DbHeight'
           /\ worker[w].image.data = <<>> => Filled' = Filled /\ db' = db /\ DbHeight' = DbHeight
           /\ worker[w].image.data # <<>> =>
                /\ worker[w].image \in Filled
                /\ \A m \in Filled : m \in Filled' \/ m = worker[w].image
                /\ DbHeight' = worker[w].image.height
                /\ \A m \in Filled : worker[w].image.height <= m.height
<1> DEFINE image == worker[w].image
<1>1. /\ worker[w].pc = "flush" /\ worker' = [worker EXCEPT ![w].pc = "confirm"]
      /\ UNCHANGED <<channel, dispatcher, tree>>
      /\ db' = Merge(db, image.data)
      /\ \A v \in Slots : worker[v].pc = "flush" => image.height <= worker[v].image.height
  BY Zenon DEF Flush, seqVars
<1>2. /\ Filled' \subseteq Filled
      /\ \A m \in Filled : m \in Filled' \/ m = image
      /\ LineOrdered => LineOrdered'
      /\ image.data # <<>> => image \in Filled
      /\ image.data = <<>> => Filled' = Filled
  BY Zenon, <1>1, LeaveLine
<1>3. db \in Trees /\ image \in Images /\ image.data \in Data
  BY Zenon DEF TypeInv, DataTypes, ThreadTypes, Workers, Images
<1>4. image.data = <<>> => db' = db
  BY Zenon, <1>1, <1>3, MergeTree
<1>5. /\ DbHeight \in Nat /\ Height \in Nat /\ Height' = Height
      /\ \A m \in Filled : m.height \in Nat
  BY Zenon, <1>1, HeightTypes DEF Height
<1>6. CASE image.data = <<>>
  <2>1. DbHeight' = DbHeight
    BY Zenon, <1>4, <1>6 DEF DbHeight
  <2>2. LineOK'
    BY Zenon, <1>2, <1>5, <1>6, <2>1 DEF LineOK, Stamped
  <2> QED
    BY <1>2, <1>4, <1>5, <1>6, <2>1, <2>2
<1>7. CASE image.data # <<>>
  <2>1. Stamped(image) /\ DbHeight <= image.height /\ image.height <= Height
    BY Zenon, <1>2, <1>7 DEF LineOK
  <2>2. DbHeight' = image.height
    BY Zenon, <1>1, <1>3, <2>1, MergeTree DEF DbHeight, Stamped
  <2>3. ASSUME NEW m \in Filled PROVE image.height <= m.height
    <3>1. m.data # <<>> /\ m \in InFlight
      BY Zenon DEF Filled
    <3>2. w \in Flushing
      BY Zenon, <1>1 DEF Flushing
    <3>3. CASE m \in {worker[v].image : v \in Flushing}
      BY Zenon, <1>1, <3>3 DEF Flushing
    <3>4. CASE m = dispatcher.held \/ \E i \in DOMAIN channel : m = channel[i]
      BY Zenon, <1>7, <3>1, <3>2, <3>4 DEF LineOK, LineOrdered, Ordered
    <3> QED
      BY Zenon, <3>1, <3>3, <3>4 DEF InFlight
  <2>4. DbHeight <= DbHeight' /\ DbHeight' <= Height'
    BY Zenon, <1>5, <2>1, <2>2
  <2>5. LineOK'
    BY Zenon, <1>2, <1>5, <2>2, <2>3, <2>4 DEF LineOK, Stamped
  <2> QED
    BY Zenon, <1>2, <1>7, <2>2, <2>3, <2>4, <2>5
<1> QED
  BY Zenon, <1>6, <1>7

\* The image a flusher sends.
Sent(t) == [height |-> flusher[t].height, data |-> toPush]

\* A flusher that is about to send has collected everything.
LEMMA SendFacts ==
    ASSUME TypeInv, BatchOK, NEW t \in {"batch", "stop"}, flusher[t].pc \in {"send", "mark"}
    PROVE  /\ current = <<>> /\ ~ Pending
           /\ toPush # <<>> => flusher[t].height = Height /\ PushHeight = Height /\ Stamped(Sent(t))
<1>1. current = <<>> /\ (toPush # <<>> => flusher[t].height = Height)
  BY Zenon DEF BatchOK
<1>2. ~ Pending
  BY Zenon, <1>1 DEF BatchOK
<1>3. Len(current) = Extra
  BY Zenon, <1>1, <1>2 DEF Extra
<1>4. toPush # <<>> => PushHeight = Height
  BY Zenon, <1>3 DEF BatchOK
<1>5. toPush # <<>> => "lastHeight" \in DOMAIN toPush
  BY Zenon DEF TypeInv, Shapes
<1> QED
  BY Zenon, <1>1, <1>2, <1>4, <1>5 DEF Stamped, Sent, PushHeight

\* An image joins the line at its end.
LEMMA FlushSendLine ==
    ASSUME TypeInv, LineOK, BatchOK, NEW t \in {"batch", "stop"}, FlushSend(t)
    PROVE  /\ LineOK'
           /\ flusher'[t].pc = "mark" => channel' = Append(channel, Sent(t))
           /\ flusher'[t].pc = "mark" /\ toPush # <<>> => Filled' = Filled \cup {Sent(t)}
           /\ flusher'[t].pc # "mark" \/ toPush = <<>> => Filled' = Filled
<1>1. /\ UNCHANGED <<worker, dispatcher, db, tree>> /\ flusher[t].pc = "send"
      /\ \/ flusher'[t].pc = "mark" /\ channel' = Append(channel, Sent(t))
         \/ flusher'[t].pc = "off" /\ channel' = channel
  BY DEF FlushSend, Sent, seqVars, TypeInv, ThreadTypes, Flushers
<1>2. toPush # <<>> => Sent(t).height = Height /\ Stamped(Sent(t))
  BY Zenon, <1>1, SendFacts DEF Sent
<1>3. Flushing' = Flushing
  BY Zenon, <1>1 DEF Flushing
<1>4. DbHeight' = DbHeight /\ Height' = Height /\ DbHeight \in Nat /\ Height \in Nat
  BY Zenon, <1>1, HeightTypes DEF DbHeight, Height
<1>5. CASE channel' = channel
  <2>1. LineSame
    BY Zenon, <1>1, <1>3, <1>5 DEF LineSame
  <2>2. flusher'[t].pc = "off"
    <3>1. channel \in Seq(Images)
      BY Zenon DEF TypeInv, ThreadTypes
    <3>2. Sent(t) \in Images
      BY Zenon DEF TypeInv, ThreadTypes, DataTypes, Flushers, Images, Sent
    <3>3. Append(channel, Sent(t)) # channel
      <4>1. Len(Append(channel, Sent(t))) = Len(channel) + 1 /\ Len(channel) \in Nat
        BY <3>1, <3>2
      <4> QED
        BY <4>1
    <3> QED
      BY Zenon, <1>1, <1>5, <3>3
  <2> QED
    BY <1>1, <1>4, <2>1, <2>2, LineFrame
<1>6. CASE channel' # channel
  <2> DEFINE n == Len(channel)
  <2>1. flusher'[t].pc = "mark" /\ channel' = Append(channel, Sent(t))
    BY Zenon, <1>1, <1>6
  <2>2. Sent(t) \in Images /\ Sent(t).data = toPush /\ channel \in Seq(Images)
    BY Zenon DEF TypeInv, ThreadTypes, DataTypes, Flushers, Images, Sent
  <2>3. /\ DOMAIN channel' = 1 .. (n + 1) /\ DOMAIN channel = 1 .. n /\ n \in Nat
        /\ \A i \in DOMAIN channel : i \in DOMAIN channel' /\ channel'[i] = channel[i]
        /\ channel'[n + 1] = Sent(t)
    BY <2>1, <2>2, ListAppend
  <2> HIDE DEF n
  <2>4. \A i \in DOMAIN channel' : i \in DOMAIN channel \/ i = n + 1
    BY <2>3
  <2>5. n + 1 \in DOMAIN channel' /\ \A i \in DOMAIN channel : ~ (n + 1 < i)
    BY <2>3
  <2>6. InFlight' = InFlight \cup {Sent(t)}
    BY Zenon, <1>1, <1>3, <2>3, <2>4, <2>5 DEF InFlight
  <2>7. /\ toPush # <<>> => Filled' = Filled \cup {Sent(t)}
        /\ toPush = <<>> => Filled' = Filled
    BY Zenon, <2>2, <2>6 DEF Filled
  <2>8. \A m \in InFlight : Ordered(m, Sent(t))
    BY Zenon, <1>2, <2>2 DEF LineOK, Ordered, Filled
  <2>9. LineOrdered'
    <3>1. \A w \in Flushing, i \in DOMAIN channel' : Ordered(worker[w].image, channel'[i])
      BY Zenon, <2>3, <2>4, <2>8 DEF LineOK, LineOrdered, InFlight
    <3>2. \A i \in DOMAIN channel' : Ordered(dispatcher.held, channel'[i])
      BY Zenon, <2>3, <2>4, <2>8 DEF LineOK, LineOrdered, InFlight
    <3>3. \A i, j \in DOMAIN channel' : i < j => Ordered(channel'[i], channel'[j])
      <4> SUFFICES ASSUME NEW i \in DOMAIN channel', NEW j \in DOMAIN channel', i < j
                   PROVE  Ordered(channel'[i], channel'[j])
        OBVIOUS
      <4>1. i \in DOMAIN channel
        BY <2>3, <2>4
      <4>2. channel[i] \in InFlight /\ channel'[i] = channel[i]
        BY Zenon, <2>3, <4>1 DEF InFlight
      <4>3. CASE j \in DOMAIN channel
        BY Zenon, <2>3, <4>1, <4>3 DEF LineOK, LineOrdered
      <4>4. CASE j = n + 1
        BY Zenon, <2>3, <2>8, <4>2, <4>4
      <4> QED
        BY Zenon, <2>4, <4>3, <4>4
    <3> QED
      BY Zenon, <1>1, <1>3, <3>1, <3>2, <3>3 DEF LineOK, LineOrdered, Ordered
  <2>10. LineOK'
    BY <1>2, <1>4, <2>7, <2>9 DEF LineOK, Stamped
  <2> QED
    BY Zenon, <2>1, <2>7, <2>10
<1> QED
  BY Zenon, <1>5, <1>6

-----------------------------------------------------------------------------
(* What is collected. *)

\* A step of a worker or of the dispatcher.
LEMMA BatchFrame ==
    ASSUME TypeInv, LineOK, BatchOK,
           UNCHANGED <<toPush, current, flusher, seq, committed, tree, lastRecord>>,
           Filled' \subseteq Filled,
           DbHeight' = DbHeight \/ \E m \in Filled : DbHeight' = m.height,
           errors' = errors \/ errors' # <<>>
    PROVE  BatchOK'
<1>1. PushHeight' = PushHeight /\ Height' = Height /\ (Pending' <=> Pending) /\ Extra' = Extra
  BY Zenon DEF PushHeight, Height, Pending, Extra
<1>2. Newly(current)' = Newly(current)
  BY Zenon DEF Newly
<1>3. toPush # <<>> => /\ DbHeight' <= PushHeight /\ PushHeight <= Height
                       /\ \A m \in Filled' : m.height <= PushHeight
                       /\ Len(current) = Extra => PushHeight = Height
  BY Zenon DEF BatchOK
<1>4. \A i \in DOMAIN current : /\ DbHeight' < current[i].height
                                /\ \A m \in Filled' : m.height < current[i].height
  BY Zenon DEF BatchOK
<1> QED
  BY Zenon, <1>1, <1>2, <1>3, <1>4 DEF BatchOK

\* The steps of the sequencer.
LEMMA StartStepBatch == TypeInv /\ BatchOK /\ StartStep /\ Filled' = Filled => BatchOK'
<1> SUFFICES ASSUME TypeInv, BatchOK, StartStep, Filled' = Filled PROVE BatchOK'
  OBVIOUS
<1>1. UNCHANGED <<db, toPush, current, flusher, tree, lastRecord, errors>> /\ ~ committed'
      /\ seq = "between" /\ seq' = "step"
  BY Zenon DEF StartStep, cacheVars
<1>2. /\ PushHeight' = PushHeight /\ Height' = Height /\ (Pending' <=> Pending) /\ Extra' = Extra
      /\ DbHeight' = DbHeight /\ Newly(current)' = Newly(current)
  BY Zenon, <1>1 DEF PushHeight, Height, Pending, Extra, DbHeight, Newly
<1> QED
  BY Zenon, <1>1, <1>2 DEF BatchOK

LEMMA EndStepBatch == TypeInv /\ BatchOK /\ EndStep /\ Filled' = Filled => BatchOK'
<1> SUFFICES ASSUME TypeInv, BatchOK, EndStep, Filled' = Filled PROVE BatchOK'
  OBVIOUS
<1>1. /\ UNCHANGED <<db, toPush, current, tree, lastRecord, errors>> /\ committed
      /\ seq = "step" /\ seq' = "between" /\ flusher["batch"].pc = "off"
      /\ flusher'["batch"].pc = "merge" /\ flusher'["stop"] = flusher["stop"]
  BY Zenon DEF EndStep, cacheVars, TypeInv, ThreadTypes, Flushers, Control
<1>2. /\ PushHeight' = PushHeight /\ Height' = Height /\ ~ Pending' /\ ~ Pending /\ Extra' = Extra
      /\ DbHeight' = DbHeight /\ Newly(current)' = Newly(current)
  BY Zenon, <1>1 DEF PushHeight, Height, Pending, Extra, DbHeight, Newly
<1> QED
  BY Zenon, <1>1, <1>2 DEF BatchOK

LEMMA FailBeforeCommitBatch == TypeInv /\ BatchOK /\ FailBeforeCommit /\ Filled' = Filled => BatchOK'
<1> SUFFICES ASSUME TypeInv, BatchOK, FailBeforeCommit, Filled' = Filled PROVE BatchOK'
  OBVIOUS
<1>1. /\ UNCHANGED <<db, toPush, current, tree, lastRecord>> /\ errors' # <<>>
      /\ seq = "recorded" /\ seq' = "between" /\ flusher["batch"].pc = "off"
      /\ flusher'["batch"].pc = "reset" /\ flusher'["stop"] = flusher["stop"]
  BY DEF FailBeforeCommit, Fails, cacheVars, TypeInv, ThreadTypes, Flushers, Control
<1>2. /\ PushHeight' = PushHeight /\ Height' = Height /\ Pending' /\ Pending /\ Extra' = Extra
      /\ DbHeight' = DbHeight /\ Newly(current)' = Newly(current)
  BY Zenon, <1>1 DEF PushHeight, Height, Pending, Extra, DbHeight, Newly
<1> QED
  BY Zenon, <1>1, <1>2 DEF BatchOK

LEMMA FailInCommitBatch == TypeInv /\ BatchOK /\ FailInCommit /\ Filled' = Filled => BatchOK'
<1> SUFFICES ASSUME TypeInv, BatchOK, FailInCommit, Filled' = Filled PROVE BatchOK'
  OBVIOUS
<1>1. /\ UNCHANGED <<db, toPush, current, tree, lastRecord, flusher>> /\ errors' # <<>>
      /\ seq = "recorded" /\ seq' = "between" /\ flusher["batch"].pc = "off"
  BY DEF FailInCommit, Fails, cacheVars, TypeInv, ThreadTypes, Flushers, Control
<1>2. /\ PushHeight' = PushHeight /\ Height' = Height /\ ~ Pending' /\ Pending /\ Extra' = 0
      /\ DbHeight' = DbHeight /\ Newly(current)' = Newly(current)
  BY Zenon, <1>1 DEF PushHeight, Height, Pending, Extra, DbHeight, Newly
<1>3. current # <<>>
  BY Zenon, <1>2 DEF BatchOK
<1>4. Len(current) # 0
  BY <1>3 DEF TypeInv, DataTypes
<1> QED
  BY Zenon, <1>1, <1>2, <1>4 DEF BatchOK

LEMMA StopBatch == TypeInv /\ BatchOK /\ Stop /\ Filled' = Filled /\ Sound' => BatchOK'
<1> SUFFICES ASSUME TypeInv, BatchOK, Stop, Filled' = Filled, Sound' PROVE BatchOK'
  OBVIOUS
<1>1. /\ UNCHANGED <<db, toPush, current, tree, lastRecord, errors>> /\ errors = <<>>
      /\ seq = "between" /\ seq' = "stopped"
      /\ flusher'["stop"].pc = "merge" /\ flusher'["batch"] = flusher["batch"]
  BY Zenon DEF Stop, Sound, cacheVars, TypeInv, ThreadTypes, Flushers
<1>2. /\ PushHeight' = PushHeight /\ Height' = Height /\ (Pending' <=> Pending) /\ Extra' = Extra
      /\ DbHeight' = DbHeight /\ Newly(current)' = Newly(current)
  BY Zenon, <1>1 DEF PushHeight, Height, Pending, Extra, DbHeight, Newly
<1> QED
  BY <1>1, <1>2 DEF BatchOK

LEMMA SetSmtCacheBatch == TypeInv /\ LineOK /\ BatchOK /\ SetSmtCache /\ Filled' = Filled => BatchOK'
<1> SUFFICES ASSUME TypeInv, LineOK, BatchOK, SetSmtCache, Filled' = Filled PROVE BatchOK'
  OBVIOUS
<1>1. /\ UNCHANGED <<db, toPush, tree, errors, flusher>>
      /\ seq = "step" /\ seq' = "recorded" /\ lastRecord' = Height + 1
      /\ flusher["batch"].pc = "off" /\ flusher["stop"].pc = "off"
  BY Zenon DEF SetSmtCache, TypeInv, Control
<1>2. PICK s \in Snapshots : current' = Append(current, s) /\ s.height = Height + 1
  BY Zenon, SetFacts
<1>3. /\ current' # <<>> /\ Newly(current') = s /\ Len(current') = Len(current) + 1
      /\ \A i \in DOMAIN current' : (i \in DOMAIN current /\ current'[i] = current[i]) \/ current'[i] = s
  BY <1>2, ListAppend DEF TypeInv, DataTypes
<1>4. /\ PushHeight' = PushHeight /\ Height' = Height /\ Pending' /\ ~ Pending
      /\ DbHeight' = DbHeight /\ Newly(current)' = s
  BY Zenon, <1>1, <1>3 DEF PushHeight, Height, Pending, DbHeight, Newly
<1>5. Len(current') = Extra' => Len(current) = Extra
  <2>1. Len(current) \in Nat
    BY DEF TypeInv, DataTypes
  <2>2. Extra' = 1 /\ Extra = 0
    BY Zenon, <1>4 DEF Extra
  <2>3. Len(current') = Len(current) + 1
    BY Zenon, <1>3
  <2>4. Len(current') = 1 => Len(current) = 0
    <3> DEFINE a == Len(current)
               b == Len(current')
    <3>1. a \in Nat /\ b = a + 1
      BY Zenon, <2>1, <2>3
    <3> HIDE DEF a, b
    <3>2. b = 1 => a = 0
      BY <3>1
    <3> QED
      BY Zenon, <3>2 DEF a, b
  <2> QED
    BY Zenon, <2>2, <2>4
<1>6. /\ DbHeight < s.height /\ \A m \in Filled : m.height < s.height
  BY <1>2, HeightTypes DEF LineOK
<1>7. \A i \in DOMAIN current' : /\ DbHeight < current'[i].height
                                 /\ \A m \in Filled : m.height < current'[i].height
  BY Zenon, <1>3, <1>6 DEF BatchOK
<1> QED
  BY Zenon, <1>1, <1>2, <1>3, <1>4, <1>5, <1>7 DEF BatchOK

LEMMA CommitBlockBatch == TypeInv /\ BatchOK /\ CommitBlock /\ Filled' = Filled => BatchOK'
<1> SUFFICES ASSUME TypeInv, BatchOK, CommitBlock, Filled' = Filled PROVE BatchOK'
  OBVIOUS
<1>1. /\ UNCHANGED <<db, toPush, current, lastRecord, errors, flusher>>
      /\ seq = "recorded" /\ seq' = "step"
      /\ flusher["batch"].pc = "off" /\ flusher["stop"].pc = "off"
  BY Zenon DEF CommitBlock, cacheVars, TypeInv, Control
<1>2. Height' = Height + 1
  BY DEF CommitBlock, Height, TypeInv, DataTypes
<1>3. /\ PushHeight' = PushHeight /\ ~ Pending' /\ Pending /\ Extra' = 0
      /\ DbHeight' = DbHeight /\ Newly(current)' = Newly(current)
  BY Zenon, <1>1 DEF PushHeight, Pending, Extra, DbHeight, Newly
<1>4. current # <<>> /\ Newly(current).height = Height + 1
  BY Zenon, <1>3 DEF BatchOK
<1>5. Len(current) # 0
  BY <1>4 DEF TypeInv, DataTypes
<1>6. toPush # <<>> => PushHeight <= Height + 1
  BY HeightTypes DEF BatchOK
<1> QED
  BY <1>1, <1>2, <1>3, <1>4, <1>5, <1>6 DEF BatchOK

\* The reset drops the block that failed from both lists.
LEMMA ResetFacts ==
    ASSUME TypeInv, BatchOK, ResetCurrentBatch
    PROVE  /\ Pending /\ ~ Pending' /\ current # <<>>
           /\ current' = AllButLast(current) /\ current' \in Seq(Snapshots)
           /\ Len(current') = Len(current) - 1
           /\ \A i \in DOMAIN current' : i \in DOMAIN current /\ current'[i] = current[i]
           /\ snapshots' = DeleteTarget(snapshots, Height + 1)
           /\ longLived' = MergeAll(snapshots')
           /\ Newly(current).height = Height + 1
<1>1. flusher["batch"].pc = "reset" /\ flusher'["batch"].pc = "off" /\ seq' = seq
  BY Zenon DEF ResetCurrentBatch, TypeInv, ThreadTypes, Flushers, seqVars
<1>2. seq # "recorded"
  BY Zenon, <1>1 DEF TypeInv, Control
<1>3. Pending /\ ~ Pending'
  BY Zenon, <1>1, <1>2 DEF Pending
<1>4. lastRecord = Height + 1 /\ current # <<>> /\ Newly(current).height = Height + 1
  BY Zenon, <1>3 DEF BatchOK
<1>5. /\ current' = DeleteTarget(current, Height + 1)
      /\ snapshots' = DeleteTarget(snapshots, Height + 1)
      /\ longLived' = MergeAll(snapshots')
  BY <1>4, HeightTypes DEF ResetCurrentBatch
<1>6. current \in Seq(Snapshots)
  BY Zenon DEF TypeInv, DataTypes
<1>7. current' = AllButLast(current)
  BY Zenon, <1>4, <1>5, <1>6, DeleteFacts
<1>8. /\ current' \in Seq(Snapshots) /\ Len(current') = Len(current) - 1
      /\ \A i \in DOMAIN current' : i \in DOMAIN current /\ current'[i] = current[i]
  BY Zenon, <1>4, <1>6, <1>7, ListFront
<1> QED
  BY Zenon, <1>3, <1>4, <1>5, <1>7, <1>8

LEMMA ResetBatch == TypeInv /\ BatchOK /\ ResetCurrentBatch /\ Filled' = Filled => BatchOK'
<1> SUFFICES ASSUME TypeInv, BatchOK, ResetCurrentBatch, Filled' = Filled PROVE BatchOK'
  OBVIOUS
<1>1. /\ UNCHANGED <<db, toPush, tree, errors, seq, committed>>
      /\ flusher["batch"].pc = "reset" /\ flusher'["batch"].pc = "off"
      /\ flusher'["stop"] = flusher["stop"]
  BY Zenon DEF ResetCurrentBatch, cacheVars, seqVars, TypeInv, ThreadTypes, Flushers
<1>2. /\ Pending /\ ~ Pending' /\ current # <<>> /\ Len(current') = Len(current) - 1
      /\ \A i \in DOMAIN current' : i \in DOMAIN current /\ current'[i] = current[i]
  BY Zenon, ResetFacts
<1>3. /\ PushHeight' = PushHeight /\ Height' = Height /\ Extra' = 0 /\ Extra = 1
      /\ DbHeight' = DbHeight
  BY Zenon, <1>1, <1>2 DEF PushHeight, Height, Extra, DbHeight
<1>4. Len(current') = 0 => Len(current) = 1
  <2>1. Len(current) \in Nat
    BY DEF TypeInv, DataTypes
  <2>2. Len(current') = Len(current) - 1
    BY Zenon, <1>2
  <2> QED
    BY <2>1, <2>2
<1>5. seq # "step" /\ errors # <<>> /\ flusher["stop"].pc \notin {"send", "mark"}
  BY Zenon, <1>1, <1>2 DEF TypeInv, Control, BatchOK
<1> QED
  BY Zenon, <1>1, <1>2, <1>3, <1>4, <1>5 DEF BatchOK

\* What a flush collects has the height of the chain.
LEMMA FlushMergeFacts ==
    ASSUME TypeInv, BatchOK, Sound, NEW t \in {"batch", "stop"}, FlushMerge(t)
    PROVE  /\ ~ Pending /\ ~ Pending' /\ seq' = seq /\ seq \in {"between", "stopped"}
           /\ toPush' = Collected /\ current' = <<>>
           /\ current # <<>> => Newly(current).height = Height
           /\ current = <<>> => toPush' = toPush
           /\ toPush' # <<>> => PushHeight' = Height /\ flusher'[t].height = Height
           /\ \A u \in {"batch", "stop"} : u # t => flusher'[u] = flusher[u]
           /\ flusher'[t].pc \in {"send", "off"} /\ flusher[t].pc = "merge"
           /\ UNCHANGED <<db, tree, lastRecord, errors, seq, committed, channel, dispatcher,
                          worker, snapshots>>
<1> DEFINE height == IF Collected = <<>> THEN 0 ELSE Collected["lastHeight"]
           due == (t = "batch") => Since(height, lastPushed, FlushPeriod)
<1>1. /\ UNCHANGED <<db, tree, lastRecord, errors, seq, committed, channel, dispatcher,
                     worker, snapshots>>
      /\ toPush' = Collected /\ current' = <<>> /\ flusher[t].pc = "merge"
      /\ flusher' = [flusher EXCEPT ![t] = [pc |-> IF due THEN "send" ELSE "off", height |-> height]]
  BY Zenon DEF FlushMerge, Collected, seqVars
<1> HIDE DEF due
<1>2. /\ flusher'[t].pc \in {"send", "off"} /\ flusher'[t].height = height
      /\ \A u \in {"batch", "stop"} : u # t => flusher'[u] = flusher[u]
  BY Zenon, <1>1 DEF TypeInv, ThreadTypes
<1>3. seq \in {"between", "stopped"} /\ (t = "stop" => seq = "stopped")
  BY Zenon, <1>1 DEF TypeInv, ThreadTypes, Control
<1>4. seq = "stopped" => errors = <<>> /\ flusher["batch"].pc # "reset"
  BY Zenon DEF Sound, BatchOK
<1>5. flusher["batch"].pc # "reset" /\ flusher'["batch"].pc # "reset"
  BY Zenon, <1>1, <1>2, <1>3, <1>4
<1>6. ~ Pending /\ ~ Pending'
  BY Zenon, <1>1, <1>3, <1>5 DEF Pending
<1>7. current # <<>> => Newly(current).height = Height
  BY Zenon, <1>1, <1>3, <1>4 DEF BatchOK
<1>8. /\ current = <<>> => Collected = toPush
      /\ current # <<>> => Collected["lastHeight"] = Newly(current).height
  BY Zenon, CollectedFacts
<1>9. current = <<>> /\ toPush # <<>> => PushHeight = Height
  <2>1. current = <<>> => Len(current) = Extra
    BY Zenon, <1>6 DEF Extra
  <2> QED
    BY Zenon, <2>1 DEF BatchOK
<1>10. toPush' # <<>> => PushHeight' = Height /\ height = Height
  BY Zenon, <1>1, <1>7, <1>8, <1>9 DEF PushHeight
<1> HIDE DEF height
<1> QED
  BY Zenon, <1>1, <1>2, <1>3, <1>6, <1>7, <1>8, <1>10

LEMMA FlushMergeBatch ==
    ASSUME TypeInv, LineOK, BatchOK, Sound, NEW t \in {"batch", "stop"}, FlushMerge(t), Filled' = Filled
    PROVE  BatchOK'
<1>1. /\ ~ Pending /\ ~ Pending' /\ seq' = seq /\ seq \in {"between", "stopped"}
      /\ toPush' = Collected /\ current' = <<>>
      /\ current = <<>> => toPush' = toPush
      /\ toPush' # <<>> => PushHeight' = Height /\ flusher'[t].height = Height
      /\ \A u \in {"batch", "stop"} : u # t => flusher'[u] = flusher[u]
      /\ flusher'[t].pc \in {"send", "off"} /\ flusher[t].pc = "merge"
      /\ UNCHANGED <<db, tree, lastRecord, errors, committed>>
  BY Zenon, FlushMergeFacts
<1>2. Height' = Height /\ DbHeight' = DbHeight /\ Height \in Nat
  BY Zenon, <1>1, HeightTypes DEF Height, DbHeight
<1>3. toPush' # <<>> => /\ DbHeight' <= PushHeight' /\ PushHeight' <= Height'
                        /\ \A m \in Filled' : m.height <= PushHeight'
                        /\ PushHeight' = Height'
  BY <1>1, <1>2 DEF LineOK
<1>4. t = "stop" => seq = "stopped"
  BY Zenon, <1>1 DEF TypeInv, Control
<1>5. \A u \in {"batch", "stop"} : flusher'[u].pc \in {"send", "mark"} =>
        (toPush' # <<>> => flusher'[u].height = Height')
  <2> SUFFICES ASSUME NEW u \in {"batch", "stop"}, u # t, flusher[u].pc \in {"send", "mark"},
                      toPush' # <<>>
               PROVE  flusher[u].height = Height
    BY Zenon, <1>1, <1>2
  <2>1. current = <<>> /\ (toPush # <<>> => flusher[u].height = Height)
    BY Zenon DEF BatchOK
  <2> QED
    BY Zenon, <1>1, <2>1
<1>6. flusher'["batch"].pc # "reset"
  BY Zenon, <1>1 DEF Pending
<1> QED
  BY <1>1, <1>3, <1>4, <1>5, <1>6 DEF BatchOK

LEMMA FlushSendBatch ==
    ASSUME TypeInv, LineOK, BatchOK, NEW t \in {"batch", "stop"}, FlushSend(t)
    PROVE  BatchOK'
<1>1. /\ UNCHANGED <<toPush, current, db, tree, errors, seq, committed, lastRecord>>
      /\ flusher[t].pc = "send" /\ flusher'[t].pc \in {"mark", "off"}
      /\ flusher'[t].height = flusher[t].height
      /\ \A u \in {"batch", "stop"} : u # t => flusher'[u] = flusher[u]
  BY DEF FlushSend, cacheVars, seqVars, TypeInv, ThreadTypes, Flushers
<1>2. /\ current = <<>> /\ ~ Pending
      /\ toPush # <<>> => flusher[t].height = Height /\ PushHeight = Height
  BY Zenon, <1>1, SendFacts
<1>3. /\ flusher'[t].pc = "mark" /\ toPush # <<>> => Filled' = Filled \cup {Sent(t)}
      /\ flusher'[t].pc # "mark" \/ toPush = <<>> => Filled' = Filled
  BY Zenon, FlushSendLine
<1>4. /\ PushHeight' = PushHeight /\ Height' = Height /\ DbHeight' = DbHeight /\ Height \in Nat
  BY Zenon, <1>1, HeightTypes DEF PushHeight, Height, DbHeight
<1>5. ~ Pending' /\ Extra' = 0
  BY Zenon, <1>1, <1>2 DEF Pending, Extra
<1>6. toPush # <<>> => \A m \in Filled' : m.height <= PushHeight
  BY <1>2, <1>3, <1>4 DEF LineOK, Sent
<1>7. \A u \in {"batch", "stop"} : flusher'[u].pc \in {"send", "mark"} =>
        (toPush # <<>> => flusher'[u].height = Height)
  BY Zenon, <1>1, <1>2 DEF BatchOK
<1>8. seq # "step"
  BY Zenon, <1>1 DEF TypeInv, Control
<1>9. /\ flusher'["batch"].pc = "merge" => flusher["batch"].pc = "merge"
      /\ flusher'["batch"].pc # "reset"
  BY Zenon, <1>1, <1>5 DEF Pending
<1> QED
  BY <1>1, <1>2, <1>4, <1>5, <1>6, <1>7, <1>8, <1>9 DEF BatchOK, LineOK

LEMMA FlushMarkBatch ==
    ASSUME TypeInv, LineOK, BatchOK, NEW t \in {"batch", "stop"}, FlushMark(t), Filled' = Filled
    PROVE  BatchOK'
<1>1. /\ UNCHANGED <<current, db, tree, errors, seq, committed, lastRecord>>
      /\ flusher[t].pc = "mark" /\ flusher'[t].pc = "off" /\ toPush' = <<>>
      /\ \A u \in {"batch", "stop"} : u # t => flusher'[u] = flusher[u]
  BY Zenon DEF FlushMark, seqVars, TypeInv, ThreadTypes, Flushers
<1>2. current = <<>> /\ ~ Pending
  BY Zenon, <1>1, SendFacts
<1>3. ~ Pending'
  BY Zenon, <1>1, <1>2 DEF Pending
<1>4. seq # "step"
  BY Zenon, <1>1 DEF TypeInv, Control
<1>5. /\ flusher'["batch"].pc = "merge" => flusher["batch"].pc = "merge"
      /\ flusher'["batch"].pc # "reset"
  BY Zenon, <1>1, <1>3 DEF Pending
<1> QED
  BY <1>1, <1>2, <1>3, <1>4, <1>5 DEF BatchOK

-----------------------------------------------------------------------------
(* The snapshots, as long as the node runs. *)

LEMMA SnapshotsFrame ==
    ASSUME TypeInv, SnapshotsOK, UNCHANGED <<snapshots, tree>>,
           DbHeight <= DbHeight', DbHeight' \in Nat,
           Pending' => Pending /\ current' = current
    PROVE  SnapshotsOK'
<1>1. Height' = Height /\ Height \in Nat /\ DbHeight \in Nat
  BY Zenon, HeightTypes DEF Height
<1>2. \A n \in 1 .. Height : n <= DbHeight => n <= DbHeight'
  BY <1>1
<1>3. \A n \in 1 .. Height : n <= DbHeight' \/ \E i \in DOMAIN snapshots : snapshots[i].height = n
  BY Zenon, <1>2 DEF SnapshotsOK, Reached
<1>4. Pending' => snapshots' # <<>> /\ Newly(snapshots)' = Newly(current)'
  BY Zenon DEF SnapshotsOK, Newly
<1> QED
  BY Zenon, <1>1, <1>3, <1>4 DEF SnapshotsOK, Reached

LEMMA SetSmtCacheSnapshots == TypeInv /\ SnapshotsOK /\ SetSmtCache => SnapshotsOK'
<1> SUFFICES ASSUME TypeInv, SnapshotsOK, SetSmtCache PROVE SnapshotsOK'
  OBVIOUS
<1>1. PICK s \in Snapshots :
        /\ s.height = Height + 1
        /\ snapshots' = Append(snapshots, s) /\ current' = Append(current, s)
  BY Zenon, SetFacts
<1> DEFINE n == Len(snapshots)
<1>2. snapshots \in Seq(Snapshots) /\ current \in Seq(Snapshots) /\ n \in Nat
  BY DEF TypeInv, DataTypes
<1>3. Height' = Height /\ DbHeight' = DbHeight /\ Height \in Nat
  BY Zenon, HeightTypes DEF SetSmtCache, Height, DbHeight
<1>4. /\ DOMAIN snapshots' = 1 .. (n + 1) /\ DOMAIN snapshots = 1 .. n /\ snapshots'[n + 1] = s
      /\ \A i \in DOMAIN snapshots : i \in DOMAIN snapshots' /\ snapshots'[i] = snapshots[i]
      /\ snapshots' # <<>> /\ Newly(snapshots') = s /\ Newly(current') = s
  BY <1>1, <1>2, ListAppend
<1> HIDE DEF n
<1>5. \A i \in DOMAIN snapshots' : i \in DOMAIN snapshots \/ i = n + 1
  BY <1>2, <1>4
<1>6. \A i \in DOMAIN snapshots' : snapshots'[i].height <= Height + 1
  <2>1. s.height <= Height + 1
    BY <1>1, <1>3
  <2>2. \A i \in DOMAIN snapshots : snapshots[i].height <= Height + 1
    BY Zenon DEF SnapshotsOK
  <2> QED
    BY Zenon, <1>4, <1>5, <2>1, <2>2
<1>7. \A i, j \in DOMAIN snapshots' : i < j => snapshots'[i].height <= snapshots'[j].height
  <2> SUFFICES ASSUME NEW i \in DOMAIN snapshots', NEW j \in DOMAIN snapshots', i < j
               PROVE  snapshots'[i].height <= snapshots'[j].height
    OBVIOUS
  <2>1. i \in DOMAIN snapshots
    BY <1>2, <1>4, <1>5
  <2>2. CASE j \in DOMAIN snapshots
    BY Zenon, <1>4, <2>1, <2>2 DEF SnapshotsOK
  <2>3. CASE j = n + 1
    BY Zenon, <1>1, <1>4, <1>6, <2>3
  <2> QED
    BY Zenon, <1>5, <2>2, <2>3
<1>8. \A h \in 1 .. Height : Reached(h) \/ \E i \in DOMAIN snapshots' : snapshots'[i].height = h
  BY Zenon, <1>4 DEF SnapshotsOK
<1>9. Newly(snapshots)' = Newly(current)'
  BY Zenon, <1>4 DEF Newly
<1> QED
  BY Zenon, <1>3, <1>4, <1>6, <1>7, <1>8, <1>9 DEF SnapshotsOK, Reached

LEMMA CommitBlockSnapshots == TypeInv /\ SnapshotsOK /\ CommitBlock => SnapshotsOK'
<1> SUFFICES ASSUME TypeInv, SnapshotsOK, CommitBlock PROVE SnapshotsOK'
  OBVIOUS
<1>1. /\ UNCHANGED <<snapshots, current, db, flusher>> /\ seq = "recorded" /\ seq' = "step"
      /\ flusher["batch"].pc = "off"
  BY Zenon DEF CommitBlock, cacheVars, TypeInv, Control
<1>2. Height' = Height + 1 /\ Height \in Nat /\ DbHeight' = DbHeight
  BY <1>1, HeightTypes DEF CommitBlock, Height, TypeInv, DataTypes, DbHeight
<1>3. Pending /\ ~ Pending'
  BY Zenon, <1>1 DEF Pending
<1>4. snapshots # <<>> /\ Newly(snapshots).height = Height + 1
  BY Zenon, <1>1, <1>3 DEF SnapshotsOK, TypeInv, Recorded
<1>5. Len(snapshots) \in DOMAIN snapshots /\ snapshots[Len(snapshots)].height = Height + 1
  BY <1>4 DEF Newly, TypeInv, DataTypes
<1>6. \A n \in 1 .. (Height + 1) : n \in 1 .. Height \/ n = Height + 1
  BY <1>2
<1>7. \A n \in 1 .. (Height + 1) : Reached(n) \/ \E i \in DOMAIN snapshots : snapshots[i].height = n
  BY Zenon, <1>5, <1>6 DEF SnapshotsOK
<1>8. \A i \in DOMAIN snapshots : snapshots[i].height <= (Height + 1) + 1
  BY <1>2, HeightTypes DEF SnapshotsOK
<1> QED
  BY Zenon, <1>1, <1>2, <1>3, <1>7, <1>8 DEF SnapshotsOK, Reached

\* The reset drops the failed block from the snapshots.
LEMMA ResetSnapshotFacts ==
    ASSUME TypeInv, BatchOK, SnapshotsOK, ResetCurrentBatch
    PROVE  /\ snapshots # <<>> /\ snapshots' = AllButLast(snapshots)
           /\ Newly(snapshots).height = Height + 1
<1>1. Pending /\ Newly(current).height = Height + 1 /\ snapshots' = DeleteTarget(snapshots, Height + 1)
  BY Zenon, ResetFacts
<1>2. snapshots # <<>> /\ Newly(snapshots).height = Height + 1
  BY Zenon, <1>1 DEF SnapshotsOK
<1> QED
  BY Zenon, <1>1, <1>2, DeleteFacts DEF TypeInv, DataTypes

LEMMA ResetSnapshots == TypeInv /\ BatchOK /\ SnapshotsOK /\ ResetCurrentBatch => SnapshotsOK'
<1> SUFFICES ASSUME TypeInv, BatchOK, SnapshotsOK, ResetCurrentBatch PROVE SnapshotsOK'
  OBVIOUS
<1> DEFINE n == Len(snapshots)
<1>1. snapshots # <<>> /\ snapshots' = AllButLast(snapshots) /\ Newly(snapshots).height = Height + 1
  BY Zenon, ResetSnapshotFacts
<1>2. /\ DOMAIN snapshots' = 1 .. (n - 1) /\ DOMAIN snapshots = 1 .. n /\ n \in Nat
      /\ \A i \in DOMAIN snapshots' : i \in DOMAIN snapshots /\ snapshots'[i] = snapshots[i]
      /\ snapshots[n].height = Height + 1
  BY <1>1, ListFront DEF TypeInv, DataTypes
<1> HIDE DEF n
<1>3. Height' = Height /\ DbHeight' = DbHeight /\ Height \in Nat /\ ~ Pending'
  BY Zenon, HeightTypes, ResetFacts DEF ResetCurrentBatch, Height, DbHeight, seqVars
<1>4. \A i \in DOMAIN snapshots : i = n \/ i \in DOMAIN snapshots'
  BY <1>2
<1>5. ASSUME NEW h \in 1 .. Height, NEW i \in DOMAIN snapshots, snapshots[i].height = h
      PROVE  i \in DOMAIN snapshots'
  <2>1. h # Height + 1
    BY <1>3
  <2> QED
    BY Zenon, <1>2, <1>4, <1>5, <2>1
<1>6. \A h \in 1 .. Height : Reached(h) \/ \E i \in DOMAIN snapshots' : snapshots'[i].height = h
  BY Zenon, <1>2, <1>5 DEF SnapshotsOK
<1>7. \A i, j \in DOMAIN snapshots' : i < j => snapshots'[i].height <= snapshots'[j].height
  BY Zenon, <1>2 DEF SnapshotsOK
<1> QED
  BY Zenon, <1>2, <1>3, <1>6, <1>7 DEF SnapshotsOK, Reached

\* A truncation drops what the database has reached.
LEMMA DeleteSnapshotFacts ==
    ASSUME TypeInv, SnapshotsOK, NEW w \in Slots, DeleteSnapshots(w), Reached(worker[w].top)
    PROVE  \E n \in 0 .. Len(snapshots) :
             /\ \A i \in DOMAIN snapshots : i <= n => Reached(snapshots[i].height)
             /\ DOMAIN snapshots' = 1 .. (Len(snapshots) - n) /\ Len(snapshots') = Len(snapshots) - n
             /\ \A i \in DOMAIN snapshots' : snapshots'[i] = snapshots[n + i] /\ n + i \in DOMAIN snapshots
             /\ \A i \in DOMAIN snapshots : i > n => i - n \in DOMAIN snapshots' /\ snapshots'[i - n] = snapshots[i]
<1> DEFINE h == worker[w].top
           n == Newest(snapshots, h)
<1>1. snapshots' = CascadeDelete(snapshots, h) /\ snapshots \in Seq(Snapshots)
  BY Zenon DEF DeleteSnapshots, TypeInv, DataTypes
<1>2. /\ n \in 0 .. Len(snapshots)
      /\ DOMAIN snapshots' = 1 .. (Len(snapshots) - n) /\ Len(snapshots') = Len(snapshots) - n
      /\ \A i \in DOMAIN snapshots' : snapshots'[i] = snapshots[n + i] /\ n + i \in DOMAIN snapshots
      /\ \A i \in DOMAIN snapshots : i > n => i - n \in DOMAIN snapshots' /\ snapshots'[i - n] = snapshots[i]
  BY <1>1, CascadeFacts
<1>3. n # 0 => n \in DOMAIN snapshots /\ snapshots[n].height = h
  BY Zenon, <1>1, NewestFacts
<1> HIDE DEF n
<1>4. ASSUME NEW i \in DOMAIN snapshots, i <= n PROVE Reached(snapshots[i].height)
  <2>1. n # 0 /\ (i = n \/ i < n)
    BY <1>1, <1>2, <1>4
  <2>2. snapshots[i].height <= h
    BY <1>3, <2>1, HeightTypes DEF SnapshotsOK
  <2> QED
    BY <2>2, HeightTypes DEF Reached
<1> QED
  BY Zenon, <1>2, <1>4

LEMMA DeleteSnapshotsSnapshots ==
    ASSUME TypeInv, LineOK, BatchOK, SnapshotsOK, NEW w \in Slots, DeleteSnapshots(w), Reached(worker[w].top)
    PROVE  SnapshotsOK'
<1>1. PICK n \in 0 .. Len(snapshots) :
        /\ \A i \in DOMAIN snapshots : i <= n => Reached(snapshots[i].height)
        /\ DOMAIN snapshots' = 1 .. (Len(snapshots) - n) /\ Len(snapshots') = Len(snapshots) - n
        /\ \A i \in DOMAIN snapshots' : snapshots'[i] = snapshots[n + i] /\ n + i \in DOMAIN snapshots
        /\ \A i \in DOMAIN snapshots : i > n => i - n \in DOMAIN snapshots' /\ snapshots'[i - n] = snapshots[i]
  BY Zenon, DeleteSnapshotFacts
<1>2. UNCHANGED <<tree, db, current, seq, flusher>>
  BY Zenon DEF DeleteSnapshots, seqVars
<1>3. Height' = Height /\ DbHeight' = DbHeight /\ Height \in Nat /\ DbHeight \in Nat /\ (Pending' <=> Pending)
  BY Zenon, <1>2, HeightTypes DEF Height, DbHeight, Pending
<1>4. Len(snapshots) \in Nat /\ DOMAIN snapshots = 1 .. Len(snapshots)
  BY DEF TypeInv, DataTypes
<1>5. \A i, j \in DOMAIN snapshots' : i < j => snapshots'[i].height <= snapshots'[j].height
  <2>1. \A i, j \in DOMAIN snapshots' : i < j => n + i < n + j
    BY <1>1, <1>4
  <2> QED
    BY Zenon, <1>1, <2>1 DEF SnapshotsOK
<1>6. \A i \in DOMAIN snapshots' : snapshots'[i].height <= Height + 1
  BY Zenon, <1>1 DEF SnapshotsOK
<1>7. ASSUME NEW h \in 1 .. Height, ~ Reached(h)
      PROVE  \E i \in DOMAIN snapshots' : snapshots'[i].height = h
  <2>1. PICK i \in DOMAIN snapshots : snapshots[i].height = h
    BY Zenon, <1>7 DEF SnapshotsOK
  <2>2. ~ (i <= n)
    BY Zenon, <1>1, <1>7, <2>1
  <2>3. i > n
    BY <1>4, <2>2
  <2> QED
    BY Zenon, <1>1, <2>1, <2>3
<1>8. ASSUME Pending PROVE snapshots' # <<>> /\ Newly(snapshots') = Newly(snapshots)
  <2>1. snapshots # <<>> /\ Newly(snapshots).height = Height + 1
    BY Zenon, <1>8 DEF SnapshotsOK, BatchOK
  <2>2. Len(snapshots) \in DOMAIN snapshots /\ snapshots[Len(snapshots)].height = Height + 1
    BY <2>1 DEF Newly, TypeInv, DataTypes
  <2>3. ~ Reached(Height + 1)
    BY <1>3 DEF Reached, LineOK
  <2>4. ~ (Len(snapshots) <= n)
    BY Zenon, <1>1, <2>2, <2>3
  <2>5. Len(snapshots) > n /\ n \in Nat
    BY <1>1, <1>4, <2>4
  <2>6. Len(snapshots) - n \in DOMAIN snapshots' /\ snapshots'[Len(snapshots) - n] = snapshots[Len(snapshots)]
    BY Zenon, <1>1, <2>2, <2>5
  <2>7. snapshots' # <<>>
    BY <2>6
  <2> QED
    BY Zenon, <1>1, <2>6, <2>7 DEF Newly
<1>9. Pending' => snapshots' # <<>> /\ Newly(snapshots)' = Newly(current)'
  <2>1. Newly(snapshots)' = Newly(snapshots') /\ Newly(current)' = Newly(current)
    BY Zenon, <1>2 DEF Newly
  <2> QED
    BY Zenon, <1>3, <1>8, <2>1 DEF SnapshotsOK
<1> QED
  BY Zenon, <1>3, <1>5, <1>6, <1>7, <1>9 DEF SnapshotsOK, Reached

\* While the node runs every image holds a batch.
LEMMA BlankFrame ==
    ASSUME NoneBlank, LineSame, toPush' = toPush,
           flusher'["batch"].pc \in {"send", "mark"} => flusher["batch"].pc \in {"send", "mark"}
    PROVE  NoneBlank'
  BY Zenon DEF NoneBlank, LineSame

\* The workers confirm what the database has.
LEMMA ConfirmedFrame ==
    ASSUME TypeInv, ConfirmedOK, UNCHANGED <<worker, confirmed>>, DbHeight' = DbHeight
    PROVE  ConfirmedOK'
  BY Zenon DEF ConfirmedOK, Reached

LEMMA TruncateConfirmed ==
    ASSUME TypeInv, ConfirmedOK, NEW w \in Slots,
           \/ Confirm(w) \/ ReadTop(w) \/ CompareTop(w) \/ PopConfirmed(w) \/ PopPushed(w)
           \/ DeleteSnapshots(w)
    PROVE  ConfirmedOK'
<1>1. DbHeight' = DbHeight
  BY Zenon DEF Confirm, ReadTop, CompareTop, PopConfirmed, PopPushed, DeleteSnapshots, DbHeight
<1>2. \A h \in confirmed'.data : Reached(h)
  <2>1. confirmed.data \subseteq confirmed.seen /\ confirmed \in Heaps /\ worker[w].image.height \in Heights
    BY Zenon DEF TypeInv, HeapTypes, ThreadTypes, Workers, Images
  <2>2. CASE Confirm(w)
    <3>1. confirmed'.data \subseteq confirmed.data \cup {worker[w].image.height}
      BY <2>1, <2>2, HeapFacts, Constants DEF Confirm
    <3> QED
      BY Zenon, <2>2, <3>1 DEF Confirm, ConfirmedOK
  <2>3. CASE PopConfirmed(w)
    <3>1. confirmed'.data \subseteq confirmed.data
      BY Zenon, <2>1, <2>3, HeapFacts, Constants DEF PopConfirmed
    <3> QED
      BY Zenon, <3>1 DEF ConfirmedOK
  <2>4. CASE confirmed' = confirmed
    BY Zenon, <2>4 DEF ConfirmedOK
  <2> QED
    BY Zenon, <2>2, <2>3, <2>4 DEF ReadTop, CompareTop, PopPushed, DeleteSnapshots, heapVars
<1>3. \A v \in Slots : v # w => worker'[v] = worker[v]
  BY Zenon DEF Confirm, ReadTop, CompareTop, PopConfirmed, PopPushed, DeleteSnapshots, TypeInv, ThreadTypes
<1>4. /\ worker'[w].pc # "confirm"
      /\ worker'[w].pc \in {"compare", "popConfirmed", "popPushed", "delete"} => Reached(worker'[w].top)
  <2>1. worker \in [Slots -> Workers]
    BY Zenon DEF TypeInv, ThreadTypes
  <2>2. CASE ReadTop(w)
    <3>1. HeapTop(confirmed) = 0 \/ HeapTop(confirmed) \in confirmed.data
      BY Zenon, HeapFacts, Constants DEF TypeInv, HeapTypes
    <3>2. Reached(HeapTop(confirmed))
      BY <3>1, HeightTypes DEF ConfirmedOK, Reached
    <3>3. worker'[w].pc = "compare" /\ worker'[w].top = HeapTop(confirmed)
      BY Zenon, <2>1, <2>2 DEF ReadTop, Workers
    <3> QED
      BY Zenon, <3>2, <3>3
  <2>3. CASE Confirm(w) \/ DeleteSnapshots(w)
    <3>1. worker'[w].pc = "top"
      BY Zenon, <2>1, <2>3 DEF Confirm, DeleteSnapshots, Workers
    <3> QED
      BY Zenon, <3>1
  <2>4. CASE CompareTop(w) \/ PopConfirmed(w) \/ PopPushed(w)
    <3>1. /\ worker'[w].pc # "confirm" /\ worker'[w].top = worker[w].top
          /\ worker[w].pc \in {"compare", "popConfirmed", "popPushed", "delete"}
      BY <2>1, <2>4 DEF CompareTop, PopConfirmed, PopPushed, Workers
    <3> QED
      BY Zenon, <3>1 DEF ConfirmedOK
  <2> QED
    BY Zenon, <2>2, <2>3, <2>4
<1> QED
  BY Zenon, <1>1, <1>2, <1>3, <1>4 DEF ConfirmedOK, Reached

\* A worker that truncates has written its image.
LEMMA TruncateWorker ==
    ASSUME TypeInv, NEW w \in Slots,
           \/ Confirm(w) \/ ReadTop(w) \/ CompareTop(w) \/ PopConfirmed(w) \/ PopPushed(w)
           \/ DeleteSnapshots(w)
    PROVE  /\ worker[w].pc # "flush" /\ worker'[w].pc # "flush"
           /\ \A v \in Slots : v # w => worker'[v] = worker[v]
<1> USE DEF TypeInv, ThreadTypes, Workers
<1>1. CASE Confirm(w) \/ DeleteSnapshots(w)
  BY Zenon, <1>1 DEF Confirm, DeleteSnapshots
<1>2. CASE ReadTop(w)
  BY Zenon, <1>2 DEF ReadTop
<1>3. CASE CompareTop(w)
  BY Zenon, <1>3 DEF CompareTop
<1>4. CASE PopConfirmed(w) \/ PopPushed(w)
  BY <1>4 DEF PopConfirmed, PopPushed
<1> QED
  BY Zenon, <1>1, <1>2, <1>3, <1>4

\* The running node's part of the invariant.
RunningOK == NoneBlank /\ SnapshotsOK /\ ConfirmedOK

LEMMA TruncateRunning ==
    ASSUME TypeInv, LineOK, BatchOK, RunningOK, NEW w \in Slots,
           \/ Confirm(w) \/ ReadTop(w) \/ CompareTop(w) \/ PopConfirmed(w) \/ PopPushed(w)
           \/ DeleteSnapshots(w)
    PROVE  RunningOK'
<1> USE DEF RunningOK
<1>1. ConfirmedOK'
  BY Zenon, TruncateConfirmed
<1>2. UNCHANGED <<tree, current, toPush, flusher, db, seq, channel, dispatcher>>
  BY Zenon DEF Confirm, ReadTop, CompareTop, PopConfirmed, PopPushed, DeleteSnapshots, cacheVars, seqVars
<1>3. /\ worker[w].pc # "flush" /\ worker'[w].pc # "flush"
      /\ \A v \in Slots : v # w => worker'[v] = worker[v]
  BY Zenon, TruncateWorker
<1>4. LineSame
  BY Zenon, <1>2, <1>3 DEF LineSame, Flushing
<1>5. NoneBlank'
  BY Zenon, <1>2, <1>4, BlankFrame
<1>6. SnapshotsOK'
  <2>1. CASE DeleteSnapshots(w)
    <3>1. Reached(worker[w].top)
      BY Zenon, <2>1 DEF DeleteSnapshots, ConfirmedOK
    <3> QED
      BY Zenon, <2>1, <3>1, DeleteSnapshotsSnapshots
  <2>2. CASE ~ DeleteSnapshots(w)
    <3>1. snapshots' = snapshots
      BY Zenon, <2>2 DEF Confirm, ReadTop, CompareTop, PopConfirmed, PopPushed, cacheVars
    <3>2. DbHeight' = DbHeight /\ DbHeight \in Nat /\ (Pending' <=> Pending)
      BY Zenon, <1>2, HeightTypes DEF DbHeight, Pending
    <3> QED
      BY <1>2, <3>1, <3>2, SnapshotsFrame
  <2> QED
    BY Zenon, <2>1, <2>2
<1> QED
  BY Zenon, <1>1, <1>5, <1>6

\* The sequencer's steps leave the line and the workers alone.
LEMMA SequenceRunning ==
    ASSUME TypeInv, BatchOK, RunningOK, Sequence \/ ResetCurrentBatch
    PROVE  RunningOK' /\ LineSame
<1> USE DEF RunningOK
<1>1. UNCHANGED <<toPush, db, channel, dispatcher, worker, confirmed>>
  BY Zenon DEF Sequence, StartStep, SetSmtCache, CommitBlock, EndStep, FailBeforeCommit, FailInCommit,
         ResetCurrentBatch, cacheVars, heapVars
<1>2. LineSame
  BY Zenon, <1>1 DEF LineSame, Flushing
<1>3. flusher'["batch"].pc \in {"send", "mark"} => flusher["batch"].pc \in {"send", "mark"}
  BY DEF Sequence, StartStep, SetSmtCache, CommitBlock, EndStep, FailBeforeCommit, FailInCommit,
         ResetCurrentBatch, TypeInv, ThreadTypes, Flushers
<1>4. NoneBlank'
  BY Zenon, <1>1, <1>2, <1>3, BlankFrame
<1>5. DbHeight' = DbHeight /\ DbHeight \in Nat
  BY Zenon, <1>1, HeightTypes DEF DbHeight
<1>6. ConfirmedOK'
  BY Zenon, <1>1, <1>5, ConfirmedFrame
<1>7. SnapshotsOK'
  <2>1. CASE StartStep \/ EndStep \/ FailBeforeCommit \/ FailInCommit
    <3>1. UNCHANGED <<snapshots, tree, current>>
      BY Zenon, <2>1 DEF StartStep, EndStep, FailBeforeCommit, FailInCommit, cacheVars
    <3>2. Pending' => Pending
      BY Zenon, <2>1 DEF StartStep, EndStep, FailBeforeCommit, FailInCommit, Pending, TypeInv, ThreadTypes, Flushers
    <3> QED
      BY <1>5, <3>1, <3>2, SnapshotsFrame
  <2> QED
    BY Zenon, <2>1, SetSmtCacheSnapshots, CommitBlockSnapshots, ResetSnapshots DEF Sequence
<1> QED
  BY Zenon, <1>2, <1>4, <1>6, <1>7

\* The flushers, the dispatcher and the writes.
LEMMA FlushCacheRunning ==
    ASSUME TypeInv, LineOK, BatchOK, Sound, RunningOK, seq # "stopped",
           NEW t \in {"batch", "stop"}, FlushCache(t)
    PROVE  RunningOK'
<1> USE DEF RunningOK
<1>1. t = "batch"
  BY Zenon DEF FlushCache, FlushMerge, FlushSend, FlushMark, TypeInv, Control
<1>2. UNCHANGED <<db, snapshots, tree, dispatcher, worker, confirmed, seq>>
  BY Zenon DEF FlushCache, FlushMerge, FlushSend, FlushMark, cacheVars, heapVars, seqVars
<1>3. DbHeight' = DbHeight /\ DbHeight \in Nat
  BY Zenon, <1>2, HeightTypes DEF DbHeight
<1>4. ConfirmedOK'
  BY Zenon, <1>2, <1>3, ConfirmedFrame
<1>5. Flushing' = Flushing
  BY Zenon, <1>2 DEF Flushing
<1>6. CASE FlushMerge(t)
  <2>1. ~ Pending' /\ channel' = channel /\ current # <<>>
    BY <1>1, <1>6, FlushMergeFacts DEF FlushMerge, BatchOK
  <2>2. SnapshotsOK'
    BY <1>2, <1>3, <2>1, SnapshotsFrame
  <2>3. toPush' # <<>>
    BY Zenon, <1>6, <2>1, FlushMergeFacts, CollectedFacts
  <2>4. NoneBlank'
    BY <1>2, <1>5, <2>1, <2>3 DEF NoneBlank
  <2> QED
    BY Zenon, <1>4, <2>2, <2>4
<1>7. CASE FlushSend(t)
  <2>1. /\ flusher[t].pc = "send" /\ UNCHANGED <<toPush, current>>
        /\ channel' = channel \/ channel' = Append(channel, Sent(t))
    BY Zenon, <1>7 DEF FlushSend, cacheVars, Sent
  <2>2. toPush # <<>> /\ ~ Pending
    BY Zenon, <1>1, <2>1, SendFacts DEF NoneBlank
  <2>3. ~ Pending'
    BY <1>1, <1>2, <1>7, <2>2 DEF FlushSend, Pending, TypeInv, ThreadTypes, Flushers
  <2>4. SnapshotsOK'
    BY <1>2, <1>3, <2>3, SnapshotsFrame
  <2>5. \A i \in DOMAIN channel' : channel'[i].data # <<>>
    <3>1. CASE channel' = channel
      BY Zenon, <3>1 DEF NoneBlank
    <3>2. CASE channel' = Append(channel, Sent(t))
      <4>1. channel \in Seq(Images) /\ Sent(t) \in Images /\ Sent(t).data = toPush
        BY Zenon DEF TypeInv, ThreadTypes, DataTypes, Flushers, Images, Sent
      <4>2. \A i \in DOMAIN channel' : channel'[i] = Sent(t) \/ (i \in DOMAIN channel /\ channel'[i] = channel[i])
        BY <3>2, <4>1, ListAppend
      <4> QED
        BY Zenon, <2>2, <4>1, <4>2 DEF NoneBlank
    <3> QED
      BY Zenon, <2>1, <3>1, <3>2
  <2>6. NoneBlank'
    BY Zenon, <1>2, <1>5, <2>1, <2>2, <2>5 DEF NoneBlank
  <2> QED
    BY Zenon, <1>4, <2>4, <2>6
<1>8. CASE FlushMark(t)
  <2>1. /\ channel' = channel /\ current' = current /\ flusher[t].pc = "mark"
        /\ flusher'["batch"].pc = "off"
    BY Zenon, <1>1, <1>8 DEF FlushMark, TypeInv, ThreadTypes, Flushers
  <2>2. ~ Pending
    BY Zenon, <2>1, SendFacts
  <2>3. ~ Pending'
    BY Zenon, <1>2, <2>1, <2>2 DEF Pending
  <2>4. SnapshotsOK'
    BY <1>2, <1>3, <2>3, SnapshotsFrame
  <2>5. NoneBlank'
    BY Zenon, <1>2, <1>5, <2>1 DEF NoneBlank
  <2> QED
    BY Zenon, <1>4, <2>4, <2>5
<1> QED
  BY Zenon, <1>6, <1>7, <1>8 DEF FlushCache

LEMMA DispatchRunning ==
    ASSUME TypeInv, RunningOK, Dispatching
    PROVE  RunningOK'
<1> USE DEF RunningOK
<1>1. UNCHANGED <<db, snapshots, tree, current, toPush, flusher, confirmed, seq>>
  BY Zenon DEF Dispatching, Receive, Dispatch, Drain, Done, cacheVars, heapVars, seqVars
<1>2. DbHeight' = DbHeight /\ DbHeight \in Nat /\ (Pending' <=> Pending)
  BY Zenon, <1>1, HeightTypes DEF DbHeight, Pending
<1>3. SnapshotsOK'
  BY <1>1, <1>2, SnapshotsFrame
<1>4. CASE Receive
  <2>1. /\ worker' = worker /\ channel' = Tail(channel) /\ dispatcher'.held = channel[1]
        /\ channel \in Seq(Images) /\ channel # <<>>
    BY <1>4 DEF Receive, TypeInv, ThreadTypes, Dispatchers
  <2>2. 1 \in DOMAIN channel /\ \A i \in DOMAIN channel' : i + 1 \in DOMAIN channel /\ channel'[i] = channel[i + 1]
    BY Zenon, <2>1, ListTail
  <2>3. Flushing' = Flushing
    BY Zenon, <2>1 DEF Flushing
  <2>4. NoneBlank'
    BY Zenon, <1>1, <2>1, <2>2, <2>3 DEF NoneBlank
  <2> QED
    BY Zenon, <1>1, <1>2, <1>3, <2>1, <2>4, ConfirmedFrame
<1>5. CASE Dispatch
  <2>1. PICK w \in Slots :
          worker' = [worker EXCEPT ![w] = [pc |-> "flush", image |-> dispatcher.held, top |-> 0]]
    BY Zenon, <1>5 DEF Dispatch
  <2>2. /\ worker'[w].pc = "flush" /\ worker'[w].image = dispatcher.held
        /\ \A v \in Slots : v # w => worker'[v] = worker[v]
    BY Zenon, <2>1 DEF TypeInv, ThreadTypes
  <2>3. channel' = channel /\ dispatcher'.held = NoImage /\ dispatcher.held.data # <<>>
    BY Zenon, <1>5 DEF Dispatch, TypeInv, ThreadTypes, Dispatchers, NoneBlank
  <2>4. NoneBlank'
    BY Zenon, <1>1, <2>2, <2>3 DEF NoneBlank, Flushing
  <2>5. ConfirmedOK'
    BY Zenon, <1>1, <1>2, <2>2 DEF ConfirmedOK, Reached
  <2> QED
    BY Zenon, <1>3, <2>4, <2>5
<1>6. CASE Drain \/ Done
  <2>1. UNCHANGED <<worker, channel>> /\ dispatcher'.held = dispatcher.held
    BY Zenon, <1>6 DEF Drain, Done, TypeInv, ThreadTypes, Dispatchers
  <2>2. LineSame
    BY Zenon, <2>1 DEF LineSame, Flushing
  <2> QED
    BY Zenon, <1>1, <1>2, <1>3, <2>1, <2>2, BlankFrame, ConfirmedFrame
<1> QED
  BY Zenon, <1>4, <1>5, <1>6 DEF Dispatching

LEMMA FlushRunning ==
    ASSUME InOrder, TypeInv, LineOK, RunningOK, NEW w \in Slots, Flush(w) \/ FlushFails(w)
    PROVE  RunningOK'
<1> USE DEF RunningOK
<1>1. UNCHANGED <<snapshots, tree, current, toPush, flusher, confirmed, seq, channel, dispatcher>>
  BY Zenon DEF Flush, FlushFails, cacheVars, heapVars, seqVars
<1>2. /\ worker[w].pc = "flush"
      /\ worker'[w].pc = (IF Flush(w) THEN "confirm" ELSE "free")
      /\ worker'[w].image = worker[w].image
      /\ \A v \in Slots : v # w => worker'[v] = worker[v]
  BY DEF Flush, FlushFails, TypeInv, ThreadTypes, Workers
<1>3. worker[w].image.data # <<>>
  BY Zenon, <1>2 DEF NoneBlank, Flushing
<1>4. /\ DbHeight <= DbHeight' /\ DbHeight' \in Nat /\ DbHeight \in Nat
      /\ Flush(w) => DbHeight' = worker[w].image.height
  <2>1. DbHeight \in Nat /\ worker[w].image.height \in Nat
    BY Zenon, HeightTypes
  <2>2. CASE Flush(w)
    BY Zenon, <1>3, <2>1, <2>2, FlushLine
  <2>3. CASE ~ Flush(w)
    <3>1. DbHeight' = DbHeight
      BY Zenon, <2>3 DEF FlushFails, DbHeight
    <3> QED
      BY <2>1, <2>3, <3>1
  <2> QED
    BY Zenon, <2>2, <2>3
<1>5. Pending' <=> Pending
  BY Zenon, <1>1 DEF Pending
<1>6. SnapshotsOK'
  BY Zenon, <1>1, <1>4, <1>5, SnapshotsFrame
<1>7. NoneBlank'
  BY Zenon, <1>1, <1>2 DEF NoneBlank, Flushing
<1>8. ConfirmedOK'
  <2>1. \A h \in Nat : h <= DbHeight => h <= DbHeight'
    BY <1>4
  <2>2. \A h \in confirmed.data : h <= DbHeight'
    BY Zenon, <2>1, HeightTypes DEF ConfirmedOK, Reached
  <2>3. worker'[w].pc = "confirm" => worker'[w].image.height <= DbHeight'
    BY <1>2, <1>4
  <2>4. \A v \in Slots : v # w =>
          /\ worker[v].pc = "confirm" => worker[v].image.height <= DbHeight'
          /\ worker[v].pc \in {"compare", "popConfirmed", "popPushed", "delete"} =>
               worker[v].top <= DbHeight'
    BY Zenon, <2>1, HeightTypes DEF ConfirmedOK, Reached
  <2> QED
    BY Zenon, <1>1, <1>2, <2>2, <2>3, <2>4 DEF ConfirmedOK, Reached
<1> QED
  BY Zenon, <1>6, <1>7, <1>8
-----------------------------------------------------------------------------
(* The heights. *)

\* Nothing is on its way.
LEMMA InitLine == Init => Flushing = {} /\ InFlight = {NoImage} /\ Filled = {}
<1> SUFFICES ASSUME Init PROVE Flushing = {} /\ InFlight = {NoImage} /\ Filled = {}
  OBVIOUS
<1>1. Flushing = {}
  BY Zenon DEF Init, Flushing
<1>2. InFlight = {NoImage}
  BY <1>1 DEF Init, InFlight
<1> QED
  BY <1>1, <1>2 DEF Filled, NoImage

LEMMA InitOrder == Init => OrderInv
<1> SUFFICES ASSUME Init PROVE OrderInv
  OBVIOUS
<1>1. TypeInv
  BY Zenon, InitTypes
<1>2. Flushing = {} /\ InFlight = {NoImage} /\ Filled = {}
  BY Zenon, InitLine
<1>3. Height = 0 /\ DbHeight = 0
  BY Constants DEF Init, Height, DbHeight, None
<1>4. LineOK
  BY <1>2, <1>3 DEF LineOK, LineOrdered, Init
<1>5. ~ Pending /\ BatchOK
  BY DEF BatchOK, Init, Pending
<1>6. NoneBlank
  BY <1>2 DEF NoneBlank, Init, EmptyHeap
<1>8. ConfirmedOK
  BY Zenon, <1>2 DEF ConfirmedOK, Init, EmptyHeap
<1>7. SnapshotsOK
  BY <1>3, <1>5 DEF SnapshotsOK, Init
<1> QED
  BY Zenon, <1>1, <1>4, <1>5, <1>6, <1>7, <1>8 DEF OrderInv

\* A step that is no failure has no error, and nothing undoes a stop or an error.
LEMMA ErrorsGrow ==
    ASSUME TypeInv, [Next]_vars
    PROVE  /\ seq = "stopped" => seq' = "stopped"
           /\ \/ errors' = errors
              \/ /\ \E kind \in Kinds : errors' = Append(errors, kind)
                 /\ \/ FailBeforeCommit /\ errors' = Append(errors, "limbo")
                    \/ FailInCommit /\ errors' = Append(errors, "commit")
                    \/ \E w \in Slots : FlushFails(w) /\ errors' = Append(errors, "flush")
<1>1. CASE UNCHANGED vars
  BY Zenon, <1>1 DEF vars, seqVars
<1>2. CASE Sequence
  BY Zenon, <1>2 DEF Sequence, StartStep, SetSmtCache, CommitBlock, EndStep, FailBeforeCommit, FailInCommit,
              Fails, Kinds
<1>3. CASE ResetCurrentBatch \/ Dispatching \/ Stop \/ Idle
  BY Zenon, <1>3 DEF ResetCurrentBatch, Dispatching, Receive, Dispatch, Drain, Done, Stop, Idle, vars, seqVars
<1>4. CASE \E t \in {"batch", "stop"} : FlushCache(t)
  BY Zenon, <1>4 DEF FlushCache, FlushMerge, FlushSend, FlushMark, seqVars
<1>5. CASE \E w \in Slots : Work(w)
  BY Zenon, <1>5 DEF Work, Flush, Confirm, ReadTop, CompareTop, PopConfirmed, PopPushed, DeleteSnapshots, seqVars
<1>6. CASE \E w \in Slots : FlushFails(w)
  BY Zenon, <1>6 DEF FlushFails, Fails, Kinds, seqVars
<1> QED
  BY Zenon, <1>1, <1>2, <1>3, <1>4, <1>5, <1>6 DEF Next

\* What has failed stays failed.
LEMMA SoundBack ==
    ASSUME TypeInv, [Next]_vars
    PROVE  /\ Sound' => Sound
           /\ NoneSkipped' => NoneSkipped /\ Sound /\ ~ FailInCommit /\ \A w \in Slots : ~ FlushFails(w)
           /\ errors' = errors \/ errors' # <<>>
<1>1. /\ errors \in Seq(Kinds)
      /\ \A kind \in Kinds : /\ Append(errors, kind) # <<>> /\ Len(Append(errors, kind)) = Len(errors) + 1
                              /\ Append(errors, kind)[Len(errors) + 1] = kind
                              /\ \A i \in 1 .. Len(errors) : Append(errors, kind)[i] = errors[i]
  BY ListAppend DEF TypeInv, ThreadTypes
<1>2. \A i \in 1 .. Len(errors) : i \in 1 .. (Len(errors) + 1)
  BY <1>1
<1>3. Len(errors) + 1 \in 1 .. (Len(errors) + 1)
  BY <1>1
<1>4. errors' = errors \/ errors' # <<>>
  BY Zenon, <1>1, ErrorsGrow
<1>5. Sound' => Sound
  BY Zenon, <1>4, ErrorsGrow DEF Sound
<1>6. ASSUME NoneSkipped' PROVE NoneSkipped
  <2>1. seq = "stopped" => errors = <<>>
    BY Zenon, <1>4, <1>6, ErrorsGrow DEF NoneSkipped
  <2>2. \A i \in 1 .. Len(errors) : errors[i] = "limbo"
    <3>1. CASE errors' = errors
      BY Zenon, <1>6, <3>1 DEF NoneSkipped
    <3>2. CASE \E kind \in Kinds : errors' = Append(errors, kind)
      BY <1>1, <1>2, <1>6, <3>2 DEF NoneSkipped
    <3> QED
      BY Zenon, <3>1, <3>2, ErrorsGrow
  <2> QED
    BY Zenon, <2>1, <2>2 DEF NoneSkipped
<1>7. ASSUME NoneSkipped', NEW kind \in Kinds, errors' = Append(errors, kind) PROVE kind = "limbo"
  BY Zenon, <1>1, <1>3, <1>7 DEF NoneSkipped
<1>8. FailInCommit => errors' = Append(errors, "commit")
  BY Zenon DEF FailInCommit, Fails
<1>9. \A w \in Slots : FlushFails(w) => errors' = Append(errors, "flush")
  BY Zenon DEF FlushFails, Fails
<1>10. NoneSkipped => Sound
  BY Zenon DEF NoneSkipped, Sound
<1>11. "commit" \in Kinds /\ "flush" \in Kinds
  BY Zenon DEF Kinds
<1> QED
  BY <1>4, <1>5, <1>6, <1>7, <1>8, <1>9, <1>10, <1>11

\* The steps that leave the images in flight where they are.
LEMMA LineSteps ==
    ASSUME TypeInv,
           \/ UNCHANGED vars \/ Sequence \/ ResetCurrentBatch \/ Drain \/ Done \/ Stop
           \/ \E t \in {"batch", "stop"} : FlushMerge(t) \/ FlushMark(t)
           \/ \E w \in Slots : \/ Confirm(w) \/ ReadTop(w) \/ CompareTop(w) \/ PopConfirmed(w)
                              \/ PopPushed(w) \/ DeleteSnapshots(w)
    PROVE  /\ LineSame /\ Filled' = Filled /\ db' = db /\ DbHeight' = DbHeight
           /\ LineOK => LineOK'
<1>1. db' = db /\ channel' = channel
  BY Zenon DEF vars, Sequence, StartStep, SetSmtCache, CommitBlock, EndStep, FailBeforeCommit, FailInCommit,
         ResetCurrentBatch, Drain, Done, Stop, FlushMerge, FlushMark, Confirm, ReadTop, CompareTop,
         PopConfirmed, PopPushed, DeleteSnapshots
<1>2. dispatcher'.held = dispatcher.held
  BY Zenon DEF vars, Sequence, StartStep, SetSmtCache, CommitBlock, EndStep, FailBeforeCommit, FailInCommit,
         ResetCurrentBatch, Drain, Done, Stop, FlushMerge, FlushMark, Confirm, ReadTop, CompareTop,
         PopConfirmed, PopPushed, DeleteSnapshots, TypeInv, ThreadTypes, Dispatchers
<1>3. Flushing' = Flushing /\ \A w \in Flushing : worker'[w].image = worker[w].image
  <2>1. CASE worker' = worker
    BY Zenon, <2>1 DEF Flushing
  <2>2. ASSUME NEW w \in Slots,
               \/ Confirm(w) \/ ReadTop(w) \/ CompareTop(w) \/ PopConfirmed(w)
               \/ PopPushed(w) \/ DeleteSnapshots(w)
        PROVE  Flushing' = Flushing /\ \A v \in Flushing : worker'[v].image = worker[v].image
    <3>1. /\ worker[w].pc # "flush" /\ worker'[w].pc # "flush"
          /\ \A v \in Slots : v # w => worker'[v] = worker[v]
      BY Zenon, <2>2, TruncateWorker
    <3> QED
      BY Zenon, <3>1 DEF Flushing
  <2> QED
    BY Zenon, <2>1, <2>2 DEF vars, Sequence, StartStep, SetSmtCache, CommitBlock, EndStep, FailBeforeCommit,
         FailInCommit, ResetCurrentBatch, Drain, Done, Stop, FlushMerge, FlushMark
<1>4. LineSame
  BY Zenon, <1>1, <1>2, <1>3 DEF LineSame
<1>5. Height <= Height' /\ Height' \in Nat
  <2>1. Height \in Nat
    BY Zenon, HeightTypes
  <2>2. CASE tree' = tree
    BY <2>1, <2>2 DEF Height
  <2>3. CASE CommitBlock
    <3>1. Len(tree') = Len(tree) + 1 /\ Len(tree) \in Nat
      BY <2>3 DEF CommitBlock, TypeInv, DataTypes
    <3> QED
      BY <2>1, <3>1 DEF Height
  <2> QED
    BY Zenon, <2>2, <2>3 DEF vars, Sequence, StartStep, SetSmtCache, EndStep, FailBeforeCommit,
         FailInCommit, ResetCurrentBatch, Drain, Done, Stop, FlushMerge, FlushMark, Confirm, ReadTop,
         CompareTop, PopConfirmed, PopPushed, DeleteSnapshots, seqVars
<1> QED
  BY Zenon, <1>1, <1>4, <1>5, LineFrame DEF DbHeight

\* Every step keeps the line and the batch.
LEMMA NextLine ==
    ASSUME InOrder, OrderInv, [Next]_vars, Sound'
    PROVE  LineOK' /\ BatchOK'
<1>1. TypeInv /\ Sound /\ LineOK /\ BatchOK
  BY Zenon, SoundBack DEF OrderInv
<1>2. CASE UNCHANGED vars
  <2>1. LineOK' /\ Filled' = Filled /\ DbHeight' = DbHeight
    BY Zenon, <1>1, <1>2, LineSteps
  <2>2. UNCHANGED <<toPush, current, flusher, seq, committed, tree, lastRecord, errors>>
    BY Zenon, <1>2 DEF vars, cacheVars, seqVars
  <2> QED
    BY Zenon, <1>1, <2>1, <2>2, BatchFrame
<1>3. CASE Sequence \/ ResetCurrentBatch \/ Stop
  <2>1. LineOK' /\ Filled' = Filled
    BY Zenon, <1>1, <1>3, LineSteps
  <2> QED
    BY <1>1, <1>3, <2>1, StartStepBatch, SetSmtCacheBatch, CommitBlockBatch, EndStepBatch,
       FailBeforeCommitBatch, FailInCommitBatch, ResetBatch, StopBatch DEF Sequence
<1>4. CASE Dispatching
  <2>1. LineOK' /\ Filled' = Filled
    BY Zenon, <1>1, <1>4, LineSteps, ReceiveLine, DispatchLine DEF Dispatching
  <2>2. UNCHANGED <<toPush, current, flusher, seq, committed, tree, lastRecord, errors, db>>
    BY Zenon, <1>4 DEF Dispatching, Receive, Dispatch, Drain, Done, cacheVars, seqVars
  <2>3. DbHeight' = DbHeight
    BY Zenon, <2>2 DEF DbHeight
  <2> QED
    BY Zenon, <1>1, <2>1, <2>2, <2>3, BatchFrame
<1>5. ASSUME NEW t \in {"batch", "stop"}, FlushCache(t) PROVE LineOK' /\ BatchOK'
  <2>1. CASE FlushMerge(t)
    BY Zenon, <1>1, <2>1, LineSteps, FlushMergeBatch
  <2>2. CASE FlushSend(t)
    BY Zenon, <1>1, <2>2, FlushSendLine, FlushSendBatch
  <2>3. CASE FlushMark(t)
    BY Zenon, <1>1, <2>3, LineSteps, FlushMarkBatch
  <2> QED
    BY Zenon, <1>5, <2>1, <2>2, <2>3 DEF FlushCache
<1>6. ASSUME NEW w \in Slots, Work(w) \/ FlushFails(w) PROVE LineOK' /\ BatchOK'
  <2>1. /\ UNCHANGED <<toPush, current, flusher, seq, committed, tree, lastRecord>>
        /\ errors' = errors \/ errors' # <<>>
    BY Zenon, <1>1, <1>6, SoundBack DEF Work, Flush, Confirm, ReadTop, CompareTop, PopConfirmed, PopPushed,
       DeleteSnapshots, FlushFails, cacheVars, seqVars
  <2>2. CASE Flush(w)
    <3>1. LineOK' /\ Filled' \subseteq Filled
      BY Zenon, <1>1, <2>2, FlushLine
    <3>2. DbHeight' = DbHeight \/ \E m \in Filled : DbHeight' = m.height
      BY Zenon, <1>1, <2>2, FlushLine
    <3> QED
      BY Zenon, <1>1, <2>1, <3>1, <3>2, BatchFrame
  <2>3. CASE FlushFails(w)
    <3>1. LineOK' /\ Filled' \subseteq Filled /\ DbHeight' = DbHeight
      BY Zenon, <1>1, <2>3, FlushFailsLine DEF FlushFails, DbHeight
    <3> QED
      BY Zenon, <1>1, <2>1, <3>1, BatchFrame
  <2>4. CASE ~ Flush(w) /\ ~ FlushFails(w)
    <3>1. LineOK' /\ Filled' = Filled /\ DbHeight' = DbHeight
      BY Zenon, <1>1, <1>6, <2>4, LineSteps DEF Work
    <3> QED
      BY Zenon, <1>1, <2>1, <3>1, BatchFrame
  <2> QED
    BY Zenon, <2>2, <2>3, <2>4
<1>7. Idle => UNCHANGED vars
  BY Zenon DEF Idle
<1> QED
  BY Zenon, <1>2, <1>3, <1>4, <1>5, <1>6, <1>7 DEF Next

\* Every step of a node that goes on running keeps the snapshots.
LEMMA NextRunning ==
    ASSUME InOrder, OrderInv, [Next]_vars, seq' # "stopped"
    PROVE  NoneBlank' /\ SnapshotsOK' /\ ConfirmedOK'
<1>1. TypeInv /\ Sound /\ LineOK /\ BatchOK /\ RunningOK /\ seq # "stopped"
  BY Zenon, ErrorsGrow DEF OrderInv, Sound, RunningOK
<1>2. CASE UNCHANGED vars
  <2>1. LineSame /\ DbHeight' = DbHeight /\ DbHeight \in Nat
    BY Zenon, <1>1, <1>2, LineSteps, HeightTypes
  <2>2. UNCHANGED <<toPush, current, flusher, seq, tree, snapshots, worker, confirmed>>
    BY Zenon, <1>2 DEF vars, cacheVars, seqVars, heapVars
  <2>3. Pending' <=> Pending
    BY Zenon, <2>2 DEF Pending
  <2> QED
    BY <1>1, <2>1, <2>2, <2>3, BlankFrame, SnapshotsFrame, ConfirmedFrame DEF RunningOK
<1>3. CASE Sequence \/ ResetCurrentBatch
  BY Zenon, <1>1, <1>3, SequenceRunning DEF RunningOK
<1>4. CASE Dispatching
  BY Zenon, <1>1, <1>4, DispatchRunning DEF RunningOK
<1>5. CASE \E t \in {"batch", "stop"} : FlushCache(t)
  BY Zenon, <1>1, <1>5, FlushCacheRunning DEF RunningOK
<1>6. CASE \E w \in Slots : Work(w) \/ FlushFails(w)
  BY Zenon, <1>1, <1>6, TruncateRunning, FlushRunning DEF RunningOK, Work
<1>7. ~ Stop /\ (Idle => UNCHANGED vars)
  BY Zenon DEF Stop, Idle
<1> QED
  BY Zenon, <1>2, <1>3, <1>4, <1>5, <1>6, <1>7 DEF Next

LEMMA NextOrder == InOrder /\ OrderInv /\ [Next]_vars => OrderInv'
<1> SUFFICES ASSUME InOrder, OrderInv, [Next]_vars PROVE OrderInv'
  OBVIOUS
<1>1. TypeInv'
  BY Zenon, NextTypes DEF OrderInv
<1>2. Sound' => LineOK' /\ BatchOK'
  BY Zenon, NextLine
<1>3. seq' # "stopped" => NoneBlank' /\ SnapshotsOK' /\ ConfirmedOK'
  BY Zenon, NextRunning
<1> QED
  BY Zenon, <1>1, <1>2, <1>3 DEF OrderInv

\* When images are written in the order they were sent, TruncateSmtCacheList drops no
\* snapshot of a block that the SMT database lacks, for any number of workers and
\* blocks and whatever fails.
THEOREM SmtCacheSnapshotsCover ==
    ASSUME InOrder
    PROVE  Spec => []SnapshotsCover
<1>1. OrderInv => SnapshotsCover
  <2> SUFFICES ASSUME OrderInv, seq # "stopped", NEW n \in (db["lastHeight"] + 1) .. Height
               PROVE  \E i \in 1 .. Len(snapshots) : snapshots[i].height = n
    BY Zenon DEF SnapshotsCover
  <2>1. SnapshotsOK /\ DbHeight \in Nat /\ Height \in Nat /\ DOMAIN snapshots = 1 .. Len(snapshots)
    BY HeightTypes DEF OrderInv, TypeInv, DataTypes
  <2>2. n \in 1 .. Height /\ ~ (n <= DbHeight)
    BY <2>1 DEF DbHeight
  <2> QED
    BY Zenon, <2>1, <2>2 DEF SnapshotsOK, Reached
<1>2. OrderInv /\ [Next]_vars => OrderInv'
  BY Zenon, NextOrder
<1> QED
  BY <1>1, <1>2, InitOrder, PTL DEF Spec
=============================================================================

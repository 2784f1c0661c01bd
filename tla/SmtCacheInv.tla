----------------------------- MODULE SmtCacheInv -----------------------------
(***************************************************************************)
(* The inductive invariant of SmtCache, in four layers: the shapes, the    *)
(* heights in flight, the contents in flight, and what the sequencer       *)
(* reads.  The first holds always, the second as long as no stop follows   *)
(* an error, the others as long as nothing was skipped.                    *)
(***************************************************************************)
EXTENDS SmtCache

Heights == 0 .. MaxBlocks
Trees == [AllKeys -> Heights]
Data == UNION {[D -> Heights] : D \in SUBSET AllKeys}
Images == [height : Heights, data : Data]
Snapshots == [height : 1 .. MaxBlocks, data : Data]
Heaps == [data : SUBSET Heights, seen : SUBSET Heights]
Flushers == [pc : {"off", "reset", "merge", "send", "mark"}, height : Heights]
Dispatchers == [pc : {"loop", "flush", "drain", "done"}, held : Images]
Workers == [pc : {"free", "flush", "confirm", "top", "compare", "popConfirmed",
                  "popPushed", "delete"},
            image : Images, top : Heights]
Kinds == {"limbo", "commit", "flush"}

\* A snapshot writes its height.
Stamped(s) == "lastHeight" \in DOMAIN s.data /\ s.data["lastHeight"] = s.height

\* A block is recorded and not yet committed or taken back.
Pending == seq = "recorded" \/ flusher["batch"].pc = "reset"

\* The last snapshot of a list.
Newly(list) == list[Len(list)]

DataTypes ==
    /\ {db, view} \subseteq Trees
    /\ tree \in Seq(Trees) /\ Len(tree) \in 1 .. (MaxBlocks + 1)
    /\ {longLived, toPush} \subseteq Data
    /\ {snapshots, current} \subseteq Seq(Snapshots)
    /\ {lastRecord, lastPushed, lastReset} \subseteq Heights

HeapTypes ==
    /\ pushed \in Heaps /\ confirmed \in Heaps
    /\ pushed.data \subseteq pushed.seen /\ confirmed.data \subseteq confirmed.seen

ThreadTypes ==
    /\ channel \in Seq(Images) /\ Len(channel) <= ChannelSize
    /\ seq \in {"between", "step", "recorded", "stopped"}
    /\ committed \in BOOLEAN
    /\ flusher \in [{"batch", "stop"} -> Flushers]
    /\ dispatcher \in Dispatchers
    /\ worker \in [Slots -> Workers]
    /\ errors \in Seq(Kinds)

\* Who may be where.
Control ==
    /\ seq \in {"step", "recorded"} => flusher["batch"].pc = "off"
    /\ seq # "stopped" => flusher["stop"].pc = "off" /\ dispatcher.pc = "loop"
    /\ flusher["stop"].pc # "reset"

\* Snapshots and trees carry their heights, and the cache has what the snapshots have.
Shapes ==
    /\ lastRecord <= Height + 1
    /\ \A i \in DOMAIN snapshots : Stamped(snapshots[i])
    /\ \A i \in DOMAIN current : Stamped(current[i])
    /\ toPush # <<>> => "lastHeight" \in DOMAIN toPush
    /\ \A i \in DOMAIN tree : tree[i]["lastHeight"] = i - 1
    /\ Touched(snapshots) \subseteq DOMAIN longLived

\* The block being committed is the last one recorded.
Recorded ==
    seq = "recorded" =>
        current # <<>> /\ Newly(current).height = Height + 1 /\ Height < MaxBlocks

TypeInv == DataTypes /\ HeapTypes /\ ThreadTypes /\ Control /\ Shapes /\ Recorded
-----------------------------------------------------------------------------
(* Heights *)

\* The height of the SMT database.
DbHeight == db["lastHeight"]

\* The workers that have not written their image yet.
Flushing == {w \in Slots : worker[w].pc = "flush"}

\* The images on their way to the database.
InFlight == {worker[w].image : w \in Flushing} \cup {dispatcher.held}
              \cup {channel[i] : i \in DOMAIN channel}
Filled == {m \in InFlight : m.data # <<>>}

Ordered(m, n) == m.data # <<>> /\ n.data # <<>> => m.height <= n.height

\* The images are in the order of their blocks.
LineOrdered ==
    /\ \A w \in Flushing : Ordered(worker[w].image, dispatcher.held)
    /\ \A w \in Flushing, i \in DOMAIN channel : Ordered(worker[w].image, channel[i])
    /\ \A i \in DOMAIN channel : Ordered(dispatcher.held, channel[i])
    /\ \A i, j \in DOMAIN channel : i < j => Ordered(channel[i], channel[j])

\* Height of the image that is being collected.
PushHeight == toPush["lastHeight"]

\* No stop has followed an error.
Sound == seq = "stopped" => errors = <<>>

\* The images on their way hold blocks of the chain, above the database.
LineOK ==
    /\ DbHeight <= Height
    /\ \A m \in Filled : Stamped(m) /\ DbHeight <= m.height /\ m.height <= Height
    /\ LineOrdered

\* How many blocks of the current list are not committed.
Extra == IF Pending THEN 1 ELSE 0

\* What is collected is above everything that is on its way.
BatchOK ==
    /\ toPush # <<>> =>
         /\ DbHeight <= PushHeight /\ PushHeight <= Height
         /\ \A m \in Filled : m.height <= PushHeight
         /\ Len(current) = Extra => PushHeight = Height
    /\ \A i \in DOMAIN current :
         /\ DbHeight < current[i].height
         /\ \A m \in Filled : m.height < current[i].height
    /\ Pending => /\ lastRecord = Height + 1
                  /\ current # <<>> /\ Newly(current).height = Height + 1
    /\ seq = "step" /\ committed => current # <<>> /\ Newly(current).height = Height
    /\ flusher["batch"].pc = "merge" /\ seq # "stopped" =>
         current # <<>> /\ Newly(current).height = Height
    /\ \A t \in {"batch", "stop"} : flusher[t].pc \in {"send", "mark"} =>
         current = <<>> /\ (toPush # <<>> => flusher[t].height = Height)
    /\ errors = <<>> =>
         /\ flusher["batch"].pc # "reset"
         /\ seq # "recorded" /\ current # <<>> => Newly(current).height = Height

\* While the node runs no image is empty.
NoneBlank ==
    /\ \A w \in Flushing : worker[w].image.data # <<>>
    /\ dispatcher.held # NoImage => dispatcher.held.data # <<>>
    /\ \A i \in DOMAIN channel : channel[i].data # <<>>
    /\ flusher["batch"].pc \in {"send", "mark"} => toPush # <<>>

\* A height that the database has reached.
Reached(h) == h <= DbHeight

\* The snapshots, and how far they may be truncated.
SnapshotsOK ==
    /\ \A i, j \in DOMAIN snapshots : i < j => snapshots[i].height <= snapshots[j].height
    /\ \A i \in DOMAIN snapshots : snapshots[i].height <= Height + 1
    /\ \A n \in 1 .. Height : Reached(n) \/ \E i \in DOMAIN snapshots : snapshots[i].height = n
    /\ Pending => snapshots # <<>> /\ Newly(snapshots) = Newly(current)

ConfirmedOK ==
    /\ \A h \in confirmed.data : Reached(h)
    /\ \A w \in Slots :
         /\ worker[w].pc = "confirm" => Reached(worker[w].image.height)
         /\ worker[w].pc \in {"compare", "popConfirmed", "popPushed", "delete"} =>
              Reached(worker[w].top)

OrderInv ==
    /\ TypeInv
    /\ Sound => LineOK /\ BatchOK
    /\ seq # "stopped" => NoneBlank /\ SnapshotsOK /\ ConfirmedOK
-----------------------------------------------------------------------------
(* Contents *)

\* The tree after block n.
T(n) == tree[n + 1]

\* The committed part of a list of snapshots.
AllButLast(list) == SubSeq(list, 1, Len(list) - 1)
Settled(list) == IF Pending THEN AllButLast(list) ELSE list

\* No image in flight is above n and below h.
Between(n, h) == \A m \in Filled : m.height <= n \/ m.height >= h

\* An image in flight holds the changes since the image before it.
ImageExact(m) ==
    /\ \A k \in DOMAIN m.data : m.data[k] = T(m.height)[k]
    /\ \A k \in AllKeys \ DOMAIN m.data : \A n \in DbHeight .. m.height :
         Between(n, m.height) => T(n)[k] = T(m.height)[k]

\* What is collected holds the changes since the last image in flight.
CollectedExact ==
    LET new == MergeAll(Settled(current))
    IN  \A k \in AllKeys :
          IF k \in DOMAIN new THEN new[k] = T(Height)[k]
          ELSE IF k \in DOMAIN toPush THEN toPush[k] = T(Height)[k]
          ELSE \A n \in DbHeight .. Height :
                 (\A m \in Filled : m.height <= n) => T(n)[k] = T(Height)[k]

\* An image that was sent and is still collected is in flight or written.
SentIsThere ==
    \A t \in {"batch", "stop"} : flusher[t].pc = "mark" /\ toPush # <<>> =>
        DbHeight = Height \/ \E m \in Filled : m.height = Height

\* Images of one height are the same image.
Twins ==
    \A m \in Filled :
        /\ \A n \in Filled : m.height = n.height => m.data = n.data
        /\ toPush # <<>> /\ m.height = PushHeight => m.data = toPush

Contents ==
    /\ db = T(DbHeight)
    /\ \A m \in Filled : ImageExact(m)
    /\ CollectedExact
    /\ SentIsThere
    /\ Twins

ContentInv == OrderInv /\ (NoneSkipped => Contents)
-----------------------------------------------------------------------------
(* What the sequencer reads *)

\* Some snapshot above the database and the images in flight below h has key k.
Witness(k, h) ==
    \E i \in DOMAIN Settled(snapshots) :
        LET s == Settled(snapshots)[i]
        IN  /\ k \in DOMAIN s.data
            /\ DbHeight < s.height
            /\ \A m \in Filled : m.height < h => m.height < s.height

\* What is not yet in the database is in the snapshots.
Witnessed ==
    /\ \A m \in Filled : DbHeight < m.height => \A k \in DOMAIN m.data : Witness(k, m.height)
    /\ toPush # <<>> /\ flusher["batch"].pc # "mark" =>
         /\ DbHeight < PushHeight /\ \A m \in Filled : m.height < PushHeight
         /\ \A k \in DOMAIN toPush : Witness(k, PushHeight)
    /\ \A i \in DOMAIN Settled(current) : \E j \in DOMAIN Settled(snapshots) :
         Settled(snapshots)[j] = Settled(current)[i]

\* The snapshots hold the last change of every key that the database may lack.
SnapshotsExact ==
    LET all == MergeAll(Settled(snapshots))
    IN  \A k \in AllKeys :
          IF k \in DOMAIN all THEN all[k] = T(Height)[k] ELSE db[k] = T(Height)[k]

\* The tree the running block makes, or the last one.
LatestTree ==
    IF seq = "recorded" THEN Merge(T(Height), Newly(current).data) ELSE T(Height)

LongLivedExact ==
    flusher["batch"].pc # "reset" =>
        \A k \in AllKeys :
            IF k \in DOMAIN longLived THEN longLived[k] = LatestTree[k]
            ELSE /\ db[k] = T(Height)[k]
                 /\ seq \in {"step", "recorded"} => view[k] = T(Height)[k]

Reads == Witnessed /\ SnapshotsExact /\ LongLivedExact

ReadInv == ContentInv /\ (NoneSkipped /\ seq # "stopped" => Reads)
-----------------------------------------------------------------------------
(* The stop *)

\* What a flusher has yet to send, and what the running step will have to send.
Owed(t) == IF flusher[t].pc \in {"merge", "send"} THEN 1 ELSE 0
Begun == IF seq \in {"step", "recorded"} /\ committed THEN 1 ELSE 0
Stopped == IF seq = "stopped" THEN 1 ELSE 0

\* A block owes at most one image, the stop one more.
Counted ==
    Len(channel) + Owed("batch") + Begun + Owed("stop") <= Height + Stopped

\* What the stop has left behind, when the channel never refused an image.
Stopping ==
    /\ seq = "stopped" /\ flusher["stop"].pc # "merge" =>
         /\ current = <<>>
         /\ flusher["stop"].pc = "off" => toPush = <<>>
    /\ dispatcher.pc \in {"drain", "done"} => flusher["stop"].pc = "off"
    /\ dispatcher.pc = "done" => Filled = {}

StopInv == ContentInv /\ Counted /\ Stopping
=============================================================================

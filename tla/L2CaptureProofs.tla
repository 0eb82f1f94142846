-------------------------- MODULE L2CaptureProofs --------------------------
(***************************************************************************)
(* Proofs about L2Capture, and about the rows research makes of what it    *)
(* publishes, for every number of symbols, every queue and buffer          *)
(* capacity, every checkpoint interval, attempt limit, history and         *)
(* horizon, every set of rejected books and every bound on what the        *)
(* exchange does.                                                          *)
(***************************************************************************)
EXTENDS CapturedFeatures, DepthSynchronizerFacts

-----------------------------------------------------------------------------
(* What a replay is *)

\* f is the function ReplayAt(events, n) evaluates.
Replays(events, n, f) ==
    f = [i \in 0 .. n |-> IF i = 0 THEN ReplayStart
                          ELSE ReplayStep(f[i - 1], events[i])]

\* Such functions agree on the events that two recordings share.
LEMMA ReplaysAgree ==
  ASSUME NEW events, NEW other, NEW n \in Nat, NEW m \in Nat, n <= m,
         NEW f, NEW g, Replays(events, n, f), Replays(other, m, g),
         \A i \in 1 .. n : events[i] = other[i]
  PROVE  \A i \in 0 .. n : f[i] = g[i]
<1> DEFINE S == {i \in 0 .. n : f[i] # g[i]}
<1>1. SUFFICES ASSUME S # {}  PROVE FALSE
  OBVIOUS
<1> DEFINE i == Min(S)
<1>2. i \in S /\ \A j \in S : i <= j
  <2>1. S \in SUBSET Nat  OBVIOUS
  <2> HIDE DEF S
  <2> QED BY <1>1, <2>1, MinOfNaturals
<1> HIDE DEF i
<1>3. i \in 0 .. n /\ i \in 0 .. m /\ f[i] # g[i]  BY <1>2
<1>4. i # 0  BY <1>3 DEF Replays
<1>5. i - 1 \in 0 .. n /\ i - 1 \notin S /\ i \in 1 .. n  BY <1>2, <1>3, <1>4
<1>6. f[i - 1] = g[i - 1] /\ events[i] = other[i]  BY <1>5
<1>7. f[i] = ReplayStep(f[i - 1], events[i])  BY <1>3, <1>4 DEF Replays
<1>8. g[i] = ReplayStep(g[i - 1], other[i])  BY <1>3, <1>4 DEF Replays
<1> QED BY <1>3, <1>6, <1>7, <1>8

\* And they exist, however long the recording.
LEMMA ReplaysExist ==
  ASSUME NEW events
  PROVE  \A n \in Nat : \E f : Replays(events, n, f)
<1> DEFINE S == {n \in Nat : ~ \E f : Replays(events, n, f)}
<1>1. SUFFICES ASSUME S # {}  PROVE FALSE
  OBVIOUS
<1> DEFINE n == Min(S)
<1>2. n \in S /\ \A k \in S : n <= k
  <2>1. S \in SUBSET Nat  OBVIOUS
  <2> HIDE DEF S
  <2> QED BY <1>1, <2>1, MinOfNaturals
<1> HIDE DEF n
<1>3. n \in Nat /\ ~ \E f : Replays(events, n, f)  BY <1>2
<1>4. n # 0
  <2>1. Replays(events, 0, [i \in 0 .. 0 |-> ReplayStart])  BY DEF Replays
  <2> QED BY <1>3, <2>1
<1>5. n - 1 \in Nat /\ n - 1 \notin S  BY <1>2, <1>3, <1>4
<1>6. PICK f : Replays(events, n - 1, f)  BY <1>5
<1> DEFINE g == [i \in 0 .. n |-> IF i = n THEN ReplayStep(f[n - 1], events[n])
                                           ELSE f[i]]
<1>7. \A i \in 0 .. n - 1 : g[i] = f[i]  BY <1>3
<1>8. \A i \in 0 .. n : g[i] = IF i = 0 THEN ReplayStart
                               ELSE ReplayStep(g[i - 1], events[i])
  <2> SUFFICES ASSUME NEW i \in 0 .. n
               PROVE  g[i] = IF i = 0 THEN ReplayStart
                             ELSE ReplayStep(g[i - 1], events[i])
    OBVIOUS
  <2>1. CASE i = n
    <3>1. n - 1 \in 0 .. n - 1  BY <1>5
    <3>2. g[n] = ReplayStep(f[n - 1], events[n])  BY <1>3
    <3>3. g[n - 1] = f[n - 1]  BY <1>7, <3>1
    <3> QED BY <1>4, <2>1, <3>2, <3>3
  <2>2. CASE i = 0
    <3>1. i \in 0 .. n - 1  BY <1>5, <2>2
    <3>2. f[i] = ReplayStart  BY <1>6, <2>2, <3>1 DEF Replays
    <3> QED BY <1>7, <2>2, <3>1, <3>2
  <2>3. CASE i # 0 /\ i # n
    <3>1. i \in 0 .. n - 1 /\ i - 1 \in 0 .. n - 1  BY <1>3, <2>3
    <3>2. f[i] = ReplayStep(f[i - 1], events[i])
      BY <1>6, <2>3, <3>1 DEF Replays
    <3> QED BY <1>7, <2>3, <3>1, <3>2
  <2> QED BY <2>1, <2>2, <2>3
<1>9. Replays(events, n, g)
  <2>1. g = [i \in 0 .. n |-> g[i]]  OBVIOUS
  <2> HIDE DEF g
  <2> QED BY <1>8, <2>1 DEF Replays
<1> QED BY <1>3, <1>9

\* The equations of ReplayAt, and what it does not depend on.
LEMMA ReplayAtFacts ==
  ASSUME NEW events, NEW n \in Nat
  PROVE  /\ ReplayAt(events, 0) = ReplayStart
         /\ ReplayAt(events, n + 1) =
               ReplayStep(ReplayAt(events, n), events[n + 1])
         /\ \A other : (\A i \in 1 .. n : events[i] = other[i])
                           => ReplayAt(events, n) = ReplayAt(other, n)
<1> DEFINE at(e, k) == CHOOSE f : Replays(e, k, f)
<1>1. \A e, k : ReplayAt(e, k) = at(e, k)[k]
  BY DEF ReplayAt, Replays
<1>2. \A e : \A k \in Nat : Replays(e, k, at(e, k))
  <2> SUFFICES ASSUME NEW e, NEW k \in Nat  PROVE Replays(e, k, at(e, k))
    OBVIOUS
  <2>1. \E f : Replays(e, k, f)  BY ReplaysExist
  <2> QED BY <2>1
<1> HIDE DEF at
<1>3. ReplayAt(events, 0) = ReplayStart
  <2>1. Replays(events, 0, at(events, 0))  BY <1>2
  <2> QED BY <1>1, <2>1 DEF Replays
<1>4. ReplayAt(events, n + 1) = ReplayStep(ReplayAt(events, n), events[n + 1])
  <2> DEFINE f == at(events, n)
             g == at(events, n + 1)
  <2>1. Replays(events, n, f) /\ Replays(events, n + 1, g)  BY <1>2
  <2> HIDE DEF f, g
  <2>2. f[n] = g[n]  BY <2>1, ReplaysAgree
  <2>3. g[n + 1] = ReplayStep(g[n + 1 - 1], events[n + 1])
    <3>1. n + 1 \in 0 .. n + 1 /\ n + 1 # 0  OBVIOUS
    <3> QED BY <2>1, <3>1 DEF Replays
  <2>4. n + 1 - 1 = n  OBVIOUS
  <2> QED BY <1>1, <2>2, <2>3, <2>4 DEF f, g
<1>5. \A other : (\A i \in 1 .. n : events[i] = other[i])
                     => ReplayAt(events, n) = ReplayAt(other, n)
  <2> SUFFICES ASSUME NEW other, \A i \in 1 .. n : events[i] = other[i]
               PROVE  ReplayAt(events, n) = ReplayAt(other, n)
    OBVIOUS
  <2> DEFINE f == at(events, n)
             g == at(other, n)
  <2>1. Replays(events, n, f) /\ Replays(other, n, g)  BY <1>2
  <2> HIDE DEF f, g
  <2>2. f[n] = g[n]  BY <2>1, ReplaysAgree
  <2> QED BY <1>1, <2>2 DEF f, g
<1> QED BY <1>3, <1>4, <1>5

-----------------------------------------------------------------------------
(* The values of the variables *)

RecordedEvent == [kind : {"boundary"}, reason : BoundaryReason]
                 \cup [kind : {"snapshot"}, id : Nat]
                 \cup [kind : {"depth"}, first : Nat, final : Nat]
                 \cup [kind : {"trade"}]

File == [phase : {"open", "marked", "rejected", "aborted"}]
        \cup [phase : {"published"}, complete : BOOLEAN, drops : Nat,
              book : Book]

Capture == [sync : Synchronizer, pending : 0 .. MaxId,
            since : 0 .. CheckpointInterval - 1, events : Seq(RecordedEvent),
            checkpoints : Seq([index : Nat, book : Book]), file : File]

Message == [kind : {"connected", "disconnected"}]
           \cup [kind : {"depth"}, symbol : Symbols, update : DepthUpdate]
           \cup [kind : {"trade"}, symbol : Symbols]

\* CheckpointsHold of one capture, and no checkpoint ahead of its events.
CheckpointsSound(events, checkpoints) ==
    \A i \in DOMAIN checkpoints :
        /\ checkpoints[i].index <= Len(events)
        /\ CheckpointHolds(events, checkpoints[i])
        /\ i > 1 => checkpoints[i - 1].index < checkpoints[i].index

\* A replay in which no line has raised.
Replayed == [book : Book, ok : {TRUE}]

\* A depth event carries a book on: the book has a snapshot, nothing between
\* the two is missing, and not all of the event is old.
Fits(e, b) == b.last # 0 /\ ~ Stale(e, b.last) /\ ~ Gap(e, b.last)

\* After every event a replay holds the exchange's book, and every depth event
\* carries it on.
Rebuilt(events) ==
    \A n \in 0 .. Len(events) :
        /\ ReplayAt(events, n) \in Replayed
        /\ Exact(ReplayAt(events, n).book)
        /\ n < Len(events) /\ events[n + 1].kind = "depth"
              => Fits(events[n + 1], ReplayAt(events, n).book)

\* What an event must be for that to stay so.
Continues(r, x) == /\ ReplayStep(r, x) \in Replayed
                   /\ Exact(ReplayStep(r, x).book)
                   /\ x.kind = "depth" => Fits(x, r.book)

\* What every handler keeps of a capture, even when it raises.
Kept(c) == /\ c \in Capture
           /\ Sound(c.sync)
           /\ CheckpointsSound(c.events, c.checkpoints)
           /\ Rebuilt(c.events)

\* RecordingIsLiveBook of one capture, and that its replay never raises.
Faithful(c) == /\ Replay(c.events) \in Replayed
               /\ c.sync.state = "live"
                     => /\ Replay(c.events).book = c.sync.book
                        /\ c.sync.book.last # 0

\* LoopSettles of one capture.
Settled(c) == /\ c.sync.buffer = <<>>
              /\ c.pending # 0 => /\ c.sync.state = "awaiting_snapshot"
                                  /\ c.sync.book = SnapshotBook(c.pending)

\* A capture that waits for a snapshot: one event is to be bridged.
Waits(c) == Len(c.sync.buffer) = 1 /\ c.pending = 0

-----------------------------------------------------------------------------
(* Sequences *)

LEMMA AppendFacts ==
  ASSUME NEW S, NEW s \in Seq(S), NEW x \in S
  PROVE  /\ Append(s, x) \in Seq(S)
         /\ Len(Append(s, x)) = Len(s) + 1
         /\ Len(s) \in Nat
         /\ \A i \in 1 .. Len(s) : Append(s, x)[i] = s[i]
         /\ Append(s, x)[Len(s) + 1] = x
OBVIOUS

LEMMA ElementFacts ==
  ASSUME NEW S, NEW s \in Seq(S), NEW i \in DOMAIN s
  PROVE  s[i] \in S
OBVIOUS

\* One more event: the replay takes one more step, and a checkpoint that held
\* still holds, since it names the number of events before it.
LEMMA WrittenFacts ==
  ASSUME NEW events \in Seq(RecordedEvent), NEW x \in RecordedEvent
  PROVE  LET longer == Append(events, x)
         IN /\ Replay(longer) = ReplayStep(Replay(events), x)
            /\ \A n \in 0 .. Len(events) :
                  ReplayAt(longer, n) = ReplayAt(events, n)
<1> DEFINE longer == Append(events, x)
<1>1. /\ Len(longer) = Len(events) + 1
      /\ Len(events) \in Nat
      /\ \A i \in 1 .. Len(events) : longer[i] = events[i]
      /\ longer[Len(events) + 1] = x
  BY AppendFacts
<1> HIDE DEF longer
<1>2. \A n \in 0 .. Len(events) : ReplayAt(longer, n) = ReplayAt(events, n)
  <2> SUFFICES ASSUME NEW n \in 0 .. Len(events)
               PROVE  ReplayAt(longer, n) = ReplayAt(events, n)
    OBVIOUS
  <2>1. n \in Nat /\ \A i \in 1 .. n : longer[i] = events[i]  BY <1>1
  <2> QED BY <2>1, ReplayAtFacts
<1>3. Replay(longer) = ReplayStep(Replay(events), x)
  <2> DEFINE k == Len(events)
  <2>1. k \in Nat /\ k \in 0 .. k /\ Len(longer) = k + 1  BY <1>1
  <2>2. ReplayAt(longer, k + 1) = ReplayStep(ReplayAt(longer, k), longer[k + 1])
    <3> HIDE DEF k
    <3> QED BY <2>1, ReplayAtFacts
  <2>3. ReplayAt(longer, k) = ReplayAt(events, k)  BY <1>2, <2>1
  <2> QED BY <1>1, <2>1, <2>2, <2>3 DEF Replay
<1> QED BY <1>2, <1>3 DEF longer

\* A recording that is rebuilt stays so by an event that continues it.
LEMMA RebuiltLonger ==
  ASSUME NEW events \in Seq(RecordedEvent), NEW x \in RecordedEvent,
         Rebuilt(events), Continues(Replay(events), x)
  PROVE  Rebuilt(Append(events, x))
<1> DEFINE longer == Append(events, x)
<1>1. /\ Len(longer) = Len(events) + 1
      /\ Len(events) \in Nat
      /\ \A i \in 1 .. Len(events) : longer[i] = events[i]
      /\ longer[Len(events) + 1] = x
  BY AppendFacts
<1>2. /\ Replay(longer) = ReplayStep(Replay(events), x)
      /\ \A n \in 0 .. Len(events) : ReplayAt(longer, n) = ReplayAt(events, n)
  BY WrittenFacts
<1> HIDE DEF longer
<1> SUFFICES ASSUME NEW n \in 0 .. Len(longer)
             PROVE  /\ ReplayAt(longer, n) \in Replayed
                    /\ Exact(ReplayAt(longer, n).book)
                    /\ n < Len(longer) /\ longer[n + 1].kind = "depth"
                          => Fits(longer[n + 1], ReplayAt(longer, n).book)
  BY DEF Rebuilt, longer
<1>3. CASE n = Len(events) + 1
  BY <1>1, <1>2, <1>3 DEF Replay, Continues
<1>4. CASE n = Len(events)
  <2>1. n \in 0 .. Len(events)  BY <1>1, <1>4
  <2>2. ReplayAt(longer, n) = Replay(events)  BY <1>2, <1>4, <2>1 DEF Replay
  <2>3. Replay(events) \in Replayed /\ Exact(Replay(events).book)
    BY <1>4, <2>1 DEF Replay, Rebuilt
  <2> QED BY <1>1, <1>4, <2>2, <2>3 DEF Continues
<1>5. CASE n < Len(events)
  <2>1. n \in 0 .. Len(events) /\ n + 1 \in 1 .. Len(events)  BY <1>1, <1>5
  <2> QED BY <1>1, <1>2, <1>5, <2>1 DEF Rebuilt
<1> QED BY <1>1, <1>3, <1>4, <1>5

\* Checkpoints survive a further event.
LEMMA CheckpointsSurvive ==
  ASSUME NEW events \in Seq(RecordedEvent), NEW x \in RecordedEvent,
         NEW checkpoints \in Seq([index : Nat, book : Book]),
         CheckpointsSound(events, checkpoints)
  PROVE  CheckpointsSound(Append(events, x), checkpoints)
<1> DEFINE longer == Append(events, x)
<1>1. Len(longer) = Len(events) + 1 /\ Len(events) \in Nat  BY AppendFacts
<1>2. \A n \in 0 .. Len(events) : ReplayAt(longer, n) = ReplayAt(events, n)
  BY WrittenFacts
<1> HIDE DEF longer
<1> SUFFICES ASSUME NEW i \in DOMAIN checkpoints
             PROVE  /\ checkpoints[i].index <= Len(longer)
                    /\ CheckpointHolds(longer, checkpoints[i])
                    /\ i > 1 => checkpoints[i - 1].index < checkpoints[i].index
  BY DEF CheckpointsSound, longer
<1>3. checkpoints[i].index \in Nat
  <2>1. checkpoints[i] \in [index : Nat, book : Book]  BY ElementFacts
  <2> QED BY <2>1
<1>4. /\ checkpoints[i].index <= Len(events)
      /\ CheckpointHolds(events, checkpoints[i])
      /\ i > 1 => checkpoints[i - 1].index < checkpoints[i].index
  BY DEF CheckpointsSound
<1>5. checkpoints[i].index \in 0 .. Len(events)  BY <1>1, <1>3, <1>4
<1> QED BY <1>1, <1>2, <1>3, <1>4, <1>5 DEF CheckpointHolds

\* So does the whole list when the book of the replay is added behind events
\* that no checkpoint has seen yet.
LEMMA CheckpointAdded ==
  ASSUME NEW events \in Seq(RecordedEvent), NEW book \in Book,
         NEW checkpoints \in Seq([index : Nat, book : Book]),
         CheckpointsSound(events, checkpoints),
         \A i \in DOMAIN checkpoints : checkpoints[i].index < Len(events),
         Replay(events).book = book
  PROVE  CheckpointsSound(events,
                          Append(checkpoints, Checkpoint(Len(events), book)))
<1> DEFINE last == Checkpoint(Len(events), book)
           longer == Append(checkpoints, last)
<1>1. /\ last \in [index : Nat, book : Book]
      /\ last.index = Len(events) /\ last.book = book
  BY DEF Checkpoint
<1> HIDE DEF last
<1>2. /\ longer \in Seq([index : Nat, book : Book])
      /\ Len(longer) = Len(checkpoints) + 1
      /\ Len(checkpoints) \in Nat
      /\ \A i \in 1 .. Len(checkpoints) : longer[i] = checkpoints[i]
      /\ longer[Len(checkpoints) + 1] = last
  BY <1>1, AppendFacts
<1> HIDE DEF longer
<1> SUFFICES ASSUME NEW i \in 1 .. Len(longer)
             PROVE  /\ longer[i].index <= Len(events)
                    /\ CheckpointHolds(events, longer[i])
                    /\ i > 1 => longer[i - 1].index < longer[i].index
  BY <1>2 DEF CheckpointsSound, longer, last
<1>3. CASE i <= Len(checkpoints)
  <2>1. i \in DOMAIN checkpoints /\ longer[i] = checkpoints[i]
    BY <1>2, <1>3
  <2>2. ASSUME i > 1  PROVE longer[i - 1] = checkpoints[i - 1]
    <3>1. i - 1 \in 1 .. Len(checkpoints)  BY <1>2, <1>3, <2>2
    <3> QED BY <1>2, <3>1
  <2> QED BY <2>1, <2>2 DEF CheckpointsSound
<1>4. CASE i = Len(checkpoints) + 1
  <2>1. longer[i] = last  BY <1>2, <1>4
  <2>2. ASSUME i > 1
        PROVE  /\ longer[i - 1] = checkpoints[i - 1]
               /\ i - 1 \in DOMAIN checkpoints
    <3>1. i - 1 \in 1 .. Len(checkpoints)  BY <1>2, <1>4, <2>2
    <3>2. DOMAIN checkpoints = 1 .. Len(checkpoints)  OBVIOUS
    <3> QED BY <1>2, <3>1, <3>2
  <2>3. CheckpointHolds(events, last)  BY <1>1 DEF CheckpointHolds, Replay
  <2>4. Len(events) \in Nat  OBVIOUS
  <2> QED BY <1>1, <2>1, <2>2, <2>3, <2>4
<1> QED BY <1>2, <1>3, <1>4

-----------------------------------------------------------------------------
(* What the operators of SymbolCapture do *)

\* The events a capture writes are events of a recording.
LEMMA EventsAreRecorded ==
  /\ \A r \in BoundaryReason : Boundary(r) \in RecordedEvent
  /\ \A id \in Nat : Snapshot(id) \in RecordedEvent
  /\ \A e \in DepthUpdate : Depth(e) \in RecordedEvent
  /\ TradeEvent \in RecordedEvent
<1>1. \A r \in BoundaryReason : Boundary(r) \in RecordedEvent
  BY DEF RecordedEvent, Boundary
<1>2. \A id \in Nat : Snapshot(id) \in RecordedEvent
  BY DEF RecordedEvent, Snapshot
<1>3. \A e \in DepthUpdate : Depth(e) \in RecordedEvent
  BY DEF RecordedEvent, Depth, DepthUpdate
<1>4. TradeEvent \in RecordedEvent
  BY DEF RecordedEvent, TradeEvent
<1> QED BY <1>1, <1>2, <1>3, <1>4

\* The cleared book is the exchange's before its first change.
LEMMA StartFacts == ReplayStart \in Replayed /\ Exact(ReplayStart.book)
<1>1. ClearedBook \in Book  BY DEF ClearedBook, Book
<1>2. ReplayStart \in Replayed /\ ReplayStart.book = ClearedBook
  BY <1>1 DEF ReplayStart, Replayed
<1>3. ClearedBook.ids = {} /\ ClearedBook.last = 0  BY DEF ClearedBook
<1>4. 1 .. 0 = {}  OBVIOUS
<1> QED BY <1>2, <1>3, <1>4 DEF Exact

\* What is known of the replay of a capture's recording.
LEMMA KeptReplays ==
  ASSUME NEW c, Kept(c)
  PROVE  Replay(c.events) \in Replayed /\ Exact(Replay(c.events).book)
<1>1. c.events \in Seq(RecordedEvent)  BY DEF Kept, Capture
<1>2. Len(c.events) \in 0 .. Len(c.events)  BY <1>1
<1> QED BY <1>2 DEF Kept, Rebuilt, Replay

\* write() of an event that continues the recording adds one step to the
\* replay and changes nothing else.
LEMMA WriteFacts ==
  ASSUME NEW c, Kept(c), NEW x \in RecordedEvent,
         Continues(Replay(c.events), x)
  PROVE  LET out == Write(c, x)
         IN /\ Kept(out)
            /\ out.sync = c.sync /\ out.pending = c.pending
            /\ out.since = c.since /\ out.file = c.file
            /\ out.checkpoints = c.checkpoints
            /\ out.events = Append(c.events, x)
            /\ Replay(out.events) = ReplayStep(Replay(c.events), x)
<1> DEFINE longer == Append(c.events, x)
           out == Write(c, x)
<1>1. /\ c \in Capture /\ c.events \in Seq(RecordedEvent)
      /\ c.checkpoints \in Seq([index : Nat, book : Book])
  BY DEF Kept, Capture
<1>2. longer \in Seq(RecordedEvent)  BY <1>1
<1>3. CheckpointsSound(longer, c.checkpoints)
  BY <1>1, CheckpointsSurvive DEF Kept
<1>4. /\ Replay(longer) = ReplayStep(Replay(c.events), x)
      /\ Rebuilt(longer)
  BY <1>1, WrittenFacts, RebuiltLonger DEF Kept
<1>5. out = [c EXCEPT !.events = longer]  BY DEF Write
<1> HIDE DEF longer, out
<1>6. /\ out \in Capture
      /\ out.sync = c.sync /\ out.pending = c.pending
      /\ out.since = c.since /\ out.file = c.file
      /\ out.checkpoints = c.checkpoints /\ out.events = longer
  BY <1>1, <1>2, <1>5 DEF Capture
<1>7. Kept(out)  BY <1>3, <1>4, <1>6 DEF Kept
<1> QED BY <1>4, <1>6, <1>7 DEF longer, out

\* Each kind of event in a replay that has not raised.
LEMMA StepFacts ==
  ASSUME NEW r \in Replayed
  PROVE  /\ \A reason \in BoundaryReason :
               ReplayStep(r, Boundary(reason)) = ReplayStart
         /\ \A id \in Nat : ~ Rejected(SnapshotBook(id)) =>
               ReplayStep(r, Snapshot(id))
                  = [book |-> SnapshotBook(id), ok |-> TRUE]
         /\ ReplayStep(r, TradeEvent) = r
         /\ \A e \in DepthUpdate :
               LET b == Applied(r.book, e)
               IN ~ Stale(e, r.book.last) /\ ~ Gap(e, r.book.last)
                  /\ ~ Rejected(b)
                     => ReplayStep(r, Depth(e)) = [book |-> b, ok |-> TRUE]
<1>1. r = [book |-> r.book, ok |-> TRUE]  BY DEF Replayed
<1>2. ASSUME NEW reason \in BoundaryReason
      PROVE  ReplayStep(r, Boundary(reason)) = ReplayStart
  <2>1. ReplayStep(r, Boundary(reason)) = [r EXCEPT !.book = ClearedBook]
    BY <1>1 DEF ReplayStep, Boundary
  <2>2. [r EXCEPT !.book = ClearedBook] = [book |-> ClearedBook, ok |-> r.ok]
    BY DEF Replayed
  <2>3. r.ok = TRUE  BY <1>1
  <2> QED BY <2>1, <2>2, <2>3 DEF ReplayStart
<1>3. ASSUME NEW id \in Nat, ~ Rejected(SnapshotBook(id))
      PROVE  ReplayStep(r, Snapshot(id)) = [book |-> SnapshotBook(id),
                                            ok |-> TRUE]
  <2>1. ReplayStep(r, Snapshot(id)) = Loaded(r, SnapshotBook(id))
    BY <1>1 DEF ReplayStep, Snapshot
  <2>2. (r.ok /\ ~ Rejected(SnapshotBook(id))) = TRUE  BY <1>1, <1>3
  <2> QED BY <2>1, <2>2 DEF Loaded
<1>4. ReplayStep(r, TradeEvent) = r
  BY <1>1 DEF ReplayStep, TradeEvent
<1>5. ASSUME NEW e \in DepthUpdate, ~ Stale(e, r.book.last),
             ~ Gap(e, r.book.last), ~ Rejected(Applied(r.book, e))
      PROVE  ReplayStep(r, Depth(e)) = [book |-> Applied(r.book, e),
                                        ok |-> TRUE]
  <2> DEFINE x == Depth(e)
  <2>1. /\ x.kind = "depth" /\ x.first = e.first /\ x.final = e.final
    BY DEF Depth
  <2>2. Applied(r.book, x) = Applied(r.book, e)  BY <2>1 DEF Applied
  <2> HIDE DEF x
  <2>3. ReplayStep(r, x) = Loaded(r, Applied(r.book, x))
    BY <1>1, <1>5, <2>1 DEF ReplayStep, Stale, Gap
  <2>4. (r.ok /\ ~ Rejected(Applied(r.book, e))) = TRUE  BY <1>1, <1>5
  <2> QED BY <2>2, <2>3, <2>4 DEF Loaded, x
<1> QED BY <1>2, <1>3, <1>4, <1>5

\* A boundary: whatever the capture has replayed is left behind.
LEMMA BoundaryFacts ==
  ASSUME NEW c, Kept(c), NEW reason \in BoundaryReason
  PROVE  LET out == Write(c, Boundary(reason))
         IN Kept(out) /\ Replay(out.events) \in Replayed
            /\ out.sync = c.sync /\ out.pending = c.pending
            /\ out.file = c.file
<1>1. Boundary(reason) \in RecordedEvent  BY EventsAreRecorded
<1>2. ReplayStep(Replay(c.events), Boundary(reason)) = ReplayStart
  BY KeptReplays, StepFacts
<1>3. ReplayStart \in Replayed /\ Exact(ReplayStart.book)
  BY StartFacts
<1>4. Continues(Replay(c.events), Boundary(reason))
  BY <1>2, <1>3 DEF Continues, Boundary
<1> QED BY <1>1, <1>2, <1>3, <1>4, WriteFacts

\* Replacing the synchronizer and the retained snapshot of a capture.
Replaced(c, out, s, id) ==
    /\ Kept(out) /\ out.sync = s /\ out.pending = id
    /\ out.events = c.events /\ out.file = c.file

LEMMA ReplacedFacts ==
  ASSUME NEW c, Kept(c), NEW s, Sound(s), NEW id \in 0 .. MaxId
  PROVE  Replaced(c, [c EXCEPT !.sync = s, !.pending = id], s, id)
<1> DEFINE out == [c EXCEPT !.sync = s, !.pending = id]
<1>1. s \in Synchronizer  BY DEF Sound, Synchronizer
<1>2. c \in Capture  BY DEF Kept
<1>3. /\ out \in Capture /\ out.sync = s /\ out.pending = id
      /\ out.events = c.events /\ out.file = c.file
      /\ out.checkpoints = c.checkpoints
  BY <1>1, <1>2 DEF Capture
<1> HIDE DEF out
<1> QED BY <1>3 DEF Kept, Replaced, out

LEMMA SyncReplaced ==
  ASSUME NEW c, Kept(c), NEW s, Sound(s)
  PROVE  Replaced(c, [c EXCEPT !.sync = s], s, c.pending)
<1>1. c \in Capture /\ c.pending \in 0 .. MaxId  BY DEF Kept, Capture
<1>2. [c EXCEPT !.sync = s] = [c EXCEPT !.sync = s, !.pending = c.pending]
  BY <1>1 DEF Capture
<1> QED BY <1>1, <1>2, ReplacedFacts

LEMMA PendingReplaced ==
  ASSUME NEW c, Kept(c), NEW id \in 0 .. MaxId
  PROVE  Replaced(c, [c EXCEPT !.pending = id], c.sync, id)
<1>1. c \in Capture /\ Sound(c.sync)  BY DEF Kept
<1>2. [c EXCEPT !.pending = id] = [c EXCEPT !.sync = c.sync, !.pending = id]
  BY <1>1 DEF Capture
<1> QED BY <1>1, <1>2, ReplacedFacts

\* _record_applied() of an event that the book of the capture has taken, and
\* a replay of the recording has not: the replay catches up, and a checkpoint
\* that falls due there holds.
LEMMA RecordAppliedFacts ==
  ASSUME NEW c, Kept(c), NEW e \in DepthUpdate,
         Fits(e, Replay(c.events).book),
         c.sync.book = Applied(Replay(c.events).book, e),
         ~ Rejected(c.sync.book)
  PROVE  LET out == RecordApplied(c, e)
         IN /\ Kept(out)
            /\ Replay(out.events) \in Replayed
            /\ Replay(out.events).book = c.sync.book
            /\ out.sync = c.sync /\ out.pending = c.pending
            /\ out.file = c.file
<1> DEFINE r == Replay(c.events)
           w == Write(c, Depth(e))
           out == RecordApplied(c, e)
<1>1. Depth(e) \in RecordedEvent  BY EventsAreRecorded
<1>0. Continues(r, Depth(e))
  <2>0. r \in Replayed /\ ~ Stale(e, r.book.last) /\ ~ Gap(e, r.book.last)
    BY KeptReplays DEF Fits
  <2>1. ReplayStep(r, Depth(e)) = [book |-> c.sync.book, ok |-> TRUE]
    <3> HIDE DEF r
    <3> QED BY <2>0, StepFacts DEF r
  <2>2. c.sync.book \in Book /\ Exact(c.sync.book)  BY DEF Kept, Sound
  <2>3. Fits(Depth(e), r.book)  BY DEF Fits, Depth, Stale, Gap
  <2> QED BY <2>1, <2>2, <2>3 DEF Continues, Replayed
<1>2. /\ Kept(w) /\ w.sync = c.sync /\ w.pending = c.pending
      /\ w.since = c.since /\ w.file = c.file
      /\ w.checkpoints = c.checkpoints
      /\ w.events = Append(c.events, Depth(e))
      /\ Replay(w.events) = ReplayStep(r, Depth(e))
  BY <1>0, <1>1, WriteFacts
<1>3. Replay(w.events) = [book |-> c.sync.book, ok |-> TRUE]
  BY <1>2, KeptReplays, StepFacts DEF Fits
<1>4. /\ c.sync.book \in Book
      /\ Replay(w.events) \in Replayed
      /\ Replay(w.events).book = c.sync.book
  <2>1. c.sync.book \in Book  BY DEF Kept, Sound
  <2> QED BY <1>3, <2>1 DEF Replayed
<1>5. /\ w \in Capture
      /\ w.since \in 0 .. CheckpointInterval - 1
      /\ w.events \in Seq(RecordedEvent)
      /\ w.checkpoints \in Seq([index : Nat, book : Book])
      /\ CheckpointsSound(w.events, w.checkpoints)
  BY <1>2 DEF Kept, Capture
<1>6. out = IF w.since + 1 >= CheckpointInterval
            THEN [w EXCEPT !.checkpoints =
                              Append(@, Checkpoint(Len(w.events), w.sync.book)),
                           !.since = 0]
            ELSE [w EXCEPT !.since = @ + 1]
  <2> HIDE DEF w
  <2> DEFINE v == [w EXCEPT !.since = @ + 1]
  <2>1. v.since = w.since + 1  BY <1>5 DEF Capture
  <2>2. /\ v.events = w.events /\ v.sync = w.sync
        /\ v.checkpoints = w.checkpoints
    BY <1>5 DEF Capture
  <2>3. out = IF v.since >= CheckpointInterval
              THEN [WriteCheckpoint(v) EXCEPT !.since = 0] ELSE v
    BY DEF RecordApplied, w
  <2>4. [WriteCheckpoint(v) EXCEPT !.since = 0]
          = [w EXCEPT !.checkpoints =
                         Append(@, Checkpoint(Len(w.events), w.sync.book)),
                      !.since = 0]
    BY <1>5, <2>2 DEF WriteCheckpoint, Capture
  <2> QED BY <2>1, <2>3, <2>4
<1> HIDE DEF w, out
<1> DEFINE Goal == /\ Kept(out)
                   /\ Replay(out.events) \in Replayed
                   /\ Replay(out.events).book = c.sync.book
                   /\ out.sync = c.sync /\ out.pending = c.pending
                   /\ out.file = c.file
<1>7. ASSUME w.since + 1 >= CheckpointInterval  PROVE Goal
  <2> DEFINE longer == Append(w.checkpoints,
                              Checkpoint(Len(w.events), w.sync.book))
  <2>1. \A i \in DOMAIN w.checkpoints : w.checkpoints[i].index < Len(w.events)
    <3> SUFFICES ASSUME NEW i \in DOMAIN c.checkpoints
                 PROVE  c.checkpoints[i].index < Len(w.events)
      BY <1>2
    <3>1. /\ c.events \in Seq(RecordedEvent)
          /\ c.checkpoints \in Seq([index : Nat, book : Book])
          /\ c.checkpoints[i].index <= Len(c.events)
      BY DEF Kept, Capture, CheckpointsSound
    <3>2. c.checkpoints[i] \in [index : Nat, book : Book]
      BY <3>1, ElementFacts
    <3>3. Len(w.events) = Len(c.events) + 1 /\ Len(c.events) \in Nat
      BY <1>1, <1>2, <3>1, AppendFacts
    <3> QED BY <3>1, <3>2, <3>3
  <2>2. CheckpointsSound(w.events, longer)
    <3>1. w.sync.book \in Book /\ Replay(w.events).book = w.sync.book
      BY <1>2, <1>4
    <3> QED BY <1>5, <2>1, <3>1, CheckpointAdded
  <2>3. longer \in Seq([index : Nat, book : Book])
    <3>1. Checkpoint(Len(w.events), w.sync.book) \in [index : Nat, book : Book]
      BY <1>2, <1>4, <1>5 DEF Checkpoint
    <3> QED BY <1>5, <3>1, AppendFacts
  <2>4. out = [w EXCEPT !.checkpoints = longer, !.since = 0]
    BY <1>6, <1>7
  <2> HIDE DEF longer
  <2>5. /\ out \in Capture
        /\ out.sync = w.sync /\ out.pending = w.pending
        /\ out.file = w.file /\ out.events = w.events
        /\ out.checkpoints = longer
    <3>1. 0 \in 0 .. CheckpointInterval - 1  BY CaptureAssumption
    <3> QED BY <1>5, <2>3, <2>4, <3>1 DEF Capture
  <2>6. Kept(out)  BY <1>2, <2>2, <2>5 DEF Kept
  <2> QED BY <1>2, <1>4, <2>5, <2>6
<1>8. ASSUME ~ (w.since + 1 >= CheckpointInterval)  PROVE Goal
  <2>1. out = [w EXCEPT !.since = @ + 1]  BY <1>6, <1>8
  <2>2. w.since + 1 \in 0 .. CheckpointInterval - 1
    BY <1>5, <1>8, CaptureAssumption
  <2>3. /\ out \in Capture
        /\ out.sync = w.sync /\ out.pending = w.pending
        /\ out.file = w.file /\ out.events = w.events
        /\ out.checkpoints = w.checkpoints
    BY <1>5, <2>1, <2>2 DEF Capture
  <2>4. Kept(out)  BY <1>2, <1>5, <2>3 DEF Kept
  <2> QED BY <1>2, <1>4, <2>3, <2>4
<1> QED BY <1>7, <1>8 DEF out

\* The same for the events of a snapshot that has bridged one.
LEMMA RecordAllOfOne ==
  ASSUME NEW c, NEW e
  PROVE  RecordAll(c, <<e>>) = RecordApplied(c, e)
<1> DEFINE one == <<e>>
           step(f, i) == IF i = 0 THEN c ELSE RecordApplied(f[i - 1], one[i])
           w == [i \in 0 .. 1 |-> IF i = 0 THEN c ELSE RecordApplied(c, e)]
           after == CHOOSE f : f = [i \in 0 .. 1 |-> step(f, i)]
<1>1. one[1] = e /\ Len(one) = 1 /\ 1 - 1 = 0  OBVIOUS
<1>2. RecordAll(c, one) = after[1]  BY <1>1 DEF RecordAll
<1> HIDE DEF one
<1>3. w = [i \in 0 .. 1 |-> step(w, i)]
  <2>1. step(w, 0) = c  OBVIOUS
  <2>2. w[0] = c  OBVIOUS
  <2>3. step(w, 1) = RecordApplied(w[1 - 1], one[1])  OBVIOUS
  <2>4. \A i \in 0 .. 1 : i = 0 \/ i = 1  OBVIOUS
  <2>5. step(w, 1) = RecordApplied(c, e)
    <3> HIDE DEF w, step
    <3> QED BY <1>1, <2>2, <2>3
  <2>6. \A i \in 0 .. 1 :
           step(w, i) = IF i = 0 THEN c ELSE RecordApplied(c, e)
    <3> HIDE DEF w, step
    <3> QED BY <2>1, <2>4, <2>5
  <2> HIDE DEF step
  <2> QED BY <2>6
<1>4. after = [i \in 0 .. 1 |-> step(after, i)]
  <2> HIDE DEF w, step
  <2> QED BY <1>3
<1> HIDE DEF after
<1>5. after[0] = step(after, 0) /\ after[1] = step(after, 1)
  <2> HIDE DEF step
  <2>1. 0 \in 0 .. 1 /\ 1 \in 0 .. 1  OBVIOUS
  <2> QED BY <1>4, <2>1
<1>6. after[0] = c  BY <1>5
<1>7. step(after, 1) = RecordApplied(after[1 - 1], one[1])  OBVIOUS
<1> HIDE DEF step
<1> QED BY <1>1, <1>2, <1>5, <1>6, <1>7 DEF one

\* What a handler leaves, by how it ends.
Handled(c, out) ==
    /\ Kept(out.cap) /\ out.cap.file = c.file
    /\ out.next \in {"return", "fetch", "raise"}
    /\ out.next = "return" => Faithful(out.cap) /\ Settled(out.cap)
    /\ out.next = "fetch"  => Faithful(out.cap) /\ Waits(out.cap)

\* _install_snapshot() when one event waits to be bridged, and what
\* synchronize() does next.
LEMMA InstalledFacts ==
  ASSUME NEW c, Kept(c), Faithful(c), Len(c.sync.buffer) = 1,
         NEW id \in 1 .. MaxId
  PROVE  Handled(c, Installed(c, id))
<1> DEFINE e == c.sync.buffer[1]
           out == InstallSnapshot(c.sync, id)
           b == Applied(SnapshotBook(id), e)
           d == [c EXCEPT !.sync = out.sync]
           done == Installed(c, id)
<1>1. /\ c.sync.buffer \in Seq(DepthUpdate) /\ c.sync.state # "live"
      /\ Replay(c.events) \in Replayed
  <2>1. c.sync.buffer \in Seq(DepthUpdate)  BY DEF Kept, Sound
  <2>2. c.sync.buffer # <<>>  OBVIOUS
  <2> QED BY <2>1, <2>2 DEF Kept, Sound, Faithful
<1>2. e \in DepthUpdate /\ c.sync.buffer = <<e>> /\ b.last # 0
  <2>1. 1 \in DOMAIN c.sync.buffer  BY <1>1
  <2>2. c.sync.buffer = [i \in 1 .. 1 |-> c.sync.buffer[i]]  BY <1>1
  <2>3. e \in DepthUpdate  BY <1>1, <2>1, ElementFacts
  <2>4. b.last = e.final /\ e.final # 0  BY <2>3 DEF Applied, DepthUpdate
  <2> QED BY <2>2, <2>3, <2>4
<1>3. id \in Nat /\ id \in 0 .. MaxId /\ 0 \in 0 .. MaxId
  BY CaptureAssumption
<1>4. Sound(out.sync)  BY <1>3, InstallFacts DEF Kept
<1>5. /\ Kept(d) /\ d.sync = out.sync /\ d.events = c.events
      /\ d.file = c.file /\ d.pending = c.pending
  <2> HIDE DEF out
  <2>1. Replaced(c, d, out.sync, c.pending)  BY <1>4, SyncReplaced
  <2> QED BY <2>1 DEF Replaced
<1>6. CASE out.result = "raised"
  <2>1. done = [cap |-> d, next |-> "raise"]  BY <1>6 DEF Installed
  <2> HIDE DEF d
  <2> QED BY <1>5, <2>1 DEF Handled
<1>7. CASE out.result = "snapshot_too_old" /\ out.sync = c.sync
  <2> DEFINE w == Write(d, Boundary("snapshot_retry"))
             t == [w EXCEPT !.pending = 0]
  <2>1. done = [cap |-> t, next |-> "fetch"]  BY <1>7 DEF Installed
  <2> HIDE DEF d
  <2>2. /\ Kept(w) /\ Replay(w.events) \in Replayed
        /\ w.sync = d.sync /\ w.file = d.file
    BY <1>1, <1>5, BoundaryFacts DEF BoundaryReason
  <2> HIDE DEF w
  <2>3. /\ Kept(t) /\ t.sync = c.sync /\ t.pending = 0
        /\ t.events = w.events /\ t.file = c.file
    <3>1. Replaced(w, t, w.sync, 0)  BY <1>3, <2>2, PendingReplaced
    <3> QED BY <1>5, <1>7, <2>2, <3>1 DEF Replaced
  <2> HIDE DEF t
  <2> QED BY <1>1, <2>1, <2>2, <2>3 DEF Handled, Faithful, Waits
<1>8. CASE /\ out.result = "awaiting_bridge"
           /\ out.sync = [state |-> "awaiting_snapshot", buffer |-> <<>>,
                          book |-> SnapshotBook(id)]
  <2> DEFINE t == [d EXCEPT !.pending = id]
  <2>1. done = [cap |-> t, next |-> "return"]  BY <1>8 DEF Installed
  <2> HIDE DEF d
  <2>2. /\ Kept(t) /\ t.sync = d.sync /\ t.pending = id
        /\ t.events = d.events /\ t.file = d.file
    <3>1. Replaced(d, t, d.sync, id)  BY <1>3, <1>5, PendingReplaced
    <3> QED BY <3>1 DEF Replaced
  <2> HIDE DEF t
  <2>3. /\ t.sync.buffer = <<>> /\ t.sync.state = "awaiting_snapshot"
        /\ t.sync.book = SnapshotBook(id)
    BY <1>5, <1>8, <2>2
  <2> QED BY <1>1, <1>5, <2>1, <2>2, <2>3 DEF Handled, Faithful, Settled
<1>9. CASE /\ out.result = "synchronized"
           /\ out.applied = <<e>>
           /\ out.sync = [state |-> "live", buffer |-> <<>>, book |-> b]
           /\ ~ Stale(e, id) /\ ~ Gap(e, id)
           /\ ~ Rejected(SnapshotBook(id)) /\ ~ Rejected(b)
  <2> DEFINE w == Write(d, Snapshot(id))
             t == [w EXCEPT !.pending = 0]
             u == RecordApplied(t, e)
  <2>1. done = [cap |-> u, next |-> "return"]
    <3>1. done = [cap |-> RecordAll(t, out.applied), next |-> "return"]
      BY <1>9 DEF Installed
    <3> QED BY <1>9, <3>1, RecordAllOfOne
  <2>2. Snapshot(id) \in RecordedEvent  BY <1>3, EventsAreRecorded
  <2> HIDE DEF d
  <2>3. /\ Kept(w) /\ w.sync = d.sync /\ w.file = d.file
        /\ Replay(w.events) = [book |-> SnapshotBook(id), ok |-> TRUE]
    <3>1. ReplayStep(Replay(d.events), Snapshot(id))
             = [book |-> SnapshotBook(id), ok |-> TRUE]
      BY <1>1, <1>3, <1>5, <1>9, StepFacts
    <3>2. Continues(Replay(d.events), Snapshot(id))
      <4>1. SnapshotBook(id) \in Book /\ Exact(SnapshotBook(id))
        BY <1>3 DEF SnapshotBook, Book, Exact
      <4> DEFINE r == [book |-> SnapshotBook(id), ok |-> TRUE]
      <4>2. r \in Replayed /\ r.book = SnapshotBook(id)  BY <4>1 DEF Replayed
      <4>3. Snapshot(id).kind # "depth"  BY DEF Snapshot
      <4> HIDE DEF r
      <4> QED BY <3>1, <4>1, <4>2, <4>3 DEF Continues, r
    <3>3. /\ Kept(w) /\ w.sync = d.sync /\ w.file = d.file
          /\ Replay(w.events) = ReplayStep(Replay(d.events), Snapshot(id))
      BY <1>5, <2>2, <3>2, WriteFacts
    <3> QED BY <3>1, <3>3
  <2> HIDE DEF w
  <2>4. /\ Kept(t) /\ t.sync = w.sync /\ t.pending = 0
        /\ t.events = w.events /\ t.file = w.file
    <3>1. Replaced(w, t, w.sync, 0)  BY <1>3, <2>3, PendingReplaced
    <3> QED BY <3>1 DEF Replaced
  <2> HIDE DEF t, b
  <2>5. /\ t.sync.state = "live" /\ t.sync.buffer = <<>> /\ t.sync.book = b
        /\ t.sync.book.last # 0
    BY <1>2, <1>5, <1>9, <2>3, <2>4
  <2>6. /\ Replay(t.events) \in Replayed
        /\ Replay(t.events).book = SnapshotBook(id)
        /\ Replay(t.events).book.last = id
    <3>1. SnapshotBook(id) \in Book /\ SnapshotBook(id).last = id
      BY <1>3 DEF SnapshotBook, Book
    <3>2. Replay(t.events) = [book |-> SnapshotBook(id), ok |-> TRUE]
      BY <2>3, <2>4
    <3> QED BY <3>1, <3>2 DEF Replayed
  <2>7. /\ Kept(u) /\ Replay(u.events) \in Replayed
        /\ Replay(u.events).book = t.sync.book
        /\ u.sync = t.sync /\ u.pending = t.pending /\ u.file = t.file
    <3>1. /\ Fits(e, Replay(t.events).book)
          /\ t.sync.book = Applied(Replay(t.events).book, e)
          /\ ~ Rejected(t.sync.book)
      BY <1>3, <1>9, <2>5, <2>6 DEF b, Fits
    <3> HIDE DEF e
    <3> QED BY <1>2, <2>4, <2>6, <3>1, RecordAppliedFacts
  <2> HIDE DEF u
  <2> QED BY <1>5, <2>1, <2>3, <2>4, <2>5, <2>7
          DEF Handled, Faithful, Settled
<1> HIDE DEF out, done, d, b, e
<1>10. \/ out.result = "raised"
       \/ out.result = "snapshot_too_old" /\ out.sync = c.sync
       \/ /\ out.result = "awaiting_bridge"
          /\ out.sync = [state |-> "awaiting_snapshot", buffer |-> <<>>,
                         book |-> SnapshotBook(id)]
       \/ /\ out.result = "synchronized"
          /\ out.applied = <<e>>
          /\ out.sync = [state |-> "live", buffer |-> <<>>, book |-> b]
          /\ ~ Stale(e, id) /\ ~ Gap(e, id)
          /\ ~ Rejected(SnapshotBook(id)) /\ ~ Rejected(b)
  BY <1>2, <1>3, InstallOverOne DEF Kept, out, b
<1> QED BY <1>6, <1>7, <1>8, <1>9, <1>10 DEF done

\* synchronize() up to its first request, with one event to be bridged.
LEMMA SynchronizeFacts ==
  ASSUME NEW c, Kept(c), Faithful(c), Len(c.sync.buffer) = 1
  PROVE  Handled(c, Synchronize(c))
<1>1. c.sync.buffer # <<>> /\ c.pending \in 0 .. MaxId
  <2>1. c.sync.buffer # <<>>  OBVIOUS
  <2>2. c.pending \in 0 .. MaxId  BY DEF Kept, Capture
  <2> QED BY <2>1, <2>2
<1>2. CASE c.pending = 0
  <2>1. Synchronize(c) = [cap |-> c, next |-> "fetch"]
    BY <1>1, <1>2 DEF Synchronize
  <2> QED BY <1>2, <2>1 DEF Handled, Waits
<1>3. CASE c.pending # 0
  <2>1. Synchronize(c) = Installed(c, c.pending)
    BY <1>1, <1>3 DEF Synchronize
  <2>2. c.pending \in 1 .. MaxId  BY <1>1, <1>3, CaptureAssumption
  <2> QED BY <2>1, <2>2, InstalledFacts
<1> QED BY <1>2, <1>3

\* The end of a gap: the book and the retained snapshot are given up, what is
\* buffered stays.
LEMMA AfterGapFacts ==
  ASSUME NEW c, Kept(c)
  PROVE  LET out == AfterGap(c)
         IN /\ Kept(out) /\ Faithful(out)
            /\ out.sync.buffer = c.sync.buffer
            /\ out.file = c.file
<1> DEFINE w == Write(c, Boundary("sequence_gap"))
           s == Reset(w.sync, TRUE)
           out == AfterGap(c)
<1>1. /\ Kept(w) /\ Replay(w.events) \in Replayed
      /\ w.sync = c.sync /\ w.file = c.file
  BY BoundaryFacts DEF BoundaryReason
<1>2. Sound(s) /\ s.state # "live" /\ s.buffer = w.sync.buffer
  <2>1. Sound(w.sync)  BY <1>1 DEF Kept
  <2>2. Sound(s)  BY <2>1, ResetIsSound
  <2> QED BY <2>2 DEF Reset
<1>3. out = [w EXCEPT !.sync = s, !.pending = 0]  BY DEF AfterGap
<1> HIDE DEF w, s, out
<1>4. Replaced(w, out, s, 0)
  <2>1. 0 \in 0 .. MaxId  BY CaptureAssumption
  <2> QED BY <1>1, <1>2, <1>3, <2>1, ReplacedFacts
<1>5. /\ Kept(out) /\ out.sync = s /\ out.events = w.events
      /\ out.file = w.file
  BY <1>4 DEF Replaced
<1> QED BY <1>1, <1>2, <1>5 DEF Faithful, out

\* on_depth() between two messages: an event is recorded, ignored, bridged,
\* waits for a snapshot, or ends the capture.
LEMMA OnDepthFacts ==
  ASSUME NEW c, Kept(c), Faithful(c), Settled(c), NEW e \in DepthUpdate
  PROVE  Handled(c, OnDepth(c, e))
<1> DEFINE out == Ingest(c.sync, e)
           b == Applied(c.sync.book, e)
           d == [c EXCEPT !.sync = out.sync]
           done == OnDepth(c, e)
<1>1. /\ Sound(c.sync) /\ c.sync.buffer = <<>>
      /\ Replay(c.events) \in Replayed
      /\ c.sync \in [state : SyncState, buffer : Seq(DepthUpdate), book : Book]
  BY DEF Kept, Settled, Faithful, Sound
<1>2. Sound(out.sync)  BY <1>1, IngestFacts
<1>3. /\ Kept(d) /\ d.sync = out.sync /\ d.events = c.events
      /\ d.file = c.file /\ d.pending = c.pending
  <2> HIDE DEF out
  <2>1. Replaced(c, d, out.sync, c.pending)  BY <1>2, SyncReplaced
  <2> QED BY <2>1 DEF Replaced
<1>4. Len(<<e>>) = 1  OBVIOUS
<1>5. CASE out.result = "raised"
  <2>1. done = [cap |-> d, next |-> "raise"]  BY <1>5 DEF OnDepth
  <2> HIDE DEF d
  <2> QED BY <1>3, <2>1 DEF Handled
<1>6. CASE out.result = "ignored_stale" /\ out.sync = c.sync
  <2>1. done = [cap |-> d, next |-> "return"]  BY <1>6 DEF OnDepth
  <2> HIDE DEF d
  <2> QED BY <1>3, <1>6, <2>1 DEF Handled, Faithful, Settled
<1>7. CASE /\ out.result = "buffered" /\ c.sync.state # "live"
           /\ out.sync = [c.sync EXCEPT !.buffer = <<e>>]
  <2>1. done = Synchronize(d)  BY <1>7 DEF OnDepth
  <2>2. out.sync.state = c.sync.state /\ out.sync.buffer = <<e>>
    BY <1>1, <1>7
  <2> HIDE DEF d, out
  <2>3. Faithful(d) /\ Len(d.sync.buffer) = 1
    BY <1>1, <1>3, <1>4, <1>7, <2>2 DEF Faithful
  <2>4. Handled(d, done)  BY <1>3, <2>1, <2>3, SynchronizeFacts
  <2> QED BY <1>3, <2>4 DEF Handled
<1>8. CASE out.result = "gap_detected" /\ out.sync.buffer = <<e>>
  <2> DEFINE g == AfterGap(d)
  <2>1. done = Synchronize(g)  BY <1>8 DEF OnDepth
  <2> HIDE DEF d, out
  <2>2. /\ Kept(g) /\ Faithful(g) /\ g.file = d.file
        /\ g.sync.buffer = d.sync.buffer
    BY <1>1, <1>3, AfterGapFacts
  <2> HIDE DEF g
  <2>3. Len(g.sync.buffer) = 1  BY <1>3, <1>4, <1>8, <2>2
  <2>4. Handled(g, done)  BY <2>1, <2>2, <2>3, SynchronizeFacts
  <2> QED BY <1>3, <2>2, <2>4 DEF Handled
<1>9. CASE /\ out.result = "applied" /\ c.sync.state = "live"
           /\ out.sync = [c.sync EXCEPT !.book = b]
           /\ ~ Stale(e, c.sync.book.last) /\ ~ Gap(e, c.sync.book.last)
           /\ ~ Rejected(b)
  <2> DEFINE u == RecordApplied(d, e)
  <2>1. done = [cap |-> u, next |-> "return"]  BY <1>9 DEF OnDepth
  <2>2. /\ out.sync.state = "live" /\ out.sync.buffer = <<>>
        /\ out.sync.book = b /\ b.last # 0
    <3>1. b.last # 0  BY DEF Applied, DepthUpdate
    <3> HIDE DEF b, out
    <3> QED BY <1>1, <1>9, <3>1
  <2> HIDE DEF d, out
  <2>3. /\ c.pending = 0 /\ Replay(d.events).book = c.sync.book
        /\ c.sync.book.last # 0
    BY <1>3, <1>9 DEF Settled, Faithful
  <2>4. /\ Kept(u) /\ Replay(u.events) \in Replayed
        /\ Replay(u.events).book = d.sync.book
        /\ u.sync = d.sync /\ u.pending = d.pending /\ u.file = d.file
    <3>1. /\ Fits(e, Replay(d.events).book)
          /\ d.sync.book = Applied(Replay(d.events).book, e)
          /\ ~ Rejected(d.sync.book)
      BY <1>3, <1>9, <2>2, <2>3 DEF Fits
    <3> QED BY <1>1, <1>3, <3>1, RecordAppliedFacts
  <2> HIDE DEF u, b
  <2> QED BY <1>3, <2>1, <2>2, <2>3, <2>4 DEF Handled, Faithful, Settled
<1>10. \/ out.result = "raised"
       \/ out.result = "ignored_stale" /\ out.sync = c.sync
       \/ /\ out.result = "buffered" /\ c.sync.state # "live"
          /\ out.sync = [c.sync EXCEPT !.buffer = <<e>>]
       \/ out.result = "gap_detected" /\ out.sync.buffer = <<e>>
       \/ /\ out.result = "applied" /\ c.sync.state = "live"
          /\ out.sync = [c.sync EXCEPT !.book = b]
          /\ ~ Stale(e, c.sync.book.last) /\ ~ Gap(e, c.sync.book.last)
          /\ ~ Rejected(b)
  BY <1>1, IngestIntoEmpty
<1> HIDE DEF out, b, d, done
<1> QED BY <1>5, <1>6, <1>7, <1>8, <1>9, <1>10 DEF done

\* connection_boundary(): whatever the capture was doing is given up.
LEMMA OnConnectionFacts ==
  ASSUME NEW c, Kept(c), Faithful(c), NEW connected \in BOOLEAN
  PROVE  LET out == OnConnection(c, connected)
         IN /\ Kept(out) /\ Faithful(out) /\ Settled(out)
            /\ out.file = c.file
<1> DEFINE reason == IF connected THEN "connection_start" ELSE "connection_end"
           w == Write(c, Boundary(reason))
           s == Reset(w.sync, FALSE)
           out == OnConnection(c, connected)
<1>0. reason \in BoundaryReason  BY DEF BoundaryReason
<1>1. out = [w EXCEPT !.sync = s, !.pending = 0]  BY DEF OnConnection
<1> HIDE DEF reason, out
<1>2. /\ Kept(w) /\ Replay(w.events) \in Replayed
      /\ w.sync = c.sync /\ w.file = c.file
  BY <1>0, BoundaryFacts DEF Faithful
<1>3. Sound(s) /\ s.state # "live" /\ s.buffer = <<>>
  <2>1. Sound(w.sync)  BY <1>2 DEF Kept
  <2>2. Sound(s)  BY <2>1, ResetIsSound
  <2> QED BY <2>2 DEF Reset
<1> HIDE DEF w, s
<1>4. Replaced(w, out, s, 0)
  <2>1. 0 \in 0 .. MaxId  BY CaptureAssumption
  <2> QED BY <1>1, <1>2, <1>3, <2>1, ReplacedFacts
<1>5. /\ Kept(out) /\ out.sync = s /\ out.events = w.events
      /\ out.file = w.file /\ out.pending = 0
  BY <1>4 DEF Replaced
<1> QED BY <1>2, <1>3, <1>5 DEF Faithful, Settled, out

\* on_trade()
LEMMA OnTradeFacts ==
  ASSUME NEW c, Kept(c), Faithful(c), Settled(c)
  PROVE  LET out == OnTrade(c)
         IN /\ Kept(out) /\ Faithful(out) /\ Settled(out)
            /\ out.file = c.file
<1> DEFINE w == Write(c, TradeEvent)
<1>1. TradeEvent \in RecordedEvent  BY EventsAreRecorded
<1>0. ReplayStep(Replay(c.events), TradeEvent) = Replay(c.events)
  BY KeptReplays, StepFacts
<1>4. Continues(Replay(c.events), TradeEvent)
  BY <1>0, KeptReplays DEF Continues, TradeEvent
<1>2. /\ Kept(w) /\ w.sync = c.sync /\ w.pending = c.pending
      /\ w.file = c.file
      /\ Replay(w.events) = ReplayStep(Replay(c.events), TradeEvent)
  BY <1>1, <1>4, WriteFacts
<1>3. Replay(w.events) = Replay(c.events)
  BY <1>0, <1>2
<1> HIDE DEF w
<1>5. Kept(w) /\ Faithful(w) /\ Settled(w) /\ w.file = c.file
  BY <1>2, <1>3 DEF Faithful, Settled
<1> QED BY <1>5 DEF OnTrade, w

-----------------------------------------------------------------------------
(* The specification *)

\* The variables besides cap, and that Joins counts a living thread a failure.
RestInv ==
    /\ head \in [Symbols -> 1 .. MaxId]
    /\ thread \in {"starting", "connecting", "open", "backoff", "dead"}
    /\ queue \in Seq(Message) /\ Len(queue) <= QueueCapacity
    /\ lost \in [drops : Nat, malformed : 0 .. MaxMalformed]
    /\ pc \in {"running", "fetching", "joining", "finalizing", "done"}
    /\ fetch \in [symbol : Symbols \cup {"none"},
                  attempts : 0 .. AttemptLimit - 1]
    /\ failure \in BOOLEAN
    /\ pc \in {"finalizing", "done"} => failure \/ thread = "dead"

\* One capture.  Recordings are open until Joins.  While the loop runs they
\* replay to the live book, and the capture of the request in flight, alone,
\* holds one event back; a checkpoint of the book after a whole bridge would
\* be wrong if there could be more.
CaptureInv(s) ==
    LET c == cap[s]
    IN /\ c \in Capture /\ Sound(c.sync) /\ Rebuilt(c.events)
       /\ c.file = OpenFile => CheckpointsSound(c.events, c.checkpoints)
       /\ pc \in {"running", "fetching", "joining"} => c.file = OpenFile
       /\ pc \in {"running", "fetching"} =>
             /\ Faithful(c)
             /\ IF pc = "fetching" /\ fetch.symbol = s THEN Waits(c)
                                                       ELSE Settled(c)
       /\ c.file.phase = "published" /\ c.file.complete
             => lost = [drops |-> 0, malformed |-> 0] /\ thread = "dead"

\* The inductive invariant.
IInv == RestInv /\ cap \in [Symbols -> Capture] /\ \A s \in Symbols : CaptureInv(s)

LEMMA OpenFileFacts == OpenFile \in File /\ OpenFile.phase = "open"
BY DEF OpenFile, File

\* It holds at the start.
LEMMA InitEstablishes == Init => IInv
<1> SUFFICES ASSUME Init  PROVE IInv
  OBVIOUS
<1> USE DEF Init
<1>1. RestInv
  <2>1. head \in [Symbols -> 1 .. MaxId]  BY CaptureAssumption
  <2>2. queue \in Seq(Message) /\ Len(queue) <= QueueCapacity
    BY CaptureAssumption
  <2>3. lost \in [drops : Nat, malformed : 0 .. MaxMalformed]
    BY CaptureAssumption
  <2>4. fetch \in [symbol : Symbols \cup {"none"},
                   attempts : 0 .. AttemptLimit - 1]
    BY CaptureAssumption DEF NoFetch
  <2>5. failure \in BOOLEAN  OBVIOUS
  <2> QED BY <2>1, <2>2, <2>3, <2>4, <2>5 DEF RestInv
<1>2. /\ NewCapture \in Capture
      /\ NewCapture.sync = NewSynchronizer /\ NewCapture.file = OpenFile
      /\ NewCapture.events = <<>> /\ NewCapture.checkpoints = <<>>
      /\ NewCapture.pending = 0
  <2>1. NewSynchronizer \in Synchronizer
    BY NewIsSound DEF Sound, Synchronizer
  <2>2. 0 \in 0 .. MaxId /\ 0 \in 0 .. CheckpointInterval - 1
    BY CaptureAssumption
  <2> QED BY <2>1, <2>2, OpenFileFacts DEF NewCapture, Capture
<1>3. CheckpointsSound(<<>>, <<>>)  BY DEF CheckpointsSound
<1>4. Replay(<<>>) \in Replayed
  <2>1. Replay(<<>>) = ReplayStart
    <3>1. Len(<<>>) = 0 /\ 0 \in Nat  OBVIOUS
    <3> QED BY <3>1, ReplayAtFacts DEF Replay
  <2>2. ReplayStart \in Replayed
    BY DEF ReplayStart, Replayed, ClearedBook, Book
  <2> QED BY <2>1, <2>2
<1>9. Rebuilt(<<>>)
  <2>1. Len(<<>>) = 0 /\ \A n \in 0 .. 0 : n = 0 /\ ~ (n < 0)  OBVIOUS
  <2>2. ReplayAt(<<>>, 0) = ReplayStart
    <3>1. 0 \in Nat  OBVIOUS
    <3> QED BY <3>1, ReplayAtFacts
  <2>3. ReplayStart \in Replayed /\ Exact(ReplayStart.book)
    BY StartFacts
  <2> QED BY <2>1, <2>2, <2>3 DEF Rebuilt
<1>5. NewSynchronizer.state # "live" /\ NewSynchronizer.buffer = <<>>
  BY DEF NewSynchronizer
<1>6. Faithful(NewCapture) /\ Settled(NewCapture)
  BY <1>2, <1>4, <1>5 DEF Faithful, Settled
<1>7. ASSUME NEW s \in Symbols  PROVE CaptureInv(s)
  <2>1. cap[s] = NewCapture /\ pc = "running"  OBVIOUS
  <2> HIDE DEF Init
  <2> QED BY <2>1, <1>2, <1>3, <1>6, <1>9, NewIsSound, OpenFileFacts DEF CaptureInv
<1>8. cap \in [Symbols -> Capture]  BY <1>2
<1> QED BY <1>1, <1>7, <1>8 DEF IInv

\* _emit() keeps the queue typed and bounded, and counts what it drops.
LEMMA EmitFacts ==
  ASSUME RestInv, NEW message \in Message, Emit(message)
  PROVE  /\ queue' \in Seq(Message) /\ Len(queue') <= QueueCapacity
         /\ lost' \in [drops : Nat, malformed : 0 .. MaxMalformed]
<1>1. CASE Len(queue) < QueueCapacity
  <2>1. queue' = Append(queue, message) /\ lost' = lost
    BY <1>1 DEF Emit
  <2>2. queue' \in Seq(Message) /\ Len(queue') = Len(queue) + 1
    BY <2>1, AppendFacts DEF RestInv
  <2>3. Len(queue) \in Nat  BY DEF RestInv
  <2> QED BY <1>1, <2>1, <2>2, <2>3, CaptureAssumption DEF RestInv
<1>2. CASE ~ (Len(queue) < QueueCapacity)
  BY <1>2 DEF Emit, RestInv
<1> QED BY <1>1, <1>2

\* Every message of the client thread is one.
LEMMA MessagesAreTyped ==
  /\ Connected \in Message /\ Disconnected \in Message
  /\ \A s \in Symbols : TradeMessage(s) \in Message
  /\ \A s \in Symbols, e \in DepthUpdate : DepthMessage(s, e) \in Message
BY DEF Connected, Disconnected, TradeMessage, DepthMessage, Message

\* A step that leaves the main thread and the captures alone keeps what is
\* known of the captures; a dead thread reports no further loss.
LEMMA CapturesKept ==
  ASSUME \A s \in Symbols : CaptureInv(s), UNCHANGED mainVars,
         thread = "dead" => UNCHANGED <<thread, lost>>
  PROVE  \A s \in Symbols : CaptureInv(s)'
<1> SUFFICES ASSUME NEW s \in Symbols  PROVE CaptureInv(s)'
  OBVIOUS
<1>1. /\ cap' = cap /\ pc' = pc /\ fetch' = fetch
  BY DEF mainVars
<1>2. CaptureInv(s)  OBVIOUS
<1> QED BY <1>1, <1>2 DEF CaptureInv

\* The steps of the client thread and of the exchange.
LEMMA ClientPreserves ==
  ASSUME IInv, ClientNext
  PROVE  IInv'
<1> USE DEF IInv
<1>1. ASSUME UNCHANGED mainVars, RestInv',
             thread = "dead" => UNCHANGED <<thread, lost>>
      PROVE  IInv'
  <2>1. \A s \in Symbols : CaptureInv(s)'  BY <1>1, CapturesKept
  <2>2. (cap \in [Symbols -> Capture])'  BY <1>1 DEF mainVars
  <2> QED BY <1>1, <2>1, <2>2
<1>2. CASE ThreadStarts
  <2>1. RestInv'  BY <1>2 DEF ThreadStarts, RestInv, mainVars
  <2> QED BY <1>1, <1>2, <2>1 DEF ThreadStarts
<1>3. CASE Opens
  <2>1. /\ queue' \in Seq(Message) /\ Len(queue') <= QueueCapacity
        /\ lost' \in [drops : Nat, malformed : 0 .. MaxMalformed]
    BY <1>3, EmitFacts, MessagesAreTyped DEF Opens
  <2>2. RestInv'  BY <1>3, <2>1 DEF Opens, RestInv, mainVars
  <2> QED BY <1>1, <1>3, <2>2 DEF Opens
<1>4. CASE Closes
  <2>1. /\ queue' \in Seq(Message) /\ Len(queue') <= QueueCapacity
        /\ lost' \in [drops : Nat, malformed : 0 .. MaxMalformed]
    <3>1. Emit(Disconnected) \/ UNCHANGED <<queue, lost>>
      BY <1>4 DEF Closes
    <3> QED BY <3>1, EmitFacts, MessagesAreTyped DEF RestInv
  <2>2. RestInv'  BY <1>4, <2>1 DEF Closes, RestInv, mainVars
  <2> QED BY <1>1, <1>4, <2>2 DEF Closes
<1>5. CASE Reconnects
  <2>1. RestInv'  BY <1>5 DEF Reconnects, RestInv, mainVars
  <2> QED BY <1>1, <1>5, <2>1 DEF Reconnects
<1>6. CASE ThreadEnds
  <2>1. RestInv'  BY <1>6 DEF ThreadEnds, RestInv, mainVars
  <2> QED BY <1>1, <1>6, <2>1 DEF ThreadEnds
<1>7. ASSUME NEW s \in Symbols, Publishes(s)  PROVE IInv'
  <2>1. PICK final \in head[s] + 1 .. MaxId :
           /\ head' = [head EXCEPT ![s] = final]
           /\ IF thread = "open"
              THEN Emit(DepthMessage(s, Update(head[s] + 1, final)))
              ELSE UNCHANGED <<queue, lost>>
           /\ UNCHANGED <<thread, stopping, used, mainVars>>
    BY <1>7 DEF Publishes
  <2>2. head[s] \in 1 .. MaxId /\ MaxId \in Nat
    BY CaptureAssumption DEF RestInv
  <2>3. final \in 1 .. MaxId /\ Update(head[s] + 1, final) \in DepthUpdate
    BY <2>2 DEF Update, DepthUpdate
  <2>4. /\ queue' \in Seq(Message) /\ Len(queue') <= QueueCapacity
        /\ lost' \in [drops : Nat, malformed : 0 .. MaxMalformed]
    <3>1. CASE thread = "open"
      BY <2>1, <2>3, <3>1, EmitFacts, MessagesAreTyped
    <3>2. CASE thread # "open"
      BY <2>1, <3>2 DEF RestInv
    <3> QED BY <3>1, <3>2
  <2>5. head' \in [Symbols -> 1 .. MaxId]  BY <2>1, <2>3 DEF RestInv
  <2>6. RestInv'  BY <2>1, <2>4, <2>5 DEF RestInv, mainVars
  <2> QED BY <1>1, <2>1, <2>6
<1>8. ASSUME NEW s \in Symbols, Malformed(s)  PROVE IInv'
  <2>1. PICK final \in head[s] + 1 .. MaxId :
           /\ thread = "open" /\ lost.malformed < MaxMalformed
           /\ head' = [head EXCEPT ![s] = final]
           /\ lost' = [lost EXCEPT !.malformed = @ + 1]
           /\ UNCHANGED <<thread, stopping, queue, used, mainVars>>
    BY <1>8 DEF Malformed
  <2>2. head[s] \in 1 .. MaxId /\ MaxId \in Nat
    BY CaptureAssumption DEF RestInv
  <2>3. head' \in [Symbols -> 1 .. MaxId]
    <3>1. final \in 1 .. MaxId  BY <2>2
    <3> QED BY <2>1, <3>1 DEF RestInv
  <2>4. lost' \in [drops : Nat, malformed : 0 .. MaxMalformed]
    <3>1. lost.drops \in Nat /\ lost.malformed \in 0 .. MaxMalformed
      BY DEF RestInv
    <3>2. lost.malformed + 1 \in 0 .. MaxMalformed
      BY <2>1, <3>1, CaptureAssumption
    <3> QED BY <2>1, <3>1, <3>2 DEF RestInv
  <2>5. RestInv'  BY <2>1, <2>3, <2>4 DEF RestInv, mainVars
  <2> QED BY <1>1, <2>1, <2>5
<1>9. ASSUME NEW s \in Symbols, Trades(s)  PROVE IInv'
  <2>1. /\ queue' \in Seq(Message) /\ Len(queue') <= QueueCapacity
        /\ lost' \in [drops : Nat, malformed : 0 .. MaxMalformed]
    BY <1>9, EmitFacts, MessagesAreTyped DEF Trades
  <2>2. RestInv'  BY <1>9, <2>1 DEF Trades, RestInv, mainVars
  <2> QED BY <1>1, <1>9, <2>2 DEF Trades
<1> QED BY <1>2, <1>3, <1>4, <1>5, <1>6, <1>7, <1>8, <1>9 DEF ClientNext

\* The message the loop takes.
LEMMA TakenFacts ==
  ASSUME RestInv, TakesMessage
  PROVE  /\ pc = "running" /\ Head(queue) \in Message
         /\ queue' \in Seq(Message) /\ Len(queue') <= QueueCapacity
<1>1. /\ pc = "running" /\ queue # <<>> /\ queue' = Tail(queue)
      /\ queue \in Seq(Message) /\ Len(queue) <= QueueCapacity
  BY DEF TakesMessage, RestInv
<1>2. /\ Head(queue) \in Message /\ Tail(queue) \in Seq(Message)
      /\ Len(Tail(queue)) = Len(queue) - 1 /\ Len(queue) \in Nat
  BY <1>1
<1> QED BY <1>1, <1>2, CaptureAssumption

\* While the loop runs a capture keeps what a handler asks of it.
LEMMA RunningFacts ==
  ASSUME IInv, NEW s \in Symbols, pc \in {"running", "fetching"}
  PROVE  /\ Kept(cap[s]) /\ Faithful(cap[s]) /\ cap[s].file = OpenFile
         /\ IF pc = "fetching" /\ fetch.symbol = s THEN Waits(cap[s])
                                                   ELSE Settled(cap[s])
<1>1. CaptureInv(s)  BY DEF IInv
<1> QED BY <1>1 DEF CaptureInv, Kept

\* A handler of one capture, by how it ends; raising is also open to it when
\* its attempts are spent.
LEMMA HandlerContinues ==
  ASSUME IInv, NEW s \in Symbols, pc \in {"running", "fetching"},
         pc = "fetching" => fetch.symbol = s,
         NEW out, Handled(cap[s], out), cap' = [cap EXCEPT ![s] = out.cap],
         NEW next, next = out.next \/ next = "raise",
         NEW attempts \in Nat, next = "fetch" => attempts < AttemptLimit,
         Continue(s, next, attempts),
         queue' \in Seq(Message), Len(queue') <= QueueCapacity,
         UNCHANGED <<head, thread, lost>>
  PROVE  IInv'
<1>1. next \in {"return", "fetch", "raise"}  BY DEF Handled
<1>2. /\ pc' \in {"running", "fetching", "joining"}
      /\ pc' = "running" => next = "return"
      /\ pc' = "fetching" => next = "fetch" /\ fetch'.symbol = s
      /\ fetch' \in [symbol : Symbols \cup {"none"},
                     attempts : 0 .. AttemptLimit - 1]
      /\ failure' \in BOOLEAN
  <2>1. /\ pc' \in {"running", "fetching", "joining"}
        /\ pc' = "running" => next = "return"
        /\ pc' = "fetching" => next = "fetch"
    BY <1>1 DEF Continue
  <2>2. CASE next = "fetch"
    <3>1. fetch' = [symbol |-> s, attempts |-> attempts]
      BY <2>2 DEF Continue
    <3>2. attempts \in 0 .. AttemptLimit - 1  BY <2>2, CaptureAssumption
    <3>3. failure' \in BOOLEAN  BY DEF Continue
    <3> QED BY <2>1, <3>1, <3>2, <3>3
  <2>3. CASE next # "fetch"
    <3>1. fetch' = NoFetch  BY <2>3 DEF Continue
    <3>2. 0 \in 0 .. AttemptLimit - 1  BY CaptureAssumption
    <3>3. failure' \in BOOLEAN  BY DEF Continue
    <3> QED BY <2>1, <2>3, <3>1, <3>2, <3>3 DEF NoFetch
  <2> QED BY <2>2, <2>3
<1>3. RestInv'  BY <1>2 DEF IInv, RestInv
<1>4. /\ Kept(out.cap) /\ out.cap.file = OpenFile
      /\ next = "return" => Faithful(out.cap) /\ Settled(out.cap)
      /\ next = "fetch" => Faithful(out.cap) /\ Waits(out.cap)
  BY <1>1, RunningFacts DEF Handled
<1>5. (cap \in [Symbols -> Capture])'  BY <1>4 DEF IInv, Kept
<1>6. ASSUME NEW u \in Symbols  PROVE CaptureInv(u)'
  <2>1. CASE u = s
    <3>1. cap'[u] = out.cap  BY <2>1 DEF IInv
    <3> QED BY <1>2, <1>4, <2>1, <3>1, OpenFileFacts DEF CaptureInv, Kept
  <2>2. CASE u # s
    <3>1. cap'[u] = cap[u]  BY <2>2 DEF IInv
    <3>2. Kept(cap[u]) /\ Faithful(cap[u]) /\ Settled(cap[u])
          /\ cap[u].file = OpenFile
      BY <2>2, RunningFacts
    <3> QED BY <1>2, <2>2, <3>1, <3>2, OpenFileFacts DEF CaptureInv, Kept
  <2> QED BY <2>1, <2>2
<1> QED BY <1>3, <1>5, <1>6 DEF IInv

\* The loop ends: every capture is what its last handler has left.
LEMMA StopsLooping ==
  ASSUME IInv, pc \in {"running", "fetching"}, pc' = "joining",
         fetch' = NoFetch, failure' \in BOOLEAN, cap' = cap,
         UNCHANGED <<head, thread, lost, queue>>
  PROVE  IInv'
<1>1. fetch' \in [symbol : Symbols \cup {"none"},
                  attempts : 0 .. AttemptLimit - 1]
  BY CaptureAssumption DEF NoFetch
<1>2. RestInv'  BY <1>1 DEF IInv, RestInv
<1>3. ASSUME NEW s \in Symbols  PROVE CaptureInv(s)'
  <2>1. CaptureInv(s)  BY DEF IInv
  <2> QED BY <2>1 DEF CaptureInv
<1> QED BY <1>2, <1>3 DEF IInv

\* The last writes change neither the book nor the state of the file.
LEMMA FinalWritesFacts ==
  ASSUME NEW c, Kept(c)
  PROVE  LET out == FinalWrites(c)
         IN /\ out \in Capture /\ out.sync = c.sync /\ out.file = c.file
            /\ Rebuilt(out.events)
<1> DEFINE first == IF lost.drops > 0 THEN Write(c, Boundary("queue_overflow"))
                                      ELSE c
           ended == Write(first, Boundary("user_stop"))
<1>1. {"queue_overflow", "user_stop"} \subseteq BoundaryReason
  BY DEF BoundaryReason
<1>2. Kept(first) /\ first.sync = c.sync /\ first.file = c.file
  BY <1>1, BoundaryFacts
<1>3. FinalWrites(c) = IF c.sync.book.last > 0 THEN WriteCheckpoint(ended)
                                               ELSE ended
  BY DEF FinalWrites
<1> HIDE DEF first
<1>4. Kept(ended) /\ ended.sync = c.sync /\ ended.file = c.file
  BY <1>1, <1>2, BoundaryFacts
<1> HIDE DEF ended
<1>5. /\ ended \in Capture /\ ended.sync.book \in Book
      /\ ended.events \in Seq(RecordedEvent)
      /\ ended.checkpoints \in Seq([index : Nat, book : Book])
  BY <1>4 DEF Kept, Sound, Capture
<1> DEFINE longer == Append(ended.checkpoints,
                            Checkpoint(Len(ended.events), ended.sync.book))
<1>6. WriteCheckpoint(ended) = [ended EXCEPT !.checkpoints = longer]
  BY DEF WriteCheckpoint
<1>7. longer \in Seq([index : Nat, book : Book])
  <2>1. Checkpoint(Len(ended.events), ended.sync.book)
           \in [index : Nat, book : Book]
    BY <1>5 DEF Checkpoint
  <2> QED BY <1>5, <2>1, AppendFacts
<1> HIDE DEF longer
<1>8. /\ WriteCheckpoint(ended) \in Capture
      /\ WriteCheckpoint(ended).sync = ended.sync
      /\ WriteCheckpoint(ended).file = ended.file
      /\ WriteCheckpoint(ended).events = ended.events
  BY <1>5, <1>6, <1>7 DEF Capture
<1> QED BY <1>3, <1>4, <1>5, <1>8 DEF Kept

\* A step of the shutdown that gives one capture a file that is not open.
LEMMA FileCloses ==
  ASSUME IInv, pc = "finalizing", NEW s \in Symbols, NEW d \in Capture,
         Sound(d.sync), Rebuilt(d.events), d.file # OpenFile,
         d.file.phase = "published" /\ d.file.complete
             => lost = [drops |-> 0, malformed |-> 0] /\ ~ failure,
         cap' = [cap EXCEPT ![s] = d],
         UNCHANGED <<head, clientVars, pc, fetch, failure>>
  PROVE  IInv'
<1>1. RestInv'  BY DEF IInv, RestInv, clientVars
<1>2. (cap \in [Symbols -> Capture])'  BY DEF IInv
<1>3. ASSUME NEW u \in Symbols  PROVE CaptureInv(u)'
  <2>1. CaptureInv(u)  BY DEF IInv
  <2>2. pc' = pc /\ lost' = lost /\ thread' = thread  BY DEF clientVars
  <2>3. CASE u = s
    <3>1. cap'[u] = d  BY <2>3 DEF IInv
    <3>2. failure \/ thread = "dead"  BY DEF IInv, RestInv
    <3> QED BY <2>2, <3>1, <3>2 DEF CaptureInv
  <2>4. CASE u # s
    <3>1. cap'[u] = cap[u]  BY <2>4 DEF IInv
    <3> QED BY <2>1, <2>2, <3>1 DEF CaptureInv
  <2> QED BY <2>3, <2>4
<1> QED BY <1>1, <1>2, <1>3 DEF IInv

\* The steps of the main thread: one case per action.
LEMMA MainPreserves ==
  ASSUME IInv, MainNext
  PROVE  IInv'
<1>0. RestInv /\ cap \in [Symbols -> Capture]
      /\ \A s \in Symbols : CaptureInv(s)
  BY DEF IInv
<1>1. CASE HandlesBoundary
  <2> DEFINE connected == Head(queue).kind = "connected"
  <2>1. /\ pc = "running" /\ pc' = pc /\ fetch' = fetch /\ failure' = failure
        /\ head' = head /\ thread' = thread /\ lost' = lost
        /\ queue' \in Seq(Message) /\ Len(queue') <= QueueCapacity
    BY <1>0, <1>1, TakenFacts DEF HandlesBoundary
  <2>2. /\ connected \in BOOLEAN
        /\ cap' = [s \in Symbols |-> OnConnection(cap[s], connected)]
    BY <1>1 DEF HandlesBoundary
  <2> HIDE DEF connected
  <2>3. ASSUME NEW s \in Symbols
        PROVE  /\ Kept(cap'[s]) /\ Faithful(cap'[s]) /\ Settled(cap'[s])
               /\ cap'[s].file = OpenFile
    <3>1. Kept(cap[s]) /\ Faithful(cap[s]) /\ cap[s].file = OpenFile
      BY <2>1, RunningFacts
    <3>2. cap'[s] = OnConnection(cap[s], connected)  BY <2>2
    <3> QED BY <2>2, <3>1, <3>2, OnConnectionFacts
  <2>4. RestInv'  BY <1>0, <2>1 DEF RestInv
  <2>5. (cap \in [Symbols -> Capture])'
    <3>1. cap' = [s \in Symbols |-> cap'[s]]  BY <2>2
    <3> QED BY <2>3, <3>1 DEF Kept
  <2>6. ASSUME NEW s \in Symbols  PROVE CaptureInv(s)'
    BY <2>1, <2>3, OpenFileFacts DEF CaptureInv, Kept
  <2> QED BY <2>4, <2>5, <2>6 DEF IInv
<1>2. ASSUME NEW s \in Symbols, HandlesDepth(s)  PROVE IInv'
  <2> DEFINE out == OnDepth(cap[s], Head(queue).update)
  <2>1. /\ TakesMessage /\ Head(queue).kind = "depth"
        /\ cap' = [cap EXCEPT ![s] = out.cap]
        /\ Continue(s, out.next, 0)
        /\ UNCHANGED <<head, thread, lost>>
    BY <1>2 DEF HandlesDepth
  <2>2. /\ pc = "running" /\ Head(queue) \in Message
        /\ queue' \in Seq(Message) /\ Len(queue') <= QueueCapacity
    BY <1>0, <2>1, TakenFacts
  <2>3. Head(queue).update \in DepthUpdate  BY <2>1, <2>2 DEF Message
  <2>4. Handled(cap[s], out)
    BY <2>2, <2>3, RunningFacts, OnDepthFacts
  <2> HIDE DEF out
  <2>5. 0 \in Nat /\ 0 < AttemptLimit  BY CaptureAssumption
  <2> QED BY <2>1, <2>2, <2>4, <2>5, HandlerContinues
<1>3. ASSUME NEW s \in Symbols, HandlesTrade(s)  PROVE IInv'
  <2> DEFINE out == [cap |-> OnTrade(cap[s]), next |-> "return"]
  <2>1. /\ TakesMessage
        /\ cap' = [cap EXCEPT ![s] = OnTrade(cap[s])]
        /\ UNCHANGED <<head, thread, stopping, lost, used, pc, fetch, failure>>
    BY <1>3 DEF HandlesTrade
  <2>2. /\ pc = "running"
        /\ queue' \in Seq(Message) /\ Len(queue') <= QueueCapacity
    BY <1>0, <2>1, TakenFacts
  <2>3. /\ Kept(OnTrade(cap[s])) /\ Faithful(OnTrade(cap[s]))
        /\ Settled(OnTrade(cap[s])) /\ OnTrade(cap[s]).file = OpenFile
    BY <2>2, RunningFacts, OnTradeFacts
  <2>4. RestInv'  BY <1>0, <2>1, <2>2 DEF RestInv
  <2>5. (cap \in [Symbols -> Capture])'  BY <1>0, <2>1, <2>3 DEF Kept
  <2>6. ASSUME NEW u \in Symbols  PROVE CaptureInv(u)'
    <3>1. CASE u = s
      <4>1. cap'[u] = OnTrade(cap[s])  BY <1>0, <2>1, <3>1
      <4> QED BY <2>1, <2>2, <2>3, <4>1, OpenFileFacts DEF CaptureInv, Kept
    <3>2. CASE u # s
      <4>1. cap'[u] = cap[u]  BY <1>0, <2>1, <3>2
      <4>2. CaptureInv(u)  BY <1>0
      <4> QED BY <2>1, <2>2, <4>1, <4>2 DEF CaptureInv
    <3> QED BY <3>1, <3>2
  <2> QED BY <2>4, <2>5, <2>6 DEF IInv
<1>4. ASSUME NEW s \in Symbols, SnapshotArrives(s)  PROVE IInv'
  <2> DEFINE attempts == fetch.attempts + 1
             out(id) == Installed(cap[s], id)
             next(id) == IF out(id).next = "fetch" /\ attempts = AttemptLimit
                         THEN "raise" ELSE out(id).next
  <2>1. PICK id \in 1 .. head[s] :
           /\ cap' = [cap EXCEPT ![s] = out(id).cap]
           /\ Continue(s, next(id), attempts)
    BY <1>4 DEF SnapshotArrives
  <2>2. /\ pc = "fetching" /\ fetch.symbol = s
        /\ UNCHANGED <<head, thread, queue, lost, used>>
    BY <1>4 DEF SnapshotArrives
  <2>3. id \in 1 .. MaxId
    <3>1. head[s] \in 1 .. MaxId  BY <1>0 DEF RestInv
    <3> QED BY <3>1, CaptureAssumption
  <2>4. Kept(cap[s]) /\ Faithful(cap[s]) /\ Len(cap[s].sync.buffer) = 1
    BY <2>2, RunningFacts DEF Waits
  <2>5. Handled(cap[s], out(id))  BY <2>3, <2>4, InstalledFacts
  <2>6. /\ attempts \in Nat
        /\ next(id) = out(id).next \/ next(id) = "raise"
        /\ next(id) = "fetch" => attempts < AttemptLimit
    <3>1. fetch.attempts \in 0 .. AttemptLimit - 1  BY <1>0 DEF RestInv
    <3> HIDE DEF out
    <3>2. attempts \in Nat /\ (attempts # AttemptLimit
                                  => attempts < AttemptLimit)
      BY <3>1, CaptureAssumption
    <3> QED BY <3>2
  <2>7. queue' \in Seq(Message) /\ Len(queue') <= QueueCapacity
    BY <1>0, <2>2 DEF RestInv
  <2> HIDE DEF out, next, attempts
  <2> QED BY <2>1, <2>2, <2>5, <2>6, <2>7, HandlerContinues
<1>5. ASSUME NEW s \in Symbols, InterruptedInside(s)  PROVE IInv'
  <2> DEFINE out == Ingest(cap[s].sync, Head(queue).update)
             d == [cap[s] EXCEPT !.sync = out.sync]
  <2>1. /\ TakesMessage /\ Head(queue).kind = "depth"
        /\ cap' = [cap EXCEPT ![s].sync = out.sync]
        /\ AsksToStop
    BY <1>5 DEF InterruptedInside
  <2>2. /\ pc = "running" /\ Head(queue) \in Message
        /\ queue' \in Seq(Message) /\ Len(queue') <= QueueCapacity
        /\ pc' = "joining" /\ fetch' = NoFetch
        /\ UNCHANGED <<head, thread, lost, failure>>
    BY <1>0, <2>1, TakenFacts DEF AsksToStop
  <2>3. Head(queue).update \in DepthUpdate  BY <2>1, <2>2 DEF Message
  <2>4. Kept(cap[s]) /\ cap[s].file = OpenFile  BY <2>2, RunningFacts
  <2>5. Sound(out.sync)  BY <2>3, <2>4, IngestFacts DEF Kept
  <2>6. cap' = [cap EXCEPT ![s] = d]  BY <2>1
  <2> HIDE DEF out
  <2>7. Kept(d) /\ d.file = OpenFile
    <3>1. Replaced(cap[s], d, out.sync, cap[s].pending)
      BY <2>4, <2>5, SyncReplaced
    <3> QED BY <2>4, <3>1 DEF Replaced
  <2> HIDE DEF d
  <2>8. fetch' \in [symbol : Symbols \cup {"none"},
                    attempts : 0 .. AttemptLimit - 1]
    BY <2>2, CaptureAssumption DEF NoFetch
  <2>9. RestInv'  BY <1>0, <2>2, <2>8 DEF RestInv
  <2>10. (cap \in [Symbols -> Capture])'  BY <1>0, <2>6, <2>7 DEF Kept
  <2>11. ASSUME NEW u \in Symbols  PROVE CaptureInv(u)'
    <3>1. CASE u = s
      <4>1. cap'[u] = d  BY <1>0, <2>6, <3>1
      <4> QED BY <2>2, <2>7, <4>1, OpenFileFacts DEF CaptureInv, Kept
    <3>2. CASE u # s
      <4>1. cap'[u] = cap[u]  BY <1>0, <2>6, <3>2
      <4>2. CaptureInv(u)  BY <1>0
      <4> QED BY <2>2, <4>1, <4>2 DEF CaptureInv
    <3> QED BY <3>1, <3>2
  <2> QED BY <2>9, <2>10, <2>11 DEF IInv
<1>6. CASE SnapshotFails \/ NoticesDeadThread
  <2>1. /\ pc \in {"running", "fetching"}
        /\ Continue("none", "raise", 0) /\ cap' = cap
        /\ UNCHANGED <<head, thread, lost, queue>>
    BY <1>6 DEF SnapshotFails, NoticesDeadThread
  <2>2. pc' = "joining" /\ fetch' = NoFetch /\ failure' \in BOOLEAN
    BY <2>1 DEF Continue
  <2> QED BY <2>1, <2>2, StopsLooping
<1>7. CASE DurationOver \/ Interrupted
  <2>1. /\ pc \in {"running", "fetching"} /\ AsksToStop
        /\ cap' = cap /\ queue' = queue
    BY <1>7 DEF DurationOver, Interrupted
  <2>2. /\ pc' = "joining" /\ fetch' = NoFetch /\ failure' \in BOOLEAN
        /\ UNCHANGED <<head, thread, lost, queue>>
    BY <1>0, <2>1 DEF AsksToStop, RestInv
  <2> QED BY <2>1, <2>2, StopsLooping
<1>8. CASE Joins
  <2>1. RestInv'
    <3>1. /\ failure' \in BOOLEAN
          /\ failure' \/ thread = "dead"
          /\ pc' = "finalizing"
          /\ UNCHANGED <<head, thread, queue, lost, fetch>>
      BY <1>0, <1>8 DEF Joins, RestInv, clientVars
    <3> QED BY <1>0, <3>1 DEF RestInv
  <2>2. ASSUME NEW s \in Symbols  PROVE CaptureInv(s)'
    <3>1. CaptureInv(s)  BY <1>0
    <3> QED BY <1>8, <3>1 DEF CaptureInv, Joins, clientVars
  <2>3. (cap \in [Symbols -> Capture])'  BY <1>0, <1>8 DEF Joins
  <2> QED BY <2>1, <2>2, <2>3 DEF IInv
<1>9. ASSUME NEW s \in Symbols, Marks(s)  PROVE IInv'
  <2> DEFINE w == FinalWrites(cap[s])
             d == [w EXCEPT !.file.phase = "marked"]
  <2>1. /\ pc = "finalizing" /\ cap[s].file = OpenFile
        /\ cap' = [cap EXCEPT ![s] = d]
        /\ UNCHANGED <<head, clientVars, pc, fetch, failure>>
    BY <1>9 DEF Marks
  <2>2. Kept(cap[s])
    <3>1. CaptureInv(s)  BY <1>0
    <3> QED BY <2>1, <3>1 DEF CaptureInv, Kept
  <2>3. /\ w \in Capture /\ w.sync = cap[s].sync /\ w.file = OpenFile
        /\ Rebuilt(w.events)
    BY <2>1, <2>2, FinalWritesFacts
  <2> HIDE DEF w
  <2>4. /\ d \in Capture /\ d.sync = w.sync /\ d.file = [phase |-> "marked"]
        /\ d.events = w.events
    <3>1. [OpenFile EXCEPT !.phase = "marked"] = [phase |-> "marked"]
      BY DEF OpenFile
    <3>2. d = [w EXCEPT !.file = [phase |-> "marked"]]  BY <2>3, <3>1
    <3>3. [phase |-> "marked"] \in File  BY DEF File
    <3> QED BY <2>3, <3>2, <3>3 DEF Capture
  <2> HIDE DEF d
  <2>5. d.file # OpenFile /\ d.file.phase # "published"
    BY <2>4 DEF OpenFile
  <2>6. Sound(d.sync)  BY <2>2, <2>3, <2>4 DEF Kept
  <2> QED BY <2>1, <2>3, <2>4, <2>5, <2>6, FileCloses
<1>10. ASSUME NEW s \in Symbols, Finalizes(s) \/ FinalizeFails(s)  PROVE IInv'
  <2>1. /\ cap[s] \in Capture /\ Sound(cap[s].sync)
        /\ cap[s].sync.book \in Book /\ Rebuilt(cap[s].events)
    <3>1. CaptureInv(s)  BY <1>0
    <3> QED BY <3>1 DEF CaptureInv, Sound
  <2>2. ASSUME NEW f \in File, f.phase # "open",
               f.phase = "published" /\ f.complete
                   => lost = [drops |-> 0, malformed |-> 0] /\ ~ failure,
               pc = "finalizing", cap' = [cap EXCEPT ![s].file = f],
               UNCHANGED <<head, clientVars, pc, fetch, failure>>
        PROVE  IInv'
    <3> DEFINE d == [cap[s] EXCEPT !.file = f]
    <3>1. /\ d \in Capture /\ d.sync = cap[s].sync /\ d.file = f
          /\ d.events = cap[s].events
      BY <2>1 DEF Capture
    <3>2. cap' = [cap EXCEPT ![s] = d]  BY <2>2
    <3> HIDE DEF d
    <3>3. d.file # OpenFile  BY <2>2, <3>1 DEF OpenFile
    <3> QED BY <2>1, <2>2, <3>1, <3>2, <3>3, FileCloses
  <2>3. CASE FinalizeFails(s)
    <3>1. [phase |-> "aborted"] \in File  BY DEF File
    <3> QED BY <2>2, <2>3, <3>1 DEF FinalizeFails
  <2>4. CASE Finalizes(s)
    <3> DEFINE f == IF DataComplete(cap[s]) => EndsWithCheckpoint(cap[s])
                    THEN Sidecar(cap[s]) ELSE [phase |-> "rejected"]
    <3>1. /\ pc = "finalizing" /\ cap' = [cap EXCEPT ![s].file = f]
          /\ UNCHANGED <<head, clientVars, pc, fetch, failure>>
      BY <2>4 DEF Finalizes
    <3>2. Sidecar(cap[s]) \in File
      <4>1. lost.drops \in Nat  BY <1>0 DEF RestInv
      <4>2. DataComplete(cap[s]) \in BOOLEAN  BY DEF DataComplete
      <4> QED BY <2>1, <4>1, <4>2 DEF Sidecar, File
    <3>3. /\ Sidecar(cap[s]).phase = "published"
          /\ Sidecar(cap[s]).complete = DataComplete(cap[s])
      BY DEF Sidecar
    <3>4. [phase |-> "rejected"] \in File  BY DEF File
    <3>5. DataComplete(cap[s])
             => lost = [drops |-> 0, malformed |-> 0] /\ ~ failure
      BY <1>0 DEF DataComplete, CleanShutdown, RestInv
    <3>6. /\ f \in File /\ f.phase # "open"
          /\ f.phase = "published" /\ f.complete
                => lost = [drops |-> 0, malformed |-> 0] /\ ~ failure
      <4>1. CASE f = Sidecar(cap[s])
        <5> HIDE DEF f
        <5> QED BY <3>2, <3>3, <3>5, <4>1
      <4>2. CASE f = [phase |-> "rejected"]
        <5> HIDE DEF f
        <5> QED BY <3>4, <4>2
      <4> QED BY <4>1, <4>2
    <3> HIDE DEF f
    <3> QED BY <2>2, <3>1, <3>6
  <2> QED BY <1>10, <2>3, <2>4
<1>11. CASE Returns
  <2>1. RestInv'  BY <1>0, <1>11 DEF Returns, RestInv, clientVars
  <2>2. ASSUME NEW s \in Symbols  PROVE CaptureInv(s)'
    <3>1. CaptureInv(s)  BY <1>0
    <3> QED BY <1>11, <3>1 DEF CaptureInv, Returns, clientVars
  <2>3. (cap \in [Symbols -> Capture])'  BY <1>0, <1>11 DEF Returns
  <2> QED BY <2>1, <2>2, <2>3 DEF IInv
<1> QED BY <1>1, <1>2, <1>3, <1>4, <1>5, <1>6, <1>7, <1>8, <1>9, <1>10, <1>11
        DEF MainNext

\* So does a step that changes nothing.
LEMMA StutterPreserves ==
  ASSUME IInv, UNCHANGED vars
  PROVE  IInv'
<1>1. /\ UNCHANGED <<head, thread, queue, lost, pc, fetch, failure, cap>>
  BY DEF vars, clientVars, mainVars
<1>2. RestInv'  BY <1>1 DEF IInv, RestInv
<1>3. ASSUME NEW s \in Symbols  PROVE CaptureInv(s)'
  <2>1. CaptureInv(s)  BY DEF IInv
  <2> QED BY <1>1, <2>1 DEF CaptureInv
<1>4. (cap \in [Symbols -> Capture])'  BY <1>1 DEF IInv
<1> QED BY <1>2, <1>3, <1>4 DEF IInv

\* The invariant of the capture: every reachable state satisfies it.
THEOREM InvariantHolds == Spec => []IInv
<1>1. IInv /\ [Next]_vars => IInv'
  BY ClientPreserves, MainPreserves, StutterPreserves DEF Next
<1> QED BY <1>1, InitEstablishes, PTL DEF Spec

\* Every variable of the capture holds a value of its kind.
THEOREM TypesHold == Spec => []TypeOK
<1>1. IInv => TypeOK
  <2> SUFFICES ASSUME IInv  PROVE TypeOK
    OBVIOUS
  <2>1. \A s \in Symbols : /\ cap[s].sync \in Synchronizer
                           /\ cap[s].pending \in 0 .. MaxId
                           /\ cap[s].since \in 0 .. CheckpointInterval - 1
                           /\ cap[s].file.phase \in Phases
    <3> SUFFICES ASSUME NEW s \in Symbols
                 PROVE  /\ cap[s].sync \in Synchronizer
                        /\ cap[s].pending \in 0 .. MaxId
                        /\ cap[s].since \in 0 .. CheckpointInterval - 1
                        /\ cap[s].file.phase \in Phases
      OBVIOUS
    <3>1. cap[s] \in Capture  BY DEF IInv
    <3>2. cap[s].file \in File  BY <3>1 DEF Capture
    <3> QED BY <3>1, <3>2 DEF Capture, File, Phases
  <2>2. fetch.attempts \in 0 .. AttemptLimit
    <3>1. fetch.attempts \in 0 .. AttemptLimit - 1  BY DEF IInv, RestInv
    <3> QED BY <3>1, CaptureAssumption
  <2> QED BY <2>1, <2>2 DEF IInv, RestInv, TypeOK
<1> QED BY <1>1, InvariantHolds, PTL

\* While a symbol is live, replaying what has been recorded gives exactly the
\* live book.
THEOREM RecordingFollowsBook == Spec => []RecordingIsLiveBook
<1>1. IInv => RecordingIsLiveBook
  <2> SUFFICES ASSUME IInv, NEW s \in Symbols, pc \in {"running", "fetching"},
                      cap[s].sync.state = "live"
               PROVE  Replay(cap[s].events)
                         = [book |-> cap[s].sync.book, ok |-> TRUE]
    BY DEF RecordingIsLiveBook
  <2>1. Faithful(cap[s])  BY RunningFacts
  <2>2. Replay(cap[s].events) \in Replayed
        /\ Replay(cap[s].events).book = cap[s].sync.book
    BY <2>1 DEF Faithful
  <2> QED BY <2>2 DEF Replayed
<1> QED BY <1>1, InvariantHolds, PTL

\* Every periodic checkpoint holds the book that a replay has at its index,
\* and the indices increase.
THEOREM CheckpointsStayTrue == Spec => []CheckpointsHold
<1>1. IInv => CheckpointsHold
  BY DEF IInv, CaptureInv, CheckpointsSound, CheckpointsHold
<1> QED BY <1>1, InvariantHolds, PTL

\* Between two messages nothing is buffered, and a retained snapshot is the
\* book the next event is tested against.
THEOREM LoopAlwaysSettles == Spec => []LoopSettles
<1>1. IInv => LoopSettles
  <2> SUFFICES ASSUME IInv, pc = "running", NEW s \in Symbols
               PROVE  Settled(cap[s])
    BY DEF LoopSettles, Settled
  <2> QED BY RunningFacts
<1> QED BY <1>1, InvariantHolds, PTL

\* A recording published as complete ends with nothing lost in the whole
\* capture, and no thread left that could lose more.
THEOREM CompleteIsLossless == Spec => []CompleteMeansNothingLost
<1>1. IInv => CompleteMeansNothingLost
  BY DEF IInv, CaptureInv, CompleteMeansNothingLost
<1> QED BY <1>1, InvariantHolds, PTL

-----------------------------------------------------------------------------
(* What research makes of a recording *)

\* f is the loop of build_feature_set() over the first n events.
Builds(events, n, f) ==
    f = [i \in 0 .. n |-> IF i = 0 THEN BuildStart
                          ELSE BuildStep(f[i - 1], events[i], i)]

\* There is such a function, however long the recording.
LEMMA BuildsExist ==
  ASSUME NEW events
  PROVE  \A n \in Nat : \E f : Builds(events, n, f)
<1> DEFINE S == {n \in Nat : ~ \E f : Builds(events, n, f)}
<1>1. SUFFICES ASSUME S # {}  PROVE FALSE
  OBVIOUS
<1> DEFINE n == Min(S)
<1>2. n \in S /\ \A k \in S : n <= k
  <2>1. S \in SUBSET Nat  OBVIOUS
  <2> HIDE DEF S
  <2> QED BY <1>1, <2>1, MinOfNaturals
<1> HIDE DEF n
<1>3. n \in Nat /\ ~ \E f : Builds(events, n, f)  BY <1>2
<1>4. n # 0
  <2>1. Builds(events, 0, [i \in 0 .. 0 |-> BuildStart])  BY DEF Builds
  <2> QED BY <1>3, <2>1
<1>5. n - 1 \in Nat /\ n - 1 \notin S  BY <1>2, <1>3, <1>4
<1>6. PICK f : Builds(events, n - 1, f)  BY <1>5
<1> DEFINE g == [i \in 0 .. n |-> IF i = n THEN BuildStep(f[n - 1], events[n], n)
                                           ELSE f[i]]
<1>7. \A i \in 0 .. n - 1 : g[i] = f[i]  BY <1>3
<1>8. \A i \in 0 .. n : g[i] = IF i = 0 THEN BuildStart
                               ELSE BuildStep(g[i - 1], events[i], i)
  <2> SUFFICES ASSUME NEW i \in 0 .. n
               PROVE  g[i] = IF i = 0 THEN BuildStart
                             ELSE BuildStep(g[i - 1], events[i], i)
    OBVIOUS
  <2>1. CASE i = n
    <3>1. n - 1 \in 0 .. n - 1  BY <1>5
    <3>2. g[n] = BuildStep(f[n - 1], events[n], n)  BY <1>3
    <3>3. g[n - 1] = f[n - 1]  BY <1>7, <3>1
    <3> QED BY <1>4, <2>1, <3>2, <3>3
  <2>2. CASE i = 0
    <3>1. i \in 0 .. n - 1  BY <1>5, <2>2
    <3>2. f[i] = BuildStart  BY <1>6, <2>2, <3>1 DEF Builds
    <3> QED BY <1>7, <2>2, <3>1, <3>2
  <2>3. CASE i # 0 /\ i # n
    <3>1. i \in 0 .. n - 1 /\ i - 1 \in 0 .. n - 1  BY <1>3, <2>3
    <3>2. f[i] = BuildStep(f[i - 1], events[i], i)
      BY <1>6, <2>3, <3>1 DEF Builds
    <3> QED BY <1>7, <2>3, <3>1, <3>2
  <2> QED BY <2>1, <2>2, <2>3
<1>9. Builds(events, n, g)
  <2>1. g = [i \in 0 .. n |-> g[i]]  OBVIOUS
  <2> HIDE DEF g
  <2> QED BY <1>8, <2>1 DEF Builds
<1> QED BY <1>3, <1>9

\* The equations of the loop.
LEMMA BuildLoopFacts ==
  ASSUME NEW events, Len(events) \in Nat
  PROVE  /\ BuildLoop(events)[0] = BuildStart
         /\ \A n \in 1 .. Len(events) :
               BuildLoop(events)[n]
                  = BuildStep(BuildLoop(events)[n - 1], events[n], n)
<1> DEFINE loop == CHOOSE f : Builds(events, Len(events), f)
<1>1. BuildLoop(events) = loop  BY DEF BuildLoop, Builds
<1>2. Builds(events, Len(events), loop)
  <2>1. \E f : Builds(events, Len(events), f)  BY BuildsExist
  <2> QED BY <2>1
<1> HIDE DEF loop
<1> QED BY <1>1, <1>2 DEF Builds

Observation == [at : Nat, book : Book, events : SUBSET Nat]
Row == [now : Observation, future : Observation]
Builder == [book : Book, ok : BOOLEAN, depths : Seq(Nat), trades : SUBSET Nat,
            segment : Seq(Observation), rows : Seq(Row)]

\* The events of S and all up to event n lie in one stretch of the stream.
Since(events, S, n) == \A i \in S : Uninterrupted(events, i, n)

\* The observations of a segment after n events, in their order.
SegmentSound(events, segment, n) ==
    /\ \A k \in DOMAIN segment : /\ Exact(segment[k].book)
                                 /\ segment[k].at <= n
                                 /\ Since(events, segment[k].events, n)
    /\ \A j, k \in DOMAIN segment : j < k => segment[j].at < segment[k].at

RowSound(events, row) == /\ row.now.at < row.future.at
                         /\ Since(events, row.now.events, row.future.at)

RowsSound(events, rows) == \A k \in DOMAIN rows : RowSound(events, rows[k])

\* What build_feature_set() knows after n events.
BuilderSound(events, b, n) ==
    /\ b \in Builder /\ b.ok
    /\ Since(events, Range(b.depths) \cup b.trades, n)
    /\ SegmentSound(events, b.segment, n)
    /\ RowsSound(events, b.rows)

\* finish_segment(): the label of a row is a later observation of its segment,
\* so that nothing lies between its history and its label.
LEMMA FinishFacts ==
  ASSUME NEW events, NEW n \in Nat, NEW b, BuilderSound(events, b, n)
  PROVE  LET out == FinishSegment(b)
         IN /\ out \in Builder /\ RowsSound(events, out.rows)
            /\ out.segment = <<>> /\ out.ok
<1> DEFINE labelled == {k \in DOMAIN b.segment : k + Horizon \in DOMAIN b.segment}
           rows == [k \in labelled |-> [now |-> b.segment[k],
                                        future |-> b.segment[k + Horizon]]]
           all == b.rows \o rows
           out == FinishSegment(b)
<1>1. /\ b \in Builder /\ b.ok /\ b.segment \in Seq(Observation)
      /\ b.rows \in Seq(Row)
  BY DEF BuilderSound, Builder
<1>2. Horizon \in Nat /\ Horizon # 0 /\ Len(b.segment) \in Nat
      /\ DOMAIN b.segment = 1 .. Len(b.segment)
  BY <1>1, FeatureAssumption
<1>3. out = [b EXCEPT !.rows = all, !.segment = <<>>]  BY DEF FinishSegment
<1>4. \E m \in Nat : labelled = 1 .. m
  <2> DEFINE size == Len(b.segment)
             count == IF size > Horizon THEN size - Horizon ELSE 0
  <2>1. count \in Nat  BY <1>2
  <2>2. labelled = 1 .. count  BY <1>2
  <2> HIDE DEF labelled, count
  <2> QED BY <2>1, <2>2
<1>5. \A k \in labelled :
         LET row == [now |-> b.segment[k], future |-> b.segment[k + Horizon]]
         IN row \in Row /\ RowSound(events, row)
  <2> SUFFICES ASSUME NEW k \in labelled
               PROVE  LET row == [now |-> b.segment[k],
                                  future |-> b.segment[k + Horizon]]
                      IN row \in Row /\ RowSound(events, row)
    OBVIOUS
  <2> DEFINE now == b.segment[k]
             future == b.segment[k + Horizon]
  <2>1. /\ k \in DOMAIN b.segment /\ k + Horizon \in DOMAIN b.segment
        /\ k < k + Horizon
    BY <1>2
  <2>2. now \in Observation /\ future \in Observation
    BY <1>1, <2>1, ElementFacts
  <2>3. /\ now.at < future.at /\ future.at <= n
        /\ Since(events, now.events, n)
    BY <2>1 DEF BuilderSound, SegmentSound
  <2> HIDE DEF now, future
  <2>4. Since(events, now.events, future.at)
    <3>1. future.at \in Nat  BY <2>2 DEF Observation
    <3>2. \A i \in now.events : i \in Nat  BY <2>2 DEF Observation
    <3> QED BY <2>3, <3>1, <3>2 DEF Since, Uninterrupted
  <2>5. [now |-> now, future |-> future] \in Row  BY <2>2 DEF Row
  <2> QED BY <2>3, <2>4, <2>5 DEF RowSound, now, future
<1> HIDE DEF labelled
<1>6. rows \in Seq(Row) /\ RowsSound(events, rows)
  <2>1. PICK m \in Nat : labelled = 1 .. m  BY <1>4
  <2>2. rows \in [1 .. m -> Row]  BY <1>5, <2>1
  <2>3. rows \in Seq(Row) /\ DOMAIN rows = labelled  BY <2>1, <2>2
  <2>4. \A k \in labelled : RowSound(events, rows[k])  BY <1>5
  <2> QED BY <2>3, <2>4 DEF RowsSound
<1> HIDE DEF rows
<1>7. all \in Seq(Row) /\ RowsSound(events, all)
  <2>1. /\ all \in Seq(Row) /\ DOMAIN all = 1 .. Len(b.rows) + Len(rows)
        /\ \A k \in 1 .. Len(b.rows) + Len(rows) :
              all[k] = IF k <= Len(b.rows) THEN b.rows[k]
                                           ELSE rows[k - Len(b.rows)]
    BY <1>1, <1>6
  <2>2. Len(b.rows) \in Nat /\ Len(rows) \in Nat
        /\ DOMAIN b.rows = 1 .. Len(b.rows) /\ DOMAIN rows = 1 .. Len(rows)
    BY <1>1, <1>6
  <2>3. RowsSound(events, b.rows)  BY DEF BuilderSound
  <2> HIDE DEF all
  <2> SUFFICES ASSUME NEW k \in DOMAIN all  PROVE RowSound(events, all[k])
    BY <2>1 DEF RowsSound
  <2>4. CASE k <= Len(b.rows)
    <3>1. k \in DOMAIN b.rows /\ all[k] = b.rows[k]  BY <2>1, <2>2, <2>4
    <3> QED BY <2>3, <3>1 DEF RowsSound
  <2>5. CASE k > Len(b.rows)
    <3>1. /\ k - Len(b.rows) \in DOMAIN rows
          /\ all[k] = rows[k - Len(b.rows)]
      BY <2>1, <2>2, <2>5
    <3> QED BY <1>6, <3>1 DEF RowsSound
  <2> QED BY <2>1, <2>2, <2>4, <2>5
<1> HIDE DEF all
<1>8. <<>> \in Seq(Observation)  OBVIOUS
<1> QED BY <1>1, <1>3, <1>7, <1>8 DEF Builder, out

\* A boundary or a snapshot: nothing of before remains but finished rows.
LEMMA RestartFacts ==
  ASSUME NEW events, NEW n \in Nat, NEW b, BuilderSound(events, b, n),
         NEW book \in Book
  PROVE  LET out == Restart(b, book)
         IN BuilderSound(events, out, n + 1) /\ out.book = book
<1> DEFINE f == FinishSegment(b)
           out == Restart(b, book)
<1>1. /\ f \in Builder /\ RowsSound(events, f.rows)
      /\ f.segment = <<>> /\ f.ok
  BY FinishFacts
<1>2. out = [[f EXCEPT !.depths = <<>>, !.trades = {}] EXCEPT !.book = book]
  BY DEF Restart, ResetBuilder
<1> HIDE DEF f
<1>3. <<>> \in Seq(Nat) /\ {} \in SUBSET Nat  OBVIOUS
<1>4. /\ out \in Builder /\ out.ok /\ out.book = book
      /\ out.depths = <<>> /\ out.trades = {} /\ out.segment = <<>>
      /\ out.rows = f.rows
  BY <1>1, <1>2, <1>3 DEF Builder
<1> HIDE DEF out
<1>5. Range(out.depths) \cup out.trades = {}  BY <1>4 DEF Range
<1>6. Since(events, {}, n + 1)  BY DEF Since
<1>7. SegmentSound(events, <<>>, n + 1)  BY DEF SegmentSound
<1> QED BY <1>1, <1>4, <1>5, <1>6, <1>7 DEF BuilderSound, out

\* One more event of the stream: what reached event n reaches it too.
LEMMA SinceExtends ==
  ASSUME NEW events, NEW n \in Nat, events[n + 1].kind \in {"depth", "trade"},
         NEW S \in SUBSET Nat, Since(events, S, n)
  PROVE  Since(events, S, n + 1)
<1> SUFFICES ASSUME NEW i \in S, NEW j \in i .. n + 1
             PROVE  events[j].kind \in {"depth", "trade"}
  BY DEF Since, Uninterrupted
<1>1. i \in Nat /\ j \in Nat  OBVIOUS
<1>2. CASE j = n + 1  BY <1>2
<1>3. CASE j # n + 1
  <2>1. j \in i .. n  BY <1>1, <1>3
  <2> QED BY <2>1 DEF Since, Uninterrupted
<1> QED BY <1>2, <1>3

LEMMA SegmentExtends ==
  ASSUME NEW events, NEW n \in Nat, events[n + 1].kind \in {"depth", "trade"},
         NEW segment \in Seq(Observation), SegmentSound(events, segment, n)
  PROVE  SegmentSound(events, segment, n + 1)
<1> SUFFICES ASSUME NEW k \in DOMAIN segment
             PROVE  /\ segment[k].at <= n + 1
                    /\ Since(events, segment[k].events, n + 1)
  BY DEF SegmentSound
<1>1. segment[k] \in Observation  BY ElementFacts
<1>2. /\ segment[k].at \in Nat /\ segment[k].events \in SUBSET Nat
      /\ segment[k].at <= n /\ Since(events, segment[k].events, n)
  BY <1>1 DEF SegmentSound, Observation
<1> QED BY <1>2, SinceExtends

\* The end of a sequence holds elements of it.
LEMMA RecentElements ==
  ASSUME NEW s \in Seq(Nat), NEW m \in 1 .. Len(s)
  PROVE  LET recent == SubSeq(s, m, Len(s))
         IN \A i \in DOMAIN recent : \E j \in DOMAIN s : recent[i] = s[j]
<1> DEFINE recent == SubSeq(s, m, Len(s))
<1>1. /\ DOMAIN s = 1 .. Len(s) /\ Len(s) \in Nat
      /\ DOMAIN recent = 1 .. Len(s) - m + 1
      /\ \A i \in 1 .. Len(s) - m + 1 : recent[i] = s[m + i - 1]
  OBVIOUS
<1> HIDE DEF recent
<1>2. ASSUME NEW i \in DOMAIN recent
      PROVE  m + i - 1 \in DOMAIN s /\ recent[i] = s[m + i - 1]
  <2>1. i \in 1 .. Len(s) - m + 1  BY <1>1, <1>2
  <2>2. m + i - 1 \in 1 .. Len(s)  BY <1>1, <2>1
  <2> QED BY <1>1, <2>1, <2>2
<1> QED BY <1>2 DEF recent

\* on_trade()
LEMMA OnTradeEventFacts ==
  ASSUME NEW events, NEW n \in Nat, NEW b, BuilderSound(events, b, n),
         events[n + 1].kind = "trade"
  PROVE  LET out == OnTradeEvent(b, n + 1)
         IN BuilderSound(events, out, n + 1) /\ out.book = b.book
<1> DEFINE out == OnTradeEvent(b, n + 1)
<1>1. b \in Builder /\ b.ok  BY DEF BuilderSound
<1>2. n + 1 \in Nat  OBVIOUS
<1>3. out = [b EXCEPT !.trades = b.trades \cup {n + 1}]  BY DEF OnTradeEvent
<1> HIDE DEF out
<1>4. /\ out \in Builder /\ out.ok /\ out.book = b.book
      /\ out.depths = b.depths /\ out.trades = b.trades \cup {n + 1}
      /\ out.segment = b.segment /\ out.rows = b.rows
  BY <1>1, <1>2, <1>3 DEF Builder
<1>5. Range(b.depths) \in SUBSET Nat /\ b.trades \in SUBSET Nat
  BY <1>1 DEF Builder, Range
<1>6. Since(events, Range(b.depths) \cup b.trades, n + 1)
  BY <1>5, SinceExtends DEF BuilderSound
<1>7. Uninterrupted(events, n + 1, n + 1)  BY DEF Uninterrupted
<1>8. Since(events, Range(out.depths) \cup out.trades, n + 1)
  BY <1>4, <1>6, <1>7 DEF Since
<1>9. SegmentSound(events, b.segment, n + 1)
  <2>1. b.segment \in Seq(Observation)  BY <1>1 DEF Builder
  <2> QED BY <2>1, SegmentExtends DEF BuilderSound
<1> QED BY <1>4, <1>8, <1>9 DEF BuilderSound, out

\* apply_and_build() of an event that fits: the observation holds the book
\* after it and events of the stretch it belongs to.
LEMMA ObserveFacts ==
  ASSUME NEW events, NEW n \in Nat, NEW b, BuilderSound(events, b, n),
         events[n + 1].kind = "depth",
         LET book == Applied(b.book, events[n + 1])
         IN book \in Book /\ Exact(book) /\ ~ Rejected(book)
  PROVE  LET out == Observe(b, events[n + 1], n + 1)
         IN /\ BuilderSound(events, out, n + 1)
            /\ out.book = Applied(b.book, events[n + 1])
<1> DEFINE book == Applied(b.book, events[n + 1])
           depths == Append(b.depths, n + 1)
           recent == SubSeq(depths, Len(depths) - MaxHistory, Len(depths))
           seen == [at |-> n + 1, book |-> book,
                    events |-> Range(recent) \cup b.trades]
           segment == IF Len(depths) > MaxHistory THEN Append(b.segment, seen)
                                                  ELSE b.segment
           out == Observe(b, events[n + 1], n + 1)
<1>1. /\ b \in Builder /\ b.ok /\ n + 1 \in Nat
      /\ b.depths \in Seq(Nat) /\ b.trades \in SUBSET Nat
      /\ b.segment \in Seq(Observation)
  BY DEF BuilderSound, Builder
<1>2. book \in Book /\ Exact(book) /\ ~ Rejected(book)  OBVIOUS
<1>3. out = [b EXCEPT !.book = book, !.ok = ~ Rejected(book),
                      !.depths = depths, !.segment = segment]
  BY DEF Observe
<1> HIDE DEF book
<1>4. /\ depths \in Seq(Nat) /\ Len(depths) \in Nat
      /\ Range(depths) = Range(b.depths) \cup {n + 1}
  <2>1. /\ depths \in Seq(Nat) /\ Len(depths) = Len(b.depths) + 1
        /\ Len(b.depths) \in Nat
        /\ \A i \in 1 .. Len(b.depths) : depths[i] = b.depths[i]
        /\ depths[Len(b.depths) + 1] = n + 1
    BY <1>1, AppendFacts
  <2> HIDE DEF depths
  <2>2. DOMAIN depths = 1 .. Len(b.depths) + 1
        /\ DOMAIN b.depths = 1 .. Len(b.depths)
    BY <1>1, <2>1
  <2>3. Range(depths) = Range(b.depths) \cup {n + 1}
    <3>1. \A i \in DOMAIN depths : depths[i] \in Range(b.depths) \cup {n + 1}
      <4> SUFFICES ASSUME NEW i \in 1 .. Len(b.depths) + 1
                   PROVE  depths[i] \in Range(b.depths) \cup {n + 1}
        BY <2>2
      <4>1. CASE i = Len(b.depths) + 1  BY <2>1, <4>1
      <4>2. CASE i # Len(b.depths) + 1
        <5>1. i \in DOMAIN b.depths /\ depths[i] = b.depths[i]
          BY <2>1, <2>2, <4>2
        <5> QED BY <5>1 DEF Range
      <4> QED BY <4>1, <4>2
    <3>2. \A i \in DOMAIN b.depths : b.depths[i] \in Range(depths)
      <4> SUFFICES ASSUME NEW i \in DOMAIN b.depths
                   PROVE  b.depths[i] \in Range(depths)
        OBVIOUS
      <4>1. i \in DOMAIN depths /\ depths[i] = b.depths[i]  BY <2>1, <2>2
      <4> QED BY <4>1 DEF Range
    <3>3. n + 1 \in Range(depths)
      <4>1. Len(b.depths) + 1 \in DOMAIN depths  BY <2>1, <2>2
      <4> QED BY <2>1, <4>1 DEF Range
    <3> QED BY <3>1, <3>2, <3>3 DEF Range
  <2> QED BY <2>1, <2>3
<1>5. /\ Range(b.depths) \in SUBSET Nat
      /\ Since(events, Range(b.depths) \cup b.trades, n + 1)
      /\ Uninterrupted(events, n + 1, n + 1)
  <2>1. Range(b.depths) \in SUBSET Nat  BY <1>1 DEF Range
  <2>2. Since(events, Range(b.depths) \cup b.trades, n + 1)
    BY <1>1, <2>1, SinceExtends DEF BuilderSound
  <2> QED BY <2>1, <2>2 DEF Uninterrupted
<1>6. Since(events, Range(depths) \cup b.trades, n + 1)
  BY <1>4, <1>5 DEF Since
<1> HIDE DEF depths
<1>7. ASSUME Len(depths) > MaxHistory
      PROVE  seen \in Observation /\ Since(events, seen.events, n + 1)
  <2>1. Range(recent) \subseteq Range(depths)
    <3>1. Len(depths) - MaxHistory \in 1 .. Len(depths)
      BY <1>4, <1>7, FeatureAssumption
    <3>2. \A i \in DOMAIN recent : \E j \in DOMAIN depths : recent[i] = depths[j]
      BY <1>4, <3>1, RecentElements
    <3> QED BY <3>2 DEF Range
  <2> HIDE DEF recent
  <2>2. Range(recent) \cup b.trades \in SUBSET Nat
    BY <1>1, <1>4, <1>5, <2>1
  <2>3. seen \in Observation  BY <1>1, <1>2, <2>2 DEF Observation
  <2> QED BY <1>6, <2>1, <2>3 DEF Since
<1> HIDE DEF recent
<1>8. SegmentSound(events, b.segment, n + 1)
  BY <1>1, SegmentExtends DEF BuilderSound
<1>9. segment \in Seq(Observation) /\ SegmentSound(events, segment, n + 1)
  <2>1. CASE Len(depths) > MaxHistory
    <3>1. seen \in Observation /\ Since(events, seen.events, n + 1)
          /\ seen.at = n + 1 /\ seen.book = book
      BY <1>7, <2>1
    <3> HIDE DEF seen
    <3> DEFINE longer == Append(b.segment, seen)
    <3>2. /\ longer \in Seq(Observation) /\ Len(longer) = Len(b.segment) + 1
          /\ Len(b.segment) \in Nat
          /\ \A i \in 1 .. Len(b.segment) : longer[i] = b.segment[i]
          /\ longer[Len(b.segment) + 1] = seen
      BY <1>1, <3>1, AppendFacts
    <3> HIDE DEF longer
    <3>3. DOMAIN longer = 1 .. Len(b.segment) + 1
          /\ DOMAIN b.segment = 1 .. Len(b.segment)
      BY <1>1, <3>2
    <3>4. \A k \in DOMAIN longer : /\ Exact(longer[k].book)
                                   /\ longer[k].at <= n + 1
                                   /\ Since(events, longer[k].events, n + 1)
      <4> SUFFICES ASSUME NEW k \in DOMAIN longer
                   PROVE  /\ Exact(longer[k].book)
                          /\ longer[k].at <= n + 1
                          /\ Since(events, longer[k].events, n + 1)
        OBVIOUS
      <4>1. CASE k = Len(b.segment) + 1
        BY <1>1, <1>2, <3>1, <3>2, <4>1
      <4>2. CASE k # Len(b.segment) + 1
        <5>1. k \in DOMAIN b.segment /\ longer[k] = b.segment[k]
          BY <3>2, <3>3, <4>2
        <5> QED BY <1>8, <5>1 DEF SegmentSound
      <4> QED BY <4>1, <4>2
    <3>5. ASSUME NEW j \in DOMAIN longer, NEW k \in DOMAIN longer, j < k
          PROVE  longer[j].at < longer[k].at
      <4>1. j \in DOMAIN b.segment /\ longer[j] = b.segment[j]
        BY <3>2, <3>3, <3>5
      <4>2. CASE k = Len(b.segment) + 1
        <5>1. b.segment[j].at <= n  BY <4>1 DEF BuilderSound, SegmentSound
        <5>2. b.segment[j] \in Observation  BY <1>1, <4>1, ElementFacts
        <5>3. b.segment[j].at \in Nat  BY <5>2 DEF Observation
        <5> QED BY <3>1, <3>2, <4>1, <4>2, <5>1, <5>3
      <4>3. CASE k # Len(b.segment) + 1
        <5>1. k \in DOMAIN b.segment /\ longer[k] = b.segment[k]
          BY <3>2, <3>3, <4>3
        <5> QED BY <1>8, <3>5, <4>1, <5>1 DEF SegmentSound
      <4> QED BY <4>2, <4>3
    <3>6. SegmentSound(events, longer, n + 1)  BY <3>4, <3>5 DEF SegmentSound
    <3> QED BY <2>1, <3>2, <3>6 DEF longer
  <2>2. CASE ~ (Len(depths) > MaxHistory)
    BY <1>1, <1>8, <2>2
  <2> QED BY <2>1, <2>2
<1> HIDE DEF segment, out
<1>10. /\ out \in Builder /\ out.ok /\ out.book = book
       /\ out.depths = depths /\ out.trades = b.trades
       /\ out.segment = segment /\ out.rows = b.rows
  BY <1>1, <1>2, <1>3, <1>4, <1>9 DEF Builder
<1>11. Since(events, Range(out.depths) \cup out.trades, n + 1)
  BY <1>6, <1>10
<1> QED BY <1>9, <1>10, <1>11 DEF BuilderSound, out, book

\* A book that a replay has loaded without raising.
LEMMA LoadedFacts ==
  ASSUME NEW r, NEW book, Loaded(r, book).ok = TRUE
  PROVE  Loaded(r, book).book = book /\ ~ Rejected(book)
<1>1. /\ Loaded(r, book).book = book
      /\ Loaded(r, book).ok = (r.ok /\ ~ Rejected(book))
  BY DEF Loaded
<1>2. (r.ok /\ ~ Rejected(book)) = TRUE  BY <1>1
<1> QED BY <1>1, <1>2, Zenon

\* One event of a recording that is rebuilt: the loop does not raise, it holds
\* the book of a replay, and all it remembers lies in one stretch.
LEMMA BuildStepFacts ==
  ASSUME NEW events \in Seq(RecordedEvent), Rebuilt(events),
         NEW n \in 0 .. Len(events) - 1,
         NEW b, BuilderSound(events, b, n), b.book = ReplayAt(events, n).book
  PROVE  LET out == BuildStep(b, events[n + 1], n + 1)
         IN /\ BuilderSound(events, out, n + 1)
            /\ out.book = ReplayAt(events, n + 1).book
<1> DEFINE x == events[n + 1]
           r == ReplayAt(events, n)
           out == BuildStep(b, x, n + 1)
<1>1. /\ n \in Nat /\ n < Len(events) /\ Len(events) \in Nat
      /\ n \in 0 .. Len(events) /\ n + 1 \in 0 .. Len(events)
      /\ n + 1 \in DOMAIN events
  OBVIOUS
<1>2. x \in RecordedEvent  BY <1>1, ElementFacts
<1>3. /\ r \in Replayed
      /\ x.kind = "depth" => Fits(x, r.book)
      /\ ReplayAt(events, n + 1) \in Replayed
      /\ Exact(ReplayAt(events, n + 1).book)
      /\ ReplayAt(events, n + 1) = ReplayStep(r, x)
  <2>1. ReplayAt(events, n + 1) = ReplayStep(r, x)  BY <1>1, ReplayAtFacts
  <2> QED BY <1>1, <2>1 DEF Rebuilt
<1>4. r.ok = TRUE /\ b.ok /\ ReplayStep(r, x).ok = TRUE
      /\ ReplayStep(r, x).book \in Book
  <2>1. b.ok  BY DEF BuilderSound
  <2>2. r \in Replayed /\ ReplayStep(r, x) \in Replayed  BY <1>3
  <2>3. \A q \in Replayed : q.ok = TRUE /\ q.book \in Book  BY DEF Replayed
  <2> HIDE DEF r, x
  <2> QED BY <2>1, <2>2, <2>3, Zenon
<1>5. b.book = r.book  OBVIOUS
<1> SUFFICES /\ BuilderSound(events, out, n + 1)
             /\ out.book = ReplayStep(r, x).book
  BY <1>3
<1> HIDE DEF out, r
<1>6. CASE x.kind = "boundary"
  <2>1. out = Restart(b, ClearedBook)  BY <1>4, <1>6 DEF BuildStep, out
  <2>2. ReplayStep(r, x).book = ClearedBook
    BY <1>3, <1>4, <1>6 DEF ReplayStep, Replayed
  <2>3. ClearedBook \in Book  BY <1>4, <2>2
  <2>4. LET start == Restart(b, ClearedBook)
        IN BuilderSound(events, start, n + 1) /\ start.book = ClearedBook
    BY <1>1, <2>3, RestartFacts
  <2> QED BY <2>1, <2>2, <2>4
<1>7. CASE x.kind = "snapshot"
  <2> DEFINE book == SnapshotBook(x.id)
             start == Restart(b, book)
  <2>1. out = [start EXCEPT !.ok = ~ Rejected(book)]
    BY <1>4, <1>7 DEF BuildStep, RestartFrom, out
  <2>2. ReplayStep(r, x) = Loaded(r, book)  BY <1>4, <1>7 DEF ReplayStep
  <2>3. book = ReplayStep(r, x).book /\ ~ Rejected(book)
    <3> HIDE DEF book
    <3> QED BY <1>4, <2>2, LoadedFacts
  <2> HIDE DEF book
  <2>4. book \in Book  BY <1>4, <2>3
  <2>5. BuilderSound(events, start, n + 1) /\ start.book = book
    BY <1>1, <2>4, RestartFacts
  <2> HIDE DEF start
  <2>6. out = start  BY <2>1, <2>3, <2>5 DEF BuilderSound, Builder
  <2> QED BY <2>3, <2>5, <2>6
<1>8. CASE x.kind = "trade"
  <2>1. out = OnTradeEvent(b, n + 1)  BY <1>4, <1>8 DEF BuildStep, out
  <2>2. ReplayStep(r, x) = r  BY <1>4, <1>8 DEF ReplayStep
  <2> QED BY <1>1, <1>8, <2>1, <2>2, OnTradeEventFacts DEF r
<1>9. CASE x.kind = "depth"
  <2>1. Fits(x, r.book) /\ b.book = r.book  BY <1>3, <1>5, <1>9
  <2>2. out = Observe(b, x, n + 1)
    <3>1. /\ ~ (b.book.last = 0 \/ x.first > b.book.last + 1)
          /\ ~ (x.final <= b.book.last)
      BY <2>1 DEF Fits, Stale, Gap
    <3> QED BY <1>4, <1>9, <3>1 DEF BuildStep, out
  <2>3. ReplayStep(r, x) = Loaded(r, Applied(r.book, x))
    <3>1. ~ (x.final <= r.book.last) /\ ~ (x.first > r.book.last + 1)
      BY <2>1 DEF Fits, Stale, Gap
    <3> QED BY <1>4, <1>9, <3>1 DEF ReplayStep
  <2> DEFINE book == Applied(r.book, x)
  <2>4. book = ReplayStep(r, x).book /\ ~ Rejected(book)
    <3> HIDE DEF book
    <3> QED BY <1>4, <2>3, LoadedFacts DEF book
  <2>5. book \in Book /\ Exact(book)
    <3> HIDE DEF book
    <3> QED BY <1>3, <1>4, <2>4
  <2> HIDE DEF book
  <2>6. book = Applied(b.book, x)  BY <2>1 DEF book
  <2> QED BY <1>1, <1>9, <2>2, <2>4, <2>5, <2>6, ObserveFacts
<1>10. x.kind \in {"boundary", "snapshot", "trade", "depth"}
  BY <1>2 DEF RecordedEvent
<1> HIDE DEF x
<1> QED BY <1>6, <1>7, <1>8, <1>9, <1>10

\* So it goes through the whole recording.
LEMMA BuildIsSound ==
  ASSUME NEW events \in Seq(RecordedEvent), Rebuilt(events)
  PROVE  \A n \in 0 .. Len(events) :
            /\ BuilderSound(events, BuildLoop(events)[n], n)
            /\ BuildLoop(events)[n].book = ReplayAt(events, n).book
<1> DEFINE loop == BuildLoop(events)
           Good(n) == /\ BuilderSound(events, loop[n], n)
                      /\ loop[n].book = ReplayAt(events, n).book
           S == {n \in 0 .. Len(events) : ~ Good(n)}
<1>1. SUFFICES ASSUME S # {}  PROVE FALSE
  OBVIOUS
<1> DEFINE n == Min(S)
<1>2. n \in S /\ \A k \in S : n <= k
  <2>1. S \in SUBSET Nat  OBVIOUS
  <2> HIDE DEF S
  <2> QED BY <1>1, <2>1, MinOfNaturals
<1> HIDE DEF n
<1>3. n \in 0 .. Len(events) /\ ~ Good(n)  BY <1>2
<1>4. /\ loop[0] = BuildStart
      /\ \A k \in 1 .. Len(events) :
            loop[k] = BuildStep(loop[k - 1], events[k], k)
  BY BuildLoopFacts
<1> HIDE DEF loop
<1>5. Good(0)
  <2>1. /\ BuildStart \in Builder /\ BuildStart.ok
        /\ BuildStart.depths = <<>> /\ BuildStart.trades = {}
        /\ BuildStart.segment = <<>> /\ BuildStart.rows = <<>>
        /\ BuildStart.book = ClearedBook
    BY DEF BuildStart, Builder, Book, ClearedBook
  <2>2. Range(<<>>) \cup {} = {}  BY DEF Range
  <2>3. /\ Since(events, {}, 0) /\ SegmentSound(events, <<>>, 0)
        /\ RowsSound(events, <<>>)
    BY DEF Since, SegmentSound, RowsSound
  <2>4. ReplayAt(events, 0) = ReplayStart
    <3>1. 0 \in Nat  OBVIOUS
    <3> QED BY <3>1, ReplayAtFacts
  <2>5. ReplayAt(events, 0).book = ClearedBook  BY <2>4 DEF ReplayStart
  <2> QED BY <1>4, <2>1, <2>2, <2>3, <2>5 DEF BuilderSound
<1>6. /\ n # 0 /\ n - 1 \in 0 .. Len(events) - 1 /\ n - 1 \notin S
      /\ n \in 1 .. Len(events) /\ n - 1 + 1 = n
  <2>1. n # 0  BY <1>3, <1>5
  <2> HIDE DEF S, Good
  <2>2. n \in 0 .. Len(events) /\ Len(events) \in Nat  BY <1>3
  <2> QED BY <1>2, <2>1, <2>2
<1>7. Good(n - 1)
  <2> HIDE DEF Good
  <2>1. n - 1 \in 0 .. Len(events)  BY <1>6
  <2> QED BY <1>6, <2>1
<1>8. LET out == BuildStep(loop[n - 1], events[n], n)
      IN /\ BuilderSound(events, out, n)
         /\ out.book = ReplayAt(events, n).book
  <2> DEFINE m == n - 1
  <2>1. m \in 0 .. Len(events) - 1 /\ m + 1 = n /\ Good(m)  BY <1>6, <1>7
  <2> HIDE DEF m
  <2>2. LET out == BuildStep(loop[m], events[m + 1], m + 1)
        IN /\ BuilderSound(events, out, m + 1)
           /\ out.book = ReplayAt(events, m + 1).book
    BY <2>1, BuildStepFacts
  <2> QED BY <2>1, <2>2 DEF m
<1> QED BY <1>3, <1>4, <1>6, <1>8

\* Research reads what a capture publishes without meeting a gap, whatever was
\* lost, late or repeated on the way: every observation holds the exchange's
\* book, and history and label of every row lie in one stretch of the stream.
THEOREM RowsStayContinuous == Spec => []RowsAreContinuous
<1>1. IInv => RowsAreContinuous
  <2> SUFFICES ASSUME IInv, NEW s \in Symbols
               PROVE  LET events == cap[s].events
                          rows == Build(events).rows IN
                      /\ \A n \in 0 .. Len(events) :
                            LET b == BuildLoop(events)[n] IN
                            /\ b.ok
                            /\ \A k \in DOMAIN b.segment :
                                  /\ Exact(b.segment[k].book)
                                  /\ \A i \in b.segment[k].events :
                                        Uninterrupted(events, i, n)
                      /\ \A k \in DOMAIN rows :
                            LET row == rows[k]
                            IN /\ row.now.at < row.future.at
                               /\ \A i \in row.now.events :
                                     Uninterrupted(events, i, row.future.at)
    BY DEF RowsAreContinuous
  <2> DEFINE events == cap[s].events
             rows == Build(events).rows
  <2>1. CaptureInv(s)  BY DEF IInv
  <2>2. events \in Seq(RecordedEvent) /\ Rebuilt(events)
    BY <2>1 DEF CaptureInv, Capture
  <2>3. Len(events) \in Nat  BY <2>2
  <2> HIDE DEF events
  <2>4. \A n \in 0 .. Len(events) : BuilderSound(events, BuildLoop(events)[n], n)
    BY <2>2, BuildIsSound
  <2>5. RowsSound(events, rows)
    <3>1. BuilderSound(events, BuildLoop(events)[Len(events)], Len(events))
      BY <2>3, <2>4
    <3> QED BY <2>3, <3>1, FinishFacts DEF Build
  <2> HIDE DEF rows
  <2>6. \A n \in 0 .. Len(events) : LET b == BuildLoop(events)[n] IN
           /\ b.ok
           /\ \A k \in DOMAIN b.segment :
                 /\ Exact(b.segment[k].book)
                 /\ \A i \in b.segment[k].events : Uninterrupted(events, i, n)
    BY <2>4 DEF BuilderSound, SegmentSound, Since
  <2>7. \A k \in DOMAIN rows : LET row == rows[k]
           IN /\ row.now.at < row.future.at
              /\ \A i \in row.now.events : Uninterrupted(events, i, row.future.at)
    BY <2>5 DEF RowsSound, RowSound, Since
  <2> QED BY <2>6, <2>7 DEF events, rows
<1> QED BY <1>1, InvariantHolds, PTL

=============================================================================

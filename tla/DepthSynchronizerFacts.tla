----------------------- MODULE DepthSynchronizerFacts -----------------------
(***************************************************************************)
(* What each method of DepthSynchronizer guarantees, for every buffer      *)
(* capacity and every set of rejected books, whoever calls it.             *)
(***************************************************************************)
EXTENDS DepthSynchronizer, WellFoundedInduction, TLAPS

Increasing(buffer) ==
    \A i, j \in DOMAIN buffer : i <= j => buffer[i].final <= buffer[j].final

\* The least element of a set of naturals, as a fact about Min.
LEMMA MinOfNaturals ==
  ASSUME NEW S \in SUBSET Nat, S # {}
  PROVE  Min(S) \in S /\ \A n \in S : Min(S) <= n
<1> DEFINE less == OpToRel(<, Nat)
<1>1. \E m \in S : \A n \in S : ~ (<<n, m>> \in less)
  <2>1. IsWellFoundedOn(less, Nat)  BY NatLessThanWellFounded
  <2> HIDE DEF less
  <2> QED BY <2>1, WFMin
<1>2. \A m, n \in Nat : <<n, m>> \in less <=> n < m  BY DEF OpToRel
<1>3. \E m \in S : \A n \in S : m <= n
  <2> HIDE DEF less
  <2>1. PICK m \in S : \A n \in S : ~ (<<n, m>> \in less)  BY <1>1
  <2>2. \A n \in S : m \in Nat /\ n \in Nat /\ ~ (n < m)  BY <2>1, <1>2
  <2>3. \A n \in S : m <= n  BY <2>2
  <2> QED BY <2>3
<1> QED BY <1>3 DEF Min

\* Retained() returns a suffix that the snapshot does not cover at all.
LEMMA RetainedFacts ==
  ASSUME NEW buffer \in Seq(DepthUpdate), Increasing(buffer), NEW id \in Nat
  PROVE  LET r == Retained(buffer, id)
         IN /\ r \in Seq(DepthUpdate)
            /\ Len(r) <= Len(buffer)
            /\ Increasing(r)
            /\ \A i \in DOMAIN r : r[i].final > id
            /\ \A i \in DOMAIN buffer :
                   \/ buffer[i].final <= id
                   \/ \E j \in DOMAIN r : r[j] = buffer[i]
<1> DEFINE newer == {i \in DOMAIN buffer : ~ Stale(buffer[i], id)}
           r == Retained(buffer, id)
<1>1. CASE newer = {}
  <2>1. r = <<>>  BY <1>1 DEF Retained
  <2>2. \A i \in DOMAIN buffer : buffer[i] \in DepthUpdate  OBVIOUS
  <2>3. \A i \in DOMAIN buffer : buffer[i].final <= id  BY <1>1 DEF Stale
  <2> QED BY <2>1, <2>3 DEF Increasing
<1>2. CASE newer # {}
  <2> DEFINE m == Min(newer)
  <2>1. m \in newer /\ \A n \in newer : m <= n
    BY <1>2, MinOfNaturals
  <2>2. m \in 1 .. Len(buffer) /\ buffer[m].final > id
    BY <2>1 DEF Stale, DepthUpdate
  <2>3. r = SubSeq(buffer, m, Len(buffer))  BY <1>2 DEF Retained
  <2> HIDE DEF m, newer
  <2>4. /\ r \in Seq(DepthUpdate)
        /\ Len(r) = Len(buffer) - m + 1
        /\ DOMAIN r = 1 .. Len(r)
        /\ \A i \in 1 .. Len(r) : r[i] = buffer[m + i - 1]
    BY <2>2, <2>3
  <2>5. \A i \in 1 .. Len(buffer) : buffer[i] \in DepthUpdate  OBVIOUS
  <2>6. \A i \in m .. Len(buffer) : buffer[i].final > id
    BY <2>2, <2>5 DEF Increasing, DepthUpdate
  <2>7. \A i \in DOMAIN r : r[i].final > id
    <3> SUFFICES ASSUME NEW i \in 1 .. Len(r)  PROVE  r[i].final > id
      BY <2>4
    <3>1. m + i - 1 \in m .. Len(buffer)  BY <2>2, <2>4
    <3>2. r[i] = buffer[m + i - 1]  BY <2>4
    <3> QED BY <2>6, <3>1, <3>2
  <2>8. Increasing(r)
    <3> SUFFICES ASSUME NEW i \in 1 .. Len(r), NEW j \in 1 .. Len(r), i <= j
                 PROVE  r[i].final <= r[j].final
      BY <2>4 DEF Increasing
    <3>1. /\ m + i - 1 \in 1 .. Len(buffer)
          /\ m + j - 1 \in 1 .. Len(buffer)
          /\ m + i - 1 <= m + j - 1
      BY <2>2, <2>4
    <3>2. buffer[m + i - 1].final <= buffer[m + j - 1].final
      BY <3>1 DEF Increasing
    <3> QED BY <2>4, <3>2
  <2>9. \A i \in DOMAIN buffer : buffer[i].final <= id
                                 \/ \E j \in DOMAIN r : r[j] = buffer[i]
    <3> SUFFICES ASSUME NEW i \in DOMAIN buffer, ~ (buffer[i].final <= id)
                 PROVE  \E j \in DOMAIN r : r[j] = buffer[i]
      OBVIOUS
    <3>1. i \in newer  BY DEF newer, Stale
    <3>2. m <= i  BY <2>1, <3>1
    <3>3. i - m + 1 \in DOMAIN r /\ r[i - m + 1] = buffer[i]
      BY <2>2, <2>4, <3>2
    <3> QED BY <3>3
  <2> QED BY <2>2, <2>4, <2>7, <2>8, <2>9
<1> QED BY <1>1, <1>2

\* A contiguous, newer update keeps an exact book exact.
LEMMA AppliedIsExact ==
  ASSUME NEW b \in Book, Exact(b), NEW e \in DepthUpdate,
         ~ Stale(e, b.last), ~ Gap(e, b.last)
  PROVE  Applied(b, e) \in Book /\ Exact(Applied(b, e))
<1>1. /\ b.last \in Nat /\ b.ids = 1 .. b.last
      /\ e.first \in Nat \ {0} /\ e.final \in Nat
      /\ e.first <= b.last + 1 /\ b.last < e.final
  BY DEF Book, Exact, DepthUpdate, Stale, Gap
<1>2. (1 .. b.last) \cup (e.first .. e.final) = 1 .. e.final  BY <1>1
<1> QED BY <1>1, <1>2 DEF Applied, Book, Exact

\* The loop stops before the first event that breaks or poisons it.
LEMMA ConsumedFacts ==
  ASSUME NEW pending \in Seq(DepthUpdate), NEW id
  PROVE  LET n == Consumed(pending, id)
             halts == Halts(pending, id)
         IN /\ n \in 0 .. Len(pending)
            /\ \A i \in 1 .. n : i \notin halts
            /\ halts = {} => n = Len(pending)
            /\ halts # {} => n + 1 \in halts /\ n + 1 \in 1 .. Len(pending)
<1> DEFINE halts == Halts(pending, id)
<1>1. halts \subseteq 1 .. Len(pending)  BY DEF Halts
<1>2. CASE halts = {}
  BY <1>2 DEF Consumed
<1>3. CASE halts # {}
  <2>1. Min(halts) \in halts /\ \A i \in halts : Min(halts) <= i
    BY <1>1, <1>3, MinOfNaturals
  <2>2. Consumed(pending, id) = Min(halts) - 1  BY <1>3 DEF Consumed
  <2> HIDE DEF halts
  <2>3. Min(halts) \in 1 .. Len(pending)  BY <1>1, <2>1
  <2>4. Len(pending) \in Nat  OBVIOUS
  <2>5. \A i \in 1 .. Min(halts) - 1 : i \notin halts  BY <1>1, <2>1, <2>3
  <2> QED BY <1>3, <2>1, <2>2, <2>3, <2>4, <2>5 DEF halts
<1> QED BY <1>2, <1>3

\* As long as no event breaks the loop, the book it builds over the snapshot
\* is exact and covers every event it has passed.
LEMMA BookAfterIsExact ==
  ASSUME NEW pending \in Seq(DepthUpdate), Increasing(pending), NEW id \in Nat,
         \A i \in DOMAIN pending : pending[i].final > id,
         NEW n \in 0 .. Len(pending),
         \A i \in 1 .. n : ~ Broken(pending, id, i)
  PROVE  LET b == BookAfter(pending, id, n)
         IN /\ b \in Book /\ Exact(b)
            /\ b.last = LocalBefore(pending, id, n + 1)
            /\ \A i \in 1 .. n : pending[i].final <= b.last
<1> DEFINE local(i) == LocalBefore(pending, id, i)
           kept == {j \in 1 .. n : ~ Skipped(pending, id, j)}
           ranges == UNION {pending[i].first .. pending[i].final : i \in kept}
           last == local(n + 1)
<1>1. \A i \in 1 .. Len(pending) :
        /\ pending[i] \in DepthUpdate
        /\ pending[i].first \in Nat \ {0} /\ pending[i].final \in Nat
        /\ pending[i].final > id
  BY DEF DepthUpdate
<1>2. \A i, j \in 1 .. Len(pending) :
        i <= j => pending[i].final <= pending[j].final
  BY DEF Increasing
<1>3. last \in Nat /\ id <= last
  BY <1>1 DEF LocalBefore
<1>4. \A i \in 1 .. n : pending[i].final <= last
  BY <1>1, <1>2 DEF LocalBefore
<1>5. (1 .. id) \cup ranges \subseteq 1 .. last
  <2>1. \A i \in kept : pending[i].first .. pending[i].final \subseteq 1 .. last
    BY <1>1, <1>3, <1>4
  <2> QED BY <1>3, <2>1
<1>6. 1 .. last \subseteq (1 .. id) \cup ranges
  <2> SUFFICES ASSUME NEW x \in 1 .. last, x > id
               PROVE  \E i \in kept : x \in pending[i].first .. pending[i].final
    BY <1>3
  <2> DEFINE covers == {i \in 1 .. n : pending[i].final >= x}
             k == Min(covers)
  <2>1. n \in covers
    BY <1>1, <1>3 DEF LocalBefore
  <2>2. k \in covers /\ \A i \in covers : k <= i
    <3>1. covers \in SUBSET Nat /\ covers # {}  BY <2>1
    <3> HIDE DEF covers
    <3> QED BY <3>1, MinOfNaturals
  <2> HIDE DEF k
  <2>3. local(k) \in Nat /\ local(k) < x
    <3>1. CASE k = 1  BY <3>1 DEF LocalBefore
    <3>2. CASE k # 1
      <4>1. k - 1 \in 1 .. n /\ k - 1 \notin covers  BY <2>2, <3>2
      <4> QED BY <1>1, <3>2, <4>1 DEF LocalBefore
    <3> QED BY <3>1, <3>2
  <2>4. k \in kept
    BY <1>1, <2>2, <2>3 DEF Skipped, Stale
  <2>5. pending[k].first <= local(k) + 1
    BY <1>1, <2>2, <2>3 DEF Broken, Gap
  <2> QED BY <1>1, <2>2, <2>3, <2>4, <2>5
<1> QED BY <1>3, <1>4, <1>5, <1>6 DEF BookAfter, Book, Exact

-----------------------------------------------------------------------------
(* What each method guarantees *)

\* A well-formed object, whose book is exact whatever its state.
Sound(s) ==
    /\ s \in [state : SyncState, buffer : Seq(DepthUpdate), book : Book]
    /\ Len(s.buffer) <= MaxBuffered
    /\ Exact(s.book)
    /\ Increasing(s.buffer)
    /\ s.state = "live" => s.buffer = <<>>

\* No event of the buffer disappears uncovered: see NoUpdateLost.
Keeps(buffer, id, out) ==
    out.result # "raised" =>
        \A i \in DOMAIN buffer :
            \/ \E j \in DOMAIN out.sync.buffer : out.sync.buffer[j] = buffer[i]
            \/ buffer[i].final <= out.sync.book.last
            \/ buffer[i].final <= id

Results == ApplyResult \cup SnapshotResult \cup {"raised", "done"}

\* A new object satisfies the object part of the invariant.
LEMMA NewIsSound == Sound(NewSynchronizer)
BY MaxBufferedAssumption
   DEF Sound, NewSynchronizer, SyncState, ClearedBook, Book, Exact, Increasing

\* reset() keeps it, with or without the buffer.
LEMMA ResetIsSound ==
  ASSUME NEW s, Sound(s), NEW preserve \in BOOLEAN
  PROVE  Sound(Reset(s, preserve))
<1>1. ClearedBook \in Book /\ Exact(ClearedBook)
  BY DEF ClearedBook, Book, Exact
<1>2. Increasing(<<>>) /\ <<>> \in Seq(DepthUpdate) /\ Len(<<>>) = 0
  BY DEF Increasing
<1> QED BY <1>1, <1>2, MaxBufferedAssumption DEF Sound, Reset, SyncState

\* _buffer_event() on an object that is not live.
LEMMA BufferEventFacts ==
  ASSUME NEW s, Sound(s), s.state # "live", NEW e \in DepthUpdate,
         NEW result \in Results
  PROVE  LET out == BufferEvent(s, e, result)
         IN /\ Sound(out.sync)
            /\ out.result \in {result, "raised"}
            /\ out.sync.state # "live"
            /\ Keeps(s.buffer, 0, out)
<1> DEFINE t == Append(s.buffer, e)
<1>1. CASE BufferFull(s) \/ OutOfOrder(s, e)
  BY <1>1 DEF BufferEvent, Done, Outcome, Sound, SyncState, Keeps
<1>2. CASE ~ (BufferFull(s) \/ OutOfOrder(s, e))
  <2>1. /\ s.buffer \in Seq(DepthUpdate) /\ t \in Seq(DepthUpdate)
        /\ Len(t) = Len(s.buffer) + 1
        /\ \A i \in 1 .. Len(s.buffer) : t[i] = s.buffer[i]
        /\ t[Len(s.buffer) + 1] = e
    BY DEF Sound
  <2>2. Len(t) <= MaxBuffered
    BY <1>2, <2>1, MaxBufferedAssumption DEF BufferFull
  <2>3. \A i \in 1 .. Len(s.buffer) : s.buffer[i].final <= e.final
    <3>1. CASE s.buffer = <<>>  BY <3>1
    <3>2. CASE s.buffer # <<>>
      <4>1. /\ Len(s.buffer) \in 1 .. Len(s.buffer)
            /\ s.buffer[Len(s.buffer)].final <= e.final
        BY <1>2, <2>1, <3>2 DEF OutOfOrder, DepthUpdate
      <4>2. \A i \in 1 .. Len(s.buffer) :
               s.buffer[i].final <= s.buffer[Len(s.buffer)].final
        BY <4>1 DEF Sound, Increasing
      <4>3. \A i \in 1 .. Len(s.buffer) : s.buffer[i].final \in Nat
        BY <2>1 DEF DepthUpdate
      <4> QED BY <4>1, <4>2, <4>3 DEF DepthUpdate
    <3> QED BY <3>1, <3>2
  <2>4. Increasing(t)
    <3> SUFFICES ASSUME NEW i \in 1 .. Len(t), NEW j \in 1 .. Len(t), i <= j
                 PROVE  t[i].final <= t[j].final
      BY <2>1 DEF Increasing
    <3>1. CASE j <= Len(s.buffer)
      BY <2>1, <3>1 DEF Sound, Increasing
    <3>2. CASE j = Len(s.buffer) + 1 /\ i <= Len(s.buffer)
      BY <2>1, <2>3, <3>2
    <3>3. CASE i = Len(s.buffer) + 1 /\ j = i
      BY <2>1, <3>3 DEF DepthUpdate
    <3> QED BY <2>1, <3>1, <3>2, <3>3
  <2>5. BufferEvent(s, e, result) = Done([s EXCEPT !.buffer = t], result)
    BY <1>2 DEF BufferEvent
  <2> HIDE DEF t
  <2>6. Sound([s EXCEPT !.buffer = t])
    BY <2>1, <2>2, <2>4 DEF Sound
  <2>7. \A i \in DOMAIN s.buffer : \E j \in DOMAIN t : t[j] = s.buffer[i]
    BY <2>1
  <2> QED BY <2>5, <2>6, <2>7 DEF Done, Outcome, Keeps, Sound
<1> QED BY <1>1, <1>2

\* While the object stays live its content only grows.
Grows(s, out) ==
    s.state = "live" /\ out.sync.state = "live"
        => s.book.ids \subseteq out.sync.book.ids

\* _apply_live(): an older event is ignored, a gap leaves the live state, and
\* any other event keeps the book exact, even when validate() rejects it.
LEMMA ApplyLiveFacts ==
  ASSUME NEW s, Sound(s), s.state = "live", NEW e \in DepthUpdate
  PROVE  LET out == ApplyLive(s, e)
         IN /\ Sound(out.sync)
            /\ out.result \in Results
            /\ Keeps(s.buffer, 0, out)
            /\ Grows(s, out)
<1> DEFINE out == ApplyLive(s, e)
<1>0. s.buffer = <<>> /\ DOMAIN s.buffer = {}  BY DEF Sound
<1>1. CASE Stale(e, s.book.last)
  <2>1. out = Done(s, "ignored_stale")  BY <1>1 DEF ApplyLive
  <2> QED BY <1>0, <2>1 DEF Done, Outcome, Keeps, Results, ApplyResult, Grows
<1>2. CASE ~ Stale(e, s.book.last) /\ Gap(e, s.book.last)
  <2> DEFINE g == [s EXCEPT !.state = "gap"]
  <2>1. out = BufferEvent(g, e, "gap_detected")  BY <1>2 DEF ApplyLive
  <2>2. Sound(g) /\ g.state # "live" /\ g.buffer = s.buffer
    BY DEF Sound, SyncState
  <2>3. "gap_detected" \in Results  BY DEF Results, ApplyResult
  <2> HIDE DEF g
  <2>4. /\ Sound(out.sync) /\ out.result \in {"gap_detected", "raised"}
        /\ out.sync.state # "live" /\ Keeps(g.buffer, 0, out)
    BY <2>1, <2>2, <2>3, BufferEventFacts
  <2> QED BY <2>2, <2>3, <2>4 DEF Grows, Results
<1>3. CASE ~ Stale(e, s.book.last) /\ ~ Gap(e, s.book.last)
  <2> DEFINE b == Applied(s.book, e)
             t == [s EXCEPT !.book = b]
  <2>1. b \in Book /\ Exact(b)  BY <1>3, AppliedIsExact DEF Sound
  <2>2. s.book.ids \subseteq b.ids  BY DEF Applied
  <2>3. \/ out = Done(t, "raised")
        \/ out = Outcome([t EXCEPT !.state = "live"], "applied", <<e>>)
    BY <1>3 DEF ApplyLive
  <2> HIDE DEF b
  <2>4. Sound(t) /\ Sound([t EXCEPT !.state = "live"])
    BY <1>0, <2>1 DEF Sound, SyncState
  <2>5. t.book = b /\ [t EXCEPT !.state = "live"].book = b  BY DEF Sound
  <2>6. out.sync \in {t, [t EXCEPT !.state = "live"]}
        /\ out.result \in {"raised", "applied"}
    BY <2>3 DEF Done, Outcome
  <2> HIDE DEF t, out
  <2>7. Sound(out.sync) /\ out.sync.book = b  BY <2>4, <2>5, <2>6
  <2>8. Keeps(s.buffer, 0, out)  BY <1>0 DEF Keeps
  <2> QED BY <2>2, <2>6, <2>7, <2>8 DEF Results, ApplyResult, Grows, out
<1> QED BY <1>1, <1>2, <1>3

\* ingest(): one of the two above, by the state.
LEMMA IngestFacts ==
  ASSUME NEW s, Sound(s), NEW e \in DepthUpdate
  PROVE  LET out == Ingest(s, e)
         IN /\ Sound(out.sync)
            /\ out.result \in Results
            /\ Keeps(s.buffer, 0, out)
            /\ Grows(s, out)
            /\ s.state # "live" => out.sync.state # "live"
<1>1. CASE s.state = "live"
  <2>1. Ingest(s, e) = ApplyLive(s, e)  BY <1>1 DEF Ingest
  <2> QED BY <1>1, <2>1, ApplyLiveFacts
<1>2. CASE s.state # "live"
  <2>1. Ingest(s, e) = BufferEvent(s, e, "buffered")  BY <1>2 DEF Ingest
  <2>2. "buffered" \in Results  BY DEF Results, ApplyResult
  <2> QED BY <1>2, <2>1, <2>2, BufferEventFacts DEF Grows, Results
<1> QED BY <1>1, <1>2

\* The loop over the pending events, wherever it stops.
LEMMA BridgeFacts ==
  ASSUME NEW pending \in Seq(DepthUpdate), Increasing(pending), NEW id \in Nat,
         Len(pending) <= MaxBuffered,
         \A i \in DOMAIN pending : pending[i].final > id
  PROVE  LET out == Bridge(pending, id)
         IN /\ Sound(out.sync)
            /\ out.result \in Results
            /\ Keeps(pending, id, out)
<1> DEFINE n == Consumed(pending, id)
           b == BookAfter(pending, id, n)
           halts == Halts(pending, id)
           live(book) == [state |-> "live", buffer |-> <<>>, book |-> book]
           out == Bridge(pending, id)
<1>1. /\ n \in 0 .. Len(pending)
      /\ \A i \in 1 .. n : i \notin halts
      /\ halts = {} => n = Len(pending)
      /\ halts # {} => n + 1 \in halts /\ n + 1 \in 1 .. Len(pending)
  BY ConsumedFacts
<1>2. \A i \in 1 .. n : ~ Broken(pending, id, i)
  BY <1>1 DEF Halts
<1> HIDE DEF n
<1>3. /\ b \in Book /\ Exact(b)
      /\ b.last = LocalBefore(pending, id, n + 1)
      /\ \A i \in 1 .. n : pending[i].final <= b.last
  BY <1>1, <1>2, BookAfterIsExact
<1>4. \A book \in Book : Exact(book) => Sound(live(book))
  BY MaxBufferedAssumption DEF Sound, SyncState, Increasing
<1>5. CASE halts = {}
  <2>1. out = Outcome(live(b), "synchronized", AppliedEvents(pending, id, n))
    BY <1>5 DEF Bridge, n
  <2>2. \A i \in DOMAIN pending : pending[i].final <= b.last
    BY <1>1, <1>3, <1>5
  <2> HIDE DEF b
  <2> QED BY <1>3, <1>4, <2>1, <2>2
          DEF Outcome, Keeps, Results, SnapshotResult
<1>6. CASE halts # {} /\ Broken(pending, id, n + 1)
  <2> DEFINE rest == Leftover(pending, n)
  <2>1. out = Outcome([live(b) EXCEPT !.state = "gap", !.buffer = rest],
                      "gap_detected", AppliedEvents(pending, id, n))
    BY <1>6 DEF Bridge, n
  <2>2. /\ rest \in Seq(DepthUpdate)
        /\ Len(rest) = Len(pending) - n
        /\ DOMAIN rest = 1 .. Len(rest)
        /\ \A i \in 1 .. Len(rest) : rest[i] = pending[n + i]
    BY <1>1, <1>6 DEF Leftover
  <2> HIDE DEF rest
  <2>3. Increasing(rest)
    <3> SUFFICES ASSUME NEW i \in 1 .. Len(rest), NEW j \in 1 .. Len(rest),
                        i <= j
                 PROVE  rest[i].final <= rest[j].final
      BY <2>2 DEF Increasing
    <3>1. n + i \in DOMAIN pending /\ n + j \in DOMAIN pending /\ n + i <= n + j
      BY <1>1, <2>2
    <3> QED BY <2>2, <3>1 DEF Increasing
  <2>4. \A i \in DOMAIN pending : \/ pending[i].final <= b.last
                                  \/ \E j \in DOMAIN rest : rest[j] = pending[i]
    <3> SUFFICES ASSUME NEW i \in DOMAIN pending, i \notin 1 .. n
                 PROVE  \E j \in DOMAIN rest : rest[j] = pending[i]
      BY <1>3
    <3>1. i - n \in DOMAIN rest /\ rest[i - n] = pending[i]
      BY <1>1, <2>2
    <3> QED BY <3>1
  <2> HIDE DEF b
  <2>5. Len(rest) <= MaxBuffered
    BY <1>1, <2>2, MaxBufferedAssumption
  <2> DEFINE t == [live(b) EXCEPT !.state = "gap", !.buffer = rest]
  <2>6. Sound(t)
    BY <1>3, <2>2, <2>3, <2>5 DEF Sound, SyncState
  <2>7. t.buffer = rest /\ t.book = b  OBVIOUS
  <2>8. out.sync = t /\ out.result = "gap_detected"  BY <2>1 DEF Outcome
  <2> HIDE DEF t, out
  <2>9. Keeps(pending, id, out)  BY <2>4, <2>7, <2>8 DEF Keeps
  <2> QED BY <2>6, <2>8, <2>9 DEF Results, SnapshotResult, out
<1>7. CASE halts # {} /\ ~ Broken(pending, id, n + 1)
  <2> DEFINE e == pending[n + 1]
  <2>1. out = Done(live(Applied(b, e)), "raised")
    BY <1>7 DEF Bridge, n
  <2>2. e \in DepthUpdate /\ Poisoned(pending, id, n + 1)
    BY <1>1, <1>7 DEF Halts
  <2>3. ~ Stale(e, b.last) /\ ~ Gap(e, b.last)
    BY <1>3, <1>7, <2>2 DEF Poisoned, Skipped, Broken
  <2> HIDE DEF b, e
  <2>4. Applied(b, e) \in Book /\ Exact(Applied(b, e))
    BY <1>3, <2>2, <2>3, AppliedIsExact
  <2> QED BY <1>4, <2>1, <2>4 DEF Done, Outcome, Keeps, Results
<1> QED BY <1>5, <1>6, <1>7

\* install_snapshot(), through each of its exits.
LEMMA InstallFacts ==
  ASSUME NEW s, Sound(s), NEW id \in Nat
  PROVE  LET out == InstallSnapshot(s, id)
         IN /\ Sound(out.sync)
            /\ out.result \in Results
            /\ Keeps(s.buffer, id, out)
<1> DEFINE pending == Retained(s.buffer, id)
           kept == [s EXCEPT !.buffer = pending]
           replaced == [kept EXCEPT !.book = SnapshotBook(id)]
           waiting == [replaced EXCEPT !.state = "awaiting_snapshot"]
           out == InstallSnapshot(s, id)
<1>0. s.buffer \in Seq(DepthUpdate) /\ Increasing(s.buffer)
      /\ Len(s.buffer) <= MaxBuffered
  BY DEF Sound
<1>1. /\ pending \in Seq(DepthUpdate)
      /\ Len(pending) <= Len(s.buffer)
      /\ Increasing(pending)
      /\ \A i \in DOMAIN pending : pending[i].final > id
      /\ \A i \in DOMAIN s.buffer :
             \/ s.buffer[i].final <= id
             \/ \E j \in DOMAIN pending : pending[j] = s.buffer[i]
  BY <1>0, RetainedFacts
<1>2. s.buffer = <<>> => pending = <<>>
  <2> SUFFICES ASSUME s.buffer = <<>> PROVE pending = <<>>
    OBVIOUS
  <2> QED BY DEF Retained
<1>3. \/ out = Done(kept, "snapshot_too_old")
      \/ out = Done(replaced, "raised")
      \/ out = Done(waiting, "awaiting_bridge")
      \/ out = Bridge(pending, id)
  BY DEF InstallSnapshot
<1>4. SnapshotBook(id) \in Book /\ Exact(SnapshotBook(id))
  BY DEF SnapshotBook, Book, Exact
<1>5. Len(pending) <= MaxBuffered
  BY <1>0, <1>1, MaxBufferedAssumption
<1> HIDE DEF pending, out
<1>6. Sound(kept) /\ kept.buffer = pending
  BY <1>1, <1>2, <1>5 DEF Sound
<1>7. Sound(replaced)
  BY <1>4, <1>6 DEF Sound
<1>8. Sound(waiting) /\ waiting.buffer = pending
  BY <1>6, <1>7 DEF Sound, SyncState
<1>9. CASE out = Done(kept, "snapshot_too_old")
  <2> HIDE DEF kept
  <2>1. Keeps(s.buffer, id, out)
    BY <1>1, <1>6, <1>9 DEF Done, Outcome, Keeps
  <2> QED BY <1>6, <1>9, <2>1 DEF Done, Outcome, Results, SnapshotResult, out
<1>10. CASE out = Done(replaced, "raised")
  <2> HIDE DEF replaced
  <2> QED BY <1>7, <1>10 DEF Done, Outcome, Keeps, Results, out
<1>11. CASE out = Done(waiting, "awaiting_bridge")
  <2> HIDE DEF waiting
  <2>1. Keeps(s.buffer, id, out)
    BY <1>1, <1>8, <1>11 DEF Done, Outcome, Keeps
  <2> QED BY <1>8, <1>11, <2>1 DEF Done, Outcome, Results, SnapshotResult, out
<1>12. CASE out = Bridge(pending, id)
  <2>1. Sound(out.sync) /\ out.result \in Results /\ Keeps(pending, id, out)
    BY <1>1, <1>5, <1>12, BridgeFacts
  <2>2. Keeps(s.buffer, id, out)
    BY <1>1, <2>1 DEF Keeps
  <2> QED BY <2>1, <2>2 DEF out
<1> QED BY <1>3, <1>9, <1>10, <1>11, <1>12

-----------------------------------------------------------------------------
(* The calls of a capture, which never holds more than one event back *)

\* ingest() with nothing buffered: what it says is what it has done.
LEMMA IngestIntoEmpty ==
  ASSUME NEW s, Sound(s), s.buffer = <<>>, NEW e \in DepthUpdate
  PROVE  LET out == Ingest(s, e)
             b == Applied(s.book, e)
         IN \/ out.result = "raised"
            \/ /\ out.result = "ignored_stale"
               /\ out.sync = s
            \/ /\ out.result = "buffered" /\ s.state # "live"
               /\ out.sync = [s EXCEPT !.buffer = <<e>>]
            \/ /\ out.result = "gap_detected"
               /\ out.sync.buffer = <<e>>
            \/ /\ out.result = "applied" /\ s.state = "live"
               /\ out.sync = [s EXCEPT !.book = b]
               /\ ~ Stale(e, s.book.last) /\ ~ Gap(e, s.book.last)
               /\ ~ Rejected(b)
<1> DEFINE out == Ingest(s, e)
           b == Applied(s.book, e)
<1>1. Append(<<>>, e) = <<e>>  OBVIOUS
<1>2. s \in [state : SyncState, buffer : Seq(DepthUpdate), book : Book]
  BY DEF Sound
<1>3. CASE s.state # "live"
  <2>1. out = BufferEvent(s, e, "buffered")  BY <1>3 DEF Ingest
  <2>2. \/ out.result = "raised"
        \/ /\ out.result = "buffered"
           /\ out.sync = [s EXCEPT !.buffer = Append(s.buffer, e)]
    BY <2>1, <1>2 DEF BufferEvent, Done, Outcome
  <2> QED BY <1>1, <1>3, <2>2
<1>4. CASE s.state = "live"
  <2>1. out = ApplyLive(s, e)  BY <1>4 DEF Ingest
  <2>2. CASE Stale(e, s.book.last)
    <3>1. out = Done(s, "ignored_stale")  BY <2>1, <2>2 DEF ApplyLive
    <3> QED BY <3>1 DEF Done, Outcome
  <2>3. CASE ~ Stale(e, s.book.last) /\ Gap(e, s.book.last)
    <3> DEFINE g == [s EXCEPT !.state = "gap"]
    <3>1. out = BufferEvent(g, e, "gap_detected")
      BY <2>1, <2>3 DEF ApplyLive
    <3>2. g.buffer = <<>>  BY <1>2
    <3>3. g \in [state : SyncState, buffer : Seq(DepthUpdate), book : Book]
      BY <1>2 DEF SyncState
    <3> HIDE DEF g
    <3>4. \/ out.result = "raised"
          \/ /\ out.result = "gap_detected"
             /\ out.sync = [g EXCEPT !.buffer = Append(g.buffer, e)]
      BY <3>1 DEF BufferEvent, Done, Outcome
    <3> QED BY <1>1, <3>2, <3>3, <3>4
  <2>4. CASE ~ Stale(e, s.book.last) /\ ~ Gap(e, s.book.last)
    <3>1. \/ out = Done([s EXCEPT !.book = b], "raised")
          \/ /\ ~ Rejected(b)
             /\ out = Outcome([s EXCEPT !.book = b, !.state = "live"],
                              "applied", <<e>>)
      BY <2>1, <2>4 DEF ApplyLive
    <3>2. [s EXCEPT !.book = b, !.state = "live"] = [s EXCEPT !.book = b]
      BY <1>2, <1>4
    <3> HIDE DEF out, b
    <3>3. CASE out = Done([s EXCEPT !.book = b], "raised")
      BY <3>3 DEF Done, Outcome, out
    <3>4. CASE /\ ~ Rejected(b)
               /\ out = Outcome([s EXCEPT !.book = b, !.state = "live"],
                                "applied", <<e>>)
      BY <1>4, <2>4, <3>2, <3>4 DEF Outcome, out, b
    <3> QED BY <3>1, <3>3, <3>4
  <2> QED BY <2>2, <2>3, <2>4
<1> QED BY <1>3, <1>4

\* The applied events of a snapshot that bridges one event.
LEMMA AppliedEventsOfOne ==
  ASSUME NEW pending, NEW id, ~ Skipped(pending, id, 1)
  PROVE  AppliedEvents(pending, id, 1) = <<pending[1]>>
<1> DEFINE step(f, i) == IF i = 0 THEN <<>>
                         ELSE IF Skipped(pending, id, i) THEN f[i - 1]
                         ELSE Append(f[i - 1], pending[i])
           w == [i \in 0 .. 1 |-> IF i = 0 THEN <<>> ELSE <<pending[1]>>]
           from == CHOOSE f : f = [i \in 0 .. 1 |-> step(f, i)]
<1>1. w = [i \in 0 .. 1 |-> step(w, i)]
  <2>1. step(w, 0) = <<>>  OBVIOUS
  <2>2. w[0] = <<>>  OBVIOUS
  <2>3. step(w, 1) = Append(w[1 - 1], pending[1])  OBVIOUS
  <2>4. 1 - 1 = 0 /\ Append(<<>>, pending[1]) = <<pending[1]>>  OBVIOUS
  <2>5. step(w, 1) = <<pending[1]>>
    <3> HIDE DEF w, step
    <3> QED BY <2>2, <2>3, <2>4
  <2>6. \A i \in 0 .. 1 : i = 0 \/ i = 1  OBVIOUS
  <2>7. \A i \in 0 .. 1 : step(w, i) = IF i = 0 THEN <<>> ELSE <<pending[1]>>
    <3> HIDE DEF w, step
    <3> QED BY <2>1, <2>5, <2>6
  <2> HIDE DEF step
  <2> QED BY <2>7
<1>2. from = [i \in 0 .. 1 |-> step(from, i)]
  <2> HIDE DEF w, step
  <2> QED BY <1>1
<1>3. AppliedEvents(pending, id, 1) = from[1]  BY DEF AppliedEvents
<1> HIDE DEF from
<1>4. from[0] = step(from, 0) /\ from[1] = step(from, 1)
  <2> HIDE DEF step
  <2>1. 0 \in 0 .. 1 /\ 1 \in 0 .. 1  OBVIOUS
  <2> QED BY <1>2, <2>1
<1>5. from[0] = <<>>  BY <1>4
<1>6. step(from, 1) = Append(from[1 - 1], pending[1])  OBVIOUS
<1>7. 1 - 1 = 0 /\ Append(<<>>, pending[1]) = <<pending[1]>>  OBVIOUS
<1> HIDE DEF step
<1> QED BY <1>3, <1>4, <1>5, <1>6, <1>7

\* install_snapshot() with one event buffered: it covers the event, or does
\* not reach it, or bridges it.
LEMMA InstallOverOne ==
  ASSUME NEW s, Sound(s), NEW e \in DepthUpdate, s.buffer = <<e>>,
         NEW id \in Nat
  PROVE  LET out == InstallSnapshot(s, id)
             b == Applied(SnapshotBook(id), e)
         IN \/ out.result = "raised"
            \/ /\ out.result = "snapshot_too_old"
               /\ out.sync = s
            \/ /\ out.result = "awaiting_bridge"
               /\ out.sync = [state |-> "awaiting_snapshot", buffer |-> <<>>,
                              book |-> SnapshotBook(id)]
            \/ /\ out.result = "synchronized"
               /\ out.applied = <<e>>
               /\ out.sync = [state |-> "live", buffer |-> <<>>, book |-> b]
               /\ ~ Stale(e, id) /\ ~ Gap(e, id)
               /\ ~ Rejected(SnapshotBook(id)) /\ ~ Rejected(b)
<1> DEFINE pending == Retained(s.buffer, id)
           kept == [s EXCEPT !.buffer = pending]
           replaced == [kept EXCEPT !.book = SnapshotBook(id)]
           waiting == [replaced EXCEPT !.state = "awaiting_snapshot"]
           out == InstallSnapshot(s, id)
           b == Applied(SnapshotBook(id), e)
<1>1. s \in [state : SyncState, buffer : Seq(DepthUpdate), book : Book]
  BY DEF Sound
<1>2. s.buffer[1] = e /\ Len(s.buffer) = 1 /\ DOMAIN s.buffer = {1}
  OBVIOUS
<1>3. CASE Stale(e, id)
  <2>1. pending = <<>>  BY <1>2, <1>3 DEF Retained
  <2> HIDE DEF pending
  <2>2. \/ out = Done(replaced, "raised")
        \/ out = Done(waiting, "awaiting_bridge")
    BY <2>1 DEF InstallSnapshot, pending
  <2>3. waiting = [state |-> "awaiting_snapshot", buffer |-> <<>>,
                   book |-> SnapshotBook(id)]
    <3>1. kept = [state |-> s.state, buffer |-> <<>>, book |-> s.book]
      BY <1>1, <2>1
    <3> HIDE DEF kept
    <3>2. replaced = [state |-> s.state, buffer |-> <<>>,
                      book |-> SnapshotBook(id)]
      BY <3>1
    <3> HIDE DEF replaced
    <3> QED BY <3>2
  <2> QED BY <2>2, <2>3 DEF Done, Outcome
<1>4. CASE ~ Stale(e, id)
  <2>1. pending = s.buffer
    <3> DEFINE newer == {i \in DOMAIN s.buffer : ~ Stale(s.buffer[i], id)}
    <3>1. newer = {1}  BY <1>2, <1>4
    <3>2. Min(newer) = 1  BY <3>1, MinOfNaturals
    <3>3. pending = SubSeq(s.buffer, 1, 1)
      <4> HIDE DEF newer
      <4>1. newer # {}  BY <3>1
      <4>2. pending = SubSeq(s.buffer, Min(newer), Len(s.buffer))
        BY <4>1 DEF Retained, newer
      <4> QED BY <1>2, <3>2, <4>2
    <3>4. SubSeq(s.buffer, 1, 1) = s.buffer
      <4> DEFINE q == SubSeq(s.buffer, 1, 1)
      <4>1. q = [i \in 1 .. 1 |-> s.buffer[i]]  BY <1>2
      <4>2. s.buffer = [i \in 1 .. 1 |-> s.buffer[i]]  BY <1>2
      <4> QED BY <4>1, <4>2
    <3> QED BY <3>3, <3>4
  <2>2. pending # <<>> /\ pending[1] = e  BY <1>2, <2>1
  <2>3. kept = s  BY <1>1, <2>1
  <2> HIDE DEF pending, kept
  <2>4. CASE Gap(e, id)
    <3>1. out = Done(kept, "snapshot_too_old")
      BY <2>2, <2>4 DEF InstallSnapshot, pending, kept
    <3> QED BY <2>3, <3>1 DEF Done, Outcome
  <2>5. CASE ~ Gap(e, id) /\ Rejected(SnapshotBook(id))
    <3>1. out = Done(replaced, "raised")
      BY <2>2, <2>5 DEF InstallSnapshot, pending, kept
    <3> QED BY <3>1 DEF Done, Outcome
  <2>6. CASE ~ Gap(e, id) /\ ~ Rejected(SnapshotBook(id))
    <3>1. out = Bridge(<<e>>, id)
      BY <2>1, <2>2, <2>6 DEF InstallSnapshot, pending
    <3> DEFINE one == <<e>>
    <3>2. one[1] = e /\ Len(one) = 1 /\ DOMAIN one = {1}  OBVIOUS
    <3> HIDE DEF one
    <3>3. LocalBefore(one, id, 1) = id /\ LocalBefore(one, id, 2) = e.final
      BY <3>2 DEF LocalBefore
    <3>4. ~ Skipped(one, id, 1) /\ ~ Broken(one, id, 1)
      BY <1>4, <2>6, <3>2, <3>3 DEF Skipped, Broken
    <3>5. Poisoned(one, id, 1) <=> e.final \in Unsound
      BY <3>2, <3>4 DEF Poisoned
    <3>6. Halts(one, id) = IF e.final \in Unsound THEN {1} ELSE {}
      BY <3>2, <3>4, <3>5 DEF Halts
    <3>7. CASE e.final \in Unsound
      <4>1. Min(Halts(one, id)) = 1
        <5>1. Halts(one, id) = {1} /\ {1} \in SUBSET Nat /\ {1} # {}
          BY <3>6, <3>7
        <5>2. Min({1}) = 1  BY MinOfNaturals
        <5> QED BY <5>1, <5>2
      <4>2. Consumed(one, id) = 0  BY <3>6, <3>7, <4>1 DEF Consumed
      <4>3. Bridge(one, id).result = "raised"
        BY <3>4, <3>6, <3>7, <4>2 DEF Bridge, Done, Outcome
      <4> QED BY <3>1, <4>3 DEF one
    <3>8. CASE e.final \notin Unsound
      <4>1. Halts(one, id) = {} /\ Consumed(one, id) = 1
        BY <3>2, <3>6, <3>8 DEF Consumed
      <4>2. Bridge(one, id) =
               Outcome([state |-> "live", buffer |-> <<>>,
                        book |-> BookAfter(one, id, 1)],
                       "synchronized", AppliedEvents(one, id, 1))
        BY <4>1 DEF Bridge
      <4>3. AppliedEvents(one, id, 1) = <<e>>
        BY <3>2, <3>4, AppliedEventsOfOne
      <4>4. BookAfter(one, id, 1) = b
        <5>1. {j \in 1 .. 1 : ~ Skipped(one, id, j)} = {1}  BY <3>4
        <5>2. UNION {one[i].first .. one[i].final : i \in {1}}
                = e.first .. e.final
          BY <3>2
        <5>3. 1 + 1 = 2  OBVIOUS
        <5> QED BY <3>3, <5>1, <5>2, <5>3
                DEF BookAfter, Applied, SnapshotBook
      <4>5. ~ Rejected(b)  BY <3>8 DEF Rejected, Applied
      <4>6. out = Outcome([state |-> "live", buffer |-> <<>>, book |-> b],
                          "synchronized", <<e>>)
        BY <3>1, <4>2, <4>3, <4>4 DEF one
      <4> HIDE DEF out, b
      <4>7. /\ out.result = "synchronized" /\ out.applied = <<e>>
            /\ out.sync = [state |-> "live", buffer |-> <<>>, book |-> b]
        BY <4>6 DEF Outcome
      <4> QED BY <1>4, <2>6, <4>5, <4>7 DEF out, b
    <3> QED BY <3>7, <3>8
  <2> QED BY <2>4, <2>5, <2>6
<1> QED BY <1>3, <1>4

=============================================================================

---------------------- MODULE DepthSynchronizerProofs ----------------------
(***************************************************************************)
(* Proofs about DepthSynchronizerSpec for every buffer capacity, every     *)
(* bound on the ids and every set of rejected books.                       *)
(***************************************************************************)
EXTENDS DepthSynchronizerSpec, DepthSynchronizerFacts

-----------------------------------------------------------------------------
(* The specification *)

\* The inductive invariant.  TypeOK and BookIsExact alone are not inductive:
\* that bridging keeps the book exact needs the buffer to be ordered, and
\* that ingest() may skip the buffer needs it to be empty while live.
IInv == /\ Sound(sync)
        /\ call \in [method : {"ingest", "install_snapshot", "reset"},
                     id : 0 .. MaxId, result : Results]

\* What every call establishes, besides keeping the invariant.
CallFacts ==
    /\ call'.result # "raised" /\ call'.method # "reset" =>
          \A i \in DOMAIN sync.buffer :
              \/ \E j \in DOMAIN sync'.buffer : sync'.buffer[j] = sync.buffer[i]
              \/ sync.buffer[i].final <= sync'.book.last
              \/ sync.buffer[i].final <= call'.id
    /\ sync.state = "live" /\ sync'.state = "live"
          => sync.book.ids \subseteq sync'.book.ids

\* The invariant holds of a new object.
LEMMA InitEstablishes == Init => IInv
BY NewIsSound, MaxIdAssumption DEF Init, IInv, Results

\* Each call keeps the invariant and does to the old object what CallFacts
\* says: one case per method.
LEMMA CallsPreserve ==
  ASSUME IInv, Next
  PROVE  IInv' /\ CallFacts
<1>1. CASE \E e \in Arrivals : IngestCall(e)
  <2>1. PICK e \in DepthUpdate : IngestCall(e)
    BY <1>1 DEF Arrivals
  <2> DEFINE out == Ingest(sync, e)
  <2>2. /\ Sound(out.sync) /\ out.result \in Results
        /\ Keeps(sync.buffer, 0, out) /\ Grows(sync, out)
    BY IngestFacts DEF IInv
  <2>3. /\ sync' = out.sync
        /\ call' = [method |-> "ingest", id |-> 0, result |-> out.result]
    BY <2>1 DEF IngestCall, Returns
  <2> HIDE DEF out
  <2>4. IInv'  BY <2>2, <2>3, MaxIdAssumption DEF IInv, Sound
  <2>5. CallFacts  BY <2>2, <2>3 DEF CallFacts, Keeps, Grows
  <2> QED BY <2>4, <2>5
<1>2. CASE \E id \in Ids : InstallCall(id)
  <2>1. PICK id \in 1 .. MaxId : InstallCall(id)
    BY <1>2 DEF Ids
  <2> DEFINE out == InstallSnapshot(sync, id)
  <2>2. id \in Nat /\ id \in 0 .. MaxId  BY MaxIdAssumption
  <2>3. /\ Sound(out.sync) /\ out.result \in Results
        /\ Keeps(sync.buffer, id, out)
    BY <2>2, InstallFacts DEF IInv
  <2>4. /\ sync.state # "live" /\ sync' = out.sync
        /\ call' = [method |-> "install_snapshot", id |-> id,
                    result |-> out.result]
    BY <2>1 DEF InstallCall, Returns
  <2> HIDE DEF out
  <2>5. IInv'  BY <2>2, <2>3, <2>4 DEF IInv, Sound
  <2>6. CallFacts  BY <2>3, <2>4 DEF CallFacts, Keeps
  <2> QED BY <2>5, <2>6
<1>3. CASE \E preserve \in BOOLEAN : ResetCall(preserve)
  <2>1. PICK preserve \in BOOLEAN : ResetCall(preserve)
    BY <1>3
  <2>2. Sound(Reset(sync, preserve))  BY ResetIsSound DEF IInv
  <2>3. /\ sync' = Reset(sync, preserve)
        /\ call' = [method |-> "reset", id |-> 0, result |-> "done"]
    BY <2>1 DEF ResetCall, Returns, Done, Outcome
  <2>4. sync'.state # "live"  BY <2>3 DEF Reset
  <2>5. IInv'  BY <2>2, <2>3, MaxIdAssumption DEF IInv, Sound, Results
  <2>6. CallFacts  BY <2>3, <2>4 DEF CallFacts
  <2> QED BY <2>5, <2>6
<1> QED BY <1>1, <1>2, <1>3 DEF Next

\* So does a step that changes nothing.
LEMMA StepsPreserve ==
  ASSUME IInv, [Next]_vars
  PROVE  IInv'
<1>1. CASE Next  BY <1>1, CallsPreserve
<1>2. CASE UNCHANGED vars
  BY <1>2 DEF vars, IInv, Sound, Exact, Increasing
<1> QED BY <1>1, <1>2

\* The inductive invariant of the synchronizer.
THEOREM InvariantHolds == Spec => []IInv
<1>1. Init => IInv  BY InitEstablishes
<1>2. IInv /\ [Next]_vars => IInv'  BY StepsPreserve
<1> QED BY <1>1, <1>2, PTL DEF Spec

\* Whatever events arrive in whatever order and whichever snapshots bridge
\* them, the local book is the exchange's book at the id it claims.
THEOREM BookStaysExact == Spec => []BookIsExact
<1>1. IInv => BookIsExact  BY DEF IInv, Sound, BookIsExact
<1> QED BY <1>1, InvariantHolds, PTL

\* The object and the record of its last call stay well formed, the buffer
\* within its capacity.
THEOREM TypesHold == Spec => []TypeOK
<1>1. IInv => TypeOK  BY DEF IInv, Sound, TypeOK, Results
<1> QED BY <1>1, InvariantHolds, PTL

\* A live object never holds an update back.
THEOREM LiveIsDrained == Spec => []LiveMeansDrained
<1>1. IInv => LiveMeansDrained  BY DEF IInv, Sound, LiveMeansDrained
<1> QED BY <1>1, InvariantHolds, PTL

\* The buffer is in arrival order.
THEOREM BufferStaysOrdered == Spec => []BufferOrdered
<1>1. IInv => BufferOrdered  BY DEF IInv, Sound, BufferOrdered, Increasing
<1> QED BY <1>1, InvariantHolds, PTL

\* No call loses a buffered update that neither book nor snapshot covers.
THEOREM NothingIsLost == Spec => NoUpdateLost
<1> DEFINE Kept == \A i \in DOMAIN sync.buffer :
          LET e == sync.buffer[i]
          IN \/ \E j \in DOMAIN sync'.buffer : sync'.buffer[j] = e
             \/ e.final <= sync'.book.last
             \/ e.final <= call'.id
             \/ call'.method = "reset"
             \/ call'.result = "raised"
<1>1. IInv /\ [Next]_vars => [Kept]_vars
  <2> SUFFICES ASSUME IInv, Next PROVE Kept
    OBVIOUS
  <2> QED BY CallsPreserve DEF CallFacts
<1>2. Spec => [][Kept]_vars  BY <1>1, InvariantHolds, PTL DEF Spec
<1> QED BY <1>2 DEF NoUpdateLost

\* Readers of a live book see what ExchangeMirror promises.
THEOREM ImplementsMirror == Spec => MirrorSpec
<1> DEFINE view == [live |-> sync.state = "live",
                    ids |-> IF sync.state = "live" THEN sync.book.ids ELSE {}]
<1>1. Init => Mirror!Init
  <2> SUFFICES ASSUME Init PROVE view = [live |-> FALSE, ids |-> {}]
    BY DEF Mirror!Init, Mirror!Dark
  <2>1. (sync.state = "live") = FALSE  BY DEF Init, NewSynchronizer
  <2> QED BY <2>1
<1>2. IInv /\ [Next]_vars => [Mirror!Next]_view
  <2> SUFFICES ASSUME IInv, Next PROVE Mirror!Next \/ view' = view
    BY DEF vars
  <2>1. IInv' /\ CallFacts  BY CallsPreserve
  <2>2. Mirror!Prefix(sync'.book.ids)
    <3>1. sync'.book.ids = 1 .. sync'.book.last /\ sync'.book.last \in Nat
      BY <2>1 DEF IInv, Sound, Exact, Book
    <3> QED BY <3>1 DEF Mirror!Prefix
  <2>3. CASE sync'.state # "live"
    <3>1. view' = [live |-> FALSE, ids |-> {}]  BY <2>3
    <3> QED BY <3>1 DEF Mirror!Next, Mirror!Lose, Mirror!Dark
  <2>4. CASE sync.state # "live" /\ sync'.state = "live"
    <3>1. ~ view.live /\ view'.live /\ view'.ids = sync'.book.ids  BY <2>4
    <3> QED BY <2>2, <3>1 DEF Mirror!Next, Mirror!Synchronize
  <2>5. CASE sync.state = "live" /\ sync'.state = "live"
    <3>1. /\ view.live /\ view'.live
          /\ view.ids = sync.book.ids /\ view'.ids = sync'.book.ids
      BY <2>5
    <3>2. sync.book.ids \subseteq sync'.book.ids
      BY <2>1, <2>5 DEF CallFacts
    <3> QED BY <2>2, <3>1, <3>2 DEF Mirror!Next, Mirror!Follow
  <2> QED BY <2>3, <2>4, <2>5
<1> QED BY <1>1, <1>2, InvariantHolds, PTL
        DEF Spec, MirrorSpec, Mirror!Spec
=============================================================================

----------------------- MODULE DepthSynchronizerSpec -----------------------
(***************************************************************************)
(* The DepthSynchronizer object under its callers: any event may be        *)
(* ingested at any time, a snapshot is installed only while the object is  *)
(* not live (SymbolCapture.synchronize() runs only with buffered events),  *)
(* and nothing is called once a method raised, which ends the capture.     *)
(***************************************************************************)
EXTENDS DepthSynchronizer

CONSTANT MaxId    \* bound: the highest exchange update id

ASSUME MaxIdAssumption == MaxId \in Nat \ {0}

VARIABLES sync,    \* the DepthSynchronizer
          call     \* the last call: method, snapshot id, result

vars == <<sync, call>>

Ids == 1 .. MaxId

\* Losses, duplicates and reordering in the network: any range may arrive.
Arrivals == {Update(f, l) : f, l \in Ids} \cap DepthUpdate

Returns(method, id, out) ==
    /\ call.result # "raised"
    /\ sync' = out.sync
    /\ call' = [method |-> method, id |-> id, result |-> out.result]

Init == /\ sync = NewSynchronizer
        /\ call = [method |-> "reset", id |-> 0, result |-> "done"]

IngestCall(e) == Returns("ingest", 0, Ingest(sync, e))

InstallCall(id) ==
    /\ sync.state # "live"
    /\ Returns("install_snapshot", id, InstallSnapshot(sync, id))

ResetCall(preserveBuffer) ==
    Returns("reset", 0, Done(Reset(sync, preserveBuffer), "done"))

Next == \/ \E e \in Arrivals : IngestCall(e)
        \/ \E id \in Ids : InstallCall(id)
        \/ \E preserveBuffer \in BOOLEAN : ResetCall(preserveBuffer)

Spec == Init /\ [][Next]_vars

-----------------------------------------------------------------------------
(* Correctness *)

\* The object and the record of the last call are well formed.
TypeOK ==
    /\ sync \in [state : SyncState, buffer : Seq(DepthUpdate), book : Book]
    /\ Len(sync.buffer) <= MaxBuffered
    /\ call \in [method : {"ingest", "install_snapshot", "reset"},
                 id : 0 .. MaxId,
                 result : ApplyResult \cup SnapshotResult \cup
                          {"raised", "done"}]

\* Whatever arrives, lost, repeated or out of order, and however snapshots
\* lag, the local book is the exchange's own book at the id it claims.
BookIsExact == Exact(sync.book)

\* A live object holds no unapplied update: one left in the buffer would be
\* neither applied nor ever looked at again.
LiveMeansDrained == sync.state = "live" => sync.buffer = <<>>

\* _buffer_event() and the loop of install_snapshot() keep the buffer in
\* arrival order, which both loops of install_snapshot() rely on.
BufferOrdered ==
    \A i, j \in DOMAIN sync.buffer :
        i <= j => sync.buffer[i].final <= sync.buffer[j].final

\* An update is given up only when the book or the snapshot already covers
\* it, when the caller resets, or with an exception: in particular the
\* updates behind a gap found while bridging survive for the next snapshot.
NoUpdateLost ==
    [][\A i \in DOMAIN sync.buffer :
          LET e == sync.buffer[i]
          IN \/ \E j \in DOMAIN sync'.buffer : sync'.buffer[j] = e
             \/ e.final <= sync'.book.last
             \/ e.final <= call'.id
             \/ call'.method = "reset"
             \/ call'.result = "raised"]_vars

\* What a reader of the book may rely on is what ExchangeMirror promises.
Mirror == INSTANCE ExchangeMirror WITH
    view <- [live |-> sync.state = "live",
             ids |-> IF sync.state = "live" THEN sync.book.ids ELSE {}]

MirrorSpec == Mirror!Spec
=============================================================================

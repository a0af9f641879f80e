----------------------------- MODULE ResultStore -----------------------------
(***************************************************************************)
(* The result store of one session (src/src/session/results.rs): partial   *)
(* texts by utterance id, finals waiting for an earlier index, finals that *)
(* have no index yet, and the transcript.  Every call happens under the    *)
(* session lock, so each is one action; reply is what the call returns.    *)
(*                                                                         *)
(* A partial of revision 0 is an absent one: the first the code hands out  *)
(* is 1.  Time stamps of segments are left out.  The session stops calling the    *)
(* store once its outcome is set (coordinator.rs).                         *)
(***************************************************************************)
EXTENDS Segments

CONSTANTS
    IdLen,                     \* the length of each id in bytes
    Texts, Deltas,             \* what a driver may send as a text, as a delta
    Indexes,                   \* the segment indices a driver may use
    MaxTextBytes, MaxIdBytes, MaxTotalIdBytes, MaxRegisteredIds,
    MaxOutstanding, MaxPartials, MaxPendingFinals, MaxUnindexedFinals,
    MaxRevision,               \* stands for u64::MAX
    Open, Unindexed            \* an id not completed; completed without an index

ASSUME LimitsAssumption ==
    /\ {MaxTextBytes, MaxIdBytes, MaxTotalIdBytes, MaxRegisteredIds, MaxOutstanding,
        MaxPartials, MaxPendingFinals, MaxUnindexedFinals, MaxRevision} \subseteq Nat
    /\ IdLen \in [Ids -> Nat]
ASSUME InputsAssumption ==
    /\ \A t \in Texts \cup Deltas : t \in Seq(Chars)
    /\ Indexes \subseteq Nat
    /\ IsFiniteSet(Ids)
ASSUME MarksAssumption == Open \notin Nat /\ Unindexed \notin Nat /\ Open # Unindexed

VARIABLES
    transcript,    \* the confirmed segments, in order
    pending,       \* indexed finals with an earlier index missing
    completed,     \* per id: Open, Unindexed or its index
    partials,      \* per id: its latest partial
    unindexed,     \* finals with no index yet, [id, text]
    registered,    \* every id ever seen
    outstanding,   \* ids seen and not completed
    nextSegment,   \* the next index the transcript takes
    retained,      \* bytes of text the store holds
    idBytes,       \* bytes of the registered ids
    outcome,       \* of the session: "none", "ok" or "error"
    reply          \* what the last call returned

texts == <<transcript, pending, completed, partials, unindexed, nextSegment, retained>>
ids == <<registered, outstanding, idBytes>>
storeVars == <<texts, ids, outcome, reply>>

NoPartial == [revision |-> 0, text |-> <<>>]

Return(error, segments, removed, changed) ==
    reply' = [error |-> error, segments |-> segments, removed |-> removed, changed |-> changed]
Fail(error) == Return(error, <<>>, FALSE, FALSE) /\ UNCHANGED <<texts, ids, outcome>>
NoOp == Return("none", <<>>, FALSE, FALSE) /\ UNCHANGED <<texts, ids, outcome>>

Init ==
    /\ transcript = <<>> /\ pending = {} /\ unindexed = {}
    /\ completed = [id \in Ids |-> Open]
    /\ partials = [id \in Ids |-> NoPartial]
    /\ registered = {} /\ outstanding = {}
    /\ nextSegment = 0 /\ retained = 0 /\ idBytes = 0
    /\ outcome = "none"
    /\ reply = [error |-> "none", segments |-> <<>>, removed |-> FALSE, changed |-> FALSE]

-----------------------------------------------------------------------------
\* The checks a call makes before it changes anything.  Here and below, an
\* operator whose comment starts with "Mutant:" is what a plausible bug would make
\* of the definition after it; nothing uses it.
HasPartial(id) == partials[id].revision > 0
\* Mutant: only one half of the check.
IndexPassed(i) == i < nextSegment
IndexReused(i) == i < nextSegment \/ \E s \in pending : s.index = i
PendingFull(i) == i > nextSegment /\ Cardinality(pending) >= MaxPendingFinals
UnindexedFull == Cardinality(unindexed) >= MaxUnindexedFinals
PartialsFull(id) ==
    ~HasPartial(id) /\ Cardinality({j \in Ids : HasPartial(j)}) >= MaxPartials
RetainedWith(id, bytes) == retained - Len(partials[id].text) + bytes
TextFits(id, bytes) == RetainedWith(id, bytes) <= MaxTextBytes
IdFits(id, isOutstanding) ==
    \/ id \in registered
    \/ /\ IdLen[id] <= MaxIdBytes
       /\ Cardinality(registered) < MaxRegisteredIds
       /\ idBytes + IdLen[id] <= MaxTotalIdBytes
       /\ isOutstanding => Cardinality(outstanding) < MaxOutstanding

\* insert_new_id, when validate_new_id found the id to be new
RegisterNewId(id, isOutstanding) ==
    /\ registered' = registered \cup {id}
    /\ idBytes' = idBytes + (IF id \in registered THEN 0 ELSE IdLen[id])
    /\ outstanding' =
         IF isOutstanding /\ id \notin registered THEN outstanding \cup {id} ELSE outstanding

\* Mutant: a completed id stays outstanding.
RegisterKeeping(id) ==
    /\ registered' = registered \cup {id}
    /\ idBytes' = idBytes + (IF id \in registered THEN 0 ELSE IdLen[id])
    /\ UNCHANGED outstanding

\* the ids of a call that completes an id: it is registered and no longer outstanding
RegisterCompleted(id) ==
    /\ registered' = registered \cup {id}
    /\ idBytes' = idBytes + (IF id \in registered THEN 0 ELSE IdLen[id])
    /\ outstanding' = outstanding \ {id}

-----------------------------------------------------------------------------
\* drain_contiguous: the pending segments up to the first missing index leave
\* pending, and those with text go to the transcript.
Drain(segments, bytes, removed) ==
    LET gap == FirstGap(segments, nextSegment)
        drained == Below(segments, gap)
        committed == InOrder(WithText(drained))
    IN  /\ pending' = segments \ drained
        /\ nextSegment' = gap
        /\ transcript' = transcript \o committed
        /\ retained' = bytes - TextBytes(drained \ WithText(drained))
        /\ Return("none", committed, removed, TRUE)
-----------------------------------------------------------------------------
\* register_id
RegisterId(id) ==
    /\ outcome = "none"
    /\ \/ ~IdFits(id, TRUE) /\ Fail("resource")
       \/ /\ IdFits(id, TRUE)
          /\ RegisterNewId(id, TRUE)
          /\ Return("none", <<>>, FALSE, FALSE)
          /\ UNCHANGED <<texts, outcome>>

\* Mutant: every text starts at revision 1.
FirstRevision(id) == 1
NextRevision(id) == partials[id].revision + 1

\* set_partial and append_delta once the new text is known
ReplacePartial(id, text) ==
    LET fits == /\ ~PartialsFull(id)
                /\ TextFits(id, Len(text))
                /\ IdFits(id, TRUE)
                /\ NextRevision(id) <= MaxRevision
    IN  \/ ~fits /\ Fail("resource")
        \/ /\ fits
           /\ RegisterNewId(id, TRUE)
           /\ retained' = RetainedWith(id, Len(text))
           /\ partials' = [partials EXCEPT ![id] =
                              [revision |-> NextRevision(id), text |-> text]]
           /\ Return("none", <<>>, FALSE, TRUE)
           /\ UNCHANGED <<transcript, pending, completed, unindexed, nextSegment, outcome>>

\* Mutant: a partial after the final of its id.
SetPartialAnyTime(id, text) ==
    /\ outcome = "none"
    /\ ReplacePartial(id, text)

SetPartial(id, text) ==
    /\ outcome = "none"
    /\ LET same == HasPartial(id) /\ partials[id].text = text
       IN  \/ (completed[id] # Open \/ same) /\ NoOp
           \/ completed[id] = Open /\ ~same /\ ReplacePartial(id, text)

\* An empty delta changes nothing, but the limit on partials is checked first.
AppendDelta(id, delta) ==
    /\ outcome = "none"
    /\ \/ completed[id] # Open /\ NoOp
       \/ completed[id] = Open /\ delta = <<>> /\ PartialsFull(id) /\ Fail("resource")
       \/ completed[id] = Open /\ delta = <<>> /\ ~PartialsFull(id) /\ NoOp
       \/ completed[id] = Open /\ delta # <<>> /\ ReplacePartial(id, partials[id].text \o delta)

-----------------------------------------------------------------------------
TakeUnindexed(u) == unindexed' = unindexed \ {u}

\* A final whose id completed without an index takes its place in the order.
\* Its text is always there (UnindexedHome below), so the error for a missing
\* one is left out.
PlaceUnindexed(i, id) ==
    \/ IndexReused(i) /\ Fail("protocol")
    \/ ~IndexReused(i) /\ PendingFull(i) /\ Fail("resource")
    \/ /\ ~IndexReused(i) /\ ~PendingFull(i)
       /\ \E u \in unindexed :
            /\ u.id = id
            /\ TakeUnindexed(u)
            /\ completed' = [completed EXCEPT ![id] = i]
            /\ partials' = [partials EXCEPT ![id] = NoPartial]
            /\ Drain(Put(pending, [id |-> id, index |-> i, text |-> u.text]),
                     retained, HasPartial(id))
       /\ UNCHANGED <<ids, outcome>>

\* index_unindexed
IndexUnindexed(i, id) ==
    /\ outcome = "none"
    /\ \/ completed[id] = i /\ NoOp
       \/ completed[id] \notin {i, Unindexed} /\ Fail("protocol")
       \/ completed[id] = Unindexed /\ PlaceUnindexed(i, id)

\* commit of an id that is not completed
CommitNew(i, id, text) ==
    LET fits == ~PendingFull(i) /\ TextFits(id, Len(text)) /\ IdFits(id, FALSE)
    IN  \/ IndexReused(i) /\ Fail("protocol")
        \/ ~IndexReused(i) /\ ~fits /\ Fail("resource")
        \/ /\ ~IndexReused(i) /\ fits
           /\ RegisterCompleted(id)
           /\ completed' = [completed EXCEPT ![id] = i]
           /\ partials' = [partials EXCEPT ![id] = NoPartial]
           /\ Drain(Put(pending, [id |-> id, index |-> i, text |-> text]),
                    RetainedWith(id, Len(text)), HasPartial(id))
           /\ UNCHANGED <<unindexed, outcome>>

\* commit: repeating a commit changes nothing
Commit(i, id, text) ==
    /\ outcome = "none"
    /\ \/ completed[id] = i /\ NoOp
       \/ completed[id] \notin {i, Open, Unindexed} /\ Fail("protocol")
       \/ completed[id] = Unindexed /\ PlaceUnindexed(i, id)
       \/ completed[id] = Open /\ CommitNew(i, id, text)

\* complete_unindexed
CompleteUnindexed(id, text) ==
    /\ outcome = "none"
    /\ LET fits == ~UnindexedFull /\ TextFits(id, Len(text)) /\ IdFits(id, FALSE)
       IN  \/ completed[id] # Open /\ NoOp
           \/ completed[id] = Open /\ ~fits /\ Fail("resource")
           \/ /\ completed[id] = Open /\ fits
              /\ RegisterCompleted(id)
              /\ completed' = [completed EXCEPT ![id] = Unindexed]
              /\ partials' = [partials EXCEPT ![id] = NoPartial]
              /\ unindexed' = unindexed \cup {[id |-> id, text |-> text]}
              /\ retained' = RetainedWith(id, Len(text))
              /\ Return("none", <<>>, HasPartial(id), TRUE)
              /\ UNCHANGED <<transcript, pending, nextSegment, outcome>>

-----------------------------------------------------------------------------
PartialBytes == MapThenSumSet(LAMBDA id : Len(partials[id].text), Ids)

\* settle: what is indexed stays in the transcript, gaps included; the rest goes.
Settle(result) ==
    /\ outcome' = result
    /\ transcript' = transcript \o InOrder(WithText(pending))
    /\ pending' = {} /\ unindexed' = {} /\ outstanding' = {}
    /\ partials' = [id \in Ids |-> NoPartial]
    /\ retained' = retained - TextBytes(pending \ WithText(pending))
                            - PartialBytes - TextBytes(unindexed)
    /\ Return("none", <<>>, FALSE, FALSE)
    /\ UNCHANGED <<completed, nextSegment, registered, idBytes>>

\* Mutant: finals without an index are forgotten.
CompleteIgnoringUnindexed ==
    outcome = "none" /\ Settle(IF pending = {} THEN "ok" ELSE "error")

\* The worker returned without an error: completion_error has the last word.
Complete ==
    /\ outcome = "none"
    /\ Settle(IF unindexed = {} /\ pending = {} THEN "ok" ELSE "error")

\* A failure, a timeout or a cancellation.
FailSession == outcome = "none" /\ Settle("error")

Next ==
    \/ \E id \in Ids : RegisterId(id)
    \/ \E id \in Ids, t \in Texts : SetPartial(id, t) \/ CompleteUnindexed(id, t)
    \/ \E id \in Ids, d \in Deltas : AppendDelta(id, d)
    \/ \E id \in Ids, i \in Indexes : IndexUnindexed(i, id)
    \/ \E id \in Ids, i \in Indexes, t \in Texts : Commit(i, id, t)
    \/ Complete
    \/ FailSession

Spec == Init /\ [][Next]_storeVars

-----------------------------------------------------------------------------
Reply == [error : {"none", "protocol", "resource"}, segments : Seq(Segment),
          removed : BOOLEAN, changed : BOOLEAN]

\* Every variable has its type.
TypeOK ==
    /\ transcript \in Seq(Segment)
    /\ pending \subseteq Segment
    /\ completed \in [Ids -> Nat \cup {Open, Unindexed}]
    /\ partials \in [Ids -> [revision : 0..MaxRevision, text : Seq(Chars)]]
    /\ unindexed \subseteq [id : Ids, text : Seq(Chars)]
    /\ registered \subseteq Ids /\ outstanding \subseteq Ids
    /\ {nextSegment, retained, idBytes} \subseteq Nat
    /\ outcome \in {"none", "ok", "error"}
    /\ reply \in Reply

TranscriptSet == {transcript[k] : k \in DOMAIN transcript}

\* retained_text_bytes and total_id_bytes are exactly what the texts and the
\* ids in the store weigh, and stay within their limits: no saturating
\* subtraction ever saturates and no dropped, replaced or moved text is left
\* counted.
BytesAccounted ==
    /\ retained = TextBytes(TranscriptSet) + TextBytes(pending)
                    + TextBytes(unindexed) + PartialBytes
    /\ retained <= MaxTextBytes
    /\ idBytes = MapThenSumSet(LAMBDA id : IdLen[id], registered)
    /\ idBytes <= MaxTotalIdBytes

\* Until the session settles, a known id is outstanding or completed and never
\* both, so a completed id gives its place back; only an outstanding id has a
\* partial; the outstanding ids stay within their limit.
IdsAccounted ==
    /\ outcome = "none" =>
         /\ registered = outstanding \cup {id \in Ids : completed[id] # Open}
         /\ \A id \in outstanding : completed[id] = Open
    /\ \A id \in Ids : HasPartial(id) => id \in outstanding
    /\ Cardinality(outstanding) <= MaxOutstanding

\* What the store counts by hand agrees with what it holds, bytes and ids, and
\* no count falls below zero.
BudgetsAccounted == TypeOK /\ BytesAccounted /\ IdsAccounted

\* An id has an unindexed final exactly when it completed without an index.
UnindexedHome ==
    outcome = "none" =>
        \A id \in Ids : completed[id] = Unindexed <=> (\E u \in unindexed : u.id = id)

\* A final has one place: a pending segment waits behind a gap, a confirmed one
\* is before it, both under the index their id completed with, and no id or
\* index is in two places.
FinalsHome ==
    LET held == TranscriptSet \cup pending
    IN  /\ \A s \in held : completed[s.id] = s.index
        /\ \A s, r \in held : (s.id = r.id \/ s.index = r.index) => s = r
        /\ \A s \in pending : s.index > nextSegment
        /\ outcome = "none" => \A s \in TranscriptSet : s.index < nextSegment
        /\ outcome = "none" =>
             \A id \in Ids : (completed[id] \in Nat /\ ~\E s \in pending : s.id = id)
                             => completed[id] < nextSegment

\* The transcript is in the order of the indices, through gaps and the final
\* settling too, and no blank final is in it.
TranscriptOrdered ==
    /\ \A j, k \in DOMAIN transcript : j < k => transcript[j].index < transcript[k].index
    /\ \A s \in TranscriptSet : ~Blank(s.text)

\* Every final the store has taken is where it belongs, once and in order.
FinalsInPlace == UnindexedHome /\ FinalsHome /\ TranscriptOrdered
=============================================================================

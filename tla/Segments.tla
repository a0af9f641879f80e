------------------------------- MODULE Segments -------------------------------
(***************************************************************************)
(* Segments of a transcript, [id, index, text], and the operations on sets *)
(* of them that the result store (src/src/session/results.rs) is built     *)
(* from.  A text is a sequence of characters of one byte each.             *)
(***************************************************************************)
EXTENDS Integers, Sequences, FiniteSets, FiniteSetsExt

CONSTANTS Ids, Chars,
          WhiteSpace      \* the characters that str::trim() removes

Segment == [id : Ids, index : Nat, text : Seq(Chars)]

\* text.trim().is_empty()
Blank(text) == \A k \in DOMAIN text : text[k] \in WhiteSpace
WithText(segments) == {s \in segments : ~Blank(s.text)}
Below(segments, n) == {s \in segments : s.index < n}
TextBytes(segments) == MapThenSumSet(LAMBDA s : Len(s.text), segments)

\* BTreeMap::insert: a segment replaces one of the same index.
Put(segments, s) == {r \in segments : r.index # s.index} \cup {s}

\* The first index, counting from `from`, that no segment has.
FirstGap(segments, from) ==
    CHOOSE n \in from..(from + Cardinality(segments)) :
        /\ \A k \in from..(n - 1) : \E s \in segments : s.index = k
        /\ ~\E s \in segments : s.index = n

\* The segments, no two of the same index, in the order of their indices.
InOrder(segments) ==
    CHOOSE q \in [1..Cardinality(segments) -> segments] :
        \A j, k \in 1..Cardinality(segments) : j < k => q[j].index < q[k].index

\* Vec::retain: q without the elements of dropped.
Retain(q, dropped) ==
    LET kept[k \in 0..Len(q)] ==
            IF k = 0 THEN <<>>
            ELSE IF q[k] \in dropped THEN kept[k - 1] ELSE Append(kept[k - 1], q[k])
    IN  kept[Len(q)]
===============================================================================

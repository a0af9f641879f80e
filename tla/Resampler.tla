------------------------------ MODULE Resampler ------------------------------
(***************************************************************************)
(* The incremental resampler (src/src/audio/resample.rs): input in chunks  *)
(* of any size is filtered in blocks, the filter's delay is cut off, and   *)
(* finish flushes exactly the frames that are still due.                   *)
(*                                                                         *)
(* A frame of output is its number among those the filter makes.  The      *)
(* filter is external: after each block it has made the frames up to a lag *)
(* of up to half its window, the frame it stands on and a step of its      *)
(* input.  A chunk with a sample that is not finite is refused before      *)
(* anything changes, and so is input after finish: neither is a step.      *)
(***************************************************************************)
EXTENDS Integers, SequencesExt

CONSTANTS
    Rates,              \* pairs of rates, in and out: any from 8000 to 192000 in the code
    Block,              \* 256 in the code
    Window,             \* sinc_len: 256 in the code
    MaxFrames           \* bounds the input

VARIABLES
    src, dst,           \* the rates
    lag,                \* of the filter
    inputFrames, pendingFrames, blocks,   \* frames in, those that wait; blocks filtered
    skip, output,       \* frames of delay still to cut off; what came out
    flush               \* "open", "flushed" or "error"

resamplerVars == <<src, dst, lag, inputFrames, pendingFrames, blocks, skip, output, flush>>

CeilDiv(a, b) == (a + b - 1) \div b
Delay(from, to) == (Window * to) \div (2 * from)
MaxLag(from, to) == Window \div 2 + 1 + CeilDiv(from, to)

\* The delay is at least a frame, and the lag at most a block.
ASSUME ResamplerAssumption ==
    /\ {Block, Window, MaxFrames} \subseteq Nat \ {0}
    /\ Rates \subseteq (Nat \ {0}) \X (Nat \ {0})
    /\ \A r \in Rates :
          r[1] # r[2] => Delay(r[1], r[2]) > 0 /\ MaxLag(r[1], r[2]) <= Block

ResamplerInit ==
    /\ \E rates \in Rates : src = rates[1] /\ dst = rates[2]
    /\ lag \in 0..MaxLag(src, dst)
    /\ inputFrames = 0 /\ pendingFrames = 0 /\ blocks = 0
    /\ skip = (IF src = dst THEN 0 ELSE Delay(src, dst))
    /\ output = <<>> /\ flush = "open"

\* The filter (external): the frames it has made of so many blocks.
Made(count) ==
    LET reach == count * Block - lag
    IN  IF reach <= 0 THEN 0 ELSE CeilDiv(reach * dst, src)

\* wanted: round(N * dst / src), of the frames that came in.
Wanted(frames) == (frames * dst + src \div 2) \div src

\* process: the frames of one block, without the delay and beyond no limit.
\* Mutant: what is beyond the limit is not held back.
AllLeft(limit, have) == 2 * Block * dst
RoomLeft(limit, have) == IF limit > have THEN limit - have ELSE 0
Least(a, b) == IF a < b THEN a ELSE b
Processed(state, limit) ==
    LET made == Made(state.blocks)
        written == Made(state.blocks + 1) - made
        skipped == Least(state.skip, written)
        count == Least(written - skipped, RoomLeft(limit, Len(state.output)))
    IN  [blocks |-> state.blocks + 1, skip |-> state.skip - skipped,
         output |-> state.output \o [k \in 1..count |-> made + skipped + k]]
Filtered(n, limit) ==
    FoldLeft(LAMBDA state, k : Processed(state, limit),
             [blocks |-> blocks, skip |-> skip, output |-> output], [k \in 1..n |-> k])
Becomes(state) == blocks' = state.blocks /\ skip' = state.skip /\ output' = state.output

\* try_push: as many blocks as are complete now.
TryPush(n) ==
    /\ flush = "open" /\ inputFrames + n <= MaxFrames
    /\ inputFrames' = inputFrames + n
    /\ \/ /\ src = dst
          /\ output' = output \o [k \in 1..n |-> inputFrames + k]
          /\ UNCHANGED <<pendingFrames, blocks, skip>>
       \/ /\ src # dst
          /\ pendingFrames' = (pendingFrames + n) % Block
          /\ Becomes(Filtered((pendingFrames + n) \div Block, Wanted(inputFrames')))
    /\ UNCHANGED <<src, dst, lag, flush>>

\* finish: the rest, padded, then zeros until all that is due has come out.
\* Mutant: the rounding and the padding get no block of their own.
DelayBlocks == CeilDiv(CeilDiv(Delay(src, dst) * src, dst), Block)
FlushBlocks == CeilDiv(CeilDiv(Delay(src, dst) * src, dst), Block) + 2
FinishResampling ==
    LET due == Wanted(inputFrames)
        flushed(n) == Filtered(1 + n, due)
        enough == {n \in 0..FlushBlocks - 1 : Len(flushed(n).output) = due}
    IN  /\ flush = "open"
        /\ \/ (src = dst \/ inputFrames = 0) /\ flush' = "flushed" /\ UNCHANGED <<blocks, skip, output>>
           \/ /\ src # dst /\ inputFrames > 0 /\ enough # {}
              /\ flush' = "flushed"
              /\ Becomes(flushed(CHOOSE n \in enough : \A m \in enough : n <= m))
           \/ /\ src # dst /\ inputFrames > 0 /\ enough = {}
              /\ flush' = "error" /\ Becomes(flushed(FlushBlocks))
        /\ pendingFrames' = 0
        /\ UNCHANGED <<src, dst, lag, inputFrames>>

ResamplerNext == FinishResampling \/ \E n \in 0..MaxFrames : TryPush(n)
ResamplerSpec == ResamplerInit /\ [][ResamplerNext]_resamplerVars

-----------------------------------------------------------------------------
\* However the input is split, the frames that come out are those after the delay,
\* with none lost or repeated, never more than are due, and with finish all that
\* are due: the tail is long enough for every lag.
ResampledExactly ==
    LET first == IF src = dst THEN 0 ELSE Delay(src, dst)
    IN  /\ output = [k \in 1..Len(output) |-> first + k]
        /\ Len(output) <= Wanted(inputFrames)
        /\ flush # "error"
        /\ flush = "flushed" => Len(output) = Wanted(inputFrames)
===============================================================================

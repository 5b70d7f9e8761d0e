---------------------------- MODULE FrameParser ----------------------------
(***************************************************************************)
(* The incremental parser of the bridge's replies, src/src/proto/frame.rs. *)
(* The bytes are those of the code at a smaller scale: values below        *)
(* Modulus, a header of two bytes, a length, as many payload bytes and the *)
(* sum of all before it; the address and the command are left out.  The    *)
(* reassembly buffer is always a stretch of what was pushed, so it is the  *)
(* positions from head + 1 to pushed.                                      *)
(***************************************************************************)
EXTENDS Integers, FiniteSets, SequencesExt, FiniteSetsExt

CONSTANTS
    Modulus,      \* 256 in the code
    ByteValues,   \* the values the stream is made of
    StreamLength  \* bound: bytes the bridge sends

ASSUME StreamAssumption ==
    /\ Modulus \in Nat \ {0, 1} /\ ByteValues \subseteq 0..(Modulus - 1)
    /\ StreamLength \in Nat

Head1 == Modulus - 1
Head2 == Modulus - 2
Overhead == 4     \* header, length and sum

VARIABLES
    stream,   \* what the bridge sends, noise and corruption included
    parser    \* Parser, and what it has reported of this stretch of the stream

parserVars == <<stream, parser>>

\* frames and rejected: where each Frame and BadChecksum began.  reported: the
\* positions inside them.  garbage: the sum of the Garbage events.
AfterBoundary(at) ==
    [head |-> at, pushed |-> at, suppressed |-> 0, start |-> at,
     frames |-> << >>, rejected |-> << >>, reported |-> {}, garbage |-> 0]

ParserInit ==
    /\ stream \in [1..StreamLength -> ByteValues]
    /\ parser = AfterBoundary(0)

-----------------------------------------------------------------------------
(* scan                                                                    *)

HeaderAt(i, end) == i + 1 <= end /\ stream[i] = Head1 /\ stream[i + 1] = Head2

\* The bytes a candidate at i claims, once its length has arrived.
Total(i) == Overhead + stream[i + 2]
Complete(i, end) == i + 2 <= end /\ i + Total(i) - 1 <= end

Checksum(from, to) == FoldFunctionOnSet(+, 0, stream, from..to) % Modulus
Verifies(i) == Checksum(i, i + Total(i) - 2) = stream[i + Total(i) - 1]

\* discard: bytes of a rejected candidate are not counted again.
Discard(p, n) ==
    LET already == Min({n, p.suppressed})
    IN [p EXCEPT !.head = @ + n, !.suppressed = @ - already,
                 !.garbage = @ + n - already]

Consume(p, n) ==
    [p EXCEPT !.head = @ + n, !.suppressed = Max({@ - n, 0})]

Headers(p) == {i \in (p.head + 1)..p.pushed : HeaderAt(i, p.pushed)}

\* align: up to the first header, or up to a last byte that may begin one.
Align(p) ==
    IF Headers(p) # {} THEN Discard(p, Min(Headers(p)) - 1 - p.head)
    ELSE LET keep == IF p.pushed > p.head /\ stream[p.pushed] = Head1 THEN 1 ELSE 0
         IN Discard(p, p.pushed - p.head - keep)

Accept(p, i) ==
    Consume([p EXCEPT !.frames = Append(@, i),
                      !.reported = @ \cup i..(i + Total(i) - 1)], Total(i))

\* Mutation of Reject: scanning resumes after the whole candidate.
RejectWhole(p, i) ==
    Consume([p EXCEPT !.rejected = Append(@, i),
                      !.reported = @ \cup i..(i + Total(i) - 1)], Total(i))

\* Scanning resumes one byte into the candidate.
Reject(p, i) ==
    [Consume([p EXCEPT !.rejected = Append(@, i),
                       !.reported = @ \cup i..(i + Total(i) - 1)], 1)
        EXCEPT !.suppressed = Total(i) - 1]

\* One turn of the loop; the last one only aligns.
Turn(p) ==
    LET aligned == Align(p)
        i == aligned.head + 1
    IN IF Headers(p) = {} \/ ~Complete(i, p.pushed) THEN aligned
       ELSE IF Verifies(i) THEN Accept(aligned, i)
       ELSE Reject(aligned, i)

\* A turn takes a byte or is the last, and one more would change nothing.
Scan(p) ==
    LET turns[n \in 0..(p.pushed - p.head)] == IF n = 0 THEN p ELSE Turn(turns[n - 1])
    IN turns[p.pushed - p.head]

-----------------------------------------------------------------------------
\* push: a read of any size.
PushBytes ==
    /\ \E upTo \in (parser.pushed + 1)..StreamLength :
          parser' = Scan([parser EXCEPT !.pushed = upTo])
    /\ UNCHANGED stream

\* expire_partial: the buffer is reported as Truncated.  reset drops it.
ExpirePartial ==
    /\ parser.head < parser.pushed
    /\ parser' = AfterBoundary(parser.pushed)
    /\ UNCHANGED stream

ParserNext == PushBytes \/ ExpirePartial

ParserSpec == ParserInit /\ [][ParserNext]_parserVars

-----------------------------------------------------------------------------
(* Properties                                                              *)

\* What a reader of the stream finds byte by byte: a frame where one verifies,
\* nothing past a header whose frame is still arriving.
FramesFrom(from, end) ==
    LET found[i \in 1..(end + 1)] ==
            IF i > end \/ (HeaderAt(i, end) /\ ~Complete(i, end)) THEN << >>
            ELSE IF HeaderAt(i, end) /\ Verifies(i) THEN << i >> \o found[i + Total(i)]
            ELSE found[i + 1]
    IN found[from]

Unreported == ((parser.start + 1)..parser.head) \ parser.reported

\* However the stream is cut into reads, the parser finds the frames a reader
\* of the whole stretch finds: a frame behind or inside a corrupt candidate is
\* not lost, and none is made of bytes another has used.  It keeps back less
\* than one frame, and every byte given up is inside a reported frame or
\* candidate, or was counted as garbage.
FramesRecovered ==
    /\ parser.frames = FramesFrom(parser.start + 1, parser.pushed)
    /\ parser.pushed - parser.head < Overhead + Modulus
    /\ Cardinality(Unreported) <= parser.garbage

\* "Bytes already reported inside an Event::BadChecksum are not counted again"
\* (Event::Garbage).
ReportedOnce == parser.garbage <= Cardinality(Unreported)
=============================================================================

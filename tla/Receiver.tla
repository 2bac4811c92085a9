------------------------------ MODULE Receiver ------------------------------
(***************************************************************************)
(* LinkLayerReceiver: operators on the receiver that finds the frames of   *)
(* a line in its bytes.  A receiver is a record of its state (LRS_...) and *)
(* of what is unread in its buffer.  Router keeps one.                     *)
(*                                                                         *)
(* A frame is its header, of 8 bytes, and its user data in blocks of 16    *)
(* bytes, the last one of what is left.  Each block has a CRC of its own.  *)
(* The unit of transfer is half a block with its CRC: unit <<f, i>> is the *)
(* i-th of frame f, of which 1 and 2 are the header, and units of one      *)
(* frame and position have the same bytes.  mHeader and mFrameSize are     *)
(* those of the frame whose header begins the buffer.                      *)
(***************************************************************************)
EXTENDS Naturals, Sequences

CONSTANTS Frames,      \* what a peer may send
          UserData,    \* how many bytes of user data each has
          Refused,     \* the frames whose header ValidateHeader refuses despite its CRC
          Lookalikes   \* the units of user data that begin with 05 64

\* A block of user data that is itself a header is left out.
ASSUME LookalikeAssumption == \A u \in Lookalikes : u[2] > 2 /\ u[2] % 2 = 0

HeaderBytes == 8
BlockBytes == 16

Damaged == <<"damaged", 0>>

NewReceiver == [state |-> "Sync", buffer |-> <<>>]

-----------------------------------------------------------------------------
(* LinkFrame *)

\* CalcFrameSize, in units.
Blocks(f) == (UserData[f] + BlockBytes - 1) \div BlockBytes
Size(f) == 2 * (1 + Blocks(f))
Units(f) == [i \in 1..Size(f) |-> <<f, i>>]

\* The bytes that the CRC of the block of a unit covers; the header is block 0.
BlockLength(u) ==
    LET f == u[1]
        k == (u[2] - 1) \div 2
    IN  IF k = 0 THEN HeaderBytes
        ELSE IF k < Blocks(f) THEN BlockBytes
        ELSE UserData[f] - BlockBytes * (k - 1)

\* IsCorrectCRC on a block of the given length: two units that were sent as a block of
\* that length, wherever in whichever frame.
CorrectCRC(u, v, length) ==
    /\ u # Damaged /\ u[2] % 2 = 1 /\ v = <<u[1], u[2] + 1>>
    /\ BlockLength(u) = length

-----------------------------------------------------------------------------
(* The states of the receiver *)

StartsFrame(u) == u # Damaged /\ (u[2] = 1 \/ u \in Lookalikes)

\* The function code is known and fits the direction, its bits and the length.
ValidFunctionCode(f) == f \notin Refused

\* ReadHeader, with ValidateHeader.
ValidHeader(buffer) ==
    /\ CorrectCRC(buffer[1], buffer[2], HeaderBytes)
    /\ ValidFunctionCode(buffer[1][1])

\* LinkFrame::ValidateBodyCRC: the blocks are as long as the header of f says.
ValidBody(f, buffer) ==
    \A k \in 1..Blocks(f) :
        CorrectCRC(buffer[2 * k + 1], buffer[2 * k + 2], BlockLength(<<f, 2 * k + 1>>))

\* Sync drops what is before the first sync pattern, or everything.
Sync(r) ==
    LET starts == {i \in DOMAIN r.buffer : StartsFrame(r.buffer[i])}
        rest(i) == SubSeq(r.buffer, i, Len(r.buffer))
    IN  IF starts = {} THEN [r EXCEPT !.buffer = <<>>]
        ELSE [r EXCEPT !.buffer = rest(CHOOSE i \in starts : \A j \in starts : i <= j),
                       !.state = "Header"]

\* Mutant of FailFrame: what was refused is skipped as a whole.
FailFrameWhole(r) ==
    LET n == IF r.state = "Body" THEN Size(r.buffer[1][1]) ELSE 2 IN
    [r EXCEPT !.state = "Sync", !.buffer = SubSeq(r.buffer, n + 1, Len(r.buffer))]

\* FailFrame with its change of state.
FailFrame(r) == [r EXCEPT !.state = "Sync", !.buffer = Tail(r.buffer)]

\* PushFrame, with what the sink is given: the frame of the header, and whether its
\* user data is that frame's too.
PushFrame(r, f) ==
    [state |-> "Sync", buffer |-> SubSeq(r.buffer, Size(f) + 1, Len(r.buffer)),
     pushed |-> Append(r.pushed, [frame |-> f, genuine |-> SubSeq(r.buffer, 1, Size(f)) = Units(f)])]

\* One call of Parse, and whether it returns true.
CanParse(r) ==
    Len(r.buffer) >= CASE r.state = "Sync" -> 1
                       [] r.state = "Header" -> 2
                       [] r.state = "Body" -> Size(r.buffer[1][1])

Parse(r) ==
    LET f == r.buffer[1][1] IN
    IF r.state = "Sync" THEN Sync(r)
    ELSE IF r.state = "Header" /\ ValidHeader(r.buffer) THEN [r EXCEPT !.state = "Body"]
    ELSE IF r.state = "Body" /\ ValidBody(f, r.buffer) THEN PushFrame(r, f)
    ELSE FailFrame(r)

\* OnRead: Parse runs as long as it returns true.  At most three calls consume a unit.
OnRead(receiver, units) ==
    LET r == [state |-> receiver.state, buffer |-> receiver.buffer \o units, pushed |-> <<>>]
        last == 3 * Len(r.buffer)
        parsed[n \in 0..last] ==
            IF n = 0 THEN r
            ELSE LET p == parsed[n - 1] IN IF CanParse(p) THEN Parse(p) ELSE p
    IN  parsed[last]

=============================================================================

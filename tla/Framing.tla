------------------------------- MODULE Framing -------------------------------
(***************************************************************************)
(* The wire format of src/protocol.rs: a frame is its id (u32) and the     *)
(* length of its body (u16), both big endian, and then the body.  A result *)
(* that may be an error is a set of at most one value.  The limit on the   *)
(* body is the client's own, for what it sends.                            *)
(***************************************************************************)
EXTENDS Naturals, Sequences

CONSTANTS
    Base,          \* the values of a byte: 256
    MAX_BODY_LEN   \* the longest body the client sends: 1024

\* Every length that may be sent fits the two bytes it is given.
ASSUME FramingAssumption ==
    /\ Base \in Nat /\ MAX_BODY_LEN \in Nat
    /\ MAX_BODY_LEN < Base * Base

PREFIX_LEN == 6

Byte == 0 .. Base - 1

\* The value of a one in a byte, from the lowest on.
Place == <<1, Base, Base * Base, Base * Base * Base>>

\* Mutant: what does not fit a byte is left in it.
to_be_bytes_uncut(n, width) == [i \in 1 .. width |-> n \div Place[width - i + 1]]

\* n, which may not fit, as width bytes, the highest first.
to_be_bytes(n, width) == [i \in 1 .. width |-> (n \div Place[width - i + 1]) % Base]

id_of(bytes) ==
    bytes[1] * Place[4] + bytes[2] * Place[3] + bytes[3] * Place[2] + bytes[4]

len_of(bytes) == bytes[5] * Place[2] + bytes[6]

\* Any id a u32 holds, with any body.
Frame == [id : 0 .. Base * Place[4] - 1, body : Seq(Byte)]

\* The bytes of a frame.
frame_bytes(frame) == to_be_bytes(frame.id, 4) \o to_be_bytes(Len(frame.body), 2) \o frame.body

\* Mutant: a body of any length is let through.
encode_frame_unchecked(frame) == {frame_bytes(frame)}

encode_frame(frame) == IF Len(frame.body) > MAX_BODY_LEN THEN {} ELSE {frame_bytes(frame)}

\* What follows the frame is left alone.
decode_frame(bytes) ==
    IF Len(bytes) < PREFIX_LEN \/ Len(bytes) < PREFIX_LEN + len_of(bytes)
    THEN {}
    ELSE {[id |-> id_of(bytes),
           body |-> SubSeq(bytes, PREFIX_LEN + 1, PREFIX_LEN + len_of(bytes))]}
=============================================================================

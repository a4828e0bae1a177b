----------------------------- MODULE FrameStream -----------------------------
(***************************************************************************)
(* Connection::recv on the byte stream of the server (src/connection.rs),  *)
(* called as the network loop calls it: inside a select! that a command    *)
(* ends (src/net_loop.rs) and inside a timeout (src/client.rs).  Both drop *)
(* the call where it stands.  The bytes it had read sit in its own buffer  *)
(* and go with it; the next call goes on from the bytes that follow.       *)
(***************************************************************************)
EXTENDS Framing

CONSTANTS
    Frames,      \* the frames the server sends
    Requests,    \* the frames the client is given to send, too long or not
    MaxFrames    \* bound: frames sent

\* The server sends what the length field can tell.
ASSUME FramesAssumption ==
    /\ Frames \subseteq Frame /\ \A f \in Frames : Len(f.body) < Base * Base
    /\ Requests \subseteq Frame
    /\ MaxFrames \in Nat

VARIABLES
    stream,   \* bytes sent and not read
    buf,      \* what the present recv has read
    sent,     \* the frames sent, in order
    got,      \* the frames recv returned, in order
    cut       \* some recv was dropped with bytes in its buffer

vars == <<stream, buf, sent, got, cut>>

Init == stream = <<>> /\ buf = <<>> /\ sent = <<>> /\ got = <<>> /\ cut = FALSE

\* The server, whose bodies may be longer than those the client would send.
Send(f) ==
    /\ Len(sent) < MaxFrames
    /\ stream' = stream \o frame_bytes(f)
    /\ sent' = Append(sent, f)
    /\ UNCHANGED <<buf, got, cut>>

\* How much recv reads in all: the header first, which tells the rest.
Wanted == IF Len(buf) < PREFIX_LEN THEN PREFIX_LEN ELSE PREFIX_LEN + len_of(buf)

\* Bytes arrive one after the other; recv takes them as they come.
ReadByte ==
    /\ stream # <<>>
    /\ Len(buf) < Wanted
    /\ buf' = Append(buf, Head(stream))
    /\ stream' = Tail(stream)
    /\ UNCHANGED <<sent, got, cut>>

\* Mutant: the body is not waited for.
ReturnHeader ==
    /\ Len(buf) >= PREFIX_LEN
    /\ got' = Append(got, [id |-> id_of(buf), body |-> SubSeq(buf, PREFIX_LEN + 1, Len(buf))])
    /\ buf' = <<>>
    /\ UNCHANGED <<stream, sent, cut>>

ReturnFrame ==
    /\ Len(buf) = Wanted
    /\ \E f \in decode_frame(buf) : got' = Append(got, f)
    /\ buf' = <<>>
    /\ UNCHANGED <<stream, sent, cut>>

\* A command is taken by the select, or the time limit of a request ends.
\* Dropped before it has read anything, the call leaves no trace.
DropRecv ==
    /\ buf # <<>>
    /\ buf' = <<>>
    /\ cut' = TRUE
    /\ UNCHANGED <<stream, sent, got>>

Recv == ReadByte \/ ReturnFrame

Next == (\E f \in Frames : Send(f)) \/ Recv \/ DropRecv

Spec == Init /\ [][Next]_vars

-----------------------------------------------------------------------------
(* The type invariant. *)
TypeOK ==
    /\ stream \in Seq(Byte) /\ buf \in Seq(Byte)
    /\ sent \in Seq(Frames)
    /\ got \in Seq([id : Nat, body : Seq(Byte)])
    /\ cut \in BOOLEAN

InStep == \E n \in 0 .. Len(sent) : got = SubSeq(sent, 1, n)

(* Until a call is dropped halfway the frames received are those sent, in  *)
(* order, however their bytes arrive, and none is missing once all bytes   *)
(* have been read.                                                         *)
InStepUntilCut ==
    ~ cut => InStep /\ (stream = <<>> /\ buf = <<>> => got = sent)

(* The frames received are those sent, in order.                           *)
AlwaysInStep == InStep

(* What the client's send lets through is read back as what it was,        *)
(* whatever follows on the stream, and it refuses only what is too long:   *)
(* no length is cut to the two bytes it is given, so that the rest of a    *)
(* body is taken for the next frame.                                       *)
RequestsReadBack ==
    \A f \in Requests :
        /\ encode_frame(f) = {} => Len(f.body) > MAX_BODY_LEN
        /\ \A bytes \in encode_frame(f) : decode_frame(bytes \o stream) = {f}
=============================================================================

---------------------------- MODULE MCFrameStream ----------------------------
(***************************************************************************)
(* FrameStream for TLC, with bytes of three values.  The server sends      *)
(* frames with no body, one of a byte, and one of a byte more than the     *)
(* client would send, whose length takes both bytes of the header's field. *)
(* The client is given bodies at the limit, just above it, and so long     *)
(* that the field cannot tell their length.                                *)
(***************************************************************************)
EXTENDS FrameStream

BodyOf(n) == [i \in 1 .. n |-> 1]

MCFrames ==
    {[id |-> 1, body |-> <<>>], [id |-> 80, body |-> <<2>>],
     [id |-> 5, body |-> BodyOf(MAX_BODY_LEN + 1)]}

MCRequests ==
    {[id |-> 7, body |-> BodyOf(n)] :
        n \in {0, MAX_BODY_LEN, MAX_BODY_LEN + 1, Base * Base, Base * Base + 1}}
=============================================================================

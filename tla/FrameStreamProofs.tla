-------------------------- MODULE FrameStreamProofs --------------------------
(***************************************************************************)
(* The wire format and Connection::recv, for any base, any frames and any  *)
(* number of them.                                                         *)
(*                                                                         *)
(* DecodeEncode: what encode_frame writes is read back by decode_frame, so *)
(* that the client's requests are (FrameStreamRequestsReadBack).  The      *)
(* arithmetic below shows it digit by digit.  InStepUntilCut is not        *)
(* inductive: it does not know whose bytes recv holds.  IInv adds that, as *)
(* long as no call was dropped halfway, the bytes not yet returned, those  *)
(* in the buffer and those in the stream, are the frames sent after the    *)
(* ones received, one behind the other (Follows), and that recv never      *)
(* holds more than it wants.                                               *)
(***************************************************************************)
EXTENDS FrameStream, SequenceTheorems, TLAPS

(* A number is its quotient and its remainder.                             *)
LEMMA Digits ==
    ASSUME NEW b \in Nat, b > 0, NEW n \in Nat
    PROVE  n \div b \in Nat /\ (n % b) \in 0 .. b - 1 /\ n = b * (n \div b) + (n % b)
OBVIOUS

(* They are the only two that give it.                                     *)
LEMMA DivUnique ==
    ASSUME NEW b \in Nat, b > 0, NEW q \in Nat, NEW r \in 0 .. b - 1
    PROVE  (b * q + r) \div b = q
OBVIOUS

(* Dividing by a product is dividing twice.                                *)
LEMMA DivOfDiv ==
    ASSUME NEW b \in Nat, b > 0, NEW c \in Nat, c > 0, NEW n \in Nat
    PROVE  n \div (b * c) = (n \div b) \div c
<1> DEFINE q == n \div b
           p == q \div c
           s == q % c
           r == n % b
<1>1. n = b * q + r /\ q \in Nat /\ r \in 0 .. b - 1
  BY Digits
<1>2. q = c * p + s /\ p \in Nat /\ s \in 0 .. c - 1
  BY <1>1, Digits
<1> HIDE DEF q, p, s, r
<1>3. n = (b * c) * p + (b * s + r)
  <2>1. b * (c * p + s) = (b * c) * p + b * s
    BY <1>2
  <2>. QED
    BY <1>1, <1>2, <2>1
<1>4. b * s + r \in 0 .. (b * c) - 1
  <2>1. b * s <= b * (c - 1)
    BY <1>2
  <2>2. b * (c - 1) = b * c - b
    OBVIOUS
  <2>3. b * s \in Nat
    BY <1>2
  <2>. QED
    BY <1>1, <2>1, <2>2, <2>3
<1>5. b * c \in Nat /\ b * c > 0
  OBVIOUS
<1>6. n \div (b * c) = p
  BY <1>2, <1>3, <1>4, <1>5, DivUnique
<1>. QED
  BY <1>6 DEF p, q

(* A function on the first numbers is a sequence.                          *)
LEMMA FunctionIsSeq ==
    ASSUME NEW S, NEW n \in Nat, NEW d \in [1 .. n -> S]
    PROVE  d \in Seq(S) /\ Len(d) = n
<1>1. d \in Seq(S)
  <2>1. [1 .. n -> S] \in {[1 .. m -> S] : m \in Nat}
    OBVIOUS
  <2>2. d \in UNION {[1 .. m -> S] : m \in Nat}
    BY <2>1, Zenon
  <2>. QED
    BY <2>2, SeqDef, Zenon
<1>2. 1 .. n = 1 .. Len(d) /\ Len(d) \in Nat
  BY <1>1, LenProperties
<1>. QED
  BY <1>1, <1>2

(* The base and the values of the places are numbers, and not 0.           *)
LEMMA BasePositive == Base \in Nat /\ Base > 0 /\ Place \in [1 .. 4 -> Nat]
    /\ Place[1] = 1 /\ Place[2] = Base /\ Place[3] = Base * Base /\ Place[4] = (Base * Base) * Base
<1>1. Base \in Nat /\ Base > 0
  BY FramingAssumption
<1>2. Base * Base \in Nat /\ (Base * Base) * Base \in Nat
  BY <1>1
<1>. QED
  BY <1>1, <1>2 DEF Place

(* The digits of a number of two bytes.                                   *)
LEMMA TwoBytes ==
    ASSUME NEW n \in 0 .. Base * Base - 1
    PROVE  LET d == to_be_bytes(n, 2)
           IN  /\ d \in [1 .. 2 -> Byte] /\ d \in Seq(Byte) /\ Len(d) = 2
               /\ d[1] * Place[2] + d[2] = n
<1> DEFINE q == n \div Base
           r == n % Base
<1>1. n \in Nat /\ q \in Nat /\ r \in Byte /\ n = Base * q + r
  BY Digits, BasePositive DEF Byte
<1>2. q \in Byte /\ q % Base = q
  <2>1. q < Base
    <3>1. CASE q >= Base
      <4>1. Base * q >= Base * Base
        BY <3>1, <1>1, BasePositive
      <4>. QED
        BY <4>1, <1>1, BasePositive DEF Byte
    <3>. QED
      BY <1>1, <3>1, BasePositive
  <2>. QED
    BY <1>1, <2>1, BasePositive DEF Byte
<1>3. n \div Place[1] = n
  BY <1>1, BasePositive
<1> DEFINE d == to_be_bytes(n, 2)
<1>4. d = [i \in 1 .. 2 |-> IF i = 1 THEN q % Base ELSE r]
  <2>1. \A i \in 1 .. 2 : ((n \div Place[2 - i + 1]) % Base) = IF i = 1 THEN q % Base ELSE r
    BY <1>3, BasePositive
  <2>. QED
    BY <2>1 DEF to_be_bytes
<1> HIDE DEF q, r, d
<1>5. d \in [1 .. 2 -> Byte] /\ d[1] = q /\ d[2] = r
  BY <1>1, <1>2, <1>4
<1>6. d \in Seq(Byte) /\ Len(d) = 2
  BY <1>5, FunctionIsSeq
<1>7. d[1] * Place[2] + d[2] = n
  BY <1>1, <1>2, <1>5, BasePositive DEF Byte
<1>. QED
  BY <1>5, <1>6, <1>7 DEF d

(* The digits of a number of four bytes.                                  *)
LEMMA FourBytes ==
    ASSUME NEW n \in 0 .. Base * Place[4] - 1
    PROVE  LET d == to_be_bytes(n, 4)
           IN  /\ d \in [1 .. 4 -> Byte] /\ d \in Seq(Byte) /\ Len(d) = 4
               /\ d[1] * Place[4] + d[2] * Place[3] + d[3] * Place[2] + d[4] = n
<1> DEFINE q1 == n \div Base
           q2 == q1 \div Base
           q3 == q2 \div Base
           r1 == n % Base
           r2 == q1 % Base
           r3 == q2 % Base
<1>1. /\ n \in Nat /\ q1 \in Nat /\ q2 \in Nat /\ q3 \in Nat
      /\ r1 \in Byte /\ r2 \in Byte /\ r3 \in Byte
      /\ n = Base * q1 + r1 /\ q1 = Base * q2 + r2 /\ q2 = Base * q3 + r3
  <2>1. n \in Nat
    BY BasePositive
  <2>2. q1 \in Nat /\ r1 \in Byte /\ n = Base * q1 + r1
    BY <2>1, Digits, BasePositive DEF Byte
  <2>3. q2 \in Nat /\ r2 \in Byte /\ q1 = Base * q2 + r2
    BY <2>2, Digits, BasePositive DEF Byte
  <2>4. q3 \in Nat /\ r3 \in Byte /\ q2 = Base * q3 + r3
    BY <2>3, Digits, BasePositive DEF Byte
  <2>. QED
    BY <2>1, <2>2, <2>3, <2>4
<1>2. n \div Place[1] = n /\ n \div Place[2] = q1 /\ n \div Place[3] = q2 /\ n \div Place[4] = q3
  <2>1. n \in Nat /\ Base * Base \in Nat /\ Base * Base > 0
    BY <1>1, BasePositive
  <2>2. n \div Place[1] = n /\ n \div Place[2] = q1
    BY <1>1, BasePositive
  <2>3. n \div (Base * Base) = q2
    BY <1>1, BasePositive, DivOfDiv
  <2>4. n \div ((Base * Base) * Base) = (n \div (Base * Base)) \div Base
    BY <2>1, BasePositive, DivOfDiv
  <2>. QED
    BY <2>2, <2>3, <2>4, BasePositive
<1> DEFINE d == to_be_bytes(n, 4)
<1>3. /\ d \in [1 .. 4 -> Nat]
      /\ d[1] = q3 % Base /\ d[2] = r3 /\ d[3] = r2 /\ d[4] = r1
  <2>1. d = [i \in 1 .. 4 |-> (n \div Place[4 - i + 1]) % Base]
    BY DEF to_be_bytes
  <2>2. d[1] = (n \div Place[4]) % Base /\ d[2] = (n \div Place[3]) % Base
        /\ d[3] = (n \div Place[2]) % Base /\ d[4] = (n \div Place[1]) % Base
    BY <2>1
  <2>. QED
    BY <1>1, <1>2, <2>1, <2>2, BasePositive, Digits DEF Byte
<1> HIDE DEF q1, q2, q3, r1, r2, r3, d
<1>4. Base * (Base * q2) = (Base * Base) * q2 /\ (Base * Base) * (Base * q3) = Place[4] * q3
  BY <1>1, BasePositive
<1>5. n = Place[4] * q3 + Place[3] * r3 + Place[2] * r2 + r1
  <2>1. n = Base * (Base * q2) + Base * r2 + r1
    BY <1>1, BasePositive DEF Byte
  <2>2. (Base * Base) * q2 = (Base * Base) * (Base * q3) + (Base * Base) * r3
    BY <1>1, BasePositive DEF Byte
  <2>. QED
    BY <1>1, <1>4, <2>1, <2>2, BasePositive
<1>6. q3 \in Byte /\ q3 % Base = q3
  <2>1. q3 < Base
    <3>1. CASE q3 >= Base
      <4>1. Place[4] * q3 >= Place[4] * Base
        BY <3>1, <1>1, BasePositive
      <4>2. Place[3] * r3 >= 0 /\ Place[2] * r2 >= 0 /\ r1 >= 0
        BY <1>1, BasePositive DEF Byte
      <4>3. Place[4] * Base = Base * Place[4] /\ Place[4] * q3 \in Nat /\ Base * Place[4] \in Nat
            /\ Place[3] * r3 \in Nat /\ Place[2] * r2 \in Nat
        BY <1>1, BasePositive DEF Byte
      <4>4. n >= Base * Place[4]
        BY <4>1, <4>2, <4>3, <1>5, <1>1 DEF Byte
      <4>. QED
        BY <4>3, <4>4
    <3>. QED
      BY <1>1, <3>1, BasePositive
  <2>. QED
    BY <1>1, <2>1, BasePositive DEF Byte
<1>7. d \in [1 .. 4 -> Byte] /\ d[1] = q3
  BY <1>1, <1>3, <1>6
<1>8. d \in Seq(Byte) /\ Len(d) = 4
  BY <1>7, FunctionIsSeq
<1>9. d[1] * Place[4] + d[2] * Place[3] + d[3] * Place[2] + d[4] = n
  <2>1. /\ q3 * Place[4] = Place[4] * q3 /\ r3 * Place[3] = Place[3] * r3
        /\ r2 * Place[2] = Place[2] * r2
    BY <1>1, BasePositive DEF Byte
  <2>. QED
    BY <1>5, <1>3, <1>7, <2>1
<1>. QED
  BY <1>7, <1>8, <1>9 DEF d

-----------------------------------------------------------------------------
\* A frame whose length its header can tell.
Sendable == {f \in Frame : Len(f.body) < Base * Base}

(* The parts of a frame that may be sent.                                  *)
LEMMA SendableParts ==
    ASSUME NEW f \in Sendable
    PROVE  /\ f = [id |-> f.id, body |-> f.body] /\ f.id \in 0 .. Base * Place[4] - 1
           /\ f.body \in Seq(Byte) /\ Len(f.body) \in Nat /\ Len(f.body) < Base * Base
<1>1. f \in Frame /\ Len(f.body) < Base * Base
  BY DEF Sendable
<1>2. f.body \in Seq(Byte)
  BY <1>1 DEF Frame
<1>. QED
  BY <1>1, <1>2 DEF Frame

(* encode_frame refuses a body that is too long, and no other.             *)
LEMMA EncodeFrame ==
    ASSUME NEW f \in Frame
    PROVE  /\ encode_frame(f) = {} => Len(f.body) > MAX_BODY_LEN
           /\ \A bytes \in encode_frame(f) : f \in Sendable /\ bytes = frame_bytes(f)
<1>1. f.body \in Seq(Byte)
  BY DEF Frame
<1>2. Len(f.body) \in Nat /\ MAX_BODY_LEN \in Nat /\ MAX_BODY_LEN < Base * Base /\ Base * Base \in Nat
  BY <1>1, FramingAssumption
<1>3. CASE Len(f.body) > MAX_BODY_LEN
  BY <1>3 DEF encode_frame
<1>4. CASE ~ (Len(f.body) > MAX_BODY_LEN)
  <2>1. encode_frame(f) = {frame_bytes(f)}
    BY <1>4 DEF encode_frame
  <2>2. f \in Sendable
    BY <1>2, <1>4 DEF Sendable
  <2>. QED
    BY <2>1, <2>2
<1>. QED
  BY <1>3, <1>4

(* The header of a frame tells its id and its length; the body follows.    *)
LEMMA EncodedBytes ==
    ASSUME NEW f \in Sendable
    PROVE  /\ frame_bytes(f) \in Seq(Byte)
           /\ Len(frame_bytes(f)) = PREFIX_LEN + Len(f.body)
           /\ id_of(frame_bytes(f)) = f.id /\ len_of(frame_bytes(f)) = Len(f.body)
           /\ \A i \in 1 .. Len(f.body) : frame_bytes(f)[PREFIX_LEN + i] = f.body[i]
<1> DEFINE n == Len(f.body)
           a == to_be_bytes(f.id, 4)
           b == to_be_bytes(n, 2)
           h == a \o b
<1>1. f.body \in Seq(Byte) /\ n \in Nat /\ n \in 0 .. Base * Base - 1
      /\ f.id \in 0 .. Base * Place[4] - 1
  BY SendableParts, BasePositive
<1>2. a \in Seq(Byte) /\ Len(a) = 4
      /\ a[1] * Place[4] + a[2] * Place[3] + a[3] * Place[2] + a[4] = f.id
  BY <1>1, FourBytes
<1>3. b \in Seq(Byte) /\ Len(b) = 2 /\ b[1] * Place[2] + b[2] = n
  BY <1>1, TwoBytes
<1> HIDE DEF a, b, n
<1>4. /\ h \in Seq(Byte) /\ Len(h) = 6
      /\ h[1] = a[1] /\ h[2] = a[2] /\ h[3] = a[3] /\ h[4] = a[4] /\ h[5] = b[1] /\ h[6] = b[2]
  <2>1. /\ h \in Seq(Byte) /\ Len(h) = Len(a) + Len(b)
        /\ \A i \in 1 .. Len(a) + Len(b) : h[i] = IF i <= Len(a) THEN a[i] ELSE b[i - Len(a)]
    BY <1>2, <1>3, ConcatProperties
  <2> HIDE DEF h
  <2>2. Len(h) = 6 /\ \A i \in 1 .. 6 : h[i] = IF i <= 4 THEN a[i] ELSE b[i - 4]
    BY <1>2, <1>3, <2>1
  <2>3. h[1] = a[1] /\ h[2] = a[2] /\ h[3] = a[3] /\ h[4] = a[4]
    BY <2>2
  <2>4. h[5] = b[5 - 4] /\ h[6] = b[6 - 4] /\ 5 - 4 = 1 /\ 6 - 4 = 2
    BY <2>2
  <2>5. h[5] = b[1] /\ h[6] = b[2]
    BY <2>4, Zenon
  <2>. QED
    BY <2>1, <2>2, <2>3, <2>5
<1> DEFINE e == h \o f.body
<1> HIDE DEF h
<1>5. /\ e \in Seq(Byte) /\ Len(e) = 6 + n
      /\ \A i \in 1 .. 6 : e[i] = h[i]
      /\ \A i \in 1 .. n : e[6 + i] = f.body[i]
  <2>1. /\ e \in Seq(Byte) /\ Len(e) = Len(h) + Len(f.body)
        /\ \A i \in 1 .. Len(h) + Len(f.body) : e[i] =
              IF i <= Len(h) THEN h[i] ELSE f.body[i - Len(h)]
    BY <1>1, <1>4, ConcatProperties
  <2>2. Len(f.body) = n
    BY DEF n
  <2> HIDE DEF e
  <2>3. Len(e) = 6 + n /\ \A i \in 1 .. 6 + n : e[i] = IF i <= 6 THEN h[i] ELSE f.body[i - 6]
    BY <1>4, <2>1, <2>2
  <2>4. \A i \in 1 .. 6 : e[i] = h[i]
    BY <2>3, <1>1
  <2>5. \A i \in 1 .. n : e[6 + i] = f.body[i]
    <3> SUFFICES ASSUME NEW i \in 1 .. n
                 PROVE  e[6 + i] = f.body[i]
      OBVIOUS
    <3>1. 6 + i \in 1 .. 6 + n /\ ~ (6 + i <= 6) /\ (6 + i) - 6 = i
      BY <1>1
    <3>. QED
      BY <2>3, <3>1
  <2>. QED
    BY <2>1, <2>3, <2>4, <2>5
<1>6. e = frame_bytes(f)
  BY DEF e, h, a, b, n, frame_bytes
<1> HIDE DEF e
<1>7. e[1] = a[1] /\ e[2] = a[2] /\ e[3] = a[3] /\ e[4] = a[4] /\ e[5] = b[1] /\ e[6] = b[2]
  BY <1>4, <1>5
<1>8. id_of(e) = f.id /\ len_of(e) = n
  BY <1>2, <1>3, <1>7 DEF id_of, len_of
<1>. QED
  BY <1>5, <1>6, <1>8 DEF n, PREFIX_LEN

(* What starts with the bytes of a frame is read as that frame.            *)
LEMMA ReadsAs ==
    ASSUME NEW f \in Sendable, NEW bytes \in Seq(Byte), Len(bytes) >= PREFIX_LEN,
           \A i \in 1 .. Len(bytes) :
              i <= PREFIX_LEN + Len(f.body) => bytes[i] = frame_bytes(f)[i]
    PROVE  /\ id_of(bytes) = f.id /\ len_of(bytes) = Len(f.body)
           /\ decode_frame(bytes) =
                 IF Len(bytes) < PREFIX_LEN + Len(f.body) THEN {} ELSE {f}
<1> DEFINE n == Len(f.body)
<1>1. f.body \in Seq(Byte) /\ n \in Nat /\ f = [id |-> f.id, body |-> f.body]
  BY SendableParts
<1>2. id_of(bytes) = f.id /\ len_of(bytes) = n
  <2>1. \A i \in 1 .. 6 : bytes[i] = frame_bytes(f)[i]
    BY <1>1 DEF PREFIX_LEN
  <2>. QED
    BY <2>1, EncodedBytes DEF id_of, len_of
<1>3. CASE Len(bytes) < PREFIX_LEN + n
  BY <1>2, <1>3 DEF decode_frame
<1>4. CASE ~ (Len(bytes) < PREFIX_LEN + n)
  <2> DEFINE s == SubSeq(bytes, PREFIX_LEN + 1, PREFIX_LEN + n)
  <2>1. s = f.body
    <3>1. Len(bytes) \in Nat /\ PREFIX_LEN = 6 /\ Len(bytes) >= 6 + n
      BY <1>1, <1>4 DEF PREFIX_LEN
    <3>2. \A i \in 7 .. 6 + n : bytes[i] \in Byte
      BY <3>1, <1>1
    <3>3. s \in Seq(Byte) /\ Len(s) = n /\ \A i \in 1 .. n : s[i] = bytes[7 + i - 1]
      <4>1. 7 \in Int /\ 6 + n \in Int
        BY <1>1
      <4>2. /\ SubSeq(bytes, 7, 6 + n) \in Seq(Byte)
            /\ Len(SubSeq(bytes, 7, 6 + n)) = IF 7 <= 6 + n THEN 6 + n - 7 + 1 ELSE 0
            /\ \A i \in 1 .. 6 + n - 7 + 1 : SubSeq(bytes, 7, 6 + n)[i] = bytes[7 + i - 1]
        BY <3>2, <4>1, SubSeqProperties
      <4>. QED
        BY <3>1, <4>2, <1>1
    <3>4. \A i \in 1 .. n : s[i] = f.body[i]
      <4> SUFFICES ASSUME NEW i \in 1 .. n
                   PROVE  s[i] = f.body[i]
        OBVIOUS
      <4>1. s[i] = bytes[6 + i]
        BY <3>3, <1>1
      <4>2. bytes[6 + i] = frame_bytes(f)[6 + i]
        BY <3>1, <1>1
      <4>3. frame_bytes(f)[6 + i] = f.body[i]
        BY EncodedBytes, <3>1
      <4>. QED
        BY <4>1, <4>2, <4>3
    <3>. QED
      BY <1>1, <3>3, <3>4, SeqEqual
  <2>. QED
    <3> HIDE DEF s
    <3>1. ~ (Len(bytes) < PREFIX_LEN) /\ ~ (Len(bytes) < PREFIX_LEN + len_of(bytes))
      BY <1>1, <1>2, <1>4 DEF PREFIX_LEN
    <3>2. decode_frame(bytes) = {[id |-> f.id, body |-> s]}
      BY <1>2, <3>1 DEF decode_frame, s
    <3>. QED
      BY <1>1, <1>2, <1>4, <2>1, <3>2
<1>. QED
  BY <1>1, <1>2, <1>3, <1>4

(* decode_frame takes back what encode_frame made, and leaves alone what   *)
(* follows it.                                                             *)
THEOREM DecodeEncode ==
    ASSUME NEW f \in Frame, NEW bytes \in encode_frame(f), NEW rest \in Seq(Byte)
    PROVE  decode_frame(bytes \o rest) = {f}
<1>1. f \in Sendable /\ bytes = frame_bytes(f)
  BY EncodeFrame
<1>2. bytes \in Seq(Byte) /\ Len(bytes) = PREFIX_LEN + Len(f.body) /\ Len(f.body) \in Nat
  BY <1>1, EncodedBytes, SendableParts
<1> DEFINE all == bytes \o rest
<1>3. /\ all \in Seq(Byte) /\ Len(all) >= Len(bytes)
      /\ \A i \in 1 .. Len(bytes) : all[i] = bytes[i]
  BY <1>2, ConcatProperties
<1> HIDE DEF all
<1>4. decode_frame(all) = {f}
  BY <1>1, <1>2, <1>3, ReadsAs DEF PREFIX_LEN
<1>. QED
  BY <1>4 DEF all

-----------------------------------------------------------------------------
\* e[k] is where frame k of frames ends in bytes, which start behind frame n.
Layout(frames, bytes, n, e) ==
    /\ e[n] = 0 /\ e[Len(frames)] = Len(bytes)
    /\ \A j, k \in n .. Len(frames) : j <= k => e[j] <= e[k]
    /\ \A k \in n + 1 .. Len(frames) :
          /\ frames[k] \in Sendable
          /\ e[k] = e[k - 1] + (PREFIX_LEN + Len(frames[k].body))
          /\ \A i \in 1 .. PREFIX_LEN + Len(frames[k].body) :
                bytes[e[k - 1] + i] = frame_bytes(frames[k])[i]

\* The bytes that follow frame n are those of the frames behind it.
Follows(frames, bytes, n) ==
    \E e \in [n .. Len(frames) -> Nat] : Layout(frames, bytes, n, e)

(* Where the bytes of two sequences stand in the one made of them.         *)
LEMMA Parts ==
    ASSUME NEW p \in Seq(Byte), NEW q \in Seq(Byte)
    PROVE  /\ p \o q \in Seq(Byte) /\ Len(p \o q) = Len(p) + Len(q)
           /\ \A i \in 1 .. Len(p) : (p \o q)[i] = p[i]
           /\ \A i \in 1 .. Len(q) : (p \o q)[Len(p) + i] = q[i]
<1> DEFINE c == p \o q
<1>1. /\ c \in Seq(Byte) /\ Len(c) = Len(p) + Len(q)
      /\ \A i \in 1 .. Len(p) + Len(q) : c[i] = IF i <= Len(p) THEN p[i] ELSE q[i - Len(p)]
  BY ConcatProperties
<1> HIDE DEF c
<1>2. ASSUME NEW i \in 1 .. Len(q)
      PROVE  c[Len(p) + i] = q[i]
  <2>1. /\ Len(p) + i \in 1 .. Len(p) + Len(q) /\ ~ (Len(p) + i <= Len(p))
        /\ (Len(p) + i) - Len(p) = i
    OBVIOUS
  <2>. QED
    BY <1>1, <2>1
<1>3. \A i \in 1 .. Len(p) : c[i] = p[i]
  BY <1>1
<1>. QED
  BY <1>1, <1>2, <1>3 DEF c

(* Byte i of a frame that starts behind byte a stands among the first c.   *)
LEMMA InStretch ==
    ASSUME NEW a \in Nat, NEW b \in Nat, NEW c \in Nat, NEW l \in Nat,
           b = a + (PREFIX_LEN + l), b <= c, NEW i \in 1 .. PREFIX_LEN + l
    PROVE  a + i \in 1 .. c
BY DEF PREFIX_LEN

(* It stands that much earlier when the p bytes are gone.                  *)
LEMMA Shifted ==
    ASSUME NEW a \in Nat, NEW b \in Nat, NEW p \in Nat, NEW q \in Nat, NEW l \in Nat,
           b = a + (PREFIX_LEN + l), b <= p + q, a >= p
    PROVE  /\ b - p = (a - p) + (PREFIX_LEN + l)
           /\ \A i \in 1 .. PREFIX_LEN + l :
                 p + ((a - p) + i) = a + i /\ (a - p) + i \in 1 .. q
BY DEF PREFIX_LEN

(* A frame more is followed by its bytes.                                  *)
LEMMA FollowsAppend ==
    ASSUME NEW frames \in Seq(Frames), NEW bytes \in Seq(Byte), NEW n \in 0 .. Len(frames),
           Follows(frames, bytes, n), NEW f \in Frames, f \in Sendable
    PROVE  Follows(Append(frames, f), bytes \o frame_bytes(f), n)
<1>1. PICK e \in [n .. Len(frames) -> Nat] : Layout(frames, bytes, n, e)
  BY DEF Follows
<1> DEFINE m == Len(frames)
           longer == Append(frames, f)
           all == bytes \o frame_bytes(f)
           l == PREFIX_LEN + Len(f.body)
           d == [k \in n .. m + 1 |-> IF k = m + 1 THEN Len(bytes) + l ELSE e[k]]
<1>2. /\ frame_bytes(f) \in Seq(Byte) /\ Len(frame_bytes(f)) = l /\ l \in Nat
  BY EncodedBytes, SendableParts DEF PREFIX_LEN
<1>3. /\ Len(all) = Len(bytes) + l
      /\ \A i \in 1 .. Len(bytes) : all[i] = bytes[i]
      /\ \A i \in 1 .. l : all[Len(bytes) + i] = frame_bytes(f)[i]
  <2> HIDE DEF l
  <2>. QED
    BY <1>2, Parts
<1>4. /\ Len(longer) = m + 1 /\ longer[m + 1] = f /\ m \in Nat /\ Len(bytes) \in Nat
      /\ \A k \in 1 .. m : longer[k] = frames[k]
  OBVIOUS
<1>5. /\ d \in [n .. m + 1 -> Nat] /\ d[m + 1] = Len(bytes) + l
      /\ \A k \in n .. m : d[k] = e[k]
  BY <1>2, <1>4
<1>6. /\ e[n] = 0 /\ e[m] = Len(bytes)
      /\ \A j, k \in n .. m : j <= k => e[j] <= e[k]
  BY <1>1 DEF Layout
<1>7. \A k \in n + 1 .. m :
          /\ frames[k] \in Sendable
          /\ e[k] = e[k - 1] + (PREFIX_LEN + Len(frames[k].body))
          /\ \A i \in 1 .. PREFIX_LEN + Len(frames[k].body) :
                bytes[e[k - 1] + i] = frame_bytes(frames[k])[i]
  BY <1>1 DEF Layout
<1>8. \A k \in n .. m : e[k] \in Nat
  OBVIOUS
<1> HIDE DEF m, longer, all, l, d
<1>9. d[n] = 0 /\ d[m + 1] = Len(all)
  BY <1>3, <1>4, <1>5, <1>6 DEF m
<1>10. ASSUME NEW j \in n .. m + 1, NEW k \in n .. m + 1, j <= k
       PROVE  d[j] <= d[k]
  <2>1. CASE k \in n .. m
    BY <1>4, <1>5, <1>6, <1>10, <2>1
  <2>2. CASE k = m + 1 /\ j \in n .. m
    <3>1. e[j] <= e[m] /\ e[j] \in Nat
      BY <1>4, <1>6, <1>8, <2>2
    <3>. QED
      BY <1>2, <1>4, <1>5, <1>6, <2>2, <3>1
  <2>3. CASE k = m + 1 /\ j = m + 1
    BY <1>2, <1>4, <1>5, <2>3
  <2>. QED
    BY <1>4, <1>10, <2>1, <2>2, <2>3
<1>11. ASSUME NEW k \in n + 1 .. m + 1
       PROVE /\ longer[k] \in Sendable
             /\ d[k] = d[k - 1] + (PREFIX_LEN + Len(longer[k].body))
             /\ \A i \in 1 .. PREFIX_LEN + Len(longer[k].body) :
                   all[d[k - 1] + i] = frame_bytes(longer[k])[i]
  <2>1. CASE k = m + 1
    <3>1. k - 1 = m /\ m \in n .. m
      BY <1>4, <2>1 DEF m
    <3>2. longer[k] = f /\ d[k] = Len(bytes) + l /\ d[k - 1] = Len(bytes)
      BY <1>4, <1>5, <1>6, <2>1, <3>1
    <3>. QED
      BY <1>3, <3>2 DEF l
  <2>2. CASE k # m + 1
    <3>1. k \in n + 1 .. m /\ k \in 1 .. m /\ k \in n .. m /\ k - 1 \in n .. m /\ m \in n .. m
      BY <1>4, <2>2 DEF m
    <3>2. longer[k] = frames[k] /\ d[k] = e[k] /\ d[k - 1] = e[k - 1]
      BY <1>4, <1>5, <3>1
    <3>3. e[k - 1] \in Nat /\ e[k] \in Nat /\ e[k] <= Len(bytes)
      BY <1>4, <1>6, <1>8, <3>1
    <3>4. Len(frames[k].body) \in Nat
      BY <1>7, <3>1, SendableParts
    <3>5. ASSUME NEW i \in 1 .. PREFIX_LEN + Len(longer[k].body)
          PROVE  all[d[k - 1] + i] = frame_bytes(longer[k])[i]
      <4>1. e[k] = e[k - 1] + (6 + Len(frames[k].body)) /\ i \in 1 .. 6 + Len(frames[k].body)
        BY <1>7, <3>1, <3>2 DEF PREFIX_LEN
      <4>2. e[k - 1] + i \in 1 .. Len(bytes)
        <5>1. e[k] = e[k - 1] + (PREFIX_LEN + Len(frames[k].body))
              /\ i \in 1 .. PREFIX_LEN + Len(frames[k].body)
          BY <4>1 DEF PREFIX_LEN
        <5>. QED
          BY <1>4, <3>3, <3>4, <5>1, InStretch
      <4>3. all[e[k - 1] + i] = bytes[e[k - 1] + i]
        BY <1>3, <4>2
      <4>. QED
        BY <1>7, <3>1, <3>2, <4>3
    <3>. QED
      BY <1>7, <3>1, <3>2, <3>5
  <2>. QED
    BY <2>1, <2>2
<1>12. Layout(longer, all, n, d)
  BY <1>4, <1>9, <1>10, <1>11 DEF Layout
<1>. QED
  BY <1>4, <1>5, <1>12 DEF Follows, longer, all

(* What follows starts with the bytes of the next frame; taken away, what  *)
(* is left follows that one.                                               *)
LEMMA FollowsNext ==
    ASSUME NEW frames \in Seq(Frames), NEW p \in Seq(Byte), NEW q \in Seq(Byte),
           NEW n \in 0 .. Len(frames), Follows(frames, p \o q, n), p # <<>> \/ q # <<>>
    PROVE  /\ n < Len(frames) /\ frames[n + 1] \in Sendable
           /\ \A i \in 1 .. Len(p) :
                 i <= PREFIX_LEN + Len(frames[n + 1].body) => p[i] = frame_bytes(frames[n + 1])[i]
           /\ Len(p) = PREFIX_LEN + Len(frames[n + 1].body) => Follows(frames, q, n + 1)
<1> DEFINE m == Len(frames)
           all == p \o q
           f == frames[n + 1]
<1>1. PICK e \in [n .. m -> Nat] : Layout(frames, all, n, e)
  BY DEF Follows
<1>2. /\ Len(all) = Len(p) + Len(q) /\ Len(p) \in Nat /\ Len(q) \in Nat
      /\ \A i \in 1 .. Len(p) : all[i] = p[i]
      /\ \A i \in 1 .. Len(q) : all[Len(p) + i] = q[i]
  BY Parts
<1>3. /\ e[n] = 0 /\ e[m] = Len(all) /\ m \in Nat
      /\ \A j, k \in n .. m : j <= k => e[j] <= e[k]
  BY <1>1 DEF Layout
<1>4. \A k \in n + 1 .. m :
          /\ frames[k] \in Sendable
          /\ e[k] = e[k - 1] + (PREFIX_LEN + Len(frames[k].body))
          /\ \A i \in 1 .. PREFIX_LEN + Len(frames[k].body) :
                all[e[k - 1] + i] = frame_bytes(frames[k])[i]
  BY <1>1 DEF Layout
<1>5. \A k \in n .. m : e[k] \in Nat
  OBVIOUS
<1> HIDE DEF m, all
<1>6. n < m
  <2>1. Len(p) # 0 \/ Len(q) # 0
    BY EmptySeq
  <2>. QED
    BY <1>2, <1>3, <2>1 DEF m
<1>7. n + 1 \in n + 1 .. m /\ n + 1 \in n .. m /\ (n + 1) - 1 = n
  BY <1>3, <1>6
<1>8. /\ f \in Sendable /\ e[n + 1] = PREFIX_LEN + Len(f.body) /\ Len(f.body) \in Nat
      /\ \A i \in 1 .. PREFIX_LEN + Len(f.body) : all[i] = frame_bytes(f)[i]
  <2>1. f \in Sendable /\ e[n + 1] = e[n] + (PREFIX_LEN + Len(f.body))
        /\ \A i \in 1 .. PREFIX_LEN + Len(f.body) : all[e[n] + i] = frame_bytes(f)[i]
    BY <1>4, <1>7
  <2>2. Len(f.body) \in Nat
    BY <2>1, SendableParts
  <2>. QED
    BY <1>3, <2>1, <2>2 DEF PREFIX_LEN
<1> HIDE DEF f
<1>9. ASSUME NEW i \in 1 .. Len(p), i <= PREFIX_LEN + Len(f.body)
      PROVE  p[i] = frame_bytes(f)[i]
  BY <1>2, <1>8, <1>9 DEF PREFIX_LEN
<1>10. ASSUME Len(p) = PREFIX_LEN + Len(f.body)
       PROVE  Follows(frames, q, n + 1)
  <2> DEFINE d == [k \in n + 1 .. m |-> e[k] - Len(p)]
  <2>1. ASSUME NEW k \in n + 1 .. m
        PROVE  e[k] \in Nat /\ e[k] >= Len(p) /\ d[k] = e[k] - Len(p) /\ d[k] \in Nat
    <3>1. k \in n .. m /\ n + 1 <= k
      BY <1>7
    <3>2. e[n + 1] <= e[k] /\ e[k] \in Nat
      BY <1>3, <1>5, <1>7, <3>1
    <3>. QED
      BY <1>2, <1>8, <1>10, <3>2
  <2>2. d \in [n + 1 .. m -> Nat]
    BY <2>1
  <2> HIDE DEF d
  <2>3. d[n + 1] = 0 /\ d[m] = Len(q)
    <3>1. m \in n + 1 .. m
      BY <1>3, <1>6
    <3>2. d[n + 1] = e[n + 1] - Len(p) /\ d[m] = e[m] - Len(p)
      BY <1>7, <2>1, <3>1
    <3>. QED
      BY <1>2, <1>3, <1>8, <1>10, <3>2
  <2>4. ASSUME NEW j \in n + 1 .. m, NEW k \in n + 1 .. m, j <= k
        PROVE  d[j] <= d[k]
    <3>1. j \in n .. m /\ k \in n .. m
      BY <1>7
    <3>2. e[j] <= e[k] /\ d[j] = e[j] - Len(p) /\ d[k] = e[k] - Len(p)
          /\ e[j] \in Nat /\ e[k] \in Nat
      BY <1>3, <2>1, <2>4, <3>1
    <3>. QED
      BY <1>2, <3>2
  <2>5. ASSUME NEW k \in (n + 1) + 1 .. m
        PROVE  /\ frames[k] \in Sendable
               /\ d[k] = d[k - 1] + (PREFIX_LEN + Len(frames[k].body))
               /\ \A i \in 1 .. PREFIX_LEN + Len(frames[k].body) :
                     q[d[k - 1] + i] = frame_bytes(frames[k])[i]
    <3>1. k \in n + 1 .. m /\ k - 1 \in n + 1 .. m /\ k \in n .. m /\ m \in n .. m /\ k <= m
      BY <1>3, <1>6
    <3>2. frames[k] \in Sendable /\ e[k] = e[k - 1] + (PREFIX_LEN + Len(frames[k].body))
      BY <1>4, <3>1
    <3>3. Len(frames[k].body) \in Nat
      BY <3>2, SendableParts
    <3>4. /\ d[k] = e[k] - Len(p) /\ d[k - 1] = e[k - 1] - Len(p)
          /\ e[k] \in Nat /\ e[k - 1] \in Nat /\ e[k - 1] >= Len(p) /\ e[k] <= Len(p) + Len(q)
      BY <1>2, <1>3, <2>1, <3>1
    <3>5. /\ e[k] - Len(p) = (e[k - 1] - Len(p)) + (PREFIX_LEN + Len(frames[k].body))
          /\ \A i \in 1 .. PREFIX_LEN + Len(frames[k].body) :
                /\ Len(p) + ((e[k - 1] - Len(p)) + i) = e[k - 1] + i
                /\ (e[k - 1] - Len(p)) + i \in 1 .. Len(q)
      BY <1>2, <3>2, <3>4, <3>3, Shifted
    <3>6. ASSUME NEW i \in 1 .. PREFIX_LEN + Len(frames[k].body)
          PROVE  q[d[k - 1] + i] = frame_bytes(frames[k])[i]
      <4>1. all[e[k - 1] + i] = frame_bytes(frames[k])[i]
        BY <1>4, <3>1
      <4>2. Len(p) + (d[k - 1] + i) = e[k - 1] + i /\ d[k - 1] + i \in 1 .. Len(q)
        BY <3>4, <3>5
      <4>3. all[Len(p) + (d[k - 1] + i)] = q[d[k - 1] + i]
        BY <1>2, <4>2
      <4>. QED
        BY <4>1, <4>2, <4>3
    <3>7. d[k] = d[k - 1] + (PREFIX_LEN + Len(frames[k].body))
      BY <3>4, <3>5
    <3>. QED
      BY <3>2, <3>6, <3>7
  <2>6. Layout(frames, q, n + 1, d)
    BY <2>3, <2>4, <2>5 DEF Layout, m
  <2>. QED
    BY <2>2, <2>6 DEF Follows, m
<1>. QED
  BY <1>6, <1>8, <1>9, <1>10 DEF f, m

-----------------------------------------------------------------------------
\* The frames received are the first ones sent, and the others' bytes are there.
Aligned ==
    \E n \in 0 .. Len(sent) : got = SubSeq(sent, 1, n) /\ Follows(sent, buf \o stream, n)

IInv ==
    /\ TypeOK
    /\ Len(buf) <= Wanted
    /\ ~ cut => Aligned

(* What a header tells are numbers.                                        *)
LEMMA HeaderType ==
    ASSUME NEW bytes \in Seq(Byte), Len(bytes) >= PREFIX_LEN
    PROVE  id_of(bytes) \in Nat /\ len_of(bytes) \in Nat
<1>1. /\ bytes[1] \in Nat /\ bytes[2] \in Nat /\ bytes[3] \in Nat
      /\ bytes[4] \in Nat /\ bytes[5] \in Nat /\ bytes[6] \in Nat
  <2>1. \A i \in 1 .. Len(bytes) : bytes[i] \in Byte
    BY ElementOfSeq
  <2>2. \A b \in Byte : b \in Nat
    BY BasePositive DEF Byte
  <2>3. 6 <= Len(bytes) /\ Len(bytes) \in Nat
    BY DEF PREFIX_LEN
  <2>4. \A i \in 1 .. 6 : bytes[i] \in Nat
    <3> SUFFICES ASSUME NEW i \in 1 .. 6
                 PROVE  bytes[i] \in Nat
      OBVIOUS
    <3>1. i \in 1 .. Len(bytes)
      BY <2>3
    <3>. QED
      BY <2>1, <2>2, <3>1, Zenon
  <2> HIDE DEF Byte
  <2>. QED
    BY <2>4
<1>2. \A a, b \in Nat : a * b \in Nat
  OBVIOUS
<1>3. /\ bytes[1] * Place[4] \in Nat /\ bytes[2] * Place[3] \in Nat
      /\ bytes[3] * Place[2] \in Nat /\ bytes[5] * Place[2] \in Nat
  <2>1. Place[2] \in Nat /\ Place[3] \in Nat /\ Place[4] \in Nat
    BY BasePositive
  <2>. QED
    BY <1>1, <1>2, <2>1
<1> DEFINE a == bytes[1] * Place[4]
           b == bytes[2] * Place[3]
           c == bytes[3] * Place[2]
           d == bytes[5] * Place[2]
           x == bytes[4]
           y == bytes[6]
<1>4. a \in Nat /\ b \in Nat /\ c \in Nat /\ d \in Nat /\ x \in Nat /\ y \in Nat
  BY <1>1, <1>3
<1>5. id_of(bytes) = a + b + c + x /\ len_of(bytes) = d + y
  BY DEF id_of, len_of
<1> HIDE DEF a, b, c, d, x, y
<1>. QED
  BY <1>4, <1>5

(* No byte is lost or moved that passes from one part to the next.         *)
LEMMA PassByte ==
    ASSUME NEW S, NEW p \in Seq(S), NEW q \in Seq(S), q # <<>>
    PROVE  Append(p, Head(q)) \o Tail(q) = p \o q
<1>1. Head(q) \in S /\ Tail(q) \in Seq(S) /\ Len(q) >= 1
  OBVIOUS
<1> DEFINE a == Append(p, Head(q))
           l == a \o Tail(q)
           r == p \o q
<1>2. a \in Seq(S) /\ Len(a) = Len(p) + 1
  BY <1>1
<1>3. l \in Seq(S) /\ r \in Seq(S) /\ Len(l) = Len(r) /\ Len(r) = Len(p) + Len(q)
  BY <1>1, <1>2
<1>4. \A i \in 1 .. Len(r) : l[i] = r[i]
  <2> SUFFICES ASSUME NEW i \in 1 .. Len(p) + Len(q)
               PROVE  l[i] = r[i]
    BY <1>3
  <2>1. r[i] = IF i <= Len(p) THEN p[i] ELSE q[i - Len(p)]
    BY ConcatProperties
  <2>2. l[i] = IF i <= Len(a) THEN a[i] ELSE Tail(q)[i - Len(a)]
    BY <1>1, <1>2, ConcatProperties
  <2>3. CASE i <= Len(p)
    BY <2>1, <2>2, <2>3, <1>1, <1>2
  <2>4. CASE i = Len(p) + 1
    BY <2>1, <2>2, <2>4, <1>1, <1>2
  <2>5. CASE i > Len(p) + 1
    <3>1. i - Len(a) \in 1 .. Len(Tail(q)) /\ (i - Len(a)) + 1 = i - Len(p)
      BY <2>5, <1>1, <1>2
    <3>2. Tail(q)[i - Len(a)] = q[(i - Len(a)) + 1]
      BY <3>1, HeadTailProperties
    <3>. QED
      BY <2>1, <2>2, <2>5, <3>1, <3>2, <1>2
  <2>. QED
    BY <2>3, <2>4, <2>5
<1> HIDE DEF l, r
<1>5. l = r
  BY <1>3, <1>4, SeqEqual
<1>. QED
  BY <1>5 DEF l, r, a

(* Before anything is sent nothing is there.                               *)
LEMMA InitIInv == Init => IInv
<1> SUFFICES ASSUME Init
             PROVE  IInv
  OBVIOUS
<1>1. stream = <<>> /\ buf = <<>> /\ sent = <<>> /\ got = <<>> /\ cut = FALSE
  BY DEF Init
<1>2. TypeOK
  BY <1>1, EmptySeq DEF TypeOK
<1>3. Len(buf) <= Wanted
  BY <1>1 DEF Wanted, PREFIX_LEN
<1>4. Aligned
  <2> DEFINE e == [k \in 0 .. 0 |-> 0]
  <2>1. Len(sent) = 0 /\ buf \o stream = <<>> /\ got = SubSeq(sent, 1, 0)
    BY <1>1
  <2>2. e \in [0 .. 0 -> Nat] /\ e[0] = 0
    OBVIOUS
  <2> HIDE DEF e
  <2>3. Layout(sent, buf \o stream, 0, e)
    BY <2>1, <2>2 DEF Layout
  <2>. QED
    BY <2>1, <2>2, <2>3 DEF Aligned, Follows
<1>. QED
  BY <1>2, <1>3, <1>4 DEF IInv

(* The server sends: the frame's bytes come last.                          *)
LEMMA SendKeeps ==
    ASSUME IInv, NEW f \in Frames, Send(f)
    PROVE  IInv'
<1>1. stream' = stream \o frame_bytes(f)
  BY DEF Send
<1>2. f \in Sendable /\ frame_bytes(f) \in Seq(Byte)
  <2>1. f \in Sendable
    BY FramesAssumption DEF Sendable
  <2>. QED
    BY <2>1, EncodedBytes
<1>3. sent' = Append(sent, f) /\ UNCHANGED <<buf, got, cut>>
  BY DEF Send
<1>4. TypeOK /\ stream \in Seq(Byte) /\ buf \in Seq(Byte) /\ sent \in Seq(Frames)
  BY DEF IInv, TypeOK
<1>5. TypeOK'
  BY <1>1, <1>2, <1>3, <1>4 DEF TypeOK
<1>6. (Len(buf) <= Wanted)'
  BY <1>3 DEF IInv, Wanted, len_of
<1>7. ASSUME ~ cut
      PROVE  Aligned'
  <2>1. PICK n \in 0 .. Len(sent) : got = SubSeq(sent, 1, n) /\ Follows(sent, buf \o stream, n)
    BY <1>7 DEF IInv, Aligned
  <2>2. buf \o stream \in Seq(Byte) /\ buf' \o stream' = (buf \o stream) \o frame_bytes(f)
    <3>1. (buf \o stream) \o frame_bytes(f) = buf \o (stream \o frame_bytes(f))
      BY <1>2, <1>4, ConcatAssociative
    <3>. QED
      BY <1>1, <1>2, <1>3, <1>4, <3>1
  <2>3. Follows(Append(sent, f), (buf \o stream) \o frame_bytes(f), n)
    BY <1>2, <1>4, <2>1, <2>2, FollowsAppend
  <2>4. n \in 0 .. Len(sent') /\ SubSeq(sent', 1, n) = SubSeq(sent, 1, n)
    BY <1>3, <1>4
  <2>. QED
    BY <1>3, <2>1, <2>2, <2>3, <2>4 DEF Aligned
<1>. QED
  BY <1>3, <1>5, <1>6, <1>7 DEF IInv

(* A byte passes from the stream to the buffer.                            *)
LEMMA ReadByteKeeps ==
    ASSUME IInv, ReadByte
    PROVE  IInv'
<1>1. /\ stream # <<>> /\ Len(buf) < Wanted
      /\ buf' = Append(buf, Head(stream)) /\ stream' = Tail(stream)
      /\ UNCHANGED <<sent, got, cut>>
  BY DEF ReadByte
<1>2. stream \in Seq(Byte) /\ buf \in Seq(Byte)
  BY DEF IInv, TypeOK
<1>3. TypeOK'
  BY <1>1 DEF IInv, TypeOK
<1>4. (Len(buf) <= Wanted)'
  <2>1. /\ buf' \in Seq(Byte) /\ Len(buf') = Len(buf) + 1
        /\ \A i \in 1 .. Len(buf) : buf'[i] = buf[i]
    BY <1>1, <1>2
  <2>2. CASE Len(buf) < PREFIX_LEN
    <3>1. Len(buf') >= PREFIX_LEN => len_of(buf') \in Nat
      BY <2>1, HeaderType
    <3>. QED
      BY <1>2, <2>1, <2>2, <3>1 DEF Wanted, PREFIX_LEN
  <2>3. CASE Len(buf) >= PREFIX_LEN
    <3>1. len_of(buf') = len_of(buf) /\ len_of(buf) \in Nat
      <4>1. buf'[5] = buf[5] /\ buf'[6] = buf[6]
        BY <1>2, <2>1, <2>3 DEF PREFIX_LEN
      <4>. QED
        BY <1>2, <2>3, <4>1, HeaderType DEF len_of
    <3>. QED
      BY <1>1, <1>2, <2>1, <2>3, <3>1 DEF Wanted, PREFIX_LEN
  <2>. QED
    BY <1>2, <2>2, <2>3 DEF PREFIX_LEN
<1>5. buf' \o stream' = buf \o stream
  BY <1>1, <1>2, PassByte
<1>6. Aligned => Aligned'
  BY <1>1, <1>5 DEF Aligned
<1>. QED
  BY <1>1, <1>3, <1>4, <1>6 DEF IInv

(* The buffer is full: it is the next frame, and no byte more.             *)
LEMMA ReturnFrameKeeps ==
    ASSUME IInv, ReturnFrame
    PROVE  IInv'
<1>1. PICK f \in decode_frame(buf) : got' = Append(got, f)
  BY DEF ReturnFrame
<1>2. Len(buf) = Wanted /\ buf' = <<>> /\ UNCHANGED <<stream, sent, cut>>
  BY DEF ReturnFrame
<1>3. /\ stream \in Seq(Byte) /\ buf \in Seq(Byte) /\ sent \in Seq(Frames)
      /\ got \in Seq([id : Nat, body : Seq(Byte)])
  BY DEF IInv, TypeOK
<1>4. Len(buf) >= PREFIX_LEN /\ Len(buf) = PREFIX_LEN + len_of(buf) /\ len_of(buf) \in Nat
  <2>1. Len(buf) \in Nat
    BY <1>3
  <2>2. ~ (Len(buf) < PREFIX_LEN)
    <3>1. Len(buf) < PREFIX_LEN => Wanted = PREFIX_LEN
      BY DEF Wanted
    <3>2. Len(buf) = Wanted
      BY <1>2
    <3>. QED
      BY <2>1, <3>1, <3>2 DEF PREFIX_LEN
  <2>3. Len(buf) >= PREFIX_LEN
    BY <2>1, <2>2 DEF PREFIX_LEN
  <2>. QED
    BY <1>2, <1>3, <2>2, <2>3, HeaderType DEF Wanted
<1>5. f \in [id : Nat, body : Seq(Byte)]
  <2>1. f = [id |-> id_of(buf), body |-> SubSeq(buf, PREFIX_LEN + 1, PREFIX_LEN + len_of(buf))]
    BY <1>1 DEF decode_frame
  <2>2. SubSeq(buf, PREFIX_LEN + 1, PREFIX_LEN + len_of(buf)) \in Seq(Byte)
    BY <1>3, <1>4 DEF PREFIX_LEN
  <2>. QED
    BY <1>3, <1>4, <2>1, <2>2, HeaderType
<1>6. TypeOK'
  BY <1>1, <1>2, <1>3, <1>5 DEF IInv, TypeOK
<1>7. (Len(buf) <= Wanted)'
  BY <1>2 DEF Wanted, PREFIX_LEN
<1>8. ASSUME ~ cut
      PROVE  Aligned'
  <2>1. PICK n \in 0 .. Len(sent) : got = SubSeq(sent, 1, n) /\ Follows(sent, buf \o stream, n)
    BY <1>8 DEF IInv, Aligned
  <2>2. buf # <<>>
    BY <1>4 DEF PREFIX_LEN
  <2>3. /\ n < Len(sent) /\ sent[n + 1] \in Sendable
        /\ \A i \in 1 .. Len(buf) :
              i <= PREFIX_LEN + Len(sent[n + 1].body) => buf[i] = frame_bytes(sent[n + 1])[i]
        /\ Len(buf) = PREFIX_LEN + Len(sent[n + 1].body) => Follows(sent, stream, n + 1)
    BY <1>3, <2>1, <2>2, FollowsNext
  <2>4. /\ len_of(buf) = Len(sent[n + 1].body)
        /\ decode_frame(buf) =
              IF Len(buf) < PREFIX_LEN + Len(sent[n + 1].body) THEN {} ELSE {sent[n + 1]}
    BY <1>3, <1>4, <2>3, ReadsAs
  <2>5. f = sent[n + 1]
    BY <1>1, <2>4
  <2>6. got' = SubSeq(sent', 1, n + 1)
    BY <1>1, <1>2, <1>3, <2>1, <2>3, <2>5
  <2>7. buf' \o stream' = stream
    BY <1>2, <1>3
  <2>8. n + 1 \in 0 .. Len(sent')
    BY <1>2, <1>3, <2>3
  <2>. QED
    BY <1>2, <1>4, <2>3, <2>4, <2>6, <2>7, <2>8 DEF Aligned
<1>. QED
  BY <1>2, <1>6, <1>7, <1>8 DEF IInv

(* Every step keeps IInv; after a dropped call only the types matter.      *)
LEMMA NextIInv == IInv /\ [Next]_vars => IInv'
<1> SUFFICES ASSUME IInv, [Next]_vars
             PROVE  IInv'
  OBVIOUS
<1>1. ASSUME NEW f \in Frames, Send(f)
      PROVE  IInv'
  BY <1>1, SendKeeps
<1>2. CASE ReadByte
  BY <1>2, ReadByteKeeps
<1>3. CASE ReturnFrame
  BY <1>3, ReturnFrameKeeps
<1>4. CASE DropRecv
  BY <1>4, EmptySeq DEF DropRecv, IInv, TypeOK, Wanted, PREFIX_LEN
<1>5. CASE UNCHANGED vars
  BY <1>5 DEF vars, IInv, TypeOK, Wanted, len_of, Aligned
<1>. QED
  BY <1>1, <1>2, <1>3, <1>4, <1>5 DEF Next, Recv

(* IInv is an invariant.                                                   *)
LEMMA SpecIInv == Spec => []IInv
BY InitIInv, NextIInv, PTL DEF Spec

(* The bytes and the frames have their types.                              *)
THEOREM FrameStreamTypeOK == Spec => []TypeOK
<1>1. IInv => TypeOK
  BY DEF IInv
<1>. QED
  BY <1>1, SpecIInv, PTL

(* Until a call of recv is dropped halfway the frames it returned are the  *)
(* first of those sent, in order, and all of them once all bytes are read. *)
THEOREM FrameStreamInStep == Spec => []InStepUntilCut
<1>1. IInv => InStepUntilCut
  <2> SUFFICES ASSUME IInv, ~ cut
               PROVE  InStep /\ (stream = <<>> /\ buf = <<>> => got = sent)
    BY DEF InStepUntilCut
  <2>1. PICK n \in 0 .. Len(sent) : got = SubSeq(sent, 1, n) /\ Follows(sent, buf \o stream, n)
    BY DEF IInv, Aligned
  <2>2. ASSUME stream = <<>>, buf = <<>>
        PROVE  got = sent
    <3>1. sent \in Seq(Frames) /\ Len(buf \o stream) = 0
      BY <2>2 DEF IInv, TypeOK
    <3>2. PICK e \in [n .. Len(sent) -> Nat] : Layout(sent, buf \o stream, n, e)
      BY <2>1 DEF Follows
    <3>3. n = Len(sent)
      <4>1. CASE n < Len(sent)
        <5>1. n + 1 \in n + 1 .. Len(sent) /\ n + 1 \in n .. Len(sent) /\ Len(sent) \in n .. Len(sent)
              /\ n + 1 <= Len(sent) /\ (n + 1) - 1 = n
          BY <3>1, <4>1
        <5>2. e[n] = 0 /\ e[Len(sent)] = 0 /\ e[n + 1] <= e[Len(sent)] /\ sent[n + 1] \in Sendable
              /\ e[n + 1] = e[n] + (PREFIX_LEN + Len(sent[n + 1].body))
          BY <3>1, <3>2, <5>1 DEF Layout
        <5>3. Len(sent[n + 1].body) \in Nat
          BY <5>2, SendableParts
        <5>. QED
          BY <5>2, <5>3 DEF PREFIX_LEN
      <4>. QED
        BY <3>1, <4>1
    <3>. QED
      BY <2>1, <3>1, <3>3
  <2>. QED
    BY <2>1, <2>2 DEF InStep
<1>. QED
  BY <1>1, SpecIInv, PTL

(* Of any requests, and whatever else is on the stream: those that are     *)
(* sent are read back as what they were, and only too long ones are not.   *)
THEOREM FrameStreamRequestsReadBack == Spec => []RequestsReadBack
<1>1. ASSUME IInv PROVE RequestsReadBack
  <2> SUFFICES ASSUME NEW f \in Requests
               PROVE  /\ encode_frame(f) = {} => Len(f.body) > MAX_BODY_LEN
                      /\ \A bytes \in encode_frame(f) : decode_frame(bytes \o stream) = {f}
    BY DEF RequestsReadBack
  <2>1. f \in Frame /\ stream \in Seq(Byte)
    BY <1>1, FramesAssumption DEF IInv, TypeOK
  <2>. QED
    BY <2>1, EncodeFrame, DecodeEncode
<1>. QED
  BY <1>1, SpecIInv, PTL
=============================================================================

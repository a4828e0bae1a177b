-------------------------- MODULE ClientLoopProofs --------------------------
(***************************************************************************)
(* Proofs about the network loop, for any number of commands and pushes.   *)
(*                                                                         *)
(* Pushes.  PushesInOrder is not inductive: it needs to know where the     *)
(* pushes that were not dispatched are.  IInv adds that                    *)
(*   - every push in a queue is newer than all dispatched ones;            *)
(*   - each queue is ordered, and what was set aside or is being drained   *)
(*     is older than what is still in the stream;                          *)
(*   - frames are set aside only while a response is awaited, and drained  *)
(*     only while none is, so the two never mix;                           *)
(*   - no push is missing below one that is in flight.                     *)
(* A step of the loop is then one of Delivery: what it hands over stands   *)
(* at its own number, and no more is handed over than was sent.            *)
(*                                                                         *)
(* Answers.  What is said of them is not inductive either.  AInv adds      *)
(* where requests and answers are:                                         *)
(*   - the channel holds the numbers that follow those of the requests     *)
(*     taken from it, so that a request keeps its place;                   *)
(*   - what the server still has, and each answer in the stream, is of a   *)
(*     request that was taken, and the answer has the id of its kind;      *)
(*   - no request is at once with the server, in the stream, and in the    *)
(*     outcome of another, or twice in one of them: its answer is used in  *)
(*     one place.                                                          *)
(***************************************************************************)
EXTENDS ClientLoop, TLAPS

Ordered(q) ==
    \A i, j \in DOMAIN q : i < j /\ IsPush(q[i]) /\ IsPush(q[j]) => q[i].tag < q[j].tag

Before(p, q) ==
    \A i \in DOMAIN p, j \in DOMAIN q : IsPush(p[i]) /\ IsPush(q[j]) => p[i].tag < q[j].tag

Tagged(q) ==
    \A i \in DOMAIN q : q[i].tag \in IF IsPush(q[i]) THEN Len(handled) + 1 .. npush
                                                     ELSE 1 .. MaxCmds

Places ==
    /\ awaiting = {} => pending = <<>>
    /\ todo # <<>> => awaiting = {}
    /\ ~ running => awaiting = {} /\ todo = <<>> /\ closed

NoGap ==
    \A n \in 1 .. npush : InFlight(n) => \A m \in Len(handled) + 1 .. n : InFlight(m)

IInv ==
    /\ TypeOK
    /\ Places
    /\ Tagged(todo) /\ Tagged(pending) /\ Tagged(down)
    /\ Ordered(todo) /\ Ordered(pending) /\ Ordered(down)
    /\ Before(todo, down) /\ Before(pending, down)
    /\ NoGap
    /\ PushesInOrder
    /\ Len(handled) <= npush
    /\ NoPushLost

-----------------------------------------------------------------------------
(* Sequences: what the head and tail of a queue are, and an appended one.  *)
LEMMA HeadTail ==
    ASSUME NEW S, NEW q \in Seq(S), q # <<>>
    PROVE  /\ Head(q) = q[1] /\ Head(q) \in S
           /\ Tail(q) \in Seq(S)
           /\ Len(q) \in Nat \ {0} /\ DOMAIN q = 1 .. Len(q)
           /\ DOMAIN Tail(q) = 1 .. (Len(q) - 1)
           /\ \A i \in DOMAIN Tail(q) : Tail(q)[i] = q[i + 1]
OBVIOUS

(* What an appended element does to a sequence.                            *)
LEMMA Appended ==
    ASSUME NEW S, NEW q \in Seq(S), NEW e \in S
    PROVE  /\ Append(q, e) \in Seq(S)
           /\ Len(q) \in Nat /\ DOMAIN q = 1 .. Len(q)
           /\ Len(Append(q, e)) = Len(q) + 1
           /\ DOMAIN Append(q, e) = 1 .. Len(q) + 1
           /\ \A i \in DOMAIN q : Append(q, e)[i] = q[i]
           /\ Append(q, e)[Len(q) + 1] = e
OBVIOUS

(* An empty queue holds no push and disturbs no order.                     *)
LEMMA EmptyQueue ==
    ASSUME NEW q, q = <<>>
    PROVE  /\ Tagged(q) /\ Ordered(q)
           /\ \A p : Before(q, p) /\ Before(p, q)
           /\ \A n : ~ Holds(q, n)
           /\ q \in Seq(Frame)
BY DEF Tagged, Ordered, Before, Holds

(* Taking the head of a queue keeps its order, and what it held is either  *)
(* the head or still held.                                                 *)
LEMMA TailQueue ==
    ASSUME NEW q \in Seq(Frame), q # <<>>
    PROVE  /\ Tail(q) \in Seq(Frame) /\ Head(q) \in Frame
           /\ Ordered(q) => Ordered(Tail(q))
           /\ \A p : Before(q, p) => Before(Tail(q), p)
           /\ \A p : Before(p, q) => Before(p, Tail(q))
           /\ \A n : Holds(q, n) <=> Holds(Tail(q), n) \/ (IsPush(Head(q)) /\ Head(q).tag = n)
           /\ Ordered(q) /\ IsPush(Head(q)) => \A n : Holds(Tail(q), n) => Head(q).tag < n
<1>1. /\ Head(q) = q[1] /\ Head(q) \in Frame
      /\ Tail(q) \in Seq(Frame)
      /\ Len(q) \in Nat \ {0} /\ DOMAIN q = 1 .. Len(q)
      /\ DOMAIN Tail(q) = 1 .. (Len(q) - 1)
      /\ \A i \in DOMAIN Tail(q) : Tail(q)[i] = q[i + 1]
  BY HeadTail
<1>2. \A i \in DOMAIN Tail(q) : i + 1 \in DOMAIN q
  BY <1>1
<1>3. \A i \in DOMAIN q : i = 1 \/ (i - 1 \in DOMAIN Tail(q) /\ Tail(q)[i - 1] = q[i])
  BY <1>1
<1>4. Ordered(q) => Ordered(Tail(q))
  BY <1>1, <1>2 DEF Ordered
<1>5. \A p : Before(q, p) => Before(Tail(q), p)
  BY <1>1, <1>2 DEF Before
<1>6. \A p : Before(p, q) => Before(p, Tail(q))
  BY <1>1, <1>2 DEF Before
<1>7. \A n : Holds(q, n) <=> Holds(Tail(q), n) \/ (IsPush(Head(q)) /\ Head(q).tag = n)
  <2>1. ASSUME NEW n, Holds(q, n)
        PROVE  Holds(Tail(q), n) \/ (IsPush(Head(q)) /\ Head(q).tag = n)
    BY <2>1, <1>1, <1>3 DEF Holds
  <2>2. ASSUME NEW n, Holds(Tail(q), n)
        PROVE  Holds(q, n)
    BY <2>2, <1>1, <1>2 DEF Holds
  <2>3. ASSUME NEW n, IsPush(Head(q)), Head(q).tag = n
        PROVE  Holds(q, n)
    BY <2>3, <1>1 DEF Holds
  <2>. QED
    BY <2>1, <2>2, <2>3
<1>8. ASSUME Ordered(q), IsPush(Head(q)), NEW n, Holds(Tail(q), n)
      PROVE  Head(q).tag < n
  <2>1. PICK i \in DOMAIN Tail(q) : IsPush(Tail(q)[i]) /\ Tail(q)[i].tag = n
    BY <1>8 DEF Holds
  <2>2. 1 \in DOMAIN q /\ i + 1 \in DOMAIN q /\ 1 < i + 1 /\ q[i + 1] = Tail(q)[i]
    BY <1>1, <1>2, <2>1
  <2>. QED
    BY <1>1, <1>8, <2>1, <2>2 DEF Ordered
<1>. QED
  BY <1>1, <1>4, <1>5, <1>6, <1>7, <1>8

(* Appending a frame that is newer than what the queue holds keeps it      *)
(* ordered; its place against another queue is decided by that frame.      *)
LEMMA AppendQueue ==
    ASSUME NEW q \in Seq(Frame), NEW f \in Frame
    PROVE  /\ Append(q, f) \in Seq(Frame)
           /\ \A n : Holds(Append(q, f), n) <=> Holds(q, n) \/ (IsPush(f) /\ f.tag = n)
           /\ Ordered(q) /\ (IsPush(f) => \A n : Holds(q, n) => n < f.tag)
                 => Ordered(Append(q, f))
           /\ \A p : Before(p, q) /\ (IsPush(f) => \A n : Holds(p, n) => n < f.tag)
                 => Before(p, Append(q, f))
           /\ \A p : Before(q, p) /\ (IsPush(f) => \A n : Holds(p, n) => f.tag < n)
                 => Before(Append(q, f), p)
<1> DEFINE a == Append(q, f)
<1>1. /\ a \in Seq(Frame)
      /\ Len(q) \in Nat /\ DOMAIN q = 1 .. Len(q)
      /\ DOMAIN a = 1 .. Len(q) + 1
      /\ \A i \in DOMAIN q : a[i] = q[i]
      /\ a[Len(q) + 1] = f
  BY Appended
<1> HIDE DEF a
<1>2. \A i \in DOMAIN a : i \in DOMAIN q \/ i = Len(q) + 1
  BY <1>1
<1>3. Len(q) + 1 \in DOMAIN a
  BY <1>1
<1>4. \A i \in DOMAIN q : i \in DOMAIN a /\ i < Len(q) + 1
  BY <1>1
<1>5. \A n : Holds(a, n) <=> Holds(q, n) \/ (IsPush(f) /\ f.tag = n)
  <2>1. ASSUME NEW n, Holds(a, n)
        PROVE  Holds(q, n) \/ (IsPush(f) /\ f.tag = n)
    <3>1. PICK i \in DOMAIN a : IsPush(a[i]) /\ a[i].tag = n
      BY <2>1 DEF Holds
    <3>2. CASE i \in DOMAIN q
      BY <3>1, <3>2, <1>1 DEF Holds
    <3>3. CASE i = Len(q) + 1
      BY <3>1, <3>3, <1>1
    <3>. QED
      BY <3>2, <3>3, <1>2
  <2>2. ASSUME NEW n, Holds(q, n)
        PROVE  Holds(a, n)
    BY <2>2, <1>1, <1>4 DEF Holds
  <2>3. ASSUME NEW n, IsPush(f), f.tag = n
        PROVE  Holds(a, n)
    BY <2>3, <1>1, <1>3 DEF Holds
  <2>. QED
    BY <2>1, <2>2, <2>3
<1>6. ASSUME Ordered(q), IsPush(f) => \A n : Holds(q, n) => n < f.tag
      PROVE  Ordered(a)
  <2> SUFFICES ASSUME NEW i \in DOMAIN a, NEW j \in DOMAIN a, i < j,
                      IsPush(a[i]), IsPush(a[j])
               PROVE  a[i].tag < a[j].tag
    BY DEF Ordered
  <2>1. i \in DOMAIN q
    BY <1>1
  <2>2. CASE j \in DOMAIN q
    BY <1>1, <1>6, <2>1, <2>2 DEF Ordered
  <2>3. CASE j = Len(q) + 1
    BY <1>1, <1>6, <2>1, <2>3 DEF Holds
  <2>. QED
    BY <1>2, <2>2, <2>3
<1>7. ASSUME NEW p, Before(p, q), IsPush(f) => \A n : Holds(p, n) => n < f.tag
      PROVE  Before(p, a)
  <2> SUFFICES ASSUME NEW i \in DOMAIN p, NEW j \in DOMAIN a, IsPush(p[i]), IsPush(a[j])
               PROVE  p[i].tag < a[j].tag
    BY DEF Before
  <2>1. CASE j \in DOMAIN q
    BY <1>1, <1>7, <2>1 DEF Before
  <2>2. CASE j = Len(q) + 1
    BY <1>1, <1>7, <2>2 DEF Holds
  <2>. QED
    BY <1>2, <2>1, <2>2
<1>8. ASSUME NEW p, Before(q, p), IsPush(f) => \A n : Holds(p, n) => f.tag < n
      PROVE  Before(a, p)
  <2> SUFFICES ASSUME NEW i \in DOMAIN a, NEW j \in DOMAIN p, IsPush(a[i]), IsPush(p[j])
               PROVE  a[i].tag < p[j].tag
    BY DEF Before
  <2>1. CASE i \in DOMAIN q
    BY <1>1, <1>8, <2>1 DEF Before
  <2>2. CASE i = Len(q) + 1
    BY <1>1, <1>8, <2>2 DEF Holds
  <2>. QED
    BY <1>2, <2>1, <2>2
<1>. QED
  BY <1>1, <1>5, <1>6, <1>7, <1>8 DEF a

(* A push that one queue holds is older than those of a later queue.       *)
LEMMA BeforeHolds ==
    ASSUME NEW p, NEW q, Before(p, q), NEW m, NEW n, Holds(p, m), Holds(q, n)
    PROVE  m < n
BY DEF Before, Holds

(* Handing over the oldest push in flight keeps the order: it is the one   *)
(* right after the last dispatched, because nothing is missing below it.   *)
LEMMA Dispatch ==
    ASSUME TypeOK, PushesInOrder, NoGap, NoPushLost, Len(handled) <= npush,
           NEW f \in Frame, HandlePush(f),
           IsPush(f) => /\ f.tag \in Len(handled) + 1 .. npush
                        /\ InFlight(f.tag)
                        /\ \A n \in 1 .. npush : InFlight(n) => f.tag <= n,
           \A n \in 1 .. npush : InFlight(n)' <=> InFlight(n) /\ ~ (IsPush(f) /\ n = f.tag),
           npush' = npush, running' = running, closed' = closed
    PROVE  /\ handled' \in Seq(1 .. MaxPushes)
           /\ PushesInOrder' /\ NoGap' /\ NoPushLost'
           /\ Len(handled') <= npush'
           /\ IsPush(f) => Len(handled') = Len(handled) + 1 /\ f.tag = Len(handled) + 1
           /\ ~ IsPush(f) => handled' = handled
<1>0. Len(handled) \in Nat /\ npush \in Nat /\ npush <= MaxPushes /\ MaxPushes \in Nat
  BY BoundsAssumption DEF TypeOK
<1>1. CASE ~ IsPush(f)
  <2>1. handled' = handled
    BY <1>1 DEF HandlePush
  <2>2. \A n \in 1 .. npush : InFlight(n)' <=> InFlight(n)
    BY <1>1
  <2>3. NoGap'
    BY <1>0, <2>1, <2>2 DEF NoGap
  <2>4. NoPushLost'
    BY <1>0, <2>1, <2>2 DEF NoPushLost
  <2>. QED
    BY <1>1, <2>1, <2>3, <2>4 DEF TypeOK, PushesInOrder
<1>2. CASE IsPush(f)
  <2>0. Len(handled) \in Nat /\ npush \in Nat /\ npush <= MaxPushes /\ MaxPushes \in Nat
    BY <1>0
  <2>1. f.tag = Len(handled) + 1
    <3>1. Len(handled) + 1 \in Len(handled) + 1 .. f.tag /\ f.tag \in 1 .. npush
      BY <1>2, <2>0
    <3>2. InFlight(Len(handled) + 1)
      BY <1>2, <3>1 DEF NoGap
    <3>. QED
      BY <1>2, <2>0, <3>1, <3>2
  <2>2. handled' = Append(handled, f.tag)
    BY <1>2 DEF HandlePush
  <2>3. f.tag \in 1 .. MaxPushes /\ handled \in Seq(1 .. MaxPushes)
    BY <1>2, <2>0 DEF TypeOK
  <2>4. /\ handled' \in Seq(1 .. MaxPushes)
        /\ Len(handled') = Len(handled) + 1
        /\ DOMAIN handled' = 1 .. Len(handled) + 1
        /\ DOMAIN handled = 1 .. Len(handled)
        /\ \A i \in DOMAIN handled : handled'[i] = handled[i]
        /\ handled'[Len(handled) + 1] = f.tag
    BY <2>2, <2>3, Appended
  <2>5. PushesInOrder'
    BY <2>0, <2>1, <2>4 DEF PushesInOrder
  <2>6. NoGap'
    BY <1>2, <2>0, <2>1, <2>4 DEF NoGap
  <2>7. NoPushLost'
    BY <1>2, <2>0, <2>1, <2>4 DEF NoPushLost
  <2>. QED
    BY <1>2, <2>0, <2>1, <2>4, <2>5, <2>6, <2>7
<1>. QED
  BY <1>1, <1>2

-----------------------------------------------------------------------------
(* The loop starts with empty queues, which satisfy the invariant.         *)
THEOREM InitIInv == Init => IInv
<1> SUFFICES ASSUME Init
             PROVE  IInv
  OBVIOUS
<1>1. TypeOK
  <2>1. \A S : <<>> \in Seq(S)
    OBVIOUS
  <2>2. 0 \in 0 .. MaxCmds /\ 0 \in 0 .. MaxPushes
    BY BoundsAssumption
  <2>. QED
    BY <2>1, <2>2, Zenon DEF Init, TypeOK
<1>2. /\ Tagged(todo) /\ Tagged(pending) /\ Tagged(down)
      /\ Ordered(todo) /\ Ordered(pending) /\ Ordered(down)
      /\ Before(todo, down) /\ Before(pending, down)
  BY EmptyQueue DEF Init
<1>3. Places
  BY DEF Init, Places
<1>4. NoGap /\ NoPushLost
  BY DEF Init, NoGap, NoPushLost
<1>5. PushesInOrder
  BY DEF Init, PushesInOrder
<1>. QED
  BY <1>1, <1>2, <1>3, <1>4, <1>5 DEF Init, IInv

(* Taking the head of a queue for handle_push: the other queues move up.   *)
LEMMA TaggedTail ==
    ASSUME TypeOK, NEW q \in Seq(Frame), q # <<>>, Tagged(q), Ordered(q),
           handled' \in Seq(1 .. MaxPushes), npush' = npush,
           IsPush(Head(q)) => Len(handled') = Len(handled) + 1 /\ Head(q).tag = Len(handled) + 1,
           ~ IsPush(Head(q)) => handled' = handled
    PROVE  \A i \in DOMAIN Tail(q) :
              Tail(q)[i].tag \in IF IsPush(Tail(q)[i]) THEN Len(handled') + 1 .. npush'
                                                      ELSE 1 .. MaxCmds
<1>1. /\ Head(q) = q[1]
      /\ Len(q) \in Nat \ {0} /\ DOMAIN q = 1 .. Len(q)
      /\ DOMAIN Tail(q) = 1 .. (Len(q) - 1)
      /\ \A i \in DOMAIN Tail(q) : Tail(q)[i] = q[i + 1]
  BY HeadTail
<1>2. Len(handled) \in Nat /\ npush \in Nat
  BY DEF TypeOK
<1>3. ASSUME NEW i \in DOMAIN Tail(q)
      PROVE  Tail(q)[i].tag \in IF IsPush(Tail(q)[i]) THEN Len(handled') + 1 .. npush'
                                                     ELSE 1 .. MaxCmds
  <2>1. i + 1 \in DOMAIN q /\ 1 \in DOMAIN q /\ Tail(q)[i] = q[i + 1] /\ 1 < i + 1
    BY <1>1
  <2>2. CASE ~ IsPush(Tail(q)[i])
    BY <2>1, <2>2 DEF Tagged
  <2>3. CASE IsPush(Tail(q)[i])
    <3>1. q[i + 1].tag \in Len(handled) + 1 .. npush
      BY <2>1, <2>3 DEF Tagged
    <3>2. IsPush(Head(q)) => Head(q).tag < q[i + 1].tag
      BY <1>1, <2>1, <2>3 DEF Ordered
    <3>. QED
      BY <1>2, <2>1, <2>3, <3>1, <3>2
  <2>. QED
    BY <2>2, <2>3
<1>. QED
  BY <1>3

(* The tail of a queue whose head moved elsewhere or was no push.          *)
LEMMA TaggedRest ==
    ASSUME NEW q \in Seq(Frame), q # <<>>, Tagged(q)
    PROVE  /\ Tagged(Tail(q))
           /\ Head(q).tag \in IF IsPush(Head(q)) THEN Len(handled) + 1 .. npush ELSE 1 .. MaxCmds
<1>1. /\ Head(q) = q[1]
      /\ Len(q) \in Nat \ {0} /\ DOMAIN q = 1 .. Len(q)
      /\ DOMAIN Tail(q) = 1 .. (Len(q) - 1)
      /\ \A i \in DOMAIN Tail(q) : Tail(q)[i] = q[i + 1]
  BY HeadTail
<1>2. 1 \in DOMAIN q /\ \A i \in DOMAIN Tail(q) : i + 1 \in DOMAIN q
  BY <1>1
<1>. QED
  BY <1>1, <1>2 DEF Tagged

(* A step that moves no frame and dispatches none keeps IInv.              *)
LEMMA QueuesUnchanged ==
    ASSUME IInv, TypeOK', Places',
           UNCHANGED <<todo, pending, down, handled, npush>>,
           running' => running, closed => closed'
    PROVE  IInv'
<1>1. (Tagged(todo) /\ Tagged(pending) /\ Tagged(down))'
  BY DEF IInv, Tagged
<1>2. \A n : InFlight(n)' <=> InFlight(n)
  BY DEF InFlight
<1>3. (NoGap /\ NoPushLost)'
  BY <1>2 DEF IInv, NoGap, NoPushLost
<1>. QED
  BY <1>1, <1>3 DEF IInv, PushesInOrder

(* The end of a command turns what it set aside into what is drained.  If  *)
(* the stream is cut short then, the connection is closed.                 *)
LEMMA CommandOver ==
    ASSUME IInv, NEW r \in awaiting, NEW by \in 0 .. MaxCmds, Finish(r, by),
           UNCHANGED <<cmds, running, up, closed, nreq, npush, handled>>,
           \/ down' = down
           \/ down # <<>> /\ ~ IsPush(Head(down)) /\ down' = Tail(down)
           \/ closed /\ down' = <<>>
    PROVE  IInv'
<1>1. /\ todo = <<>> /\ running
      /\ todo' = pending /\ pending' = <<>> /\ awaiting' = {}
  BY DEF IInv, Places, Finish
<1>2. outcome' \in Seq(Outcome)
  <2>1. [tag |-> r.tag, kind |-> r.kind, by |-> by] \in Outcome
    BY DEF IInv, TypeOK, Request, Outcome
  <2>. QED
    BY <2>1, Appended DEF IInv, TypeOK, Finish
<1>3. /\ down' \in Seq(Frame)
      /\ Tagged(down') /\ Ordered(down')
      /\ Before(pending, down')
      /\ \A n : Holds(down', n) => Holds(down, n)
      /\ ~ closed => \A n : Holds(down, n) => Holds(down', n)
  <2>1. CASE down' = down
    BY <2>1 DEF IInv, TypeOK
  <2>2. CASE down # <<>> /\ ~ IsPush(Head(down)) /\ down' = Tail(down)
    BY <2>2, TailQueue, TaggedRest DEF IInv, TypeOK
  <2>3. CASE closed /\ down' = <<>>
    BY <2>3, EmptyQueue
  <2>. QED
    BY <2>1, <2>2, <2>3
<1>4. TypeOK'
  BY <1>1, <1>2, <1>3, EmptyQueue DEF IInv, TypeOK
<1>5. (Tagged(todo) /\ Tagged(pending) /\ Tagged(down))'
  BY <1>1, <1>3, EmptyQueue DEF IInv, Tagged
<1>6. /\ (Ordered(todo) /\ Ordered(pending) /\ Ordered(down))'
      /\ (Before(todo, down) /\ Before(pending, down))'
  BY <1>1, <1>3, EmptyQueue DEF IInv
<1>7. \A n : ~ Holds(todo, n) /\ ~ Holds(pending', n)
  BY <1>1, EmptyQueue
<1>8. /\ \A n : InFlight(n)' => InFlight(n)
      /\ ~ closed => \A n : InFlight(n) => InFlight(n)'
  BY <1>1, <1>3, <1>7 DEF InFlight
<1>9. NoGap'
  <2> SUFFICES ASSUME NEW n \in 1 .. npush, InFlight(n)', NEW m \in Len(handled) + 1 .. n
               PROVE  InFlight(m)'
    BY DEF NoGap
  <2>1. InFlight(n) /\ InFlight(m)
    BY <1>8 DEF IInv, NoGap
  <2>2. n \in Nat /\ m \in Nat /\ m <= n
    BY DEF IInv, TypeOK
  <2>3. CASE Holds(pending, m)
    BY <1>1, <2>3 DEF InFlight
  <2>4. CASE Holds(down, m) /\ Holds(pending, n)
    <3>1. n < m
      BY <2>4, BeforeHolds DEF IInv
    <3>. QED
      BY <2>2, <3>1
  <2>5. CASE Holds(down, m) /\ Holds(down', n)
    <3>1. down' # <<>>
      BY <2>5, EmptyQueue
    <3>2. Holds(down', m)
      BY <2>5, <3>1, TailQueue DEF IInv, TypeOK
    <3>. QED
      BY <3>2 DEF InFlight
  <2>6. Holds(pending, m) \/ Holds(down, m)
    BY <1>7, <2>1 DEF InFlight
  <2>7. Holds(pending, n) \/ Holds(down', n)
    BY <1>1, <1>7 DEF InFlight
  <2>. QED
    BY <2>3, <2>4, <2>5, <2>6, <2>7
<1>10. NoPushLost'
  BY <1>8 DEF IInv, NoPushLost
<1>11. Places'
  BY <1>1 DEF Places, IInv, TypeOK
<1>. QED
  BY <1>4, <1>5, <1>6, <1>9, <1>10, <1>11 DEF IInv, PushesInOrder

(* The server's frames join the stream's end; a push is the newest one.    *)
LEMMA ServerSends ==
    ASSUME IInv, NEW f \in Frame, down' = Append(down, f),
           UNCHANGED <<client, handled, closed>>, ~ closed, TypeOK',
           \/ IsPush(f) /\ f.tag = npush + 1 /\ npush' = npush + 1
           \/ ~ IsPush(f) /\ f.tag \in 1 .. MaxCmds /\ npush' = npush
    PROVE  IInv'
<1>0. /\ npush \in Nat /\ Len(handled) \in Nat /\ npush' \in Nat /\ npush <= npush'
      /\ down \in Seq(Frame)
  BY DEF IInv, TypeOK
<1>1. /\ Len(down) \in Nat /\ DOMAIN down = 1 .. Len(down)
      /\ DOMAIN down' = 1 .. Len(down) + 1
      /\ \A i \in DOMAIN down : down'[i] = down[i]
      /\ down'[Len(down) + 1] = f
  BY <1>0, Appended
<1>2. Len(handled) <= npush
  BY DEF IInv
<1>3. \A q \in {todo, pending, down} : \A n : Holds(q, n) => n \in Len(handled) + 1 .. npush
  BY DEF IInv, Tagged, Holds
<1>4. (Tagged(todo) /\ Tagged(pending))'
  <2>1. /\ todo' = todo /\ pending' = pending /\ handled' = handled
    BY DEF client
  <2>2. \A i \in DOMAIN todo :
            todo[i].tag \in IF IsPush(todo[i]) THEN Len(handled) + 1 .. npush' ELSE 1 .. MaxCmds
    BY <1>0 DEF IInv, Tagged
  <2>3. \A i \in DOMAIN pending :
            pending[i].tag \in IF IsPush(pending[i]) THEN Len(handled) + 1 .. npush' ELSE 1 .. MaxCmds
    BY <1>0 DEF IInv, Tagged
  <2>. QED
    BY <2>1, <2>2, <2>3 DEF Tagged
<1>5. Tagged(down)'
  <2> SUFFICES ASSUME NEW i \in DOMAIN down'
               PROVE  down'[i].tag \in IF IsPush(down'[i]) THEN Len(handled) + 1 .. npush'
                                                           ELSE 1 .. MaxCmds
    BY DEF Tagged
  <2>1. CASE i \in DOMAIN down
    BY <1>0, <1>1, <2>1 DEF IInv, Tagged
  <2>2. CASE i = Len(down) + 1
    <3>1. down'[i] = f
      BY <1>1, <2>2
    <3>2. IsPush(f) => f.tag \in Len(handled) + 1 .. npush'
      BY <1>0, <1>2
    <3>. QED
      BY <3>1, <3>2
  <2>. QED
    BY <1>1, <2>1, <2>2
<1>6. IsPush(f) => \A q \in {todo, pending, down} : \A n : Holds(q, n) => n < f.tag
  BY <1>0, <1>3
<1>7. /\ (Ordered(todo) /\ Ordered(pending) /\ Ordered(down))'
      /\ (Before(todo, down) /\ Before(pending, down))'
  BY <1>0, <1>6, AppendQueue DEF IInv, client
<1>8. \A n : InFlight(n)' <=> InFlight(n) \/ (IsPush(f) /\ n = f.tag)
  BY <1>0, AppendQueue DEF InFlight, client
<1>9. /\ running' = running
      /\ handled' = handled
  BY DEF client
<1>10. running
  BY DEF IInv, Places
<1>11. NoPushLost'
  BY <1>0, <1>8, <1>9, <1>10 DEF IInv, NoPushLost
<1>12. NoGap'
  BY <1>0, <1>8, <1>9, <1>10, <1>11 DEF NoGap, NoPushLost
<1>. QED
  BY <1>0, <1>2, <1>4, <1>5, <1>7, <1>9, <1>11, <1>12 DEF IInv, PushesInOrder, Places, client

(* One step of the loop, the UI or the server keeps IInv.                  *)
THEOREM NextIInv == IInv /\ [Next]_vars => IInv'
<1> SUFFICES ASSUME IInv, [Next]_vars
             PROVE  IInv'
  OBVIOUS
<1>0. /\ TypeOK /\ Places
      /\ todo \in Seq(Frame) /\ pending \in Seq(Frame) /\ down \in Seq(Frame)
      /\ cmds \in Seq(Request) /\ outcome \in Seq(Outcome)
      /\ npush \in Nat /\ Len(handled) \in Nat
  BY DEF IInv, TypeOK
<1>1. ASSUME NEW kind \in Kinds, Submit(kind)
      PROVE  IInv'
  <2>1. [tag |-> nreq', kind |-> kind] \in Request /\ nreq' \in 0 .. MaxCmds
    BY <1>0, <1>1, BoundsAssumption DEF Submit, TypeOK, Request
  <2>2. cmds' \in Seq(Request)
    BY <1>0, <1>1, <2>1, Appended DEF Submit
  <2>3. TypeOK' /\ Places'
    BY <1>0, <1>1, <2>1, <2>2 DEF Submit, client, network, TypeOK, Places
  <2>. QED
    BY <1>1, <2>3, QueuesUnchanged DEF Submit, client, network
<1>2. CASE RecvPush
  <2>1. /\ todo = <<>> /\ awaiting = {} /\ pending = <<>> /\ down # <<>> /\ running
        /\ HandlePush(Head(down)) /\ down' = Tail(down)
        /\ UNCHANGED <<cmds, awaiting, pending, todo, running, up, closed, nreq, npush, outcome>>
    BY <1>0, <1>2 DEF RecvPush, AtSelect, client, Places
  <2> DEFINE f == Head(down)
  <2>2. /\ f \in Frame /\ Tail(down) \in Seq(Frame)
        /\ \A n : Holds(down, n) <=> Holds(Tail(down), n) \/ (IsPush(f) /\ f.tag = n)
        /\ IsPush(f) => \A n : Holds(Tail(down), n) => f.tag < n
        /\ f.tag \in IF IsPush(f) THEN Len(handled) + 1 .. npush ELSE 1 .. MaxCmds
    BY <1>0, <2>1, TailQueue, TaggedRest DEF IInv
  <2>3. \A n : ~ Holds(todo, n) /\ ~ Holds(pending, n)
    BY <2>1, EmptyQueue
  <2>4. /\ \A n : InFlight(n) <=> Holds(down, n)
        /\ \A n : InFlight(n)' <=> Holds(Tail(down), n)
    BY <2>1, <2>3 DEF InFlight
  <2> HIDE DEF f
  <2>5. ASSUME IsPush(f)
        PROVE  /\ f.tag \in Len(handled) + 1 .. npush
               /\ InFlight(f.tag)
               /\ \A n \in 1 .. npush : InFlight(n) => f.tag <= n
    <3>1. f.tag \in Len(handled) + 1 .. npush /\ f.tag \in Nat
      BY <1>0, <2>2, <2>5
    <3>2. InFlight(f.tag)
      BY <2>2, <2>4, <2>5
    <3>3. ASSUME NEW n \in 1 .. npush, InFlight(n)
          PROVE  f.tag <= n
      <4>1. f.tag = n \/ f.tag < n
        BY <2>2, <2>4, <2>5, <3>3
      <4>. QED
        BY <1>0, <3>1, <4>1
    <3>. QED
      BY <3>1, <3>2, <3>3
  <2>6. \A n \in 1 .. npush : InFlight(n)' <=> InFlight(n) /\ ~ (IsPush(f) /\ n = f.tag)
    BY <1>0, <2>2, <2>4
  <2>7. /\ handled' \in Seq(1 .. MaxPushes)
        /\ PushesInOrder' /\ NoGap' /\ NoPushLost' /\ Len(handled') <= npush'
        /\ IsPush(f) => Len(handled') = Len(handled) + 1 /\ f.tag = Len(handled) + 1
        /\ ~ IsPush(f) => handled' = handled
    BY <2>1, <2>2, <2>5, <2>6, Dispatch DEF IInv, f
  <2>8. Tagged(down)'
    BY <1>0, <2>1, <2>7, TaggedTail DEF IInv, f, Tagged
  <2>9. /\ (Tagged(todo) /\ Tagged(pending))'
        /\ (Ordered(todo) /\ Ordered(pending) /\ Ordered(down))'
        /\ (Before(todo, down) /\ Before(pending, down))'
    BY <1>0, <2>1, EmptyQueue, TailQueue DEF IInv, Tagged
  <2>10. TypeOK' /\ Places'
    BY <1>0, <2>1, <2>2, <2>7 DEF TypeOK, Places
  <2>. QED
    BY <2>7, <2>8, <2>9, <2>10 DEF IInv
<1>3. CASE ConnectionLost
  <2>1. /\ todo = <<>> /\ awaiting = {} /\ pending = <<>> /\ closed
        /\ ~ running' /\ down' = <<>> /\ cmds' = <<>>
        /\ UNCHANGED <<awaiting, pending, todo, up, closed, nreq, npush, handled, outcome>>
    BY <1>0, <1>3 DEF ConnectionLost, AtSelect, Places
  <2>2. \A n : ~ InFlight(n)'
    BY <2>1, EmptyQueue DEF InFlight
  <2>3. running' \in BOOLEAN
    BY <1>3 DEF ConnectionLost
  <2>4. /\ TypeOK' /\ Places'
    BY <1>0, <2>1, <2>3 DEF TypeOK, Places
  <2>5. /\ (Tagged(todo) /\ Tagged(pending) /\ Tagged(down))'
        /\ (Ordered(todo) /\ Ordered(pending) /\ Ordered(down))'
        /\ (Before(todo, down) /\ Before(pending, down))'
    BY <2>1, EmptyQueue DEF Tagged
  <2>6. NoGap' /\ NoPushLost'
    BY <2>1, <2>2 DEF NoGap, NoPushLost
  <2>. QED
    BY <2>1, <2>4, <2>5, <2>6 DEF IInv, PushesInOrder
<1>4. CASE SendRequest
  <2>1. Head(cmds) \in Request /\ Tail(cmds) \in Seq(Request)
    BY <1>0, <1>4, HeadTail DEF SendRequest
  <2>2. TypeOK'
    BY <1>0, <1>4, <2>1 DEF SendRequest, TypeOK
  <2>3. Places'
    BY <1>0, <1>4 DEF SendRequest, AtSelect, Places
  <2>. QED
    BY <1>4, <2>2, <2>3, QueuesUnchanged DEF SendRequest
<1>5. CASE SendFails
  <2>1. Head(cmds) \in Request /\ Tail(cmds) \in Seq(Request)
    BY <1>0, <1>5, HeadTail DEF SendFails
  <2>2. /\ todo = <<>> /\ awaiting = {} /\ pending = <<>>
        /\ UNCHANGED <<awaiting, todo, pending>>
    BY <1>0, <1>5 DEF SendFails, AtSelect, Places, Finish
  <2>3. [tag |-> Head(cmds).tag, kind |-> Head(cmds).kind, by |-> 0] \in Outcome
    BY <2>1, BoundsAssumption DEF Request, Outcome
  <2>4. outcome' \in Seq(Outcome)
    BY <1>0, <1>5, <2>3, Appended DEF SendFails, Finish
  <2>5. TypeOK' /\ Places'
    BY <1>0, <1>5, <2>1, <2>2, <2>4 DEF SendFails, network, TypeOK, Places
  <2>. QED
    BY <1>5, <2>2, <2>5, QueuesUnchanged DEF SendFails, network
<1>6. CASE AcceptResponse
  <2>1. PICK r \in awaiting :
            /\ down # <<>>
            /\ Head(down).id = ResponseId[r.kind]
            /\ Finish(r, Head(down).tag)
            /\ down' = Tail(down)
            /\ UNCHANGED <<cmds, running, up, closed, nreq, npush, handled>>
    BY <1>6 DEF AcceptResponse
  <2>2. r.kind \in Kind
    BY <1>0, KindsAssumption DEF TypeOK, Request
  <2>3. ~ IsPush(Head(down))
    BY <2>1, <2>2 DEF IsPush, PushId, Kind, ResponseId, NOTIFY_ADD_FRIEND,
        NOTIFY_AUTH_FRIEND, NOTIFY_TEXT_CHAT, TEXT_CHAT_RESPONSE, SEARCH_RESPONSE,
        ADD_FRIEND_RESPONSE, AUTH_FRIEND_RESPONSE
  <2>4. Head(down).tag \in 0 .. MaxCmds
    BY <1>0, <2>1, <2>3, TaggedRest, BoundsAssumption DEF IInv
  <2>. QED
    BY <2>1, <2>3, <2>4, CommandOver
<1>7. CASE CollectFrame
  <2>1. PICK r \in awaiting : down # <<>> /\ pending' = Append(pending, Head(down)) /\ down' = Tail(down)
    BY <1>7 DEF CollectFrame
  <2>2. UNCHANGED <<cmds, awaiting, todo, running, up, closed, nreq, npush, handled, outcome>>
    BY <1>7 DEF CollectFrame
  <2> DEFINE f == Head(down)
  <2>3. /\ f \in Frame /\ Tail(down) \in Seq(Frame)
        /\ Ordered(Tail(down)) /\ Tagged(Tail(down))
        /\ Before(pending, Tail(down)) /\ Before(todo, Tail(down))
        /\ \A n : Holds(down, n) <=> Holds(Tail(down), n) \/ (IsPush(f) /\ f.tag = n)
        /\ IsPush(f) => \A n : Holds(Tail(down), n) => f.tag < n
        /\ f.tag \in IF IsPush(f) THEN Len(handled) + 1 .. npush ELSE 1 .. MaxCmds
    BY <1>0, <2>1, TailQueue, TaggedRest DEF IInv
  <2> HIDE DEF f
  <2>4. IsPush(f) => \A n : Holds(pending, n) => n < f.tag
    BY <2>3, BeforeHolds DEF IInv
  <2>5. pending' = Append(pending, f)
    BY <2>1 DEF f
  <2>6. /\ pending' \in Seq(Frame)
        /\ \A n : Holds(pending', n) <=> Holds(pending, n) \/ (IsPush(f) /\ f.tag = n)
        /\ Ordered(pending')
        /\ Before(pending', Tail(down))
    BY <1>0, <2>3, <2>4, <2>5, AppendQueue DEF IInv
  <2>7. Tagged(pending)'
    <3>1. /\ DOMAIN pending' = 1 .. Len(pending) + 1 /\ DOMAIN pending = 1 .. Len(pending)
          /\ Len(pending) \in Nat
          /\ \A i \in DOMAIN pending : pending'[i] = pending[i]
          /\ pending'[Len(pending) + 1] = f
      BY <1>0, <2>3, <2>5, Appended
    <3>2. \A i \in DOMAIN pending' : i \in DOMAIN pending \/ i = Len(pending) + 1
      BY <3>1
    <3>. QED
      BY <2>2, <2>3, <3>1, <3>2 DEF IInv, Tagged
  <2>8. (Tagged(todo) /\ Tagged(down))'
    BY <2>1, <2>2, <2>3 DEF IInv, Tagged
  <2>9. \A n : InFlight(n)' <=> InFlight(n)
    BY <2>1, <2>2, <2>3, <2>6 DEF InFlight
  <2>10. NoGap' /\ NoPushLost'
    BY <2>2, <2>9 DEF IInv, NoGap, NoPushLost
  <2>11. TypeOK'
    BY <1>0, <2>1, <2>2, <2>3, <2>6 DEF TypeOK
  <2>12. Places'
    BY <1>0, <2>1, <2>2 DEF Places
  <2>. QED
    BY <2>1, <2>2, <2>3, <2>6, <2>7, <2>8, <2>10, <2>11, <2>12 DEF IInv, PushesInOrder
<1>8. CASE RequestTimeout
  <2>1. PICK r \in awaiting : Finish(r, 0) /\ UNCHANGED <<cmds, running, network, nreq, handled>>
    BY <1>8 DEF RequestTimeout
  <2>2. 0 \in 0 .. MaxCmds
    BY BoundsAssumption
  <2>. QED
    BY <2>1, <2>2, CommandOver DEF network
<1>9. CASE RequestRecvError
  <2>1. PICK r \in awaiting :
            /\ closed /\ Finish(r, 0) /\ down' = <<>>
            /\ UNCHANGED <<cmds, running, up, closed, nreq, npush, handled>>
    BY <1>9 DEF RequestRecvError
  <2>2. 0 \in 0 .. MaxCmds
    BY BoundsAssumption
  <2>. QED
    BY <2>1, <2>2, CommandOver
<1>10. CASE DispatchDrained
  <2>1. /\ todo # <<>> /\ awaiting = {} /\ pending = <<>> /\ running
        /\ HandlePush(Head(todo)) /\ todo' = Tail(todo)
        /\ UNCHANGED <<cmds, awaiting, pending, running, up, down, closed, npush, nreq, outcome>>
    BY <1>0, <1>10 DEF DispatchDrained, Places, network
  <2> DEFINE f == Head(todo)
  <2>2. /\ f \in Frame /\ Tail(todo) \in Seq(Frame)
        /\ Ordered(Tail(todo)) /\ Before(Tail(todo), down)
        /\ \A n : Holds(todo, n) <=> Holds(Tail(todo), n) \/ (IsPush(f) /\ f.tag = n)
        /\ IsPush(f) => \A n : Holds(Tail(todo), n) => f.tag < n
        /\ f.tag \in IF IsPush(f) THEN Len(handled) + 1 .. npush ELSE 1 .. MaxCmds
    BY <1>0, <2>1, TailQueue, TaggedRest DEF IInv
  <2>3. \A n : ~ Holds(pending, n)
    BY <2>1, EmptyQueue
  <2>4. /\ \A n : InFlight(n) <=> Holds(todo, n) \/ Holds(down, n)
        /\ \A n : InFlight(n)' <=> Holds(Tail(todo), n) \/ Holds(down, n)
    BY <2>1, <2>3 DEF InFlight
  <2> HIDE DEF f
  <2>5. IsPush(f) => \A n : Holds(down, n) => f.tag < n
    BY <2>2, BeforeHolds DEF IInv
  <2>6. ASSUME IsPush(f)
        PROVE  /\ f.tag \in Len(handled) + 1 .. npush
               /\ InFlight(f.tag)
               /\ \A n \in 1 .. npush : InFlight(n) => f.tag <= n
    <3>1. f.tag \in Len(handled) + 1 .. npush /\ f.tag \in Nat
      BY <1>0, <2>2, <2>6
    <3>2. InFlight(f.tag)
      BY <2>2, <2>4, <2>6
    <3>3. ASSUME NEW n \in 1 .. npush, InFlight(n)
          PROVE  f.tag <= n
      <4>1. f.tag = n \/ f.tag < n
        BY <2>2, <2>4, <2>6, <2>5, <3>3
      <4>. QED
        BY <1>0, <3>1, <4>1
    <3>. QED
      BY <3>1, <3>2, <3>3
  <2>7. \A n \in 1 .. npush : InFlight(n)' <=> InFlight(n) /\ ~ (IsPush(f) /\ n = f.tag)
    BY <1>0, <2>2, <2>4, <2>5
  <2>8. /\ handled' \in Seq(1 .. MaxPushes)
        /\ PushesInOrder' /\ NoGap' /\ NoPushLost' /\ Len(handled') <= npush'
        /\ IsPush(f) => Len(handled') = Len(handled) + 1 /\ f.tag = Len(handled) + 1
        /\ ~ IsPush(f) => handled' = handled
    BY <2>1, <2>2, <2>6, <2>7, Dispatch DEF IInv, f
  <2>9. Tagged(todo)'
    BY <1>0, <2>1, <2>8, TaggedTail DEF IInv, f, Tagged
  <2>10. Tagged(down)'
    <3>1. ASSUME NEW i \in DOMAIN down
          PROVE  down[i].tag \in IF IsPush(down[i]) THEN Len(handled') + 1 .. npush
                                                    ELSE 1 .. MaxCmds
      <4>1. IsPush(down[i]) => Holds(down, down[i].tag)
        BY DEF Holds
      <4>. QED
        BY <1>0, <2>5, <2>8, <4>1 DEF IInv, Tagged
    <3>. QED
      BY <2>1, <3>1 DEF Tagged
  <2>11. /\ Tagged(pending)'
         /\ (Ordered(todo) /\ Ordered(pending) /\ Ordered(down))'
         /\ (Before(todo, down) /\ Before(pending, down))'
    BY <2>1, <2>2, EmptyQueue DEF IInv, Tagged
  <2>12. TypeOK' /\ Places'
    BY <1>0, <2>1, <2>2, <2>8 DEF TypeOK, Places
  <2>. QED
    BY <2>8, <2>9, <2>10, <2>11, <2>12 DEF IInv
<1>11. ASSUME NEW r \in up, NEW id, down' = Append(down, [id |-> id, tag |-> r.tag]),
              id \in IncomingId, id \notin PushId, ~ closed, up' = up \ {r},
              UNCHANGED <<cmds, client, closed, nreq, npush, handled, outcome>>
       PROVE  IInv'
  <2> DEFINE f == [id |-> id, tag |-> r.tag]
  <2>1. r.tag \in 1 .. MaxCmds
    BY <1>0 DEF TypeOK, Request
  <2>2. f \in Frame /\ ~ IsPush(f) /\ f.tag \in 1 .. MaxCmds
    BY <1>11, <2>1 DEF Frame, IsPush
  <2> HIDE DEF f
  <2>3. down' \in Seq(Frame)
    BY <1>0, <1>11, <2>2 DEF f
  <2>4. TypeOK'
    BY <1>0, <1>11, <2>3 DEF TypeOK, client
  <2>. QED
    BY <1>11, <2>2, <2>4, ServerSends DEF f
<1>12. ASSUME NEW r \in up, Answer(r) \/ AnswerInvalid(r)
       PROVE  IInv'
  <2>1. r.kind \in Kind
    BY <1>0, KindsAssumption DEF TypeOK, Request
  <2>2. /\ ResponseId[r.kind] \in IncomingId /\ ResponseId[r.kind] \notin PushId
        /\ INVALID_REQUEST \in IncomingId /\ INVALID_REQUEST \notin PushId
    BY <2>1 DEF IncomingId, PushId, Kind, ResponseId, NOTIFY_ADD_FRIEND, INVALID_REQUEST,
        NOTIFY_AUTH_FRIEND, NOTIFY_TEXT_CHAT, TEXT_CHAT_RESPONSE, SEARCH_RESPONSE,
        ADD_FRIEND_RESPONSE, AUTH_FRIEND_RESPONSE
  <2>. QED
    BY <1>11, <1>12, <2>2 DEF Answer, AnswerInvalid
<1>13. ASSUME NEW id \in PushId, Push(id)
       PROVE  IInv'
  <2> DEFINE f == [id |-> id, tag |-> npush + 1]
  <2>1. f \in Frame /\ IsPush(f) /\ f.tag = npush + 1
    BY <1>0 DEF Frame, IsPush, IncomingId
  <2>2. down' = Append(down, f) /\ npush' = npush + 1
    BY <1>13 DEF Push
  <2> HIDE DEF f
  <2>3. down' \in Seq(Frame) /\ npush' \in 0 .. MaxPushes
    BY <1>0, <1>13, <2>1, <2>2, BoundsAssumption DEF Push, TypeOK
  <2>4. TypeOK'
    BY <1>0, <1>13, <2>3 DEF Push, TypeOK, client
  <2>. QED
    BY <1>13, <2>1, <2>2, <2>4, ServerSends DEF Push
<1>14. CASE Close
  <2>1. TypeOK' /\ Places'
    BY <1>0, <1>14 DEF Close, client, TypeOK, Places
  <2>. QED
    BY <1>14, <2>1, QueuesUnchanged DEF Close, client
<1>15. CASE UNCHANGED vars
  <2>1. TypeOK' /\ Places'
    BY <1>0, <1>15 DEF vars, TypeOK, Places
  <2>. QED
    BY <1>15, <2>1, QueuesUnchanged DEF vars
<1>. QED
  BY <1>1, <1>2, <1>3, <1>4, <1>5, <1>6, <1>7, <1>8, <1>9, <1>10, <1>12, <1>13, <1>14,
     <1>15 DEF Next, NetStep, ServerStep

(* Every reachable state of the loop satisfies the inductive invariant.    *)
THEOREM SpecIInv == Spec => []IInv
BY InitIInv, NextIInv, PTL DEF Spec

(* The loop's variables keep their types.                                  *)
THEOREM ClientLoopTypeOK == Spec => []TypeOK
<1>1. IInv => TypeOK
  BY DEF IInv
<1>. QED
  BY <1>1, SpecIInv, PTL

(* Pushes reach handle_push in the order they were sent, each once, for    *)
(* any number of commands under way and any failures between them.         *)
THEOREM ClientLoopPushesInOrder == Spec => []PushesInOrder
<1>1. IInv => PushesInOrder
  BY DEF IInv
<1>. QED
  BY <1>1, SpecIInv, PTL

(* While the connection is up no push is lost, whichever commands fail or  *)
(* time out meanwhile.                                                     *)
THEOREM ClientLoopNoPushLost == Spec => []NoPushLost
<1>1. IInv => NoPushLost
  BY DEF IInv
<1>. QED
  BY <1>1, SpecIInv, PTL

-----------------------------------------------------------------------------
(* The channel of pushes: handled stays, npush is sent and closed broken.  *)

(* A frame given to handle_push is a delivery, or nothing is handed over.  *)
LEMMA HandlePushDelivers ==
    ASSUME IInv, IInv', NEW f, HandlePush(f), UNCHANGED <<npush, closed>>
    PROVE  [Del!Next]_(Del!vars)
<1>1. CASE ~ IsPush(f)
  BY <1>1 DEF HandlePush, Del!vars
<1>2. CASE IsPush(f)
  <2>1. handled' = Append(handled, f.tag) /\ npush' = npush /\ closed' = closed
    BY <1>2 DEF HandlePush
  <2>2. handled \in Seq(1 .. MaxPushes) /\ handled' \in Seq(1 .. MaxPushes)
    BY DEF IInv, TypeOK
  <2>3. /\ Len(handled) \in Nat
        /\ Len(handled') = Len(handled) + 1
        /\ DOMAIN handled' = 1 .. Len(handled')
        /\ handled'[Len(handled) + 1] = f.tag
    BY <2>1, <2>2
  <2>4. f.tag = Len(handled) + 1
    BY <2>3 DEF IInv, PushesInOrder
  <2>5. Len(handled) < npush
    BY <2>1, <2>3 DEF IInv, TypeOK
  <2>. QED
    BY <2>1, <2>4, <2>5 DEF Del!Next, Del!Deliver
<1>. QED
  BY <1>1, <1>2

(* Every step of the loop is a step of the channel or none.                *)
LEMMA StepDelivers == IInv /\ IInv' /\ [Next]_vars => [Del!Next]_(Del!vars)
<1> SUFFICES ASSUME IInv, IInv', [Next]_vars
             PROVE  [Del!Next]_(Del!vars)
  OBVIOUS
<1>1. CASE RecvPush
  BY <1>1, HandlePushDelivers DEF RecvPush
<1>2. CASE DispatchDrained
  BY <1>2, HandlePushDelivers DEF DispatchDrained, network
<1>3. ASSUME NEW id \in PushId, Push(id)
      PROVE  Del!Next
  BY <1>3 DEF Push, Del!Next, Del!Send
<1>4. CASE Close
  BY <1>4 DEF Close, Del!Next, Del!Break
<1>5. CASE \/ \E kind \in Kinds : Submit(kind)
           \/ ConnectionLost \/ SendRequest \/ SendFails
           \/ AcceptResponse \/ CollectFrame \/ RequestTimeout \/ RequestRecvError
           \/ \E r \in up : Answer(r) \/ AnswerInvalid(r)
           \/ UNCHANGED vars
  BY <1>5 DEF Submit, ConnectionLost, SendRequest, SendFails, AcceptResponse, CollectFrame,
      RequestTimeout, RequestRecvError, Answer, AnswerInvalid, vars, network, Del!vars
<1>. QED
  BY <1>1, <1>2, <1>3, <1>4, <1>5 DEF Next, NetStep, ServerStep

(* The loop implements the channel: seen through handled, npush and closed *)
(* every behaviour of it is one of Delivery's.  The fairness of Delivery   *)
(* is checked by TLC.                                                      *)
THEOREM ClientLoopImplementsDelivery == Spec => Del!Spec
<1>1. Init => Del!Init
  BY DEF Init, Del!Init
<1>. QED
  BY <1>1, StepDelivers, SpecIInv, PTL DEF Del!Spec, Spec

-----------------------------------------------------------------------------
(* Which answer completes which request.                                   *)

\* Requests taken from the channel.
Taken == Len(outcome) + (IF awaiting = {} THEN 0 ELSE 1)

Numbered ==
    /\ \A n \in DOMAIN outcome : outcome[n].tag = n
    /\ \A r \in awaiting : r.tag = Taken
    /\ \A i \in DOMAIN cmds : cmds[i].tag = Taken + i
    /\ running => nreq = Taken + Len(cmds)

\* Request n was taken from the channel, and is of kind k.
WasTaken(n, k) ==
    \/ \E r \in awaiting : r.tag = n /\ r.kind = k
    \/ n \in DOMAIN outcome /\ outcome[n].kind = k

IsAnswer(frame) == \E k \in Kind : frame.id = ResponseId[k]

Answers(q) == {q[i] : i \in {j \in DOMAIN q : IsAnswer(q[j])}}

Distinct(q) ==
    \A i, j \in DOMAIN q : IsAnswer(q[i]) /\ IsAnswer(q[j]) /\ q[i].tag = q[j].tag => i = j

Known ==
    /\ \A r \in up : WasTaken(r.tag, r.kind)
    /\ \A f \in Answers(down) : \E k \in Kind : f.id = ResponseId[k] /\ WasTaken(f.tag, k)

OnePlace ==
    /\ \A r, s \in up : r.tag = s.tag => r = s
    /\ Distinct(down)
    /\ \A f \in Answers(down), r \in up : f.tag # r.tag
    /\ \A n \in DOMAIN outcome : outcome[n].by # 0 =>
          /\ outcome[n].by <= n
          /\ \A r \in up : r.tag # outcome[n].by
          /\ \A f \in Answers(down) : f.tag # outcome[n].by

AInv ==
    /\ Numbered
    /\ Known
    /\ OnePlace
    /\ AnswersUsedOnce
    /\ StaleAnswersExplained

-----------------------------------------------------------------------------
(* The responses of two kinds have different ids, none is a push's or that *)
(* of the error envelope.                                                  *)
LEMMA ResponseIds ==
    /\ \A j, k \in Kind : ResponseId[j] = ResponseId[k] => j = k
    /\ \A k \in Kind : ResponseId[k] \notin PushId /\ ResponseId[k] # INVALID_REQUEST
BY DEF Kind, ResponseId, PushId, INVALID_REQUEST, NOTIFY_ADD_FRIEND, NOTIFY_AUTH_FRIEND,
   NOTIFY_TEXT_CHAT, TEXT_CHAT_RESPONSE, SEARCH_RESPONSE, ADD_FRIEND_RESPONSE,
   AUTH_FRIEND_RESPONSE

(* An empty stream holds no answer.                                        *)
LEMMA NoAnswers ==
    ASSUME NEW q, q = <<>>
    PROVE  Answers(q) = {} /\ Distinct(q)
BY DEF Answers, Distinct

(* Reading a frame takes its answer out of the stream, and leaves no other *)
(* answer to the same request there.                                       *)
LEMMA TailAnswers ==
    ASSUME NEW q \in Seq(Frame), q # <<>>, Distinct(q)
    PROVE  /\ Distinct(Tail(q))
           /\ Answers(Tail(q)) \subseteq Answers(q)
           /\ IsAnswer(Head(q)) => /\ Head(q) \in Answers(q)
                                   /\ \A f \in Answers(Tail(q)) : f.tag # Head(q).tag
<1>1. /\ Head(q) = q[1]
      /\ Len(q) \in Nat \ {0} /\ DOMAIN q = 1 .. Len(q)
      /\ DOMAIN Tail(q) = 1 .. (Len(q) - 1)
      /\ \A i \in DOMAIN Tail(q) : Tail(q)[i] = q[i + 1]
  BY HeadTail
<1>2. 1 \in DOMAIN q /\ \A i \in DOMAIN Tail(q) : i + 1 \in DOMAIN q /\ i + 1 # 1 /\ i \in Nat
  BY <1>1
<1>3. Distinct(Tail(q))
  <2> SUFFICES ASSUME NEW i \in DOMAIN Tail(q), NEW j \in DOMAIN Tail(q),
                      IsAnswer(Tail(q)[i]), IsAnswer(Tail(q)[j]),
                      Tail(q)[i].tag = Tail(q)[j].tag
               PROVE  i = j
    BY DEF Distinct
  <2>1. i + 1 = j + 1
    BY <1>1, <1>2 DEF Distinct
  <2>. QED
    BY <1>2, <2>1
<1>4. ASSUME NEW f \in Answers(Tail(q))
      PROVE  f \in Answers(q) /\ (IsAnswer(Head(q)) => f.tag # Head(q).tag)
  <2>1. PICK i \in DOMAIN Tail(q) : IsAnswer(Tail(q)[i]) /\ f = Tail(q)[i]
    BY DEF Answers
  <2>2. i + 1 \in DOMAIN q /\ f = q[i + 1] /\ IsAnswer(q[i + 1])
    BY <1>1, <1>2, <2>1
  <2>. QED
    BY <1>1, <1>2, <2>2 DEF Answers, Distinct
<1>5. IsAnswer(Head(q)) => Head(q) \in Answers(q)
  BY <1>1, <1>2 DEF Answers
<1>. QED
  BY <1>3, <1>4, <1>5

(* A frame written to the stream adds one answer at most.                  *)
LEMMA AppendAnswers ==
    ASSUME NEW q \in Seq(Frame), NEW f \in Frame, Distinct(q),
           IsAnswer(f) => \A g \in Answers(q) : g.tag # f.tag
    PROVE  /\ Distinct(Append(q, f))
           /\ \A g \in Answers(Append(q, f)) : g \in Answers(q) \/ (IsAnswer(f) /\ g = f)
<1> DEFINE a == Append(q, f)
<1>1. /\ Len(q) \in Nat /\ DOMAIN q = 1 .. Len(q)
      /\ DOMAIN a = 1 .. Len(q) + 1
      /\ \A i \in DOMAIN q : a[i] = q[i]
      /\ a[Len(q) + 1] = f
  BY Appended
<1> HIDE DEF a
<1>2. \A i \in DOMAIN a : i \in DOMAIN q \/ i = Len(q) + 1
  BY <1>1
<1>3. ASSUME NEW i \in DOMAIN q, IsAnswer(q[i]), IsAnswer(f)
      PROVE  q[i].tag # f.tag
  BY <1>3 DEF Answers
<1>4. Distinct(a)
  <2> SUFFICES ASSUME NEW i \in DOMAIN a, NEW j \in DOMAIN a, IsAnswer(a[i]), IsAnswer(a[j]),
                      a[i].tag = a[j].tag
               PROVE  i = j
    BY DEF Distinct
  <2>1. CASE i \in DOMAIN q /\ j \in DOMAIN q
    BY <1>1, <2>1 DEF Distinct
  <2>2. CASE i \in DOMAIN q /\ j = Len(q) + 1
    BY <1>1, <1>3, <2>2
  <2>3. CASE i = Len(q) + 1 /\ j \in DOMAIN q
    BY <1>1, <1>3, <2>3
  <2>. QED
    BY <1>2, <2>1, <2>2, <2>3
<1>5. ASSUME NEW g \in Answers(a)
      PROVE  g \in Answers(q) \/ (IsAnswer(f) /\ g = f)
  <2>1. PICK i \in DOMAIN a : IsAnswer(a[i]) /\ g = a[i]
    BY DEF Answers
  <2>. QED
    BY <1>1, <1>2, <2>1 DEF Answers
<1>. QED
  BY <1>4, <1>5 DEF a

-----------------------------------------------------------------------------
(* At the start nothing was taken, sent or answered.                       *)
THEOREM InitAInv == Init => AInv
<1> SUFFICES ASSUME Init
             PROVE  AInv
  OBVIOUS
<1>1. Numbered
  BY DEF Init, Numbered, Taken
<1>2. Known /\ OnePlace
  BY NoAnswers DEF Init, Known, OnePlace
<1>3. AnswersUsedOnce /\ StaleAnswersExplained
  BY DEF Init, AnswersUsedOnce, StaleAnswersExplained
<1>. QED
  BY <1>1, <1>2, <1>3 DEF AInv

(* A step that finishes no command and takes none, and adds nothing to the *)
(* requests and answers on their way, keeps the invariant.                 *)
LEMMA WireShrinks ==
    ASSUME AInv, UNCHANGED <<awaiting, outcome>>, up' \subseteq up,
           Answers(down') \subseteq Answers(down), Distinct(down'),
           Numbered'
    PROVE  AInv'
<1>1. \A n, k : WasTaken(n, k)' <=> WasTaken(n, k)
  BY DEF WasTaken
<1>2. Known'
  BY <1>1 DEF AInv, Known
<1>3. OnePlace'
  BY DEF AInv, OnePlace
<1>4. AnswersUsedOnce' /\ StaleAnswersExplained'
  BY DEF AInv, AnswersUsedOnce, StaleAnswersExplained
<1>. QED
  BY <1>2, <1>3, <1>4 DEF AInv

(* A command is over without an answer, or with one that is no longer in   *)
(* the stream.  It may be the awaited one, or one whose request could not  *)
(* be sent.                                                                *)
LEMMA CommandDone ==
    ASSUME TypeOK, AInv, NEW r \in Request, NEW by \in 0 .. MaxCmds,
           r.tag = Len(outcome) + 1, awaiting \subseteq {r},
           Finish(r, by),
           up' = up, nreq' = nreq, running' = running,
           Answers(down') \subseteq Answers(down), Distinct(down'),
           \A i \in DOMAIN cmds' : cmds'[i].tag = r.tag + i,
           running => nreq = r.tag + Len(cmds'),
           by # 0 => /\ by <= r.tag
                     /\ \A q \in up : q.tag # by
                     /\ \A f \in Answers(down') : f.tag # by
                     /\ \A n \in DOMAIN outcome : outcome[n].by # by
                     /\ by # r.tag => /\ by \in DOMAIN outcome
                                      /\ outcome[by].kind = r.kind
                                      /\ outcome[by].by # by
    PROVE  AInv'
<1> DEFINE o == [tag |-> r.tag, kind |-> r.kind, by |-> by]
<1>1. /\ Len(outcome) \in Nat /\ DOMAIN outcome = 1 .. Len(outcome)
      /\ Len(outcome') = Len(outcome) + 1
      /\ DOMAIN outcome' = 1 .. Len(outcome) + 1
      /\ \A n \in DOMAIN outcome : outcome'[n] = outcome[n]
      /\ outcome'[Len(outcome) + 1] = o
  <2>1. o \in Outcome /\ outcome \in Seq(Outcome)
    BY DEF TypeOK, Outcome, Request
  <2>2. outcome' = Append(outcome, o)
    BY DEF Finish
  <2> HIDE DEF o
  <2>. QED
    BY <2>1, <2>2, Appended
<1>2. /\ awaiting' = {} /\ Taken' = r.tag
      /\ \A n \in DOMAIN outcome' : n \in DOMAIN outcome \/ n = r.tag
      /\ \A n \in DOMAIN outcome : n \in DOMAIN outcome' /\ n < r.tag /\ n # r.tag /\ n \in Nat
      /\ r.tag \in DOMAIN outcome' /\ outcome'[r.tag] = o /\ r.tag \in Nat
  BY <1>1 DEF Finish, Taken
<1>3. o.tag = r.tag /\ o.kind = r.kind /\ o.by = by
  OBVIOUS
<1> HIDE DEF o
<1>4. \A n, k : WasTaken(n, k) => WasTaken(n, k)'
  BY <1>1, <1>2, <1>3 DEF WasTaken
<1>5. Numbered'
  <2>1. \A n \in DOMAIN outcome' : outcome'[n].tag = n
    BY <1>1, <1>2, <1>3 DEF AInv, Numbered
  <2>. QED
    BY <1>2, <2>1 DEF Numbered
<1>6. Known'
  BY <1>4 DEF AInv, Known
<1>7. OnePlace'
  <2>1. ASSUME NEW n \in DOMAIN outcome', outcome'[n].by # 0
        PROVE  /\ outcome'[n].by <= n
               /\ \A q \in up' : q.tag # outcome'[n].by
               /\ \A f \in Answers(down') : f.tag # outcome'[n].by
    <3>1. CASE n \in DOMAIN outcome
      BY <1>1, <2>1, <3>1 DEF AInv, OnePlace
    <3>2. CASE n = r.tag
      BY <1>2, <1>3, <2>1, <3>2
    <3>. QED
      BY <1>2, <3>1, <3>2
  <2>. QED
    BY <2>1 DEF AInv, OnePlace
<1>8. AnswersUsedOnce'
  <2> SUFFICES ASSUME NEW m \in DOMAIN outcome', NEW n \in DOMAIN outcome',
                      outcome'[m].by = outcome'[n].by, outcome'[m].by # 0
               PROVE  m = n
    BY DEF AnswersUsedOnce
  <2>1. CASE m \in DOMAIN outcome /\ n \in DOMAIN outcome
    BY <1>1, <2>1 DEF AInv, AnswersUsedOnce
  <2>2. CASE m \in DOMAIN outcome /\ n = r.tag
    BY <1>1, <1>2, <1>3, <2>2
  <2>3. CASE m = r.tag /\ n \in DOMAIN outcome
    BY <1>1, <1>2, <1>3, <2>3
  <2>. QED
    BY <1>2, <2>1, <2>2, <2>3
<1>9. StaleAnswersExplained'
  <2> SUFFICES ASSUME NEW n \in DOMAIN outcome',
                      outcome'[n].by \notin {0, outcome'[n].tag}
               PROVE  \E m \in 1 .. (n - 1) : /\ outcome'[m].tag = outcome'[n].by
                                             /\ outcome'[m].kind = outcome'[n].kind
                                             /\ outcome'[m].by # outcome'[m].tag
    BY DEF StaleAnswersExplained
  <2>1. CASE n \in DOMAIN outcome
    <3>1. PICK m \in 1 .. (n - 1) : /\ outcome[m].tag = outcome[n].by
                                   /\ outcome[m].kind = outcome[n].kind
                                   /\ outcome[m].by # outcome[m].tag
      BY <1>1, <2>1 DEF AInv, StaleAnswersExplained
    <3>2. m \in DOMAIN outcome
      BY <1>1, <2>1
    <3>. QED
      BY <1>1, <2>1, <3>1, <3>2
  <2>2. CASE n = r.tag
    <3>1. /\ by \in DOMAIN outcome
          /\ outcome[by].kind = r.kind
          /\ outcome[by].by # by
      BY <1>2, <1>3, <2>2
    <3>2. outcome[by].tag = by
      BY <3>1 DEF AInv, Numbered
    <3>3. by \in 1 .. (n - 1)
      BY <1>1, <2>2, <3>1
    <3>. QED
      BY <1>1, <1>2, <1>3, <2>2, <3>1, <3>2, <3>3
  <2>. QED
    BY <1>2, <2>1, <2>2
<1>. QED
  BY <1>5, <1>6, <1>7, <1>8, <1>9 DEF AInv

(* Every step keeps the invariant.                                         *)
THEOREM NextAInv == IInv /\ IInv' /\ AInv /\ [Next]_vars => AInv'
<1> SUFFICES ASSUME IInv, IInv', AInv, [Next]_vars
             PROVE  AInv'
  OBVIOUS
<1>0. TypeOK /\ TypeOK' /\ Numbered /\ Known /\ OnePlace /\ Places
  BY DEF IInv, AInv
<1>1. /\ Len(outcome) \in Nat /\ DOMAIN outcome = 1 .. Len(outcome)
      /\ Len(cmds) \in Nat /\ DOMAIN cmds = 1 .. Len(cmds)
      /\ down \in Seq(Frame) /\ Distinct(down)
      /\ nreq \in Nat
  BY <1>0, BoundsAssumption DEF TypeOK, OnePlace
<1>2. UNCHANGED <<cmds, awaiting, outcome, running, nreq>> => Numbered'
  BY <1>0 DEF Numbered, Taken
\* a request at the head of the channel is the next one
<1>3. ASSUME cmds # <<>>, awaiting = {}, cmds' = Tail(cmds)
      PROVE  /\ Head(cmds) \in Request /\ Head(cmds).tag = Len(outcome) + 1
             /\ Taken = Len(outcome)
             /\ Len(cmds') = Len(cmds) - 1 /\ DOMAIN cmds' = 1 .. (Len(cmds) - 1)
             /\ \A i \in DOMAIN cmds' : cmds'[i].tag = Len(outcome) + 1 + i
  <2>1. cmds \in Seq(Request)
    BY <1>0 DEF TypeOK
  <2>2. /\ Head(cmds) = cmds[1] /\ Head(cmds) \in Request
        /\ Len(cmds) \in Nat \ {0}
        /\ DOMAIN Tail(cmds) = 1 .. (Len(cmds) - 1)
        /\ \A i \in DOMAIN Tail(cmds) : Tail(cmds)[i] = cmds[i + 1]
    BY <1>3, <2>1, HeadTail
  <2>3. Len(Tail(cmds)) = Len(cmds) - 1
    BY <1>3, <2>1
  <2>4. \A i \in DOMAIN cmds : cmds[i].tag = Len(outcome) + i
    BY <1>0, <1>1, <1>3 DEF Numbered, Taken
  <2>5. 1 \in DOMAIN cmds /\ \A i \in DOMAIN Tail(cmds) : i + 1 \in DOMAIN cmds /\ i \in Nat
    BY <1>1, <2>2
  <2>. QED
    BY <1>1, <1>3, <2>2, <2>3, <2>4, <2>5 DEF Taken
\* the awaited request is the next one
<1>4. ASSUME NEW r \in awaiting
      PROVE  /\ r \in Request /\ awaiting \subseteq {r}
             /\ r.tag = Len(outcome) + 1 /\ Taken = r.tag
             /\ \A i \in DOMAIN cmds : cmds[i].tag = r.tag + i
             /\ running => nreq = r.tag + Len(cmds)
  BY <1>0, <1>1, <1>4 DEF TypeOK, Numbered, Taken
<1>5. down # <<>> => /\ Distinct(Tail(down))
                     /\ Answers(Tail(down)) \subseteq Answers(down)
                     /\ Tail(down) \in Seq(Frame)
  BY <1>1, TailAnswers, TailQueue
<1>6. ASSUME NEW kind \in Kinds, Submit(kind)
      PROVE  AInv'
  <2> DEFINE c == [tag |-> nreq + 1, kind |-> kind]
  <2>1. /\ cmds' = Append(cmds, c) /\ nreq' = nreq + 1 /\ c.tag = nreq + 1
        /\ running /\ UNCHANGED <<awaiting, outcome, running, up, down>>
    BY <1>6 DEF Submit, client, network
  <2>2. nreq = Taken + Len(cmds) /\ Taken \in Nat
    BY <1>0, <1>1, <2>1 DEF Numbered, Taken
  <2>3. c \in Request /\ cmds \in Seq(Request)
    BY <1>0, <1>6, BoundsAssumption DEF Submit, TypeOK, Request
  <2> HIDE DEF c
  <2>4. /\ Len(cmds') = Len(cmds) + 1 /\ DOMAIN cmds' = 1 .. Len(cmds) + 1
        /\ \A i \in DOMAIN cmds : cmds'[i] = cmds[i]
        /\ cmds'[Len(cmds) + 1] = c
    BY <2>1, <2>3, Appended
  <2>5. Taken' = Taken
    BY <2>1 DEF Taken
  <2>6. \A i \in DOMAIN cmds' : cmds'[i].tag = Taken' + i
    <3>1. ASSUME NEW i \in DOMAIN cmds'
          PROVE  cmds'[i].tag = Taken' + i
      <4>1. CASE i \in DOMAIN cmds
        BY <1>0, <2>4, <2>5, <4>1 DEF Numbered
      <4>2. CASE i = Len(cmds) + 1
        BY <1>1, <2>1, <2>2, <2>4, <2>5, <4>2
      <4>. QED
        BY <1>1, <2>4, <3>1, <4>1, <4>2
    <3>. QED
      BY <3>1
  <2>7. Numbered'
    BY <1>0, <1>1, <2>1, <2>2, <2>4, <2>5, <2>6 DEF Numbered
  <2>. QED
    BY <1>1, <2>1, <2>7, WireShrinks
<1>7. CASE RecvPush
  BY <1>2, <1>5, <1>7, WireShrinks DEF RecvPush, client
<1>8. CASE ConnectionLost
  <2>1. /\ awaiting = {} /\ cmds' = <<>> /\ down' = <<>> /\ ~ running'
        /\ UNCHANGED <<awaiting, outcome, up>>
    BY <1>8 DEF ConnectionLost, AtSelect
  <2>2. Numbered'
    BY <1>0, <2>1 DEF Numbered
  <2>. QED
    BY <2>1, <2>2, NoAnswers, WireShrinks
<1>9. CASE SendRequest
  <2>0. PICK r : r = Head(cmds)
    OBVIOUS
  <2>1. /\ awaiting = {} /\ cmds # <<>> /\ awaiting' = {r} /\ up' = up \cup {r}
        /\ cmds' = Tail(cmds) /\ UNCHANGED <<running, down, nreq, outcome>>
    BY <1>9, <2>0 DEF SendRequest, AtSelect
  <2>2. /\ r \in Request /\ r.tag = Len(outcome) + 1 /\ Taken = Len(outcome)
        /\ Len(cmds') = Len(cmds) - 1 /\ DOMAIN cmds' = 1 .. (Len(cmds) - 1)
        /\ \A i \in DOMAIN cmds' : cmds'[i].tag = Len(outcome) + 1 + i
    BY <1>3, <2>0, <2>1
  <2>3. Taken' = Len(outcome) + 1
    BY <2>1 DEF Taken
  <2>4. Numbered'
    <3>1. running => nreq = Taken' + Len(cmds')
      BY <1>0, <1>1, <2>2, <2>3 DEF Numbered
    <3>2. \A i \in DOMAIN cmds' : cmds'[i].tag = Taken' + i
      BY <2>2, <2>3
    <3>3. \A q \in awaiting' : q.tag = Taken'
      BY <2>1, <2>2, <2>3
    <3>4. \A n \in DOMAIN outcome' : outcome'[n].tag = n
      BY <1>0, <2>1 DEF Numbered
    <3>. QED
      BY <2>1, <3>1, <3>2, <3>3, <3>4 DEF Numbered
  <2>5. \A n, k : WasTaken(n, k) => WasTaken(n, k)' /\ n \in DOMAIN outcome
    BY <2>1 DEF WasTaken
  <2>6. WasTaken(r.tag, r.kind)'
    BY <2>1 DEF WasTaken
  <2>7. Known'
    BY <1>0, <2>1, <2>5, <2>6 DEF Known
  <2>8. \A n \in DOMAIN outcome : n < r.tag /\ n # r.tag
    BY <1>1, <2>2
  <2>9. (\A q \in up : q.tag # r.tag) /\ (\A f \in Answers(down) : f.tag # r.tag)
    BY <1>0, <2>5, <2>8 DEF Known
  <2>10. \A n \in DOMAIN outcome : outcome[n].by # 0 => outcome[n].by # r.tag
    <3>1. \A n \in DOMAIN outcome : outcome[n].by \in Nat
      <4>1. \A n \in DOMAIN outcome : outcome[n] \in Outcome
        BY <1>0 DEF TypeOK
      <4>. QED
        BY <4>1, BoundsAssumption DEF Outcome
    <3>. QED
      BY <1>0, <1>1, <2>2, <3>1 DEF OnePlace
  <2>11. OnePlace'
    BY <1>0, <2>1, <2>9, <2>10 DEF OnePlace
  <2>12. AnswersUsedOnce' /\ StaleAnswersExplained'
    BY <2>1 DEF AInv, AnswersUsedOnce, StaleAnswersExplained
  <2>. QED
    BY <2>4, <2>7, <2>11, <2>12 DEF AInv
<1>10. CASE SendFails
  <2>1. /\ awaiting = {} /\ cmds # <<>> /\ cmds' = Tail(cmds) /\ Finish(Head(cmds), 0)
        /\ UNCHANGED <<running, up, down, nreq>>
    BY <1>10 DEF SendFails, AtSelect, network
  <2>2. /\ Head(cmds) \in Request /\ Head(cmds).tag = Len(outcome) + 1 /\ Taken = Len(outcome)
        /\ Len(cmds') = Len(cmds) - 1
        /\ \A i \in DOMAIN cmds' : cmds'[i].tag = Len(outcome) + 1 + i
    BY <1>3, <2>1
  <2>3. running => nreq = Head(cmds).tag + Len(cmds')
    BY <1>0, <1>1, <2>2 DEF Numbered
  <2>4. 0 \in 0 .. MaxCmds
    BY BoundsAssumption
  <2>. QED
    BY <1>0, <1>1, <2>1, <2>2, <2>3, <2>4, CommandDone
<1>11. CASE AcceptResponse
  <2> DEFINE f == Head(down)
  <2>1. PICK r \in awaiting :
           /\ down # <<>> /\ f.id = ResponseId[r.kind] /\ Finish(r, f.tag)
           /\ down' = Tail(down) /\ UNCHANGED <<cmds, running, up, nreq>>
    BY <1>11 DEF AcceptResponse
  <2>2. /\ r \in Request /\ awaiting \subseteq {r} /\ r.tag = Len(outcome) + 1 /\ Taken = r.tag
        /\ \A i \in DOMAIN cmds : cmds[i].tag = r.tag + i
        /\ running => nreq = r.tag + Len(cmds)
    BY <1>4
  <2>3. r.kind \in Kind
    BY <2>2, KindsAssumption DEF Request
  <2>4. /\ f \in Answers(down) /\ IsAnswer(f)
        /\ \A g \in Answers(down') : g.tag # f.tag
    BY <1>1, <2>1, <2>3, TailAnswers DEF IsAnswer
  <2>5. WasTaken(f.tag, r.kind)
    <3>1. PICK k \in Kind : f.id = ResponseId[k] /\ WasTaken(f.tag, k)
      BY <1>0, <2>4 DEF Known
    <3>. QED
      BY <2>1, <2>3, <3>1, ResponseIds
  <2>6. f.tag = r.tag \/ (f.tag \in DOMAIN outcome /\ outcome[f.tag].kind = r.kind)
    BY <2>2, <2>5 DEF WasTaken
  <2>7. f.tag \in 0 .. MaxCmds /\ f.tag <= r.tag /\ f.tag # 0
    BY <1>1, <2>2, <2>6, BoundsAssumption, <1>0 DEF Request
  <2>8. \A q \in up : q.tag # f.tag
    BY <1>0, <2>4 DEF OnePlace
  <2>9. \A n \in DOMAIN outcome : outcome[n].by # f.tag
    BY <1>0, <2>4, <2>7 DEF OnePlace
  <2> HIDE DEF f
  <2>10. f.tag # r.tag => /\ f.tag \in DOMAIN outcome
                          /\ outcome[f.tag].kind = r.kind
                          /\ outcome[f.tag].by # f.tag
    BY <2>6, <2>9
  <2>. QED
    BY <1>0, <1>5, <2>1, <2>2, <2>4, <2>7, <2>8, <2>9, <2>10, CommandDone
<1>12. CASE CollectFrame
  BY <1>2, <1>5, <1>12, WireShrinks DEF CollectFrame
<1>13. CASE RequestTimeout
  <2>1. PICK r \in awaiting :
           Finish(r, 0) /\ UNCHANGED <<cmds, running, up, down, nreq>>
    BY <1>13 DEF RequestTimeout, network
  <2>2. 0 \in 0 .. MaxCmds
    BY BoundsAssumption
  <2>. QED
    BY <1>0, <1>1, <1>4, <2>1, <2>2, CommandDone
<1>14. CASE RequestRecvError
  <2>1. PICK r \in awaiting :
           Finish(r, 0) /\ down' = <<>> /\ UNCHANGED <<cmds, running, up, nreq>>
    BY <1>14 DEF RequestRecvError
  <2>2. 0 \in 0 .. MaxCmds
    BY BoundsAssumption
  <2>3. Answers(down') \subseteq Answers(down) /\ Distinct(down')
    BY <2>1, NoAnswers
  <2>. QED
    BY <1>0, <1>4, <2>1, <2>2, <2>3, CommandDone
<1>15. CASE DispatchDrained
  BY <1>1, <1>2, <1>15, WireShrinks DEF DispatchDrained, network
<1>16. ASSUME NEW r \in up, Answer(r)
       PROVE  AInv'
  <2> DEFINE f == [id |-> ResponseId[r.kind], tag |-> r.tag]
  <2>1. /\ down' = Append(down, f) /\ up' = up \ {r}
        /\ UNCHANGED <<cmds, awaiting, running, nreq, outcome>>
    BY <1>16 DEF Answer, client
  <2>2. r.kind \in Kind /\ r.tag \in Nat
    BY <1>0, KindsAssumption DEF TypeOK, Request
  <2>3. f \in Frame /\ f.id = ResponseId[r.kind] /\ f.tag = r.tag
    BY <2>2 DEF Frame, IncomingId
  <2> HIDE DEF f
  <2>4. /\ Distinct(down')
        /\ \A g \in Answers(down') : g \in Answers(down) \/ g = f
    BY <1>0, <1>1, <2>1, <2>3, AppendAnswers DEF OnePlace
  <2>5. \A n, k : WasTaken(n, k) => WasTaken(n, k)'
    BY <2>1 DEF WasTaken
  <2>6. WasTaken(r.tag, r.kind)
    BY <1>0 DEF Known
  <2>7. Known'
    <3>1. \A q \in up' : WasTaken(q.tag, q.kind)'
      BY <1>0, <2>1, <2>5 DEF Known
    <3>2. ASSUME NEW g \in Answers(down')
          PROVE  \E k \in Kind : g.id = ResponseId[k] /\ WasTaken(g.tag, k)'
      <4>1. CASE g \in Answers(down)
        BY <1>0, <2>5, <4>1 DEF Known
      <4>2. CASE g = f
        BY <2>2, <2>3, <2>5, <2>6, <4>2
      <4>. QED
        BY <2>4, <4>1, <4>2
    <3>. QED
      BY <3>1, <3>2 DEF Known
  <2>8. OnePlace'
    <3>1. \A q, s \in up' : q.tag = s.tag => q = s
      BY <1>0, <2>1 DEF OnePlace
    <3>2. \A q \in up' : q.tag # r.tag
      BY <1>0, <2>1 DEF OnePlace
    <3>3. \A g \in Answers(down'), q \in up' : g.tag # q.tag
      BY <1>0, <2>1, <2>3, <2>4, <3>2 DEF OnePlace
    <3>4. \A n \in DOMAIN outcome : outcome[n].by # 0 => r.tag # outcome[n].by
      BY <1>0 DEF OnePlace
    <3>5. \A n \in DOMAIN outcome : outcome[n].by # 0 =>
             /\ outcome[n].by <= n
             /\ \A q \in up' : q.tag # outcome[n].by
             /\ \A g \in Answers(down') : g.tag # outcome[n].by
      BY <1>0, <2>1, <2>3, <2>4, <3>4 DEF OnePlace
    <3>. QED
      BY <2>1, <2>4, <3>1, <3>3, <3>5 DEF OnePlace
  <2>9. AnswersUsedOnce' /\ StaleAnswersExplained'
    BY <2>1 DEF AInv, AnswersUsedOnce, StaleAnswersExplained
  <2>. QED
    BY <1>2, <2>1, <2>7, <2>8, <2>9 DEF AInv
\* a frame that answers nothing: a push, or the error envelope
<1>17. ASSUME NEW f \in Frame, ~ IsAnswer(f), down' = Append(down, f), up' \subseteq up,
              UNCHANGED <<cmds, awaiting, running, nreq, outcome>>
       PROVE  AInv'
  <2>1. Distinct(down') /\ Answers(down') \subseteq Answers(down)
    BY <1>1, <1>17, AppendAnswers
  <2>. QED
    BY <1>2, <1>17, <2>1, WireShrinks
<1>18. ASSUME NEW r \in up, AnswerInvalid(r)
       PROVE  AInv'
  <2> DEFINE f == [id |-> INVALID_REQUEST, tag |-> r.tag]
  <2>1. /\ down' = Append(down, f) /\ up' \subseteq up
        /\ UNCHANGED <<cmds, awaiting, running, nreq, outcome>>
    BY <1>18 DEF AnswerInvalid, client
  <2>2. f \in Frame
    BY <1>0 DEF TypeOK, Request, Frame, IncomingId
  <2>3. ~ IsAnswer(f)
    BY ResponseIds DEF IsAnswer
  <2>. QED
    BY <1>17, <2>1, <2>2, <2>3
<1>19. ASSUME NEW id \in PushId, Push(id)
       PROVE  AInv'
  <2> DEFINE f == [id |-> id, tag |-> npush + 1]
  <2>1. down' = Append(down, f) /\ UNCHANGED <<cmds, up, awaiting, running, nreq, outcome>>
    BY <1>19 DEF Push, client
  <2>2. f \in Frame
    BY <1>0 DEF TypeOK, Frame, IncomingId
  <2>3. ~ IsAnswer(f)
    BY ResponseIds DEF IsAnswer
  <2>. QED
    BY <1>17, <2>1, <2>2, <2>3
<1>20. CASE Close
  BY <1>1, <1>2, <1>20, WireShrinks DEF Close, client
<1>21. CASE UNCHANGED vars
  BY <1>1, <1>2, <1>21, WireShrinks DEF vars
<1>. QED
  BY <1>6, <1>7, <1>8, <1>9, <1>10, <1>11, <1>12, <1>13, <1>14, <1>15, <1>16, <1>18, <1>19,
     <1>20, <1>21 DEF Next, NetStep, ServerStep

(* Every reachable state of the loop satisfies the invariant.              *)
THEOREM SpecAInv == Spec => []AInv
BY InitAInv, NextAInv, SpecIInv, PTL DEF Spec

(* Commands finish in the order they were issued, each once, whatever the  *)
(* server answers, and whichever time out or cannot be sent.               *)
THEOREM ClientLoopCommandsInOrder == Spec => []CommandsInOrder
<1>1. AInv => CommandsInOrder
  BY DEF AInv, Numbered, CommandsInOrder
<1>. QED
  BY <1>1, SpecAInv, PTL

(* No answer completes two requests, late ones included.                   *)
THEOREM ClientLoopAnswersUsedOnce == Spec => []AnswersUsedOnce
<1>1. AInv => AnswersUsedOnce
  BY DEF AInv
<1>. QED
  BY <1>1, SpecAInv, PTL

(* A request takes another one's answer only from an earlier request of    *)
(* its kind that did not get it.                                           *)
THEOREM ClientLoopStaleAnswersExplained == Spec => []StaleAnswersExplained
<1>1. AInv => StaleAnswersExplained
  BY DEF AInv
<1>. QED
  BY <1>1, SpecAInv, PTL
=============================================================================

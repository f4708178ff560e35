-------------------------- MODULE WsChannelProofs ---------------------------
(***************************************************************************)
(* Proofs that a WebSocketConnection keeps the promises of WsChannel, for  *)
(* any number of workers, writes, frames and calls of sendText: frames are *)
(* handled in order, each once, and a close is told once, after the last   *)
(* arrival.  Then the mutexes: where threads can lock themselves out, and  *)
(* what becomes of them.                                                   *)
(***************************************************************************)
EXTENDS WsConnectionProofs, SequenceTheorems

\* Places from which nothing is called: a thread there has them on top.
Tops == {"shut", "tell", "frame"}
OnTop == \A t \in Threads : \A i \in DOMAIN stack[t] : stack[t][i] \in Tops => i = 1

\* This thread got past is_closed_.exchange first, and carries the close out.
Closer(t) == Top(t) \in {"shut", "tell"}

\* One thread carries the close out, tells it once, and after the socket is shut
\* the kernel has no read.
Closing ==
    /\ told \in {0, 1} /\ (told = 1 => isClosed /\ ~socketOpen)
    /\ \A t \in Threads : /\ Closer(t) => isClosed /\ told = 0
                          /\ Top(t) = "tell" => ~socketOpen
    /\ \A t, u \in Threads : Closer(t) /\ Closer(u) => t = u
    /\ ~socketOpen => io[Read] # "kernel"

\* A worker that is about to post a read.
Reading(w) == Has(stack[w], "asyncRead") \/ Has(stack[w], "recv")

\* The buffer is empty when a read is posted, and nobody empties it between the
\* test in processData and handleFrame; what was handled came before the rest.
Buffer ==
    /\ io[Read] = "kernel" => inbound = << >>
    /\ \A w \in Workers : /\ Reading(w) => io[Read] = "none" /\ inbound = << >>
                          /\ Top(w) = "frame" => InParse(w) /\ inbound # << >>
    /\ \A i \in DOMAIN inbound : inbound[i].id <= frames
    /\ said # << >> => said[Len(said)] <= frames

\* The inductive invariant.
ChannelInv == ConnInv /\ TypeOK /\ OnTop /\ Closing /\ Buffer
-----------------------------------------------------------------------------
\* What a sequence holds is in the set it is a sequence of.
LEMMA InRange == ASSUME NEW S, NEW s \in Seq(S), NEW i \in DOMAIN s PROVE s[i] \in S
OBVIOUS

\* A step that leaves a thread on top of such a place has left its stack alone.
CalmTops == \A u \in Threads : Top(u)' \in Tops => stack'[u] = stack[u]
SameReaders == \A w \in Workers : Reading(w)' => Reading(w)

\* What Goto puts in the place of the top: such places are on top afterwards.
LEMMA TopMoves ==
    ASSUME ShapeInv, OnTop, NEW t \in Threads, NEW from, from # "idle", NEW to \in Seq(Places),
           Goto(t, from, to), \A i \in DOMAIN to : to[i] \in Tops => i = 1
    PROVE  /\ OnTop'
           /\ \A p \in Tops : Top(t)' = p <=> (to # << >> /\ to[1] = p)
           /\ \A u \in Threads : u # t => stack'[u] = stack[u] /\ Top(u)' = Top(u)
<1>1. /\ stack[t] \in Seq(Places) /\ stack[t] # << >> /\ stack[t][1] = from
      /\ stack'[t] = to \o Tail(stack[t])
      /\ stack' \in [Threads -> Seq(Places)]
      /\ \A u \in Threads : u # t => stack'[u] = stack[u]
  BY TopOfStack
<1> DEFINE s == stack[t]  new == stack'[t]
<1>2. /\ s \in Seq(Places) /\ s # << >> /\ new = to \o Tail(s)
      /\ \A i \in DOMAIN s : s[i] \in Tops => i = 1
  BY <1>1 DEF OnTop
<1> HIDE DEF s, new
<1>3. /\ new \in Seq(Places) /\ Len(new) = Len(to) + Len(s) - 1
      /\ \A i \in 1..Len(new) :
             new[i] = IF i <= Len(to) THEN to[i] ELSE s[i - Len(to) + 1]
  BY <1>2, Replaced
<1>4. \A i \in 1..Len(new) : new[i] \in Tops => i = 1 /\ i <= Len(to)
  <2> SUFFICES ASSUME NEW i \in 1..Len(new), new[i] \in Tops PROVE i = 1 /\ i <= Len(to)
    OBVIOUS
  <2>1. CASE i <= Len(to)
    BY <2>1, <1>3
  <2>2. CASE ~(i <= Len(to))
    <3>1. i - Len(to) + 1 \in 1..Len(s) /\ i - Len(to) + 1 # 1
      BY <2>2, <1>2, <1>3
    <3>2. QED
      BY <2>2, <3>1, <1>2, <1>3
  <2>3. QED
    BY <2>1, <2>2
<1>5. OnTop'
  <2>1. \A i \in DOMAIN stack'[t] : stack'[t][i] \in Tops => i = 1
    BY <1>3, <1>4 DEF new
  <2>2. QED
    BY <1>1, <2>1 DEF OnTop
<1>6. Top(t)' = IF new = << >> THEN "idle" ELSE new[1]
  BY <1>3 DEF Top, new
<1>7. "idle" \notin Tops
  BY DEF Tops
<1>8. ASSUME NEW p \in Tops PROVE Top(t)' = p <=> (to # << >> /\ to[1] = p)
  <2>1. CASE to # << >>
    <3>1. Len(to) >= 1 /\ 1 \in 1..Len(new) /\ new # << >>
      BY <2>1, <1>2, <1>3
    <3>2. QED
      BY <2>1, <3>1, <1>3, <1>6
  <2>2. CASE to = << >>
    <3>1. ASSUME new # << >> PROVE new[1] \notin Tops
      BY <2>2, <3>1, <1>3, <1>4
    <3>2. QED
      BY <2>2, <3>1, <1>6, <1>7
  <2>3. QED
    BY <2>1, <2>2
<1>9. \A u \in Threads : u # t => stack'[u] = stack[u] /\ Top(u)' = Top(u)
  BY <1>1 DEF Top
<1>10. QED
  BY <1>5, <1>8, <1>9

\* A step to places that are not such places.
LEMMA CalmMove ==
    ASSUME ShapeInv, OnTop, NEW t \in Threads, NEW from, from # "idle", NEW to \in Seq(Places),
           Goto(t, from, to), \A i \in DOMAIN to : to[i] \notin Tops
    PROVE  OnTop' /\ CalmTops /\ Top(t)' \notin Tops
<1>1. /\ OnTop'
      /\ \A p \in Tops : Top(t)' = p <=> (to # << >> /\ to[1] = p)
      /\ \A u \in Threads : u # t => stack'[u] = stack[u]
  BY TopMoves
<1>2. to # << >> => to[1] \notin Tops
  OBVIOUS
<1>3. QED
  BY <1>1, <1>2 DEF CalmTops

\* Where calls that are not in Tops take a thread.
CalmTos == {<< >>, <<"send">>, <<"recv">>, <<"close", "unlockSock">>, <<"asyncWrite">>,
            <<"close">>, <<"parse">>, <<"asyncRead">>, <<"setClose">>, <<"leave">>,
            <<"io", "leave">>, <<"freeOp">>, <<"close", "freeOp">>}

\* These are sequences of places, and none of them is in Tops.
LEMMA CalmPlaces ==
    ASSUME NEW to \in CalmTos
    PROVE  to \in Seq(Places) /\ \A i \in DOMAIN to : to[i] \notin Tops
<1>1. ASSUME NEW p \in Places \ Tops, to = <<p>>
      PROVE  to \in Seq(Places) /\ \A i \in DOMAIN to : to[i] \notin Tops
  BY <1>1
<1>2. ASSUME NEW p \in Places \ Tops, NEW q \in Places \ Tops, to = <<p, q>>
      PROVE  to \in Seq(Places) /\ \A i \in DOMAIN to : to[i] \notin Tops
  <2>1. to \in Seq(Places) /\ DOMAIN to = {1, 2} /\ to[1] = p /\ to[2] = q
    BY <1>2
  <2>2. QED
    BY <2>1
<1>3. {"send", "recv", "close", "unlockSock", "asyncWrite", "parse", "asyncRead",
       "setClose", "leave", "io", "freeOp"} \subseteq Places \ Tops
  BY DEF Places, Tops
<1>4. CASE to = << >>
  BY <1>4
<1>5. QED
  BY <1>1, <1>2, <1>3, <1>4 DEF CalmTos

\* Every step but those that enter such a place is calm.
LEMMA CalmStep ==
    ASSUME ConnInv, OnTop, [Next]_vars
    PROVE  \/ OnTop' /\ CalmTops
           \/ \E t \in Threads : CloseFirst(t) \/ Shut(t)
           \/ \E w \in Workers : LockFrame(w)
<1>1. ShapeInv /\ Workers \subseteq Threads /\ App \in Threads
  BY DEF ConnInv, Threads
<1>2. ASSUME NEW t \in Threads, NEW from \in Places, NEW to \in CalmTos, Goto(t, from, to)
      PROVE  OnTop' /\ CalmTops
  <2>1. from # "idle"
    BY DEF Places
  <2>2. to \in Seq(Places) /\ \A i \in DOMAIN to : to[i] \notin Tops
    BY CalmPlaces
  <2>3. QED
    BY <1>1, <1>2, <2>1, <2>2, CalmMove
<1>3. ASSUME NEW t \in Threads, NEW to \in CalmTos, Begin(t, to)
      PROVE  OnTop' /\ CalmTops
  <2>1. stack' = [stack EXCEPT ![t] = to] /\ stack \in [Threads -> Seq(Places)]
    BY <1>1, <1>3 DEF Begin, ShapeInv
  <2>2. stack'[t] = to /\ \A u \in Threads : u # t => stack'[u] = stack[u]
    BY <2>1
  <2>3. \A i \in DOMAIN to : to[i] \notin Tops
    BY CalmPlaces
  <2>4. to # << >> => 1 \in DOMAIN to /\ Head(to) = to[1]
    BY CalmPlaces
  <2>5. Top(t)' \notin Tops
    BY <2>2, <2>3, <2>4 DEF Top, Tops
  <2>6. QED
    BY <2>2, <2>3, <2>5 DEF OnTop, CalmTops
<1>4. ASSUME stack' = stack PROVE OnTop' /\ CalmTops
  BY <1>4 DEF OnTop, CalmTops
<1>5. {<< >>, <<"send">>, <<"recv">>, <<"close", "unlockSock">>, <<"asyncWrite">>,
       <<"close">>, <<"parse">>, <<"asyncRead">>, <<"setClose">>, <<"leave">>,
       <<"io", "leave">>, <<"freeOp">>, <<"close", "freeOp">>} = CalmTos
  BY DEF CalmTos
<1>6. ASSUME NEW t \in Threads,
             \/ SkipClosed(t) \/ TestOpen(t) \/ SocketGone(t) \/ PostRead(t)
             \/ \E o \in Writes : PostWrite(t, o) \/ WriteFails(t, o)
             \/ ReadFails(t) \/ UnlockSock(t) \/ CloseAgain(t) \/ Tell(t)
      PROVE  OnTop' /\ CalmTops
  <2>1. \E from \in Places, to \in {<< >>, <<"recv">>, <<"send">>, <<"close", "unlockSock">>} :
            Goto(t, from, to)
    <3>1. {"asyncRead", "asyncWrite", "recv", "send", "unlockSock", "close", "tell"}
              \subseteq Places
      BY DEF Places
    <3>2. QED
      BY <1>6, <3>1 DEF SkipClosed, TestOpen, SocketGone, PostRead, PostWrite, WriteFails,
                        ReadFails, UnlockSock, CloseAgain, Tell
  <2>2. QED
    BY <1>2, <1>5, <2>1
<1>7. ASSUME NEW w \in Workers,
             \/ SetMessageCallback(w) \/ SetCloseCallback(w) \/ Leave(w)
             \/ IoClosed(w) \/ IoWritten(w) \/ IoNothing(w) \/ FreeOp(w)
             \/ IoEnd(w) \/ IoData(w)
             \/ ParseDone(w) \/ ParseBad(w) \/ HandleFrame(w) \/ UnlockCb(w)
      PROVE  OnTop' /\ CalmTops
  <2>1. \E from \in Places,
           to \in {<< >>, <<"setClose">>, <<"leave">>, <<"close">>, <<"parse">>,
                   <<"asyncRead">>, <<"asyncWrite">>, <<"freeOp">>,
                   <<"close", "freeOp">>} : Goto(w, from, to)
    <3>1. {"setMessage", "setClose", "leave", "io", "freeOp", "parse", "frame", "unlockCb"}
              \subseteq Places
      BY DEF Places
    <3>2. CASE HandleFrame(w)
      BY <3>1, <3>2 DEF HandleFrame
    <3>3. CASE ~HandleFrame(w)
      BY <1>7, <3>1, <3>3 DEF SetMessageCallback, SetCloseCallback, Leave, IoClosed, IoWritten,
                              IoNothing, FreeOp, IoEnd, IoData, ParseDone, ParseBad, UnlockCb
    <3>4. QED
      BY <3>2, <3>3
  <2>2. QED
    BY <1>1, <1>2, <1>5, <2>1
<1>8. ASSUME NEW w \in Workers, NEW o \in Ops, Take(w, o) PROVE OnTop' /\ CalmTops
  BY <1>1, <1>3, <1>5, <1>8 DEF Take
<1>9. CASE SendText \/ CallClose
  BY <1>1, <1>3, <1>5, <1>9 DEF SendText, CallClose
<1>10. CASE \/ \E batch \in Batches : KernelReads(batch)
            \/ KernelEnds \/ \E o \in Writes : KernelWrites(o)
            \/ UNCHANGED vars
  BY <1>4, <1>10 DEF KernelReads, KernelEnds, KernelWrites, vars
<1>11. QED
  BY <1>6, <1>7, <1>8, <1>9, <1>10 DEF Next, CallStep, WorkerStep, Stuck

\* The three steps that enter such a place put it on top of their own stack.
LEMMA EnterTop ==
    ASSUME ConnInv, OnTop, NEW t \in Threads, NEW from \in Places,
           NEW to \in {<<"shut">>, <<"tell">>, <<"frame", "unlockCb", "parse">>},
           Goto(t, from, to)
    PROVE  /\ OnTop' /\ Top(t)' = to[1]
           /\ \A u \in Threads : u # t => stack'[u] = stack[u] /\ Top(u)' = Top(u)
<1>1. from # "idle"
  BY DEF Places
<1>2. /\ to \in Seq(Places) /\ to # << >> /\ to[1] \in Tops
      /\ \A i \in DOMAIN to : to[i] \in Tops => i = 1
  <2>1. ASSUME NEW p \in {"shut", "tell"}, to = <<p>>
        PROVE  /\ to \in Seq(Places) /\ to # << >> /\ to[1] \in Tops
               /\ \A i \in DOMAIN to : to[i] \in Tops => i = 1
    <3>1. p \in Places /\ p \in Tops
      BY DEF Places, Tops
    <3>2. QED
      BY <2>1, <3>1
  <2>2. CASE to = <<"frame", "unlockCb", "parse">>
    <3>1. DOMAIN to = {1, 2, 3} /\ to \in Seq(Places)
      BY <2>2 DEF Places
    <3>2. QED
      BY <2>2, <3>1 DEF Tops
  <2>3. QED
    BY <2>1, <2>2
<1> HIDE DEF Tops
<1>3. QED
  BY <1>1, <1>2, TopMoves DEF ConnInv

\* A thread that returns from such a place has none on top.
LEMMA LeaveTop ==
    ASSUME ConnInv, OnTop, NEW t \in Threads, NEW from \in Places,
           NEW to, to = << >>, Goto(t, from, to)
    PROVE  Top(t)' \notin Tops /\ \A u \in Threads : u # t => Top(u)' = Top(u)
<1>1. /\ from # "idle" /\ to \in Seq(Places)
      /\ \A i \in DOMAIN to : to[i] \in Tops => i = 1
  BY DEF Places
<1> HIDE DEF Tops
<1>2. QED
  BY <1>1, TopMoves DEF ConnInv

\* A place from which nothing is called stays on top until it is left.
LEMMA OnTopStep == ConnInv /\ OnTop /\ [Next]_vars => OnTop'
<1> SUFFICES ASSUME ConnInv, OnTop, [Next]_vars PROVE OnTop'
  OBVIOUS
<1>1. {"close", "shut", "parse"} \subseteq Places /\ Workers \subseteq Threads
  BY DEF Places, Threads
<1>2. ASSUME NEW t \in Threads, CloseFirst(t) \/ Shut(t) PROVE OnTop'
  BY <1>1, <1>2, EnterTop DEF CloseFirst, Shut
<1>3. ASSUME NEW w \in Workers, LockFrame(w) PROVE OnTop'
  BY <1>1, <1>3, EnterTop DEF LockFrame
<1>4. QED
  BY <1>2, <1>3, CalmStep

\* exchange lets one thread through to close, and it tells once.
LEMMA ClosingStep ==
    ConnInv /\ OnTop /\ Closing /\ [Next]_vars => Closing'
<1> SUFFICES ASSUME ConnInv, OnTop, Closing, [Next]_vars PROVE Closing'
  OBVIOUS
<1>0. /\ Workers \subseteq Threads /\ {"close", "shut", "tell", "parse"} \subseteq Places
      /\ io \in [Ops -> IoStates] /\ Read \in Ops /\ \A o \in Writes : o # Read
  BY ConnectionAssumption DEF Threads, Places, ConnInv, DataInv, Ops
<1> USE DEF locks, flags, data, owner
<1>1. ASSUME \A u \in Threads : Closer(u)' => Top(u)' = Top(u),
             UNCHANGED <<told, isClosed, socketOpen>>,
             io'[Read] = "kernel" => io[Read] = "kernel" \/ socketOpen
      PROVE  Closing'
  BY <1>1 DEF Closing, Closer
<1>2. ASSUME NEW t \in Threads, CloseFirst(t) PROVE Closing'
  <2>1. /\ Goto(t, "close", <<"shut">>) /\ ~isClosed /\ isClosed' = TRUE
        /\ UNCHANGED <<told, socketOpen, io>>
    BY <1>2 DEF CloseFirst
  <2>2. /\ Top(t)' = "shut"
        /\ \A u \in Threads : u # t => Top(u)' = Top(u)
    BY <1>0, <2>1, EnterTop
  <2>3. told = 0 /\ \A u \in Threads : ~Closer(u)
    BY <2>1 DEF Closing
  <2>4. \A u \in Threads : Closer(u)' => u = t
    BY <2>2, <2>3 DEF Closer
  <2>5. \A u \in Threads : Top(u)' # "tell"
    BY <2>2, <2>3 DEF Closer
  <2>6. QED
    BY <2>1, <2>3, <2>4, <2>5 DEF Closing
<1>3. ASSUME NEW t \in Threads, Shut(t) PROVE Closing'
  <2>1. /\ Goto(t, "shut", <<"tell">>) /\ socketOpen' = FALSE
        /\ io' = [o \in Ops |-> IF io[o] = "kernel" THEN "queued" ELSE io[o]]
        /\ UNCHANGED <<told, isClosed>>
    BY <1>3 DEF Shut
  <2>2. /\ Top(t)' = "tell" /\ Top(t) = "shut"
        /\ \A u \in Threads : u # t => Top(u)' = Top(u)
    BY <1>0, <2>1, EnterTop DEF Goto
  <2>3. Closer(t) /\ \A u \in Threads : Closer(u)' => Closer(u)
    BY <2>2 DEF Closer
  <2>4. io'[Read] # "kernel"
    BY <1>0, <2>1
  <2>5. QED
    BY <2>1, <2>3, <2>4 DEF Closing
<1>4. ASSUME NEW t \in Threads, Tell(t) PROVE Closing'
  <2>1. /\ Goto(t, "tell", << >>) /\ told' = (IF onClose THEN told + 1 ELSE told)
        /\ UNCHANGED <<isClosed, socketOpen, io>>
    BY <1>4 DEF Tell
  <2>2. /\ Top(t) = "tell" /\ Top(t)' \notin Tops
        /\ \A u \in Threads : u # t => Top(u)' = Top(u)
    BY <1>0, <2>1, LeaveTop DEF Goto
  <2>3. isClosed /\ told = 0 /\ ~socketOpen /\ Closer(t)
    BY <2>2 DEF Closing, Closer
  <2>4. \A u \in Threads : ~Closer(u)'
    <3>1. ~Closer(t)'
      BY <2>2 DEF Closer, Tops
    <3>2. \A u \in Threads : u # t => ~Closer(u)
      BY <2>3 DEF Closing
    <3>3. QED
      BY <2>2, <3>1, <3>2 DEF Closer
  <2>5. QED
    BY <2>1, <2>3, <2>4 DEF Closing, Closer
<1>5. ASSUME NEW w \in Workers, LockFrame(w) PROVE Closing'
  <2>1. /\ Goto(w, "parse", <<"frame", "unlockCb", "parse">>)
        /\ UNCHANGED <<told, isClosed, socketOpen, io>>
    BY <1>5 DEF LockFrame
  <2>2. /\ Top(w)' = "frame"
        /\ \A u \in Threads : u # w => Top(u)' = Top(u)
    BY <1>0, <2>1, EnterTop
  <2>3. QED
    BY <1>1, <2>1, <2>2 DEF Closer
\* Any other step is calm.
<1>6. ASSUME \A t \in Threads : ~CloseFirst(t) /\ ~Shut(t), \A w \in Workers : ~LockFrame(w)
      PROVE  \A u \in Threads : Closer(u)' => Top(u)' = Top(u)
  BY <1>6, CalmStep DEF CalmTops, Closer, Tops, Top
<1>7. ASSUME \A t \in Threads : ~CloseFirst(t) /\ ~Shut(t) /\ ~Tell(t),
             \A w \in Workers : ~LockFrame(w)
      PROVE  Closing'
  <2>1. CASE \E t \in Threads : \/ PostRead(t)
                                \/ \E o \in Writes : PostWrite(t, o) \/ WriteFails(t, o)
    <3>1. /\ UNCHANGED <<told, isClosed, socketOpen>>
          /\ io'[Read] = "kernel" => io[Read] = "kernel" \/ socketOpen
      BY <1>0, <2>1 DEF PostRead, PostWrite, WriteFails
    <3>2. QED
      BY <1>1, <1>6, <1>7, <3>1
  <2>2. ASSUME NEW t \in Threads,
               \/ SkipClosed(t) \/ TestOpen(t) \/ SocketGone(t) \/ ReadFails(t)
               \/ UnlockSock(t) \/ CloseAgain(t)
        PROVE  Closing'
    <3>1. UNCHANGED <<told, isClosed, socketOpen, io>>
      BY <2>2 DEF SkipClosed, TestOpen, SocketGone, ReadFails, UnlockSock, CloseAgain
    <3>2. QED
      BY <1>1, <1>6, <1>7, <3>1
  <2>3. ASSUME NEW w \in Workers, WorkerStep(w) PROVE Closing'
    <3>1. UNCHANGED <<told, isClosed, socketOpen>>
      BY <1>7, <2>3 DEF WorkerStep, SetMessageCallback, SetCloseCallback, Take, Leave, IoClosed,
         IoWritten, IoNothing, FreeOp, IoEnd, IoData, ParseDone, ParseBad, HandleFrame, UnlockCb
    <3>2. io'[Read] = "kernel" => io[Read] = "kernel"
      <4>1. CASE IoClosed(w) \/ FreeOp(w) \/ IoEnd(w) \/ ParseDone(w) \/ ParseBad(w)
        BY <1>0, <4>1 DEF IoClosed, FreeOp, IoEnd, ParseDone, ParseBad
      <4>2. CASE \E o \in Ops : Take(w, o)
        BY <1>0, <4>2 DEF Take
      <4>3. QED
        BY <1>7, <2>3, <4>1, <4>2 DEF WorkerStep, SetMessageCallback, SetCloseCallback,
           Leave, IoWritten, IoNothing, IoData, HandleFrame, UnlockCb
    <3>3. QED
      BY <1>1, <1>6, <1>7, <3>1, <3>2
  <2>4. CASE \E batch \in Batches : KernelReads(batch)
    BY <1>0, <1>1, <1>6, <1>7, <2>4 DEF KernelReads
  <2>5. CASE KernelEnds \/ \E o \in Writes : KernelWrites(o)
    BY <1>0, <1>1, <1>6, <1>7, <2>5 DEF KernelEnds, KernelWrites
  <2>6. CASE SendText \/ CallClose \/ UNCHANGED vars
    <3>1. UNCHANGED <<told, isClosed, socketOpen, io>>
      BY <2>6 DEF SendText, CallClose, vars
    <3>2. QED
      BY <1>1, <1>6, <1>7, <3>1
  <2>7. QED
    BY <1>7, <2>1, <2>2, <2>3, <2>4, <2>5, <2>6 DEF Next, CallStep, Stuck
<1>8. QED
  BY <1>2, <1>3, <1>4, <1>5, <1>7
-----------------------------------------------------------------------------
\* A worker that leaves an inner place for others that read nothing is alone.
LEMMA ReadersGone ==
    ASSUME ConnInv, NEW t \in Threads, NEW from \in Inner,
           NEW to \in {<< >>, <<"close">>, <<"parse">>, <<"close", "unlockSock">>,
                       <<"freeOp">>, <<"close", "freeOp">>, <<"frame", "unlockCb", "parse">>},
           Goto(t, from, to)
    PROVE  /\ t \in Workers /\ \A w \in Workers : ~Reading(w)'
           /\ \A w \in Workers \ {t} : stack'[w] = << >> /\ stack[w] = << >>
           /\ to = <<"frame", "unlockCb", "parse">> => InParse(t)'
<1>1. from \notin Outer /\ {"asyncRead", "recv", "parse"} \subseteq Inner
  BY DEF Inner, Outer
<1>2. /\ to \in Seq(Places) /\ Fits(from, to)
      /\ ~Has(to, "asyncRead") /\ ~Has(to, "recv")
      /\ to = <<"frame", "unlockCb", "parse">> => Has(to, "parse")
  <2>1. CASE to = << >>
    BY <1>1, <2>1 DEF Fits, Has
  <2>2. ASSUME NEW p \in {"close", "parse", "freeOp"}, to = <<p>>
        PROVE  /\ to \in Seq(Places) /\ Fits(from, to)
               /\ ~Has(to, "asyncRead") /\ ~Has(to, "recv")
    <3>1. p \in Places /\ p \notin Outer /\ p # "asyncRead" /\ p # "recv"
      BY DEF Places, Outer
    <3>2. DOMAIN to = {1} /\ to[1] = p /\ to \in Seq(Places) /\ Len(to) = 1
      BY <2>2, <3>1
    <3>3. QED
      BY <1>1, <2>2, <3>1, <3>2 DEF Fits, Has
  <2>3. CASE to = <<"close", "unlockSock">>
    <3>1. /\ {"close", "unlockSock"} \subseteq Places
          /\ \A i \in {1, 2} : /\ to[i] \notin Outer /\ to[i] \notin Inner
                               /\ to[i] # "asyncRead" /\ to[i] # "recv"
      BY <2>3 DEF Places, Inner, Outer
    <3>2. DOMAIN to = {1, 2} /\ to \in Seq(Places)
      BY <2>3, <3>1
    <3>3. QED
      BY <1>1, <2>3, <3>1, <3>2 DEF Fits, Has
  <2>4. CASE to = <<"close", "freeOp">>
    <3>1. /\ {"close", "freeOp"} \subseteq Places
          /\ \A i \in {1, 2} : to[i] \notin Outer /\ to[i] # "asyncRead" /\ to[i] # "recv"
          /\ to[1] \notin Inner
      BY <2>4 DEF Places, Inner, Outer
    <3>2. DOMAIN to = {1, 2} /\ to \in Seq(Places) /\ Len(to) = 2
      BY <2>4, <3>1
    <3>3. QED
      BY <1>1, <2>4, <3>1, <3>2 DEF Fits, Has
  <2>5. CASE to = <<"frame", "unlockCb", "parse">>
    <3>1. /\ {"frame", "unlockCb", "parse"} \subseteq Places
          /\ \A i \in {1, 2, 3} : /\ to[i] \notin Outer
                                  /\ to[i] # "asyncRead" /\ to[i] # "recv"
          /\ \A i \in {1, 2} : to[i] \notin Inner
          /\ to[3] = "parse"
      BY <2>5 DEF Places, Inner, Outer
    <3>2. DOMAIN to = {1, 2, 3} /\ to \in Seq(Places) /\ Len(to) = 3
      BY <2>5, <3>1
    <3>3. QED
      BY <1>1, <3>1, <3>2 DEF Fits, Has
  <2>6. QED
    BY <2>1, <2>2, <2>3, <2>4, <2>5
<1>3. /\ t \in Workers
      /\ \A w \in Workers \ {t} : stack[w] = << >> /\ stack'[w] = << >>
      /\ \A p \in Inner : Has(stack'[t], p) <=> Has(to, p)
  BY <1>2, WorkerGoto DEF ConnInv
<1>4. \A w \in Workers \ {t} : ~Reading(w)'
  BY <1>3, Nothing DEF Reading
<1>5. ~Reading(t)'
  BY <1>1, <1>2, <1>3 DEF Reading
<1>6. to = <<"frame", "unlockCb", "parse">> => InParse(t)'
  BY <1>1, <1>2, <1>3 DEF InParse
<1>7. QED
  BY <1>3, <1>4, <1>5, <1>6

\* Steps outside of processData and of the posting of a read change neither.
LEMMA SameReads ==
    ASSUME ConnInv, core' = core, NEW t \in Threads,
           NEW from \in {"asyncWrite", "send", "unlockSock", "close", "shut", "tell",
                         "frame", "unlockCb"},
           NEW to \in {<< >>, <<"send">>, <<"close", "unlockSock">>, <<"shut">>, <<"tell">>,
                       <<"asyncWrite">>, <<"close">>},
           Goto(t, from, to)
    PROVE  \A w \in Workers : Reading(w)' <=> Reading(w)
<1>1. from \in Places \ (Inner \cup Outer)
  BY DEF Places, Inner, Outer
<1>2. to \in Seq(Places) /\ Fits(from, to)
  <2>1. CASE to = << >>
    BY <1>1, <2>1 DEF Fits
  <2>2. ASSUME NEW p \in Places \ (Inner \cup Outer), to = <<p>>
        PROVE  to \in Seq(Places) /\ Fits(from, to)
    BY <1>1, <2>2 DEF Fits
  <2>3. CASE to = <<"close", "unlockSock">>
    <3>1. /\ {"close", "unlockSock"} \subseteq Places
          /\ \A i \in {1, 2} : to[i] \notin Outer /\ to[i] \notin Inner
      BY <2>3 DEF Places, Inner, Outer
    <3>2. DOMAIN to = {1, 2} /\ to \in Seq(Places)
      BY <2>3, <3>1
    <3>3. QED
      BY <1>1, <3>1, <3>2 DEF Fits
  <2>4. {"send", "shut", "tell", "asyncWrite", "close"} \subseteq Places \ (Inner \cup Outer)
    BY DEF Places, Inner, Outer
  <2>5. QED
    BY <2>1, <2>2, <2>3, <2>4
<1>3. \A w \in Workers, p \in Inner \cup Outer : Has(stack'[w], p) <=> Has(stack[w], p)
  BY <1>1, <1>2, NeutralGoto DEF ConnInv
<1>4. {"asyncRead", "recv"} \subseteq Inner \cup Outer
  BY DEF Inner
<1>5. QED
  BY <1>3, <1>4 DEF Reading

\* A worker at the beginning or the end of a callback reads nothing.
LEMMA OuterReads ==
    ASSUME ConnInv, NEW w \in Workers,
           SetMessageCallback(w) \/ SetCloseCallback(w) \/ Leave(w) \/ \E o \in Ops : Take(w, o)
    PROVE  \A v \in Workers : ~Reading(v)'
<1>1. ASSUME NEW to \in {<<"setClose">>, <<"leave">>, << >>, <<"io", "leave">>}
      PROVE  ~Has(to, "asyncRead") /\ ~Has(to, "recv")
  BY DEF Has
<1>2. ASSUME NEW from \in {"setMessage", "setClose", "leave"},
             NEW to \in {<<"setClose">>, <<"leave">>, << >>}, Goto(w, from, to)
      PROVE  \A v \in Workers : ~Reading(v)'
  <2>1. from \in Outer /\ from \notin Inner /\ w \in Threads
    BY DEF Outer, Inner, Threads
  <2>2. to \in Seq(Places) /\ Fits(from, to)
    <3>1. CASE to = << >>
      BY <2>1, <3>1 DEF Fits
    <3>2. ASSUME NEW p \in Outer \cap Places, to = <<p>>
          PROVE  to \in Seq(Places) /\ Fits(from, to)
      BY <2>1, <3>2 DEF Fits, Outer, Inner
    <3>3. {"setClose", "leave"} \subseteq Outer \cap Places
      BY DEF Outer, Places
    <3>4. QED
      BY <3>1, <3>2, <3>3
  <2>3. /\ \A v \in Workers \ {w} : stack'[v] = << >>
        /\ stack'[w] = to
    BY <1>2, <2>1, <2>2, WorkerGoto DEF ConnInv
  <2>4. QED
    BY <1>1, <2>3, Nothing DEF Reading
<1>3. CASE SetMessageCallback(w) \/ SetCloseCallback(w) \/ Leave(w)
  BY <1>2, <1>3 DEF SetMessageCallback, SetCloseCallback, Leave
<1>4. ASSUME NEW o \in Ops, Take(w, o) PROVE \A v \in Workers : ~Reading(v)'
  <2>1. core = Free /\ stack' = [stack EXCEPT ![w] = <<"io", "leave">>]
    BY <1>4 DEF Take, Begin
  <2>2. /\ \A v \in Workers : stack[v] = << >>
        /\ stack \in [Threads -> Seq(Places)] /\ Workers \subseteq Threads
    BY <2>1, ConnectionAssumption DEF ConnInv, ShapeInv, Threads
  <2>3. stack'[w] = <<"io", "leave">> /\ \A v \in Workers \ {w} : stack'[v] = << >>
    BY <2>1, <2>2
  <2>4. QED
    BY <1>1, <2>3, Nothing DEF Reading
<1>5. QED
  BY <1>3, <1>4

\* asyncRead is the only way to recv.
LEMMA ReadGoesOn ==
    ASSUME ConnInv, NEW t \in Threads, Goto(t, "asyncRead", <<"recv">>)
    PROVE  SameReaders
<1> DEFINE to == <<"recv">>
<1>1. "asyncRead" \in Inner /\ to \in Seq(Places) /\ Fits("asyncRead", to)
  BY DEF Inner, Outer, Places, Fits
<1> HIDE DEF to
<1>2. Goto(t, "asyncRead", to)
  BY DEF to
<1>3. /\ Has(stack[t], "asyncRead")
      /\ \A w \in Workers \ {t} : stack[w] = << >> /\ stack'[w] = << >>
  BY <1>1, <1>2, WorkerGoto DEF ConnInv
<1>4. QED
  BY <1>3, Nothing DEF SameReaders, Reading

\* The buffer is handled by one worker at a time, and the kernel writes to it
\* only when it is empty.
LEMMA BufferStep ==
    ConnInv /\ TypeOK /\ OnTop /\ Buffer /\ [Next]_vars => Buffer'
<1> SUFFICES ASSUME ConnInv, TypeOK, OnTop, Buffer, [Next]_vars PROVE Buffer'
  OBVIOUS
<1>0. /\ Workers \subseteq Threads /\ {"io", "freeOp", "parse", "asyncRead", "recv"} \subseteq Inner
      /\ io \in [Ops -> IoStates] /\ Read \in Ops /\ \A o \in Writes : o # Read
      /\ frames \in Nat /\ inbound \in Seq([kind : Kinds, id : 1..MaxFrames])
      /\ said \in Seq(1..MaxFrames) /\ MaxFrames \in Nat
  BY ConnectionAssumption DEF Threads, Inner, ConnInv, DataInv, Ops, TypeOK
<1> USE DEF locks, flags, data, owner
<1>1. \A w \in Workers : InParse(w) => io[Read] = "inHand"
  BY DEF ConnInv, DataInv, InParse
<1>2. \A v, w \in Workers : InParse(v) /\ InParse(w) => v = w
  BY Nothing DEF ConnInv, ShapeInv, InParse
<1>3. ASSUME NEW t \in Threads, NEW from \in Places, NEW to, Goto(t, from, to)
      PROVE  Top(t) = from /\ Has(stack[t], from)
  <2>1. stack[t] \in Seq(Places) /\ Top(t) = from /\ from # "idle"
    BY <1>3 DEF Goto, ConnInv, ShapeInv, Places
  <2>2. QED
    BY <2>1 DEF Top, Has
\* A step that leaves the buffer alone.
<1>4. ASSUME CalmTops, UNCHANGED <<inbound, frames, said>>,
             io'[Read] = "kernel" => io[Read] = "kernel",
             \A w \in Workers : Reading(w)' => Reading(w) /\ io'[Read] = io[Read]
      PROVE  Buffer'
  <2>1. \A w \in Workers : Top(w)' = "frame" => Top(w) = "frame" /\ (InParse(w) => InParse(w)')
    BY <1>0, <1>4 DEF CalmTops, Tops, Top, InParse
  <2>2. QED
    BY <1>4, <2>1 DEF Buffer
<1>5. ASSUME CalmTops, SameReaders, UNCHANGED <<inbound, frames, said>>, io'[Read] = io[Read]
      PROVE  Buffer'
  BY <1>4, <1>5 DEF SameReaders
\* A worker that has left the buffer, when it is not in handleFrame.
<1>6. ASSUME NEW w \in Workers, \A v \in Workers \ {w} : stack'[v] = << >>,
             CalmTops, Top(w) # "frame"
      PROVE  \A v \in Workers : Top(v)' # "frame"
  BY <1>0, <1>6 DEF CalmTops, Tops, Top
<1>7. ASSUME NEW w \in Workers, NEW from \in {"io", "parse"}, NEW to \in {<< >>, <<"close">>},
             Goto(w, from, to), CalmTops, UNCHANGED <<frames, said>>,
             io'[Read] # "kernel", inbound' \in {<< >>, inbound}
      PROVE  Buffer'
  <2>1. /\ \A v \in Workers : ~Reading(v)'
        /\ \A v \in Workers \ {w} : stack'[v] = << >>
    BY <1>0, <1>7, ReadersGone
  <2>2. from \in Places
    BY DEF Places
  <2>3. \A v \in Workers : Top(v)' # "frame"
    BY <1>0, <1>3, <1>6, <1>7, <2>1, <2>2
  <2>4. \A i \in DOMAIN inbound' : inbound'[i].id <= frames
    BY <1>7 DEF Buffer
  <2>5. QED
    BY <1>7, <2>1, <2>3, <2>4 DEF Buffer
<1>8. ASSUME \A t \in Threads : ~CloseFirst(t) /\ ~Shut(t), \A w \in Workers : ~LockFrame(w)
      PROVE  CalmTops
  BY <1>8, CalmStep
<1>9. ASSUME NEW w \in Workers, LockFrame(w) PROVE Buffer'
  <2> DEFINE to == <<"frame", "unlockCb", "parse">>
  <2>1. /\ Goto(w, "parse", to) /\ inbound # << >>
        /\ UNCHANGED <<inbound, frames, said, io>>
    BY <1>9 DEF LockFrame
  <2>2. /\ \A v \in Workers : ~Reading(v)'
        /\ \A v \in Workers \ {w} : stack'[v] = << >>
        /\ InParse(w)'
    BY <1>0, <2>1, ReadersGone
  <2>3. \A v \in Workers \ {w} : Top(v)' # "frame"
    BY <2>2 DEF Top
  <2>4. QED
    BY <2>1, <2>2, <2>3 DEF Buffer
<1>10. ASSUME NEW w \in Workers, HandleFrame(w) PROVE Buffer'
  <2>1. PICK to \in {<< >>, <<"asyncWrite">>, <<"close">>} : Goto(w, "frame", to)
    BY <1>10 DEF HandleFrame
  <2>2. /\ inbound' = Tail(inbound) /\ UNCHANGED <<frames, io, core>>
        /\ said' = said \/ said' = Append(said, Head(inbound).id)
    BY <1>10 DEF HandleFrame
  <2>3. InParse(w) /\ inbound # << >> /\ io[Read] = "inHand" /\ "frame" \in Places
    BY <1>0, <1>1, <2>1 DEF Goto, Buffer, Places
  <2>4. CalmTops /\ Top(w)' \notin Tops
    <3>1. to \in CalmTos /\ "frame" # "idle"
      BY DEF CalmTos
    <3>2. QED
      BY <1>0, <2>1, <3>1, CalmPlaces, CalmMove DEF ConnInv
  <2>5. \A v \in Workers : ~Reading(v)'
    <3>1. \A v \in Workers : ~Reading(v)
      BY <2>3 DEF Buffer
    <3>2. QED
      BY <1>0, <2>1, <2>2, <3>1, SameReads
  <2>6. \A v \in Workers : Top(v)' # "frame"
    <3>1. ASSUME NEW v \in Workers, Top(v)' = "frame" PROVE FALSE
      <4>1. Top(v) = "frame" /\ v # w
        BY <1>0, <2>4, <3>1 DEF CalmTops, Tops, Top
      <4>2. InParse(v)
        BY <4>1 DEF Buffer
      <4>3. QED
        BY <1>2, <2>3, <4>1, <4>2
    <3>2. QED
      BY <3>1
  <2>7. /\ \A i \in DOMAIN inbound' : inbound'[i].id <= frames
        /\ Head(inbound).id <= frames /\ Head(inbound).id \in 1..MaxFrames
    <3>1. /\ 1 \in DOMAIN inbound /\ Head(inbound) = inbound[1]
          /\ \A i \in DOMAIN inbound' : i + 1 \in DOMAIN inbound /\ inbound'[i] = inbound[i + 1]
      BY <1>0, <2>2, <2>3
    <3>2. inbound[1] \in [kind : Kinds, id : 1..MaxFrames]
      <4>1. inbound \in Seq([kind : Kinds, id : 1..MaxFrames]) /\ 1 \in DOMAIN inbound
        BY <1>0, <3>1
      <4>2. QED
        BY <4>1, InRange
    <3>3. QED
      BY <3>1, <3>2 DEF Buffer
  <2>8. said' # << >> => said'[Len(said')] <= frames
    <3>1. CASE said' = said
      BY <3>1 DEF Buffer
    <3>2. CASE said' = Append(said, Head(inbound).id)
      BY <1>0, <2>7, <3>2
    <3>3. QED
      BY <2>2, <3>1, <3>2
  <2>9. QED
    BY <2>2, <2>3, <2>5, <2>6, <2>7, <2>8 DEF Buffer
<1>11. ASSUME NEW batch \in Batches, KernelReads(batch) PROVE Buffer'
  <2>1. /\ io[Read] = "kernel" /\ io' = [io EXCEPT ![Read] = "queued"]
        /\ frames' = frames + Len(batch) /\ UNCHANGED <<stack, said>>
        /\ inbound' = [i \in 1..Len(batch) |-> [kind |-> batch[i], id |-> frames + i]]
    BY <1>11 DEF KernelReads
  <2>2. \A w \in Workers : ~Reading(w)' /\ Top(w)' # "frame"
    BY <1>1, <2>1 DEF Buffer, Reading, Top
  <2>3. Len(batch) \in Nat
    BY <1>11 DEF Batches
  <2>4. \A i \in DOMAIN inbound' : inbound'[i].id <= frames'
    BY <1>0, <2>1, <2>3
  <2>5. said # << >> => said[Len(said)] <= frames'
    BY <1>0, <2>1, <2>3 DEF Buffer
  <2>6. io'[Read] # "kernel"
    BY <1>0, <2>1
  <2>7. QED
    BY <2>1, <2>2, <2>4, <2>5, <2>6 DEF Buffer
<1>12. ASSUME NEW t \in Threads, CloseFirst(t) \/ Shut(t) PROVE Buffer'
  <2>1. PICK from \in {"close", "shut"}, to \in {<<"shut">>, <<"tell">>} : Goto(t, from, to)
    BY <1>12 DEF CloseFirst, Shut
  <2>2. UNCHANGED <<inbound, frames, said, core>>
    BY <1>12 DEF CloseFirst, Shut
  <2>3. /\ io'[Read] = "kernel" => io[Read] = "kernel"
        /\ io[Read] = "none" => io'[Read] = io[Read]
    BY <1>0, <1>12 DEF CloseFirst, Shut
  <2>4. \A w \in Workers : Reading(w)' <=> Reading(w)
    BY <2>1, <2>2, SameReads
  <2>5. /\ Top(t)' = to[1] /\ Top(t)' # "frame"
        /\ \A u \in Threads : u # t => stack'[u] = stack[u] /\ Top(u)' = Top(u)
    <3>1. from \in Places /\ to[1] # "frame"
      BY DEF Places
    <3>2. QED
      BY <2>1, <3>1, EnterTop
  <2>6. \A w \in Workers : Top(w)' = "frame" => Top(w) = "frame" /\ (InParse(w) => InParse(w)')
    BY <1>0, <2>5 DEF InParse
  <2>7. QED
    BY <2>2, <2>3, <2>4, <2>6 DEF Buffer
\* Calm steps from here on.
<1>13. ASSUME CalmTops, NEW t \in Threads, PostRead(t) PROVE Buffer'
  <2>1. /\ Goto(t, "recv", << >>) /\ io' = [io EXCEPT ![Read] = "kernel"]
        /\ UNCHANGED <<inbound, frames, said>>
    BY <1>13 DEF PostRead
  <2>2. /\ t \in Workers /\ \A w \in Workers : ~Reading(w)'
        /\ \A w \in Workers \ {t} : stack'[w] = << >>
    BY <1>0, <2>1, ReadersGone
  <2>3. Top(t) = "recv" /\ Reading(t)
    BY <1>3, <2>1 DEF Reading, Places
  <2>4. \A w \in Workers : Top(w)' # "frame"
    BY <1>6, <1>13, <2>2, <2>3
  <2>5. inbound = << >>
    BY <2>2, <2>3 DEF Buffer
  <2>6. QED
    BY <2>1, <2>2, <2>4, <2>5 DEF Buffer
<1>14. ASSUME CalmTops, NEW t \in Threads,
              \/ SkipClosed(t) \/ SocketGone(t) \/ ReadFails(t)
              \/ \E o \in Writes : WriteFails(t, o)
       PROVE  Buffer'
  <2>1. PICK to \in {<< >>, <<"close", "unlockSock">>} :
            \/ \E from \in {"asyncRead", "recv"} : Goto(t, from, to)
            \/ \E from \in {"asyncWrite", "send"} : Goto(t, from, to)
    BY <1>14 DEF SkipClosed, SocketGone, ReadFails, WriteFails
  <2>2. UNCHANGED <<inbound, frames, said, core>> /\ io'[Read] = io[Read]
    BY <1>0, <1>14 DEF SkipClosed, SocketGone, ReadFails, WriteFails
  <2>3. CASE \E from \in {"asyncRead", "recv"} : Goto(t, from, to)
    <3>1. \A w \in Workers : ~Reading(w)'
      BY <1>0, <2>1, <2>3, ReadersGone
    <3>2. QED
      BY <1>5, <1>14, <2>2, <3>1 DEF SameReaders
  <2>4. CASE \E from \in {"asyncWrite", "send"} : Goto(t, from, to)
    <3>1. SameReaders
      BY <2>1, <2>2, <2>4, SameReads DEF SameReaders
    <3>2. QED
      BY <1>5, <1>14, <2>2, <3>1
  <2>5. QED
    BY <2>1, <2>3, <2>4
<1>15. ASSUME CalmTops, NEW t \in Threads, TestOpen(t) PROVE Buffer'
  <2>1. Goto(t, "asyncRead", <<"recv">>) \/ Goto(t, "asyncWrite", <<"send">>)
    BY <1>15 DEF TestOpen
  <2>2. UNCHANGED <<inbound, frames, said, io, core>>
    BY <1>15 DEF TestOpen
  <2>3. SameReaders
    <3>1. CASE Goto(t, "asyncRead", <<"recv">>)
      BY <3>1, ReadGoesOn
    <3>2. CASE Goto(t, "asyncWrite", <<"send">>)
      BY <2>2, <3>2, SameReads DEF SameReaders
    <3>3. QED
      BY <2>1, <3>1, <3>2
  <2>4. QED
    BY <1>5, <1>15, <2>2, <2>3
<1>16. ASSUME CalmTops, NEW t \in Threads,
              \/ \E o \in Writes : PostWrite(t, o)
              \/ UnlockSock(t) \/ CloseAgain(t) \/ Tell(t)
       PROVE  Buffer'
  <2>1. \E from \in {"send", "unlockSock", "close", "tell"} : Goto(t, from, << >>)
    BY <1>16 DEF PostWrite, UnlockSock, CloseAgain, Tell
  <2>2. UNCHANGED <<inbound, frames, said, core>> /\ io'[Read] = io[Read]
    BY <1>0, <1>16 DEF PostWrite, UnlockSock, CloseAgain, Tell
  <2>3. SameReaders
    BY <2>1, <2>2, SameReads DEF SameReaders
  <2>4. QED
    BY <1>5, <1>16, <2>2, <2>3
<1>17. ASSUME CalmTops, NEW w \in Workers,
              SetMessageCallback(w) \/ SetCloseCallback(w) \/ Leave(w) \/ \E o \in Ops : Take(w, o)
       PROVE  Buffer'
  <2>1. \A v \in Workers : ~Reading(v)'
    BY <1>17, OuterReads
  <2>2. UNCHANGED <<inbound, frames, said>> /\ (io'[Read] = "kernel" => io[Read] = "kernel")
    BY <1>0, <1>17 DEF SetMessageCallback, SetCloseCallback, Leave, Take
  <2>3. QED
    BY <1>4, <1>17, <2>1, <2>2
<1>18. ASSUME CalmTops, NEW w \in Workers, IoClosed(w) PROVE Buffer'
  <2>1. /\ Goto(w, "io", << >>) /\ UNCHANGED <<frames, said>>
        /\ inbound' \in {<< >>, inbound} /\ job[w] \in Ops
        /\ io' = [io EXCEPT ![job[w]] = IF @ = "inHand" /\ job[w] # Read THEN "lost" ELSE "none"]
        /\ job[w] = Read => inbound' = << >>
    BY <1>18 DEF IoClosed, ConnInv, DataInv
  <2>2. io'[Read] # "kernel" \/ (job[w] # Read /\ io'[Read] = io[Read] /\ inbound' = inbound)
    BY <1>0, <1>18, <2>1 DEF IoClosed
  <2>3. \A v \in Workers : ~Reading(v)'
    BY <1>0, <2>1, ReadersGone
  <2>4. CASE io'[Read] # "kernel"
    BY <1>7, <1>18, <2>1, <2>4
  <2>5. CASE job[w] # Read /\ io'[Read] = io[Read] /\ inbound' = inbound
    BY <1>4, <1>18, <2>1, <2>3, <2>5
  <2>6. QED
    BY <2>2, <2>4, <2>5
<1>19. ASSUME CalmTops, NEW w \in Workers, IoWritten(w) \/ IoNothing(w) \/ FreeOp(w)
       PROVE  Buffer'
  <2>1. PICK from \in {"io", "freeOp"}, to \in {<< >>, <<"freeOp">>, <<"close", "freeOp">>} :
            Goto(w, from, to)
    BY <1>19 DEF IoWritten, IoNothing, FreeOp
  <2>2. /\ UNCHANGED <<inbound, frames, said>>
        /\ io'[Read] = "kernel" => io[Read] = "kernel"
    BY <1>0, <1>19 DEF IoWritten, IoNothing, FreeOp
  <2>3. \A v \in Workers : ~Reading(v)'
    BY <1>0, <2>1, ReadersGone
  <2>4. QED
    BY <1>4, <1>19, <2>2, <2>3
<1>20. ASSUME CalmTops, NEW w \in Workers, IoEnd(w) \/ ParseBad(w) PROVE Buffer'
  <2>1. PICK from \in {"io", "parse"} : Goto(w, from, <<"close">>)
    BY <1>20 DEF IoEnd, ParseBad
  <2>2. io'[Read] # "kernel" /\ inbound' \in {<< >>, inbound} /\ UNCHANGED <<frames, said>>
    BY <1>0, <1>20 DEF IoEnd, ParseBad
  <2>3. QED
    BY <1>7, <1>20, <2>1, <2>2
<1>21. ASSUME CalmTops, NEW w \in Workers, IoData(w) PROVE Buffer'
  <2>1. /\ Goto(w, "io", <<"parse">>) /\ UNCHANGED <<inbound, frames, said, io>>
    BY <1>21 DEF IoData
  <2>2. \A v \in Workers : ~Reading(v)'
    BY <1>0, <2>1, ReadersGone
  <2>3. QED
    BY <1>4, <1>21, <2>1, <2>2
<1>22. ASSUME CalmTops, NEW w \in Workers, ParseDone(w) PROVE Buffer'
  <2>1. /\ Goto(w, "parse", <<"asyncRead">>) /\ inbound = << >> /\ io'[Read] = "none"
        /\ UNCHANGED <<inbound, frames, said>>
    BY <1>0, <1>22 DEF ParseDone
  <2>2. \A v \in Workers : Top(v)' = "frame" => Top(v) = "frame"
    BY <1>0, <1>22 DEF CalmTops, Tops, Top
  <2>3. QED
    BY <2>1, <2>2 DEF Buffer
<1>23. ASSUME CalmTops, NEW w \in Workers, UnlockCb(w) PROVE Buffer'
  <2>1. Goto(w, "unlockCb", << >>) /\ UNCHANGED <<inbound, frames, said, io, core>>
    BY <1>23 DEF UnlockCb
  <2>2. SameReaders
    BY <1>0, <2>1, SameReads DEF SameReaders
  <2>3. QED
    BY <1>5, <1>23, <2>1, <2>2
<1>24. ASSUME CalmTops, KernelEnds \/ (\E o \in Writes : KernelWrites(o)) \/ UNCHANGED vars
       PROVE  Buffer'
  <2>1. /\ UNCHANGED <<stack, inbound, frames, said>>
        /\ io'[Read] = "kernel" => io[Read] = "kernel"
        /\ io[Read] = "none" => io'[Read] = io[Read]
    BY <1>0, <1>24 DEF KernelEnds, KernelWrites, vars
  <2>2. \A w \in Workers : /\ Reading(w)' <=> Reading(w)
                           /\ Top(w)' = Top(w) /\ (InParse(w)' <=> InParse(w))
    BY <2>1 DEF Reading, Top, InParse
  <2>3. QED
    BY <2>1, <2>2 DEF Buffer
<1>25. ASSUME CalmTops, SendText \/ CallClose PROVE Buffer'
  <2>1. /\ UNCHANGED <<inbound, frames, said, io>>
        /\ \A w \in Workers : stack'[w] = stack[w]
    <3>1. \A w \in Workers : w # App
      BY ConnectionAssumption
    <3>2. stack \in [Threads -> Seq(Places)]
      BY DEF ConnInv, ShapeInv
    <3>3. QED
      BY <1>0, <1>25, <3>1, <3>2 DEF SendText, CallClose, Begin
  <2>2. SameReaders
    BY <2>1 DEF SameReaders, Reading
  <2>3. QED
    BY <1>5, <1>25, <2>1, <2>2
<1>26. ASSUME CalmTops, NEW t \in Threads, CallStep(t) PROVE Buffer'
  BY <1>12, <1>13, <1>14, <1>15, <1>16, <1>26 DEF CallStep
<1>27. ASSUME CalmTops, NEW w \in Workers, WorkerStep(w) PROVE Buffer'
  BY <1>9, <1>10, <1>17, <1>18, <1>19, <1>20, <1>21, <1>22, <1>23, <1>27 DEF WorkerStep
<1>28. CASE CalmTops
  BY <1>11, <1>24, <1>25, <1>26, <1>27, <1>28 DEF Next, Stuck
<1>29. QED
  BY <1>8, <1>9, <1>12, <1>28
-----------------------------------------------------------------------------
\* The values of the variables that are no part of ConnInv.
LocksOK == {sock, cb} \subseteq Threads \cup {Free}
FlagsOK == {isClosed, socketOpen, onMessage, onClose, ended} \subseteq BOOLEAN
ReadOK == io[Read] \in {"none", "kernel", "queued", "inHand"}
BytesOK == inbound \in Seq([kind : Kinds, id : 1..MaxFrames]) /\ frames \in 0..MaxFrames
OwnerOK == sends \in 0..MaxSends /\ said \in Seq(1..MaxFrames) /\ told \in Nat

\* TypeOK consists of these and of types that ConnInv contains.
LEMMA TypeParts ==
    ConnInv => (TypeOK <=> LocksOK /\ FlagsOK /\ ReadOK /\ BytesOK /\ OwnerOK)
BY DEF ConnInv, ShapeInv, DataInv, IoStates, TypeOK, LocksOK, FlagsOK, ReadOK, BytesOK, OwnerOK

\* What a read brings is a sequence of frames whose numbers follow the last one.
LEMMA Brought ==
    ASSUME TypeOK, NEW batch \in Batches, KernelReads(batch)
    PROVE  BytesOK' /\ \A i \in DOMAIN inbound' : inbound'[i].id = frames + i
<1>1. PICK n \in 0..MaxBatch : batch \in [1..n -> Kinds]
  BY DEF Batches
<1>2. n \in Nat /\ Len(batch) = n
  BY <1>1, ConnectionAssumption
<1>3. /\ frames \in Nat /\ MaxFrames \in Nat
      /\ frames' = frames + n /\ frames' <= MaxFrames
      /\ inbound' = [i \in 1..n |-> [kind |-> batch[i], id |-> frames + i]]
  BY <1>2, ConnectionAssumption DEF KernelReads, TypeOK
<1>4. \A i \in 1..n : [kind |-> batch[i], id |-> frames + i] \in [kind : Kinds, id : 1..MaxFrames]
  BY <1>1, <1>2, <1>3
<1>5. inbound' \in Seq([kind : Kinds, id : 1..MaxFrames])
  BY <1>2, <1>3, <1>4
<1>6. QED
  BY <1>2, <1>3, <1>5 DEF BytesOK

\* handleFrame takes the first frame, and may hand it to the owner.
LEMMA Handled ==
    ASSUME TypeOK, Buffer, NEW w \in Workers, HandleFrame(w)
    PROVE  BytesOK' /\ OwnerOK'
<1>1. inbound # << >> /\ inbound \in Seq([kind : Kinds, id : 1..MaxFrames])
  BY DEF HandleFrame, Goto, Buffer, TypeOK
<1>2. /\ Head(inbound) \in [kind : Kinds, id : 1..MaxFrames]
      /\ Tail(inbound) \in Seq([kind : Kinds, id : 1..MaxFrames])
  BY <1>1, HeadTailProperties
<1>3. Head(inbound).id \in 1..MaxFrames
  BY <1>2
<1>4. /\ inbound' = Tail(inbound) /\ UNCHANGED <<frames, sends, told>>
      /\ said' \in {said, Append(said, Head(inbound).id)}
  BY DEF HandleFrame
<1>5. said \in Seq(1..MaxFrames)
  BY DEF TypeOK
<1>6. said' \in Seq(1..MaxFrames)
  <2>1. Append(said, Head(inbound).id) \in Seq(1..MaxFrames)
    BY <1>3, <1>5, AppendProperties
  <2>2. QED
    BY <1>4, <1>5, <2>1
<1>7. QED
  BY <1>2, <1>4, <1>6 DEF BytesOK, OwnerOK, TypeOK

\* Every step keeps the variables within their types.
LEMMA TypeStep == ConnInv /\ ConnInv' /\ TypeOK /\ Buffer /\ [Next]_vars => TypeOK'
<1> SUFFICES ASSUME ConnInv, ConnInv', TypeOK, Buffer, [Next]_vars PROVE TypeOK'
  OBVIOUS
<1> SUFFICES LocksOK' /\ FlagsOK' /\ ReadOK' /\ BytesOK' /\ OwnerOK'
  BY DEF ConnInv, ShapeInv, DataInv, IoStates, TypeOK, LocksOK, FlagsOK, ReadOK, BytesOK, OwnerOK
<1>0. /\ LocksOK /\ FlagsOK /\ ReadOK /\ BytesOK /\ OwnerOK
      /\ Workers \subseteq Threads /\ Read \in Ops /\ \A o \in Writes : o # Read
      /\ io \in [Ops -> IoStates] /\ job \in [Workers -> Ops] /\ MaxSends \in Nat
  BY ConnectionAssumption, TypeParts DEF Threads, Ops, ConnInv, DataInv
<1> USE DEF locks, flags, data, owner
<1>1. ASSUME NEW t \in Threads, CallStep(t)
      PROVE  LocksOK' /\ FlagsOK' /\ ReadOK' /\ BytesOK' /\ OwnerOK'
  <2>1. LocksOK'
    BY <1>0, <1>1 DEF CallStep, SkipClosed, TestOpen, SocketGone, PostRead, PostWrite, WriteFails,
       ReadFails, UnlockSock, CloseAgain, CloseFirst, Shut, Tell, LocksOK
  <2>2. FlagsOK'
    BY <1>0, <1>1 DEF CallStep, SkipClosed, TestOpen, SocketGone, PostRead, PostWrite, WriteFails,
       ReadFails, UnlockSock, CloseAgain, CloseFirst, Shut, Tell, FlagsOK
  <2>3. ReadOK'
    BY <1>0, <1>1 DEF CallStep, SkipClosed, TestOpen, SocketGone, PostRead, PostWrite, WriteFails,
       ReadFails, UnlockSock, CloseAgain, CloseFirst, Shut, Tell, ReadOK
  <2>4. UNCHANGED <<inbound, frames, sends, said>> /\ told' \in {told, told + 1}
    BY <1>1 DEF CallStep, SkipClosed, TestOpen, SocketGone, PostRead, PostWrite, WriteFails,
       ReadFails, UnlockSock, CloseAgain, CloseFirst, Shut, Tell
  <2>5. BytesOK' /\ OwnerOK'
    BY <1>0, <2>4 DEF BytesOK, OwnerOK
  <2>6. QED
    BY <2>1, <2>2, <2>3, <2>5
<1>2. ASSUME NEW w \in Workers, WorkerStep(w)
      PROVE  LocksOK' /\ FlagsOK' /\ ReadOK' /\ BytesOK' /\ OwnerOK'
  <2>1. LocksOK'
    BY <1>0, <1>2 DEF WorkerStep, SetMessageCallback, SetCloseCallback, Take, Leave, IoClosed,
       IoWritten, IoNothing, FreeOp, IoEnd, IoData, ParseDone, ParseBad, LockFrame, HandleFrame,
       UnlockCb, LocksOK
  <2>2. FlagsOK'
    BY <1>0, <1>2 DEF WorkerStep, SetMessageCallback, SetCloseCallback, Take, Leave, IoClosed,
       IoWritten, IoNothing, FreeOp, IoEnd, IoData, ParseDone, ParseBad, LockFrame, HandleFrame,
       UnlockCb, FlagsOK
  <2>3. ReadOK'
    <3>1. CASE IoClosed(w)
      BY <1>0, <3>1 DEF IoClosed, ReadOK
    <3>2. CASE \E o \in Ops : Take(w, o)
      BY <1>0, <3>2 DEF Take, ReadOK
    <3>3. CASE IoEnd(w) \/ ParseDone(w) \/ ParseBad(w)
      BY <1>0, <3>3 DEF IoEnd, ParseDone, ParseBad, ReadOK
    <3>4. CASE FreeOp(w)
      <4>1. Has(stack[w], "freeOp")
        BY <1>0, <3>4 DEF FreeOp, Goto, Top, Has, ConnInv, ShapeInv
      <4>2. job[w] # Read
        BY <4>1 DEF ConnInv, DataInv
      <4>3. QED
        BY <1>0, <3>4, <4>2 DEF FreeOp, ReadOK
    <3>5. QED
      BY <1>0, <1>2, <3>1, <3>2, <3>3, <3>4 DEF WorkerStep, SetMessageCallback,
         SetCloseCallback, Leave, IoWritten, IoNothing, IoData, LockFrame, HandleFrame, UnlockCb,
         ReadOK
  <2>4. BytesOK' /\ OwnerOK'
    <3>1. CASE HandleFrame(w)
      BY <3>1, Handled
    <3>2. CASE ~HandleFrame(w)
      <4>1. UNCHANGED <<frames, sends, said, told>> /\ inbound' \in {inbound, << >>}
        BY <1>2, <3>2 DEF WorkerStep, SetMessageCallback, SetCloseCallback, Take, Leave, IoClosed,
           IoWritten, IoNothing, FreeOp, IoEnd, IoData, ParseDone, ParseBad, LockFrame, UnlockCb
      <4>2. << >> \in Seq([kind : Kinds, id : 1..MaxFrames])
        OBVIOUS
      <4>3. BytesOK'
        BY <1>0, <4>1, <4>2 DEF BytesOK
      <4>4. QED
        BY <1>0, <4>1, <4>3 DEF OwnerOK
    <3>3. QED
      BY <3>1, <3>2
  <2>5. QED
    BY <2>1, <2>2, <2>3, <2>4
<1>3. ASSUME NEW batch \in Batches, KernelReads(batch)
      PROVE  LocksOK' /\ FlagsOK' /\ ReadOK' /\ BytesOK' /\ OwnerOK'
  BY <1>0, <1>3, Brought DEF KernelReads, LocksOK, FlagsOK, ReadOK, OwnerOK
<1>4. CASE KernelEnds \/ \E o \in Writes : KernelWrites(o)
  <2>1. LocksOK' /\ ReadOK' /\ BytesOK' /\ OwnerOK'
    BY <1>0, <1>4 DEF KernelEnds, KernelWrites, LocksOK, ReadOK, BytesOK, OwnerOK
  <2>2. FlagsOK'
    BY <1>0, <1>4 DEF KernelEnds, KernelWrites, FlagsOK
  <2>3. QED
    BY <2>1, <2>2
<1>5. CASE SendText \/ CallClose \/ UNCHANGED vars
  <2>1. UNCHANGED <<locks, flags, io, job, data, said, told>> /\ sends' \in 0..MaxSends
    BY <1>0, <1>5 DEF SendText, CallClose, vars, OwnerOK
  <2>2. LocksOK' /\ ReadOK' /\ BytesOK'
    BY <1>0, <2>1 DEF LocksOK, ReadOK, BytesOK
  <2>3. FlagsOK'
    BY <1>0, <2>1 DEF FlagsOK
  <2>4. OwnerOK'
    BY <1>0, <2>1 DEF OwnerOK
  <2>5. QED
    BY <2>2, <2>3, <2>4
<1>6. QED
  BY <1>1, <1>2, <1>3, <1>4, <1>5 DEF Next, Stuck
-----------------------------------------------------------------------------
\* The constructor starts within the invariant.
LEMMA ChannelInit == Init => ChannelInv
<1> SUFFICES ASSUME Init PROVE ChannelInv
  OBVIOUS
<1>1. PICK creator \in Workers :
         stack = [t \in Threads |-> IF t = creator THEN <<"asyncRead", "setMessage">> ELSE << >>]
  BY DEF Init, Constructed
<1>2. /\ Read \in Ops /\ Free \notin Threads
      /\ io = [o \in Ops |-> "none"] /\ job = [w \in Workers |-> Read]
      /\ sock = Free /\ cb = Free /\ isClosed = FALSE /\ socketOpen = TRUE
      /\ onMessage = FALSE /\ onClose = FALSE /\ ended = FALSE
      /\ inbound = << >> /\ frames = 0 /\ sends = 0 /\ said = << >> /\ told = 0
  BY ConnectionAssumption DEF Init, Constructed, Ops
<1>3. ConnInv
  BY ConnInit
<1> DEFINE first == <<"asyncRead", "setMessage">>
<1>4. \A t \in Threads : stack[t] \in {first, << >>}
  BY <1>1
<1>5. \A t \in Threads : Top(t) \in {"idle", "asyncRead"}
  BY <1>4 DEF Top
<1>6. TypeOK
  <2>1. LocksOK /\ ReadOK
    BY <1>2 DEF LocksOK, ReadOK
  <2>2. FlagsOK
    BY <1>2 DEF FlagsOK
  <2>3. BytesOK
    BY <1>2, EmptySeq, ConnectionAssumption DEF BytesOK
  <2>4. OwnerOK
    BY <1>2, EmptySeq, ConnectionAssumption DEF OwnerOK
  <2>5. QED
    BY <1>3, <2>1, <2>2, <2>3, <2>4, TypeParts
<1>7. OnTop
  <2>1. \A i \in DOMAIN first : first[i] \notin Tops
    BY DEF Tops
  <2>2. \A i \in DOMAIN << >> : FALSE
    OBVIOUS
  <2> HIDE DEF first
  <2>3. QED
    BY <1>4, <2>1, <2>2 DEF OnTop
<1>8. Closing
  BY <1>2, <1>5 DEF Closing, Closer
<1>9. Buffer
  BY <1>2, <1>5, ConnectionAssumption DEF Buffer, Threads
<1>10. QED
  BY <1>3, <1>6, <1>7, <1>8, <1>9 DEF ChannelInv

\* Every step keeps it.
LEMMA ChannelStep == ChannelInv /\ [Next]_vars => ChannelInv'
<1> SUFFICES ASSUME ChannelInv, [Next]_vars PROVE ChannelInv'
  OBVIOUS
<1>1. ConnInv /\ TypeOK /\ OnTop /\ Closing /\ Buffer
  BY DEF ChannelInv
<1>2. ConnInv'
  BY <1>1, ConnStep
<1>3. TypeOK' /\ OnTop' /\ Closing' /\ Buffer'
  BY <1>1, <1>2, TypeStep, OnTopStep, ClosingStep, BufferStep
<1>4. QED
  BY <1>2, <1>3 DEF ChannelInv

\* The inductive invariant holds always: one worker in a callback, one thread
\* that closes, and a buffer that nobody touches from the test in processData to
\* the frame's handling (websocket_connection.cpp:61-65, 147-175).
THEOREM ChannelInvariant == Spec => []ChannelInv
<1>1. QED
  BY ChannelInit, ChannelStep, PTL DEF Spec

\* Every variable of a connection stays within its type; the read goes from the
\* kernel to a worker and back, and is never freed
\* (websocket_connection.cpp:36-79).
THEOREM ConnectionTypes == Spec => []TypeOK
<1>1. ChannelInv => TypeOK
  BY DEF ChannelInv
<1>2. QED
  BY <1>1, ChannelInvariant, PTL
-----------------------------------------------------------------------------
\* What a read brings arrives after everything that was handled before.
LEMMA ReadArrives ==
    ASSUME ChannelInv, NEW batch \in Batches, KernelReads(batch)
    PROVE  Channel!Arrive
<1> USE DEF locks, flags, data, owner
<1>1. TypeOK /\ Closing /\ Buffer
  BY DEF ChannelInv
<1>2. /\ io[Read] = "kernel" /\ UNCHANGED <<said, isClosed, told>>
  BY DEF KernelReads
<1>3. told = 0 /\ inbound = << >>
  BY <1>1, <1>2 DEF Closing, Buffer
<1>4. /\ inbound' \in Seq([kind : Kinds, id : 1..MaxFrames])
      /\ \A i \in DOMAIN inbound' : inbound'[i].id = frames + i
  BY <1>1, Brought DEF BytesOK
<1>5. [kind : Kinds, id : 1..MaxFrames] \subseteq [kind : Kinds, id : Nat]
  BY ConnectionAssumption
<1>6. inbound' \in Seq([kind : Kinds, id : Nat])
  <2> DEFINE S == [kind : Kinds, id : 1..MaxFrames]  T == [kind : Kinds, id : Nat]
  <2>1. S \subseteq T /\ inbound' \in Seq(S)
    BY <1>4, <1>5
  <2> HIDE DEF S, T
  <2>2. inbound' \in Seq(T)
    BY <2>1, SeqMonotonic
  <2>3. QED
    BY <2>2 DEF T
<1>7. frames \in Nat /\ Channel!Last <= frames /\ Channel!Last \in Nat
  <2>1. frames \in Nat /\ said \in Seq(1..MaxFrames) /\ MaxFrames \in Nat
    BY <1>1, ConnectionAssumption DEF TypeOK
  <2>2. QED
    BY <1>1, <2>1 DEF Channel!Last, Buffer
<1>8. ASSUME NEW i \in DOMAIN inbound'
      PROVE  inbound'[i].id > (IF i = 1 THEN Channel!Last ELSE inbound'[i - 1].id)
  <2>1. /\ i \in Nat /\ i >= 1 /\ (i # 1 => i - 1 \in DOMAIN inbound')
    BY <1>4
  <2>2. inbound'[i].id = frames + i /\ (i # 1 => inbound'[i - 1].id = frames + (i - 1))
    BY <1>4, <2>1
  <2>3. CASE i = 1
    BY <1>7, <2>2, <2>3
  <2>4. CASE i # 1
    BY <1>7, <2>1, <2>2, <2>4
  <2>5. QED
    BY <2>3, <2>4
<1>9. QED
  BY <1>2, <1>3, <1>6, <1>8 DEF Channel!Arrive

\* Every step of the connection is a step of the channel, or none.
LEMMA ChannelNext ==
    ASSUME ChannelInv, [Next]_vars
    PROVE  [Channel!Next]_(Channel!vars)
<1> USE DEF locks, flags, data, owner
<1>1. ConnInv /\ TypeOK /\ Closing /\ Buffer /\ Workers \subseteq Threads
  BY DEF ChannelInv, Threads
<1>2. ASSUME UNCHANGED <<inbound, said, isClosed, told>>
      PROVE  [Channel!Next]_(Channel!vars)
  BY <1>2 DEF Channel!vars
<1>3. ASSUME NEW t \in Threads, CallStep(t)
      PROVE  [Channel!Next]_(Channel!vars)
  <2>1. CASE CloseFirst(t)
    <3>1. Channel!BeginClose
      BY <2>1 DEF CloseFirst, Channel!BeginClose
    <3>2. QED
      BY <3>1 DEF Channel!Next
  <2>2. CASE Tell(t)
    <3>1. /\ Top(t) = "tell" /\ told' = (IF onClose THEN told + 1 ELSE told)
          /\ UNCHANGED <<inbound, said, isClosed>>
      BY <2>2 DEF Tell, Goto
    <3>2. isClosed /\ told = 0
      BY <1>1, <3>1 DEF Closing, Closer
    <3>3. CASE onClose
      <4>1. Channel!Tell
        BY <3>1, <3>2, <3>3 DEF Channel!Tell
      <4>2. QED
        BY <4>1 DEF Channel!Next
    <3>4. CASE ~onClose
      BY <1>2, <3>1, <3>4
    <3>5. QED
      BY <3>3, <3>4
  <2>3. CASE ~CloseFirst(t) /\ ~Tell(t)
    <3>1. UNCHANGED <<inbound, said, isClosed, told>>
      BY <1>3, <2>3 DEF CallStep, SkipClosed, TestOpen, SocketGone, PostRead, PostWrite,
         WriteFails, ReadFails, UnlockSock, CloseAgain, Shut
    <3>2. QED
      BY <1>2, <3>1
  <2>4. QED
    BY <2>1, <2>2, <2>3
<1>4. ASSUME NEW w \in Workers, WorkerStep(w)
      PROVE  [Channel!Next]_(Channel!vars)
  <2>1. CASE HandleFrame(w)
    <3>1. Top(w) = "frame" /\ inbound' = Tail(inbound) /\ UNCHANGED <<isClosed, told>>
      BY <2>1 DEF HandleFrame, Goto
    <3>2. InParse(w) /\ inbound # << >>
      BY <1>1, <3>1 DEF Buffer
    <3>3. onMessage
      BY <1>1, <3>2 DEF ConnInv, DataInv, InParse
    <3>4. said' = IF Head(inbound).kind = "Text" THEN Append(said, Head(inbound).id) ELSE said
      BY <2>1, <3>3 DEF HandleFrame
    <3>5. Channel!Handle
      BY <3>1, <3>2, <3>4 DEF Channel!Handle
    <3>6. QED
      BY <3>5 DEF Channel!Next
  <2>2. CASE ParseBad(w)
    <3>1. Channel!Drop
      BY <2>2 DEF ParseBad, Channel!Drop
    <3>2. QED
      BY <3>1 DEF Channel!Next
  <2>3. CASE IoClosed(w)
    <3>1. CASE job[w] = Read
      <4>1. Channel!Drop
        BY <2>3, <3>1 DEF IoClosed, Channel!Drop
      <4>2. QED
        BY <4>1 DEF Channel!Next
    <3>2. CASE job[w] # Read
      BY <1>2, <2>3, <3>2 DEF IoClosed
    <3>3. QED
      BY <3>1, <3>2
  <2>4. CASE ~HandleFrame(w) /\ ~ParseBad(w) /\ ~IoClosed(w)
    <3>1. UNCHANGED <<inbound, said, isClosed, told>>
      BY <1>4, <2>4 DEF WorkerStep, SetMessageCallback, SetCloseCallback, Take, Leave,
         IoWritten, IoNothing, FreeOp, IoEnd, IoData, ParseDone, LockFrame, UnlockCb
    <3>2. QED
      BY <1>2, <3>1
  <2>5. QED
    BY <2>1, <2>2, <2>3, <2>4
<1>5. ASSUME NEW batch \in Batches, KernelReads(batch)
      PROVE  [Channel!Next]_(Channel!vars)
  BY <1>5, ReadArrives DEF Channel!Next
<1>6. CASE KernelEnds \/ (\E o \in Writes : KernelWrites(o)) \/ SendText \/ CallClose
           \/ UNCHANGED vars
  <2>1. UNCHANGED <<inbound, said, isClosed, told>>
    BY <1>6 DEF KernelEnds, KernelWrites, SendText, CallClose, vars
  <2>2. QED
    BY <1>2, <2>1
<1>7. QED
  BY <1>3, <1>4, <1>5, <1>6 DEF Next, Stuck

\* The connection implements WsChannel: whatever closes it, and whenever, frames
\* are handled in the order of their arrival, each once, and on_close_ is called
\* once, after the last arrival (websocket_connection.cpp:81-122, 147-175).
THEOREM ConnectionIsAChannel == Spec => ChannelSpec
<1>1. Init => Channel!Init
  BY DEF Init, Constructed, Channel!Init
<1>2. ChannelInv /\ [Next]_vars => [Channel!Next]_(Channel!vars)
  BY ChannelNext
<1>3. QED
  BY <1>1, <1>2, ChannelInvariant, PTL DEF Spec, ChannelSpec, Channel!Spec
-----------------------------------------------------------------------------
(* Where threads can wait for one another's mutexes for good.              *)

\* A place under socket_mutex_ from which close can be reached, and the places
\* between the lock of callbacks_mutex_ in handleFrame and its unlock.
InClose == {"close", "shut"}
Handling == {"frame", "asyncWrite", "send", "unlockSock", "close", "shut", "tell"}

\* Where unlocks are on a stack: under socket_mutex_ nothing but close is called,
\* and under callbacks_mutex_ only what handleFrame calls.
LockShape(s) ==
    /\ \A i \in DOMAIN s : s[i] = "unlockSock" => i = 1 \/ (i = 2 /\ s[1] \in InClose)
    /\ \A i \in DOMAIN s : s[i] = "unlockCb" => \A j \in 1..i - 1 : s[j] \in Handling

HoldsSock(t) == Top(t) = "tell" \/ Has(stack[t], "unlockSock")
HoldsCb(t) == Has(stack[t], "unlockCb")

\* The owner of a mutex is the thread that has its unlock ahead.
LockInv ==
    \A t \in Threads : /\ LockShape(stack[t])
                       /\ sock = t <=> HoldsSock(t)
                       /\ cb = t <=> HoldsCb(t)

\* What Goto may put in the place of the top.
LockFits(from, to) ==
    /\ to \in Seq(Places) /\ LockShape(to)
    /\ \A i \in DOMAIN to : to[i] \in Tops => i = 1
    /\ from \in Handling => \A i \in DOMAIN to : to[i] \in Handling

TakesSock(to) == Has(to, "unlockSock") \/ (to # << >> /\ to[1] = "tell")

\* A stack whose top is replaced by places that fit keeps its shape, and loses only
\* the unlock that is its top.
LEMMA LockShapeKept ==
    ASSUME NEW s \in Seq(Places), s # << >>, NEW to, NEW new, new = OnTail(to, s),
           LockShape(s), LockFits(s[1], to),
           s[1] \in InClose => \/ to = << >> \/ ~Has(s, "unlockSock")
                               \/ Len(to) = 1 /\ to[1] \in InClose
    PROVE  /\ LockShape(new)
           /\ \A p \in {"unlockSock", "unlockCb"} :
                  Has(new, p) <=> Has(to, p) \/ (s[1] # p /\ Has(s, p))
<1> DEFINE n == Len(s)  k == Len(to)
<1>1. /\ n \in Nat /\ n >= 1 /\ k \in Nat /\ Len(new) = k + n - 1
      /\ DOMAIN s = 1..n /\ DOMAIN to = 1..k /\ DOMAIN new = 1..(k + n - 1)
      /\ to \in Seq(Places)
  BY Replaced DEF OnTail, LockFits
<1>2. \A i \in 1..(k + n - 1) : new[i] = IF i <= k THEN to[i] ELSE s[i - k + 1]
  BY Replaced, <1>1 DEF OnTail
<1>3. k = 0 <=> to = << >>
  BY <1>1
<1> HIDE DEF n, k
<1>4. /\ \A i \in 1..n : s[i] = "unlockSock" => i = 1 \/ (i = 2 /\ s[1] \in InClose)
      /\ \A i \in 1..n : s[i] = "unlockCb" => \A j \in 1..i - 1 : s[j] \in Handling
      /\ \A i \in 1..k : to[i] = "unlockSock" => i = 1 \/ (i = 2 /\ to[1] \in InClose)
      /\ \A i \in 1..k : to[i] = "unlockCb" => \A j \in 1..i - 1 : to[j] \in Handling
      /\ s[1] \in Handling => \A i \in 1..k : to[i] \in Handling
  BY <1>1 DEF LockShape, LockFits
<1>5. ASSUME NEW i \in 1..(k + n - 1), new[i] = "unlockSock"
      PROVE  i = 1 \/ (i = 2 /\ new[1] \in InClose)
  <2>1. CASE i <= k
    <3>1. i \in 1..k /\ 1 \in 1..k /\ to[i] = "unlockSock" /\ new[1] = to[1]
      BY <1>1, <1>2, <1>5, <2>1
    <3> QED
      BY <1>4, <3>1
  <2>2. CASE ~(i <= k)
    <3>1. i - k + 1 \in 2..n /\ s[i - k + 1] = "unlockSock"
      BY <1>1, <1>2, <1>5, <2>2
    <3>2. i - k + 1 = 2 /\ s[1] \in InClose
      BY <1>1, <1>4, <3>1
    <3>3. Has(s, "unlockSock")
      BY <1>1, <3>1 DEF Has
    <3>4. CASE to = << >>
      BY <1>1, <1>3, <3>2, <3>4
    <3>5. CASE Len(to) = 1 /\ to[1] \in InClose
      <4>1. k = 1
        BY <3>5 DEF k
      <4>2. i = 2 /\ new[1] = to[1]
        BY <1>1, <1>2, <3>2, <4>1
      <4> QED
        BY <3>5, <4>2
    <3> QED
      BY <3>2, <3>3, <3>4, <3>5
  <2> QED
    BY <2>1, <2>2
<1>6. ASSUME NEW i \in 1..(k + n - 1), new[i] = "unlockCb", NEW j \in 1..i - 1
      PROVE  new[j] \in Handling
  <2>1. CASE i <= k
    <3>1. i \in 1..k /\ j \in 1..k /\ to[i] = "unlockCb" /\ new[j] = to[j]
      BY <1>1, <1>2, <1>6, <2>1
    <3> QED
      BY <1>4, <3>1
  <2>2. CASE ~(i <= k)
    <3>1. /\ i - k + 1 \in 2..n /\ s[i - k + 1] = "unlockCb"
          /\ j \in 1..(k + n - 1)
      BY <1>1, <1>2, <1>6, <2>2
    <3>2. \A l \in 1..(i - k + 1) - 1 : s[l] \in Handling
      BY <1>1, <1>4, <3>1
    <3>3. CASE j <= k
      <4>1. s[1] \in Handling
        BY <1>1, <3>1, <3>2
      <4>2. j \in 1..k /\ new[j] = to[j]
        BY <1>1, <1>2, <3>1, <3>3
      <4> QED
        BY <1>4, <4>1, <4>2
    <3>4. CASE ~(j <= k)
      <4>1. j - k + 1 \in 1..(i - k + 1) - 1 /\ new[j] = s[j - k + 1]
        BY <1>1, <1>2, <3>1, <3>4
      <4> QED
        BY <3>2, <4>1
    <3> QED
      BY <3>3, <3>4
  <2> QED
    BY <2>1, <2>2
<1>7. LockShape(new)
  BY <1>1, <1>5, <1>6 DEF LockShape
<1>8. ASSUME NEW p \in {"unlockSock", "unlockCb"}
      PROVE  Has(new, p) <=> Has(to, p) \/ (s[1] # p /\ Has(s, p))
  <2>1. ASSUME NEW i \in 1..(k + n - 1), new[i] = p
        PROVE  Has(to, p) \/ (s[1] # p /\ Has(s, p))
    <3>1. CASE i <= k
      <4>1. i \in 1..k /\ to[i] = p
        BY <1>1, <1>2, <2>1, <3>1
      <4> QED
        BY <1>1, <4>1 DEF Has
    <3>2. CASE ~(i <= k)
      <4>1. i - k + 1 \in 2..n /\ s[i - k + 1] = p
        BY <1>1, <1>2, <2>1, <3>2
      <4>2. p = "unlockSock" => s[1] \in InClose
        BY <1>1, <1>4, <4>1
      <4>3. p = "unlockCb" => s[1] \in Handling
        BY <1>1, <1>4, <4>1
      <4>4. s[1] # p
        BY <4>2, <4>3 DEF InClose, Handling
      <4>5. i - k + 1 \in DOMAIN s
        BY <1>1, <4>1
      <4> QED
        BY <4>1, <4>4, <4>5 DEF Has
    <3> QED
      BY <3>1, <3>2
  <2>2. ASSUME NEW i \in 1..k, to[i] = p PROVE Has(new, p)
    <3>1. i \in 1..(k + n - 1) /\ new[i] = p
      BY <1>1, <1>2, <2>2
    <3> QED
      BY <1>1, <3>1 DEF Has
  <2>3. ASSUME s[1] # p, NEW i \in 1..n, s[i] = p PROVE Has(new, p)
    <3>1. i # 1
      BY <2>3
    <3> DEFINE j == i + k - 1
    <3>2. j \in 1..(k + n - 1) /\ ~(j <= k) /\ j - k + 1 = i
      BY <1>1, <3>1
    <3>3. new[j] = p
      BY <1>2, <2>3, <3>2
    <3> QED
      BY <1>1, <3>2, <3>3 DEF Has
  <2> QED
    BY <1>1, <2>1, <2>2, <2>3 DEF Has
<1> QED
  BY <1>7, <1>8

\* A move keeps LockInv if it takes a mutex only when that is free, with its unlock.
LEMMA LocksMove ==
    ASSUME ShapeInv, OnTop, LockInv, NEW t \in Threads, NEW from, from # "idle",
           NEW to, LockFits(from, to), Goto(t, from, to),
           from \in InClose => \/ to = << >> \/ sock = Free
                               \/ Len(to) = 1 /\ to[1] \in InClose,
           TakesSock(to) => sock = Free /\ sock' = t,
           ~TakesSock(to) => sock' = IF from \in {"unlockSock", "tell"} THEN Free ELSE sock,
           Has(to, "unlockCb") => cb = Free /\ cb' = t,
           ~Has(to, "unlockCb") => cb' = IF from = "unlockCb" THEN Free ELSE cb
    PROVE  LockInv'
<1> DEFINE s == stack[t]  new == stack'[t]
<1>1. /\ to \in Seq(Places) /\ \A i \in DOMAIN to : to[i] \in Tops => i = 1
  BY DEF LockFits
<1>2. /\ s \in Seq(Places) /\ s # << >> /\ s[1] = from /\ Has(s, from)
      /\ new = OnTail(to, s)
  BY <1>1, TopOfStack DEF OnTail
<1>3. /\ Top(t)' = "tell" <=> to # << >> /\ to[1] = "tell"
      /\ \A u \in Threads : u # t => stack'[u] = stack[u] /\ Top(u)' = Top(u)
  BY <1>1, TopMoves DEF Tops
<1>4. Top(t) = from
  BY DEF Goto
<1>5. /\ LockShape(s) /\ (sock = t <=> Top(t) = "tell" \/ Has(s, "unlockSock"))
      /\ (cb = t <=> Has(s, "unlockCb")) /\ Free # t
  BY ConnectionAssumption DEF LockInv, HoldsSock, HoldsCb, ConnectionAssumption
<1> HIDE DEF s, new
<1>6. /\ LockShape(new)
      /\ \A p \in {"unlockSock", "unlockCb"} :
             Has(new, p) <=> Has(to, p) \/ (s[1] # p /\ Has(s, p))
  <2>1. /\ LockFits(s[1], to)
        /\ s[1] \in InClose => \/ to = << >> \/ ~Has(s, "unlockSock")
                               \/ Len(to) = 1 /\ to[1] \in InClose
    BY <1>2, <1>5
  <2> QED
    BY <1>2, <1>5, <2>1, LockShapeKept
<1>7. from = "tell" => ~Has(s, "unlockSock")
  BY <1>2, <1>5 DEF Has, LockShape, InClose
<1>8. HoldsSock(t)' <=> TakesSock(to) \/ (from \notin {"unlockSock", "tell"} /\ HoldsSock(t))
  BY <1>2, <1>3, <1>4, <1>6, <1>7 DEF HoldsSock, TakesSock, s, new
<1>9. HoldsCb(t)' <=> Has(to, "unlockCb") \/ (from # "unlockCb" /\ HoldsCb(t))
  BY <1>2, <1>6 DEF HoldsCb, s, new
<1>10. /\ from \in {"unlockSock", "tell"} => HoldsSock(t) /\ sock = t
       /\ from = "unlockCb" => HoldsCb(t) /\ cb = t
  BY <1>2, <1>4, <1>5 DEF HoldsSock, HoldsCb, s
<1>11. ASSUME NEW u \in Threads, u # t
       PROVE  /\ LockShape(stack'[u]) /\ (sock' = u <=> HoldsSock(u)')
              /\ (cb' = u <=> HoldsCb(u)')
  <2>1. /\ LockShape(stack[u]) /\ (sock = u <=> HoldsSock(u)) /\ (cb = u <=> HoldsCb(u))
        /\ u # Free
    BY ConnectionAssumption DEF LockInv, ConnectionAssumption
  <2>2. (HoldsSock(u)' <=> HoldsSock(u)) /\ (HoldsCb(u)' <=> HoldsCb(u))
    BY <1>3, <1>11 DEF HoldsSock, HoldsCb
  <2>3. sock' = u <=> sock = u
    BY <1>10, <1>11, <2>1
  <2>4. cb' = u <=> cb = u
    BY <1>10, <1>11, <2>1
  <2> QED
    BY <1>3, <1>11, <2>1, <2>2, <2>3, <2>4
<1>12. (sock' = t <=> HoldsSock(t)') /\ (cb' = t <=> HoldsCb(t)')
  <2>1. (sock = t <=> HoldsSock(t)) /\ (cb = t <=> HoldsCb(t)) /\ t # Free
    BY <1>5 DEF LockInv
  <2>2. sock' = t <=> HoldsSock(t)'
    BY <1>8, <2>1
  <2>3. cb' = t <=> HoldsCb(t)'
    BY <1>9, <2>1
  <2> QED
    BY <2>2, <2>3
<1> QED
  BY <1>6, <1>11, <1>12 DEF LockInv, new

\* A place that unlocks nothing fits, if it may be reached under the mutexes held.
LEMMA OneFits ==
    ASSUME NEW from, NEW p \in Places \ {"unlockSock", "unlockCb"},
           from \in Handling => p \in Handling
    PROVE  /\ LockFits(from, <<p>>) /\ ~Has(<<p>>, "unlockCb")
           /\ TakesSock(<<p>>) <=> p = "tell"
           /\ Len(<<p>>) = 1 /\ <<p>>[1] = p
<1>1. <<p>> \in Seq(Places) /\ DOMAIN <<p>> = {1} /\ <<p>>[1] = p /\ <<p>> # << >>
  OBVIOUS
<1>2. LockShape(<<p>>)
  BY <1>1 DEF LockShape
<1> QED
  BY <1>1, <1>2 DEF LockFits, Has, TakesSock

\* A return fits everywhere.
LEMMA NoneFits ==
    ASSUME NEW from
    PROVE  LockFits(from, << >>) /\ ~Has(<< >>, "unlockCb") /\ ~TakesSock(<< >>)
<1>1. << >> \in Seq(Places) /\ DOMAIN << >> = {}
  OBVIOUS
<1> QED
  BY <1>1 DEF LockFits, LockShape, Has, TakesSock

\* The two calls made with a mutex just taken, and the close for a write of 0 bytes.
LEMMA CallsFit ==
    /\ \A from \in {"recv", "send"} : LockFits(from, <<"close", "unlockSock">>)
    /\ TakesSock(<<"close", "unlockSock">>) /\ ~Has(<<"close", "unlockSock">>, "unlockCb")
    /\ LockFits("io", <<"close", "freeOp">>)
    /\ ~TakesSock(<<"close", "freeOp">>) /\ ~Has(<<"close", "freeOp">>, "unlockCb")
    /\ LockFits("parse", <<"frame", "unlockCb", "parse">>)
    /\ ~TakesSock(<<"frame", "unlockCb", "parse">>)
    /\ Has(<<"frame", "unlockCb", "parse">>, "unlockCb")
<1> DEFINE a == <<"close", "unlockSock">>  b == <<"frame", "unlockCb", "parse">>
           c == <<"close", "freeOp">>
<1>1. /\ a \in Seq(Places) /\ DOMAIN a = {1, 2} /\ a[1] = "close" /\ a[2] = "unlockSock"
  BY DEF Places
<1>2. /\ b \in Seq(Places) /\ DOMAIN b = {1, 2, 3} /\ b[1] = "frame" /\ b[2] = "unlockCb"
      /\ b[3] = "parse"
  BY DEF Places
<1>3. c \in Seq(Places) /\ DOMAIN c = {1, 2} /\ c[1] = "close" /\ c[2] = "freeOp"
  BY DEF Places
<1> HIDE DEF a, b, c
<1>4. LockShape(a) /\ LockShape(b)
  BY <1>1, <1>2 DEF LockShape, InClose, Handling
<1>5. \A from \in {"recv", "send"} : LockFits(from, a)
  BY <1>1, <1>4 DEF LockFits, Tops, Handling
<1>6. TakesSock(a) /\ ~Has(a, "unlockCb")
  BY <1>1 DEF TakesSock, Has
<1>7. LockFits("parse", b) /\ Has(b, "unlockCb") /\ ~TakesSock(b)
  BY <1>2, <1>4 DEF LockFits, Tops, Handling, TakesSock, Has
<1>8. LockFits("io", c) /\ ~Has(c, "unlockCb") /\ ~TakesSock(c)
  <2>1. LockShape(c)
    BY <1>3 DEF LockShape
  <2> QED
    BY <1>3, <2>1 DEF LockFits, Tops, Handling, TakesSock, Has
<1> QED
  BY <1>5, <1>6, <1>7, <1>8 DEF a, b, c

\* The places at which a mutex is held or about to be released.
Owning == {"unlockSock", "unlockCb", "tell"}

\* A move between other places leaves the mutexes and their owners alone.
LEMMA PlainMove ==
    ASSUME ShapeInv, OnTop, LockInv, NEW t \in Threads, NEW from \in Places \ Owning,
           NEW to, Goto(t, from, to), sock' = sock, cb' = cb,
           \/ to = << >>
           \/ \E p \in Places \ Owning : /\ to = <<p>>
                                         /\ from \in Handling => p \in Handling
                                         /\ from \in InClose => p \in InClose
    PROVE  LockInv'
<1>1. from # "idle" /\ from \notin {"unlockSock", "unlockCb", "tell"}
  BY DEF Places, Owning
<1>2. CASE to = << >>
  <2>1. LockFits(from, to) /\ ~Has(to, "unlockCb") /\ ~TakesSock(to)
    BY <1>2, NoneFits
  <2> HIDE DEF InClose, Handling
  <2> QED
    BY <1>1, <1>2, <2>1, LocksMove
<1>3. ASSUME NEW p \in Places \ Owning, to = <<p>>, from \in Handling => p \in Handling,
             from \in InClose => p \in InClose
      PROVE  LockInv'
  <2>1. p \in Places \ {"unlockSock", "unlockCb"} /\ p # "tell"
    BY DEF Owning
  <2>2. /\ LockFits(from, to) /\ ~Has(to, "unlockCb") /\ ~TakesSock(to)
        /\ Len(to) = 1 /\ to[1] = p
    BY <1>3, <2>1, OneFits
  <2> HIDE DEF InClose, Handling
  <2> QED
    BY <1>1, <1>3, <2>2, LocksMove
<1> QED
  BY <1>2, <1>3

\* A thread that begins holds no mutex.
LEMMA BeginLocks ==
    ASSUME ShapeInv, LockInv, NEW t \in Threads, NEW to \in Seq(Places), Begin(t, to),
           \A i \in DOMAIN to : to[i] \notin Owning, sock' = sock, cb' = cb
    PROVE  LockInv'
<1>1. stack \in [Threads -> Seq(Places)] /\ stack' = [stack EXCEPT ![t] = to]
  BY DEF ShapeInv, Begin
<1>2. stack'[t] = to /\ \A u \in Threads : u # t => stack'[u] = stack[u] /\ Top(u)' = Top(u)
  BY <1>1 DEF Top
<1>3. stack[t] = << >>
  BY <1>1 DEF Begin, Top, Places
<1>4. ~HoldsSock(t) /\ ~HoldsCb(t)
  <2>1. DOMAIN stack[t] = {}
    BY <1>3
  <2> QED
    BY <1>3, <2>1 DEF HoldsSock, HoldsCb, Has, Top
<1>5. LockShape(to) /\ ~Has(to, "unlockSock") /\ ~Has(to, "unlockCb")
  BY DEF LockShape, Has, Owning
<1>6. Top(t)' # "tell"
  <2>1. to # << >> => 1 \in DOMAIN to /\ Head(to) = to[1]
    OBVIOUS
  <2> QED
    BY <1>2, <2>1 DEF Top, Owning
<1>7. ~HoldsSock(t)' /\ ~HoldsCb(t)'
  BY <1>2, <1>5, <1>6 DEF HoldsSock, HoldsCb
<1>8. LockShape(stack'[t]) /\ (sock' = t <=> HoldsSock(t)') /\ (cb' = t <=> HoldsCb(t)')
  BY <1>2, <1>4, <1>5, <1>7 DEF LockInv
<1>9. ASSUME NEW u \in Threads, u # t
      PROVE  /\ LockShape(stack'[u]) /\ (sock' = u <=> HoldsSock(u)')
             /\ (cb' = u <=> HoldsCb(u)')
  <2>1. (HoldsSock(u)' <=> HoldsSock(u)) /\ (HoldsCb(u)' <=> HoldsCb(u))
    BY <1>2, <1>9 DEF HoldsSock, HoldsCb
  <2> QED
    BY <1>2, <1>9, <2>1 DEF LockInv
<1> QED
  BY <1>8, <1>9 DEF LockInv

\* Every step keeps the mutexes with the threads that have their unlocks ahead.
LEMMA LockStep == ConnInv /\ OnTop /\ LockInv /\ [Next]_vars => LockInv'
<1> SUFFICES ASSUME ConnInv, OnTop, LockInv, [Next]_vars PROVE LockInv'
  OBVIOUS
<1> USE DEF locks, flags, data, owner
<1>1. ShapeInv /\ Workers \subseteq Threads /\ App \in Threads
  BY DEF ConnInv, Threads
<1> DEFINE
      Back(t) == \E from \in Places \ Owning : Goto(t, from, << >>)
      On(t) == \E from, p \in Places \ Owning : /\ Goto(t, from, <<p>>)
                                                /\ from \in Handling => p \in Handling
                                                /\ from \in InClose => p \in InClose
<1>2. ASSUME NEW t \in Threads, Back(t) \/ On(t), sock' = sock, cb' = cb
      PROVE  LockInv'
  <2> HIDE DEF Owning, Handling, InClose, Places
  <2>1. CASE Back(t)
    BY <1>1, <1>2, <2>1, PlainMove
  <2>2. CASE On(t)
    BY <1>1, <1>2, <2>2, PlainMove
  <2> QED
    BY <1>2, <2>1, <2>2
<1>3. ASSUME NEW t \in Threads,
             \/ SkipClosed(t) \/ SocketGone(t) \/ PostRead(t)
             \/ \E o \in Writes : PostWrite(t, o)
             \/ CloseAgain(t)
      PROVE  LockInv'
  <2>1. {"asyncRead", "asyncWrite", "recv", "send", "close"} \subseteq Places \ Owning
    BY DEF Places, Owning
  <2>2. Back(t) /\ sock' = sock /\ cb' = cb
    BY <1>3, <2>1 DEF SkipClosed, SocketGone, PostRead, PostWrite, CloseAgain
  <2> HIDE DEF Back, On
  <2> QED
    BY <1>2, <2>2
<1>4. ASSUME NEW t \in Threads, TestOpen(t) \/ CloseFirst(t)
      PROVE  LockInv'
  <2>1. /\ {"asyncRead", "recv", "asyncWrite", "send", "close", "shut"} \subseteq Places \ Owning
        /\ {"send", "shut"} \subseteq Handling /\ "shut" \in InClose
        /\ {"asyncRead", "asyncWrite"} \cap InClose = {} /\ "asyncRead" \notin Handling
    BY DEF Places, Owning, Handling, InClose
  <2>2. On(t) /\ sock' = sock /\ cb' = cb
    BY <1>4, <2>1 DEF TestOpen, CloseFirst
  <2> HIDE DEF Back, On
  <2> QED
    BY <1>2, <2>2
<1>5. ASSUME NEW w \in Workers,
             \/ Leave(w) \/ IoClosed(w) \/ FreeOp(w)
      PROVE  LockInv'
  <2>1. {"leave", "io", "freeOp"} \subseteq Places \ Owning
    BY DEF Places, Owning
  <2>2. Back(w) /\ sock' = sock /\ cb' = cb
    BY <1>5, <2>1 DEF Leave, IoClosed, FreeOp
  <2> HIDE DEF Back, On
  <2> QED
    BY <1>1, <1>2, <2>2
<1>6. ASSUME NEW w \in Workers,
             \/ SetMessageCallback(w) \/ SetCloseCallback(w) \/ IoEnd(w) \/ IoData(w)
             \/ ParseDone(w) \/ ParseBad(w) \/ IoWritten(w)
      PROVE  LockInv'
  <2>1. /\ {"setMessage", "setClose", "leave", "io", "freeOp", "parse", "close", "asyncRead"}
                \subseteq Places \ Owning
        /\ {"setMessage", "setClose", "io", "parse"} \cap (InClose \cup Handling) = {}
    BY DEF Places, Owning, Handling, InClose
  <2>2. On(w) /\ sock' = sock /\ cb' = cb
    BY <1>6, <2>1 DEF SetMessageCallback, SetCloseCallback, IoEnd, IoData, ParseDone, ParseBad,
                      IoWritten
  <2> HIDE DEF Back, On
  <2> QED
    BY <1>1, <1>2, <2>2
<1>7. ASSUME NEW w \in Workers, HandleFrame(w) PROVE LockInv'
  <2>1. /\ {"frame", "asyncWrite", "close"} \subseteq Places \ Owning
        /\ {"asyncWrite", "close"} \subseteq Handling /\ "frame" \notin InClose
    BY DEF Places, Owning, Handling, InClose
  <2>2. Back(w) \/ On(w)
    BY <1>7, <2>1 DEF HandleFrame
  <2>3. sock' = sock /\ cb' = cb
    BY <1>7 DEF HandleFrame
  <2> HIDE DEF Back, On
  <2> QED
    BY <1>1, <1>2, <2>2, <2>3
<1> HIDE DEF Back, On
<1>8. ASSUME NEW t \in Threads, ReadFails(t) \/ \E o \in Writes : WriteFails(t, o)
      PROVE  LockInv'
  <2>1. PICK from \in {"recv", "send"} : Goto(t, from, <<"close", "unlockSock">>)
    BY <1>8 DEF ReadFails, WriteFails
  <2>2. sock = Free /\ sock' = t /\ cb' = cb
    BY <1>8 DEF ReadFails, WriteFails
  <2>3. /\ LockFits(from, <<"close", "unlockSock">>) /\ TakesSock(<<"close", "unlockSock">>)
        /\ ~Has(<<"close", "unlockSock">>, "unlockCb")
    BY CallsFit
  <2>4. from # "idle" /\ from \notin InClose /\ from # "unlockCb"
    BY DEF InClose
  <2> HIDE DEF InClose, Handling
  <2> QED
    BY <1>1, <2>1, <2>2, <2>3, <2>4, LocksMove
<1>9. ASSUME NEW w \in Workers, LockFrame(w) PROVE LockInv'
  <2>1. /\ Goto(w, "parse", <<"frame", "unlockCb", "parse">>)
        /\ cb = Free /\ cb' = w /\ sock' = sock
    BY <1>9 DEF LockFrame
  <2>2. /\ LockFits("parse", <<"frame", "unlockCb", "parse">>)
        /\ ~TakesSock(<<"frame", "unlockCb", "parse">>)
        /\ Has(<<"frame", "unlockCb", "parse">>, "unlockCb")
    BY CallsFit
  <2>3. "parse" \notin InClose
    BY DEF InClose
  <2> HIDE DEF InClose, Handling
  <2> QED
    BY <1>1, <2>1, <2>2, <2>3, LocksMove
<1>10. ASSUME NEW t \in Threads, UnlockSock(t) \/ Tell(t) PROVE LockInv'
  <2>1. PICK from \in {"unlockSock", "tell"} : Goto(t, from, << >>)
    BY <1>10 DEF UnlockSock, Tell
  <2>2. sock' = Free /\ cb' = cb
    BY <1>10 DEF UnlockSock, Tell
  <2>3. LockFits(from, << >>) /\ ~Has(<< >>, "unlockCb") /\ ~TakesSock(<< >>)
    BY NoneFits
  <2>4. from # "idle" /\ from \notin InClose /\ from # "unlockCb"
    BY DEF InClose
  <2> HIDE DEF InClose, Handling
  <2> QED
    BY <1>1, <2>1, <2>2, <2>3, <2>4, LocksMove
<1>11. ASSUME NEW w \in Workers, UnlockCb(w) PROVE LockInv'
  <2>1. Goto(w, "unlockCb", << >>) /\ cb' = Free /\ sock' = sock
    BY <1>11 DEF UnlockCb
  <2>2. LockFits("unlockCb", << >>) /\ ~Has(<< >>, "unlockCb") /\ ~TakesSock(<< >>)
    BY NoneFits
  <2>3. "unlockCb" \notin InClose
    BY DEF InClose
  <2> HIDE DEF InClose, Handling
  <2> QED
    BY <1>1, <2>1, <2>2, <2>3, LocksMove
<1>12. ASSUME NEW t \in Threads, Shut(t) PROVE LockInv'
  <2>1. Goto(t, "shut", <<"tell">>) /\ sock = Free /\ sock' = t /\ cb' = cb
    BY <1>12 DEF Shut
  <2>2. "tell" \in Places \ {"unlockSock", "unlockCb"} /\ "tell" \in Handling
    BY DEF Places, Handling
  <2>3. LockFits("shut", <<"tell">>) /\ ~Has(<<"tell">>, "unlockCb") /\ TakesSock(<<"tell">>)
    BY <2>2, OneFits
  <2> HIDE DEF InClose, Handling
  <2> QED
    BY <1>1, <2>1, <2>3, LocksMove
<1>13. ASSUME NEW w \in Workers, NEW o \in Ops, Take(w, o) PROVE LockInv'
  <2>1. Begin(w, <<"io", "leave">>) /\ sock' = sock /\ cb' = cb
    BY <1>13 DEF Take
  <2> DEFINE to == <<"io", "leave">>
  <2>2. to \in Seq(Places) /\ \A i \in DOMAIN to : to[i] \notin Owning
    BY DEF Places, Owning
  <2> HIDE DEF to
  <2> QED
    BY <1>1, <2>1, <2>2, BeginLocks DEF to
<1>14. ASSUME NEW w \in Workers, IoNothing(w) PROVE LockInv'
  <2>1. Goto(w, "io", <<"close", "freeOp">>) /\ sock' = sock /\ cb' = cb
    BY <1>14 DEF IoNothing
  <2>2. /\ LockFits("io", <<"close", "freeOp">>) /\ ~TakesSock(<<"close", "freeOp">>)
        /\ ~Has(<<"close", "freeOp">>, "unlockCb")
    BY CallsFit
  <2>3. "io" \notin InClose
    BY DEF InClose
  <2> HIDE DEF InClose, Handling
  <2> QED
    BY <1>1, <2>1, <2>2, <2>3, LocksMove
<1>15. CASE SendText \/ CallClose
  <2>1. PICK p \in {"asyncWrite", "close"} : Begin(App, <<p>>)
    BY <1>15 DEF SendText, CallClose
  <2>2. sock' = sock /\ cb' = cb
    BY <1>15 DEF SendText, CallClose
  <2> DEFINE to == <<p>>
  <2>3. to \in Seq(Places) /\ \A i \in DOMAIN to : to[i] \notin Owning
    BY DEF Places, Owning
  <2> HIDE DEF to
  <2> QED
    BY <1>1, <2>1, <2>2, <2>3, BeginLocks DEF to
<1>16. CASE \/ \E batch \in Batches : KernelReads(batch)
            \/ KernelEnds \/ \E o \in Writes : KernelWrites(o)
            \/ UNCHANGED vars
  <2>1. stack' = stack /\ sock' = sock /\ cb' = cb
    BY <1>16 DEF KernelReads, KernelEnds, KernelWrites, vars
  <2>2. \A t \in Threads : Top(t)' = Top(t)
    BY <2>1 DEF Top
  <2> QED
    BY <2>1, <2>2 DEF LockInv, HoldsSock, HoldsCb
<1>17. CASE \E t \in Threads : CallStep(t)
  BY <1>3, <1>4, <1>8, <1>10, <1>12, <1>17 DEF CallStep
<1>18. CASE \E w \in Workers : WorkerStep(w)
  BY <1>5, <1>6, <1>7, <1>9, <1>11, <1>13, <1>14, <1>18 DEF WorkerStep
<1> QED
  BY <1>15, <1>16, <1>17, <1>18 DEF Next, Stuck

\* At first the creator is in asyncRead, and no mutex is taken.
LEMMA LockInit == Init => LockInv
<1> SUFFICES ASSUME Init PROVE LockInv
  OBVIOUS
<1>1. PICK creator \in Workers :
         stack = [t \in Threads |-> IF t = creator THEN <<"asyncRead", "setMessage">> ELSE << >>]
  BY DEF Init, Constructed
<1>2. sock = Free /\ cb = Free /\ Free \notin Threads
  BY ConnectionAssumption DEF Init, Constructed, ConnectionAssumption
<1> DEFINE first == <<"asyncRead", "setMessage">>
<1>3. ASSUME NEW t \in Threads
      PROVE  \A i \in DOMAIN stack[t] : stack[t][i] \notin {"unlockSock", "unlockCb"}
  BY <1>1
<1>4. ASSUME NEW t \in Threads PROVE Top(t) # "tell"
  BY <1>1 DEF Top
<1> QED
  BY <1>2, <1>3, <1>4 DEF LockInv, LockShape, HoldsSock, HoldsCb, Has

\* The owner of socket_mutex_ is in close or about to unlock, and the owner of
\* callbacks_mutex_ is in what handleFrame calls or about to unlock.
LEMMA Owners ==
    ASSUME ShapeInv, LockInv, NEW t \in Threads
    PROVE  /\ sock = t => Top(t) \in InClose \cup {"tell", "unlockSock"}
           /\ cb = t => Top(t) \in Handling \cup {"unlockCb"}
<1>1. stack[t] \in Seq(Places)
  BY DEF ShapeInv
<1>2. /\ LockShape(stack[t]) /\ (sock = t <=> HoldsSock(t)) /\ (cb = t <=> HoldsCb(t))
  BY DEF LockInv
<1>3. ASSUME NEW i \in DOMAIN stack[t]
      PROVE  Top(t) = stack[t][1] /\ i \in Nat /\ i >= 1
  BY <1>1 DEF Top
<1>4. ASSUME sock = t, Top(t) # "tell" PROVE Top(t) \in InClose \cup {"unlockSock"}
  <2>1. PICK i \in DOMAIN stack[t] : stack[t][i] = "unlockSock"
    BY <1>2, <1>4 DEF HoldsSock, Has
  <2>2. i = 1 \/ (i = 2 /\ stack[t][1] \in InClose)
    BY <1>2, <2>1 DEF LockShape
  <2> QED
    BY <1>3, <2>1, <2>2
<1>5. ASSUME cb = t PROVE Top(t) \in Handling \cup {"unlockCb"}
  <2>1. PICK i \in DOMAIN stack[t] : stack[t][i] = "unlockCb"
    BY <1>2, <1>5 DEF HoldsCb, Has
  <2>2. \A j \in 1..i - 1 : stack[t][j] \in Handling
    BY <1>2, <2>1 DEF LockShape
  <2>3. i = 1 \/ 1 \in 1..i - 1
    BY <1>3
  <2> QED
    BY <1>3, <2>1, <2>2, <2>3
<1> QED
  BY <1>4, <1>5

\* Two threads wait for each other; with t = u, one waits for itself.
InCircle(t, u) == WaitsFor(t) = u /\ WaitsFor(u) = t

\* Only asyncWrite and close wait for one mutex while the other is held, and of two
\* that wait for each other one is closing the connection.
LEMMA CircleTops ==
    ASSUME ChannelInv, LockInv, NEW t \in Threads, NEW u \in Threads, InCircle(t, u)
    PROVE  /\ \A x \in {t, u} : \/ Top(x) \in {"send", "shut"} /\ sock \in {t, u}
                                \/ Top(x) = "tell" /\ cb \in {t, u}
           /\ isClosed /\ told = 0
<1>1. ShapeInv /\ Closing /\ Free \notin Threads
  BY ConnectionAssumption DEF ChannelInv, ConnInv, ConnectionAssumption
<1>2. ASSUME NEW x \in Threads, NEW y \in Threads, WaitsFor(x) = y
      PROVE  \/ Top(x) \in {"recv", "send", "shut"} /\ sock = y
             \/ Top(x) \in {"parse", "tell", "setMessage", "setClose"} /\ cb = y
  BY <1>1, <1>2 DEF WaitsFor
<1>3. ASSUME NEW x \in Threads
      PROVE  /\ sock = x => Top(x) \in {"close", "shut", "tell", "unlockSock"}
             /\ cb = x => Top(x) \in {"frame", "asyncWrite", "send", "unlockSock", "close",
                                      "shut", "tell", "unlockCb"}
  BY <1>1, Owners DEF InClose, Handling
<1>4. ASSUME NEW x \in Threads, NEW y \in Threads, WaitsFor(x) = y, WaitsFor(y) = x
      PROVE  \/ Top(x) \in {"send", "shut"} /\ sock = y
             \/ Top(x) = "tell" /\ cb = y
  <2>1. \/ Top(x) \in {"recv", "send", "shut"} /\ sock = y
        \/ Top(x) \in {"parse", "tell", "setMessage", "setClose"} /\ cb = y
    BY <1>2, <1>4
  <2>2. sock = x \/ cb = x
    BY <1>2, <1>4
  <2> QED
    BY <1>3, <2>1, <2>2
<1>5. isClosed /\ told = 0
  <2>1. Top(t) \in {"send", "shut", "tell"} /\ Top(u) \in {"send", "shut", "tell"}
    BY <1>4 DEF InCircle
  <2>2. Top(t) \in {"shut", "tell"} \/ Top(u) \in {"shut", "tell"}
    <3>1. ASSUME Top(t) = "send", Top(u) = "send" PROVE FALSE
      <4>1. sock = u
        BY <1>4, <3>1 DEF InCircle
      <4> QED
        BY <1>3, <3>1, <4>1
    <3> QED
      BY <2>1, <3>1
  <2> QED
    BY <1>1, <2>2 DEF Closing, Closer
<1> QED
  BY <1>4, <1>5 DEF InCircle

\* Only two mutexes are waited for: any circle holds one of two threads, or of one.
LEMMA CirclesAreSmall ==
    ASSUME NEW T \in SUBSET Threads, T # {}, \A t \in T : WaitsFor(t) \in T
    PROVE  Locked
<1>1. \A t \in T : WaitsFor(t) \in {sock, cb} /\ WaitsFor(t) \in T
  BY ConnectionAssumption DEF WaitsFor, ConnectionAssumption
<1>2. ASSUME NEW t \in T, NEW u \in T, WaitsFor(t) = u, WaitsFor(u) = t PROVE Locked
  BY <1>2 DEF Locked
<1> HIDE DEF WaitsFor
<1>3. PICK u \in T : u \in {sock, cb}
  BY <1>1
<1>4. WaitsFor(u) = u \/ (WaitsFor(u) \in T /\ {u, WaitsFor(u)} = {sock, cb})
  BY <1>1, <1>3
<1>5. CASE WaitsFor(u) = u
  BY <1>2, <1>5
<1>6. CASE WaitsFor(u) # u
  <2>1. /\ WaitsFor(u) \in T /\ {u, WaitsFor(u)} = {sock, cb}
    BY <1>4, <1>6
  <2>2. WaitsFor(WaitsFor(u)) \in {u, WaitsFor(u)}
    BY <1>1, <2>1
  <2> QED
    BY <1>2, <2>1, <2>2
<1> QED
  BY <1>5, <1>6

\* Every mutex is owned by the one thread that has its unlock ahead: under
\* socket_mutex_ a thread is in close, under callbacks_mutex_ in what handleFrame
\* calls (websocket_connection.cpp:41-57, 98-128, 147-198).
THEOREM MutexOwners == Spec => []LockInv
<1>1. ChannelInv /\ LockInv /\ [Next]_vars => LockInv'
  BY LockStep DEF ChannelInv
<1> QED
  BY <1>1, LockInit, ChannelInvariant, PTL DEF Spec

\* While a connection is open, no threads wait in a circle, however many there are:
\* only close locks threads out (websocket_connection.cpp:147-175).
THEOREM OpenNeverLocked ==
    Spec => [](~isClosed => \A T \in SUBSET Threads : T # {} =>
                                \E t \in T : WaitsFor(t) \notin T)
<1> DEFINE NoCircle == ~isClosed => \A T \in SUBSET Threads : T # {} =>
                                     \E t \in T : WaitsFor(t) \notin T
<1>1. ChannelInv /\ LockInv => NoCircle
  <2> SUFFICES ASSUME ChannelInv, LockInv, ~isClosed, NEW T \in SUBSET Threads, T # {},
                      \A t \in T : WaitsFor(t) \in T
               PROVE  FALSE
    OBVIOUS
  <2>1. Locked
    BY CirclesAreSmall
  <2>2. PICK t \in Threads, u \in Threads : InCircle(t, u)
    BY <2>1 DEF Locked, InCircle
  <2> QED
    BY <2>2, CircleTops
<1> QED
  BY <1>1, ChannelInvariant, MutexOwners, PTL

\* A thread that waits for a mutex somebody has, in asyncWrite or close, stays there.
LEMMA WaiterStays ==
    ASSUME ShapeInv, [Next]_vars, NEW t \in Threads, Top(t) \in {"send", "shut", "tell"},
           Top(t) \in {"send", "shut"} => sock # Free, Top(t) = "tell" => cb # Free
    PROVE  stack'[t] = stack[t]
<1> DEFINE Tos == {<< >>, <<"recv">>, <<"send">>, <<"close", "unlockSock">>, <<"shut">>,
                   <<"tell">>, <<"setClose">>, <<"leave">>, <<"close">>, <<"parse">>,
                   <<"asyncRead">>, <<"asyncWrite">>, <<"frame", "unlockCb", "parse">>,
                   <<"freeOp">>, <<"close", "freeOp">>}
           May(from) == /\ from \in {"send", "shut"} => sock = Free
                        /\ from = "tell" => cb = Free
           Goes(x) == \E from \in Places, to \in Tos : Goto(x, from, to) /\ May(from)
<1>1. stack \in [Threads -> Seq(Places)] /\ Workers \subseteq Threads /\ App \in Threads
  BY DEF ShapeInv, Threads
<1>2. ASSUME NEW x \in Threads, Goes(x) PROVE stack'[t] = stack[t]
  <2>1. PICK from \in Places, to \in Tos : Goto(x, from, to) /\ May(from)
    BY <1>2
  <2>2. x # t
    BY <2>1 DEF Goto
  <2> QED
    BY <1>1, <2>1, <2>2 DEF Goto
<1>3. ASSUME NEW x \in Threads, NEW to, Begin(x, to) PROVE stack'[t] = stack[t]
  <2>1. x # t
    BY <1>3 DEF Begin
  <2> QED
    BY <1>1, <1>3, <2>1 DEF Begin
<1>4. ASSUME NEW x \in Threads, CallStep(x) PROVE stack'[t] = stack[t]
  <2>1. {"asyncRead", "asyncWrite", "recv", "send", "unlockSock", "close", "shut", "tell"}
            \subseteq Places
    BY DEF Places
  <2>2. Goes(x)
    BY <1>4, <2>1 DEF CallStep, SkipClosed, TestOpen, SocketGone, PostRead, PostWrite,
                      WriteFails, ReadFails, UnlockSock, CloseAgain, CloseFirst, Shut, Tell
  <2> HIDE DEF Goes
  <2> QED
    BY <1>2, <2>2
<1>5. ASSUME NEW w \in Workers, WorkerStep(w) PROVE stack'[t] = stack[t]
  <2>1. {"setMessage", "setClose", "leave", "io", "freeOp", "parse", "frame", "unlockCb"}
            \subseteq Places
    BY DEF Places
  <2>2. CASE \E o \in Ops : Take(w, o)
    BY <1>1, <1>3, <2>2 DEF Take
  <2>3. CASE HandleFrame(w)
    <3>1. Goes(w)
      BY <2>1, <2>3 DEF HandleFrame
    <3> HIDE DEF Goes
    <3> QED
      BY <1>1, <1>2, <3>1
  <2>4. CASE \/ SetMessageCallback(w) \/ SetCloseCallback(w) \/ Leave(w)
             \/ IoClosed(w) \/ IoWritten(w) \/ IoNothing(w) \/ FreeOp(w)
             \/ IoEnd(w) \/ IoData(w)
             \/ ParseDone(w) \/ ParseBad(w) \/ LockFrame(w) \/ UnlockCb(w)
    <3>1. Goes(w)
      BY <2>1, <2>4 DEF SetMessageCallback, SetCloseCallback, Leave, IoClosed, IoWritten,
                        IoNothing, FreeOp, IoEnd, IoData, ParseDone, ParseBad, LockFrame,
                        UnlockCb
    <3> HIDE DEF Goes
    <3> QED
      BY <1>1, <1>2, <3>1
  <2> QED
    BY <1>5, <2>2, <2>3, <2>4 DEF WorkerStep
<1>6. CASE SendText \/ CallClose
  BY <1>1, <1>3, <1>6 DEF SendText, CallClose
<1>7. CASE \/ \E batch \in Batches : KernelReads(batch)
           \/ KernelEnds \/ \E o \in Writes : KernelWrites(o)
           \/ UNCHANGED vars
  BY <1>7 DEF KernelReads, KernelEnds, KernelWrites, vars
<1> QED
  BY <1>4, <1>5, <1>6, <1>7 DEF Next, Stuck

\* Threads that wait for each other do so for good, whatever the other threads, the
\* peer and the program do: their stacks and their mutexes stay as they are.
LEMMA CircleStays ==
    ASSUME ChannelInv, LockInv, LockInv', [Next]_vars,
           NEW t \in Threads, NEW u \in Threads, InCircle(t, u)
    PROVE  InCircle(t, u)'
<1>1. ShapeInv /\ Free \notin Threads
  BY ConnectionAssumption DEF ChannelInv, ConnInv, ConnectionAssumption
<1>2. \A x \in {t, u} : \/ Top(x) \in {"send", "shut"} /\ sock \in {t, u}
                        \/ Top(x) = "tell" /\ cb \in {t, u}
  BY CircleTops
<1>3. ASSUME NEW x \in {t, u}
      PROVE  /\ stack'[x] = stack[x] /\ Top(x)' = Top(x)
             /\ (sock' = x <=> sock = x) /\ (cb' = x <=> cb = x)
  <2>1. /\ x \in Threads /\ Top(x) \in {"send", "shut", "tell"}
        /\ Top(x) \in {"send", "shut"} => sock # Free
        /\ Top(x) = "tell" => cb # Free
    BY <1>1, <1>2
  <2>2. stack'[x] = stack[x]
    BY <1>1, <2>1, WaiterStays
  <2>3. Top(x)' = Top(x)
    BY <2>2 DEF Top
  <2>4. (HoldsSock(x)' <=> HoldsSock(x)) /\ (HoldsCb(x)' <=> HoldsCb(x))
    BY <2>2, <2>3 DEF HoldsSock, HoldsCb
  <2>5. /\ sock = x <=> HoldsSock(x)
        /\ cb = x <=> HoldsCb(x)
        /\ sock' = x <=> HoldsSock(x)'
        /\ cb' = x <=> HoldsCb(x)'
    BY <2>1 DEF LockInv
  <2> QED
    BY <2>2, <2>3, <2>4, <2>5
<1>4. ASSUME NEW x \in {t, u}, NEW y \in {t, u}, WaitsFor(x) = y
      PROVE  WaitsFor(x)' = y
  <2>1. \/ Top(x) \in {"send", "shut"} /\ sock = y
        \/ Top(x) = "tell" /\ cb = y
    BY <1>2, <1>4 DEF WaitsFor
  <2>2. \/ Top(x)' \in {"send", "shut"} /\ sock' = y
        \/ Top(x)' = "tell" /\ cb' = y
    BY <1>3, <2>1
  <2> QED
    BY <2>2 DEF WaitsFor
<1> QED
  BY <1>4 DEF InCircle

\* The self-deadlocks of the connection never end: no later step of any thread and
\* no completion frees the threads (websocket_connection.cpp:150, 173, 180).
THEOREM LockedForGood == Spec => [][Locked => Locked']_vars
<1>1. ChannelInv /\ LockInv /\ LockInv' /\ [Next]_vars => (Locked => Locked')
  <2> SUFFICES ASSUME ChannelInv, LockInv, LockInv', [Next]_vars, Locked PROVE Locked'
    OBVIOUS
  <2>1. PICK t \in Threads, u \in Threads : InCircle(t, u)
    BY DEF Locked, InCircle
  <2>2. InCircle(t, u)'
    BY <2>1, CircleStays
  <2> QED
    BY <2>2 DEF Locked, InCircle
<1>2. ChannelInv /\ LockInv /\ LockInv' /\ [Next]_vars => [Locked => Locked']_vars
  BY <1>1
<1> QED
  BY <1>2, ChannelInvariant, MutexOwners, PTL DEF Spec

\* A connection that locked itself out is closed, and its owner has not been told: as
\* that is for good, on_close_ is never called (websocket_connection.cpp:172-174).
THEOREM LockedNotTold == Spec => [](Locked => isClosed /\ told = 0)
<1>1. ChannelInv /\ LockInv => (Locked => isClosed /\ told = 0)
  <2> SUFFICES ASSUME ChannelInv, LockInv, Locked PROVE isClosed /\ told = 0
    OBVIOUS
  <2>1. PICK t \in Threads, u \in Threads : InCircle(t, u)
    BY DEF Locked, InCircle
  <2> QED
    BY <2>1, CircleTops
<1> QED
  BY <1>1, ChannelInvariant, MutexOwners, PTL

\* A worker that locked itself out holds callbacks_mutex_ of IOCPCore: from then on no
\* worker of the server calls anything (iocp_core.cpp:57-71).
THEOREM LockedWorkerStopsAll ==
    Spec => [][\A w \in Workers, t \in Threads :
                   InCircle(w, t) => InCircle(w, t)' /\ \A v \in Workers : stack'[v] = stack[v]]_vars
<1> DEFINE Frozen == \A w \in Workers, t \in Threads :
                         InCircle(w, t) =>
                             InCircle(w, t)' /\ \A v \in Workers : stack'[v] = stack[v]
<1>1. ChannelInv /\ ChannelInv' /\ LockInv /\ LockInv' /\ [Next]_vars => [Frozen]_vars
  <2> SUFFICES ASSUME ChannelInv, ChannelInv', LockInv, LockInv', [Next]_vars,
                      NEW w \in Workers, NEW t \in Threads, InCircle(w, t)
               PROVE  InCircle(w, t)' /\ \A v \in Workers : stack'[v] = stack[v]
    OBVIOUS
  <2>1. w \in Threads /\ ShapeInv /\ ShapeInv' /\ Free \notin Threads
    BY ConnectionAssumption DEF Threads, ChannelInv, ConnInv, ConnectionAssumption
  <2>2. InCircle(w, t)'
    BY <2>1, CircleStays
  <2>3. \/ Top(w) \in {"send", "shut"} /\ sock \in {w, t}
        \/ Top(w) = "tell" /\ cb \in {w, t}
    BY <2>1, CircleTops
  <2>4. stack'[w] = stack[w]
    BY <2>1, <2>3, WaiterStays
  <2>5. stack[w] # << >>
    BY <2>3 DEF Top
  <2>6. core = w /\ core' = w
    BY <2>1, <2>4, <2>5 DEF ShapeInv
  <2>7. \A v \in Workers : v # w => stack[v] = << >> /\ stack'[v] = << >>
    BY <2>1, <2>6 DEF ShapeInv
  <2> QED
    BY <2>2, <2>4, <2>7
<1> QED
  BY <1>1, ChannelInvariant, MutexOwners, PTL DEF Spec
=============================================================================

------------------------- MODULE WsConnectionProofs -------------------------
(***************************************************************************)
(* Why the workers of a WebSocketConnection do not get into each other's   *)
(* way, for any number of workers, writes and frames.                      *)
(***************************************************************************)
EXTENDS WsConnection, TLAPS

\* Where a callback of IOCPCore ends, and what runs directly in one.
Outer == {"setMessage", "setClose", "leave"}
Inner == {"asyncRead", "recv", "io", "freeOp", "parse"}

\* The stack of a worker in a callback: an Outer place at the bottom, an Inner
\* one, if any, right above it.
Shaped(s) == \A i \in DOMAIN s : /\ s[i] \in Outer <=> i = Len(s)
                                 /\ s[i] \in Inner => i = Len(s) - 1

Plain(s) == \A i \in DOMAIN s : s[i] \notin Outer \cup Inner

\* What Goto may put on a stack in the place of its top.
Fits(from, to) ==
    /\ \A i \in DOMAIN to : to[i] \in Outer \cup Inner => i = Len(to)
    /\ from \in Outer /\ to # << >> => to[Len(to)] \in Outer
    /\ from \notin Outer => \A i \in DOMAIN to : to[i] \notin Outer
    /\ from \notin Inner => \A i \in DOMAIN to : to[i] \notin Inner

\* The top of a stack replaced by the places in to.
LEMMA Replaced ==
    ASSUME NEW s \in Seq(Places), s # << >>, NEW to \in Seq(Places), NEW new, new = to \o Tail(s)
    PROVE  /\ new \in Seq(Places) /\ Len(new) = Len(to) + Len(s) - 1
           /\ \A i \in 1..Len(new) :
                 new[i] = IF i <= Len(to) THEN to[i] ELSE s[i - Len(to) + 1]
OBVIOUS

\* A stack with its top replaced by the places in to.
OnTail(to, s) == to \o Tail(s)

\* Replacing the top by places that fit keeps a stack of a worker well formed.
LEMMA ShapeKept ==
    ASSUME NEW s \in Seq(Places), s # << >>, NEW to \in Seq(Places), NEW new,
           new = OnTail(to, s), Shaped(s), Fits(s[1], to)
    PROVE  /\ Shaped(new)
           /\ s[1] \notin Outer => /\ new # << >>
                                   /\ \A p \in Outer : Has(new, p) <=> Has(s, p)
           /\ s[1] \in Outer => new = to
           /\ s[1] \in Inner => \A p \in Inner : Has(new, p) <=> Has(to, p)
           /\ s[1] \notin Inner => \A p \in Inner : Has(new, p) <=> Has(s, p)
<1> DEFINE n == Len(s)  k == Len(to)
<1>1. /\ n \in Nat /\ n >= 1 /\ k \in Nat /\ Len(new) = k + n - 1
      /\ DOMAIN s = 1..n /\ DOMAIN to = 1..k /\ DOMAIN new = 1..(k + n - 1)
  BY Replaced DEF OnTail
<1>2. \A i \in 1..(k + n - 1) : new[i] = IF i <= k THEN to[i] ELSE s[i - k + 1]
  BY Replaced, <1>1 DEF OnTail
<1>3. Outer \cap Inner = {}
  BY DEF Outer, Inner
<1>4. /\ s[1] \in Outer <=> n = 1
      /\ s[1] \in Inner => n = 2
  BY <1>1 DEF Shaped
<1> HIDE DEF n, k
<1>5. /\ \A i \in 1..k : to[i] \in Outer \cup Inner => i = k
      /\ n = 1 /\ k > 0 => to[k] \in Outer
      /\ n > 1 => \A i \in 1..k : to[i] \notin Outer
      /\ s[1] \notin Inner => \A i \in 1..k : to[i] \notin Inner
  <2>1. Len(to) = k /\ (k > 0 => to # << >>)
    BY <1>1 DEF k
  <2>2. n > 1 => s[1] \notin Outer
    BY <1>1, <1>4
  <2> QED
    BY <1>1, <1>4, <2>1, <2>2 DEF Fits
<1>6. \A j \in 1..n : /\ s[j] \in Outer <=> j = n
                      /\ s[j] \in Inner => j = n - 1
  BY <1>1 DEF Shaped, n
<1>7. Shaped(new)
  <2> SUFFICES ASSUME NEW i \in 1..(k + n - 1)
               PROVE  /\ new[i] \in Outer <=> i = k + n - 1
                      /\ new[i] \in Inner => i = (k + n - 1) - 1
    BY <1>1 DEF Shaped
  <2>1. CASE i <= k
    <3>1. new[i] = to[i] /\ i \in 1..k
      BY <2>1, <1>1, <1>2
    <3>2. CASE n = 1
      BY <3>1, <3>2, <1>1, <1>3, <1>5
    <3>3. CASE n > 1
      BY <3>1, <3>3, <1>1, <1>3, <1>4, <1>5
    <3> QED
      BY <3>2, <3>3, <1>1
  <2>2. CASE i > k
    <3>1. new[i] = s[i - k + 1] /\ i - k + 1 \in 1..n
      BY <2>2, <1>1, <1>2
    <3> QED
      BY <3>1, <1>1, <1>6
  <2> QED
    BY <2>1, <2>2, <1>1
<1>8. \A p : Has(new, p) <=> Has(to, p) \/ \E j \in 2..n : s[j] = p
  <2> TAKE p
  <2>1. ASSUME NEW i \in 1..k, to[i] = p PROVE Has(new, p)
    <3>1. i \in 1..(k + n - 1) /\ new[i] = p
      BY <2>1, <1>1, <1>2
    <3> QED
      BY <3>1, <1>1 DEF Has
  <2>2. ASSUME NEW j \in 2..n, s[j] = p PROVE Has(new, p)
    <3> DEFINE m == j + k - 1
    <3>1. m \in 1..(k + n - 1) /\ ~(m <= k) /\ m - k + 1 = j
      BY <1>1
    <3>2. new[m] = p
      BY <3>1, <2>2, <1>2
    <3> QED
      BY <3>1, <3>2, <1>1 DEF Has
  <2>3. ASSUME NEW i \in 1..(k + n - 1), new[i] = p
        PROVE  Has(to, p) \/ \E j \in 2..n : s[j] = p
    <3>1. CASE i <= k
      <4>1. i \in 1..k /\ to[i] = p
        BY <3>1, <2>3, <1>1, <1>2
      <4> QED
        BY <4>1, <1>1 DEF Has
    <3>2. CASE i > k
      <4>1. s[i - k + 1] = p /\ i - k + 1 \in 2..n
        BY <3>2, <2>3, <1>1, <1>2
      <4> QED
        BY <4>1
    <3> QED
      BY <3>1, <3>2, <1>1
  <2> QED
    BY <2>1, <2>2, <2>3, <1>1 DEF Has
<1>9. \A p : Has(s, p) <=> s[1] = p \/ \E j \in 2..n : s[j] = p
  <2> TAKE p
  <2>1. ASSUME NEW j \in 1..n PROVE j = 1 \/ j \in 2..n
    BY <1>1
  <2>2. \A j \in 2..n : j \in 1..n
    BY <1>1
  <2>3. 1 \in 1..n
    BY <1>1
  <2> QED
    BY <2>1, <2>2, <2>3, <1>1 DEF Has
<1>10. ASSUME s[1] \notin Outer
       PROVE  new # << >> /\ \A p \in Outer : Has(new, p) <=> Has(s, p)
  <2>1. n > 1
    BY <1>10, <1>1, <1>4
  <2>2. new # << >>
    <3>1. Len(new) >= 1
      BY <2>1, <1>1
    <3> QED
      BY <3>1
  <2>3. \A p \in Outer : ~Has(to, p) /\ s[1] # p
    BY <2>1, <1>1, <1>5, <1>10 DEF Has
  <2> QED
    BY <2>2, <2>3, <1>8, <1>9
<1>11. ASSUME s[1] \in Outer PROVE new = to
  <2>1. n = 1
    BY <1>11, <1>4
  <2>2. Len(new) = k /\ \A i \in 1..k : new[i] = to[i]
    BY <2>1, <1>1, <1>2
  <2>3. new \in Seq(Places)
    BY Replaced DEF OnTail
  <2> QED
    BY <2>2, <2>3 DEF k
<1>12. ASSUME s[1] \in Inner PROVE \A p \in Inner : Has(new, p) <=> Has(to, p)
  <2>1. \A p \in Inner : ~\E j \in 2..n : s[j] = p
    BY <1>12, <1>1, <1>4, <1>6
  <2> QED
    BY <2>1, <1>8
<1>13. ASSUME s[1] \notin Inner PROVE \A p \in Inner : Has(new, p) <=> Has(s, p)
  <2>1. \A p \in Inner : ~Has(to, p) /\ s[1] # p
    BY <1>13, <1>1, <1>5 DEF Has
  <2> QED
    BY <2>1, <1>8, <1>9
<1> QED
  BY <1>7, <1>10, <1>11, <1>12, <1>13
-----------------------------------------------------------------------------
\* Only the worker that owns IOCPCore's mutex has anything on its stack.
ShapeInv ==
    /\ stack \in [Threads -> Seq(Places)] /\ core \in Workers \cup {Free}
    /\ Plain(stack[App])
    /\ \A w \in Workers : Shaped(stack[w]) /\ (stack[w] # << >> <=> core = w)

\* What being at a place says about a stack and its owner.
LEMMA TopOfStack ==
    ASSUME ShapeInv, NEW t \in Threads, NEW from, from # "idle", NEW to \in Seq(Places),
           Goto(t, from, to)
    PROVE  /\ stack[t] \in Seq(Places) /\ stack[t] # << >> /\ stack[t][1] = from
           /\ Has(stack[t], from)
           /\ stack'[t] = to \o Tail(stack[t])
           /\ stack' \in [Threads -> Seq(Places)]
           /\ \A u \in Threads : u # t => stack'[u] = stack[u]
<1>1. stack[t] \in Seq(Places)
  BY DEF ShapeInv
<1>2. stack[t] # << >> /\ stack[t][1] = from
  BY <1>1 DEF Goto, Top
<1>3. to \o Tail(stack[t]) \in Seq(Places)
  BY <1>1, <1>2
<1>4. Has(stack[t], from)
  BY <1>1, <1>2 DEF Has
<1> QED
  BY <1>1, <1>2, <1>3, <1>4 DEF Goto, ShapeInv

\* A step that neither enters nor leaves a callback keeps the shape of all stacks.
LEMMA NeutralGoto ==
    ASSUME ShapeInv, core' = core, NEW t \in Threads, NEW from \in Places \ (Inner \cup Outer),
           NEW to \in Seq(Places), Fits(from, to), Goto(t, from, to)
    PROVE  /\ ShapeInv'
           /\ \A w \in Workers, p \in Inner \cup Outer :
                 Has(stack'[w], p) <=> Has(stack[w], p)
<1>1. from # "idle"
  BY DEF Places
<1>2. /\ stack[t] \in Seq(Places) /\ stack[t] # << >> /\ stack[t][1] = from
      /\ stack'[t] = to \o Tail(stack[t])
      /\ stack' \in [Threads -> Seq(Places)]
      /\ \A u \in Threads : u # t => stack'[u] = stack[u]
  BY <1>1, TopOfStack
<1>3. CASE t = App
  <2>1. Plain(stack'[App])
    <3> DEFINE old == stack[App]  new == stack'[App]
    <3>0. old \in Seq(Places) /\ old # << >> /\ new = to \o Tail(old)
      BY <1>2, <1>3
    <3> HIDE DEF old, new
    <3>1. /\ new \in Seq(Places) /\ Len(new) = Len(to) + Len(old) - 1
          /\ \A i \in 1..Len(new) :
                 new[i] = IF i <= Len(to) THEN to[i] ELSE old[i - Len(to) + 1]
      BY <3>0, Replaced
    <3>2. \A i \in 1..Len(to) : to[i] \notin Outer \cup Inner
      BY DEF Fits
    <3>3. \A i \in 1..Len(old) : old[i] \notin Outer \cup Inner
      BY <3>0 DEF ShapeInv, Plain, old
    <3>4. old \in Seq(Places)
      BY <3>0
    <3>5. ASSUME NEW i \in 1..Len(new) PROVE new[i] \notin Outer \cup Inner
      <4>1. CASE i <= Len(to)
        BY <4>1, <3>1, <3>2
      <4>2. CASE ~(i <= Len(to))
        <5>1. i - Len(to) + 1 \in 1..Len(old)
          BY <4>2, <3>1, <3>4
        <5> QED
          BY <5>1, <4>2, <3>1, <3>3
      <4> QED
        BY <4>1, <4>2
    <3> QED
      BY <3>1, <3>5 DEF Plain, new
  <2>2. \A w \in Workers : stack'[w] = stack[w]
    BY <1>2, <1>3, ConnectionAssumption DEF ConnectionAssumption, Threads
  <2> QED
    BY <1>2, <2>1, <2>2 DEF ShapeInv
<1>4. CASE t \in Workers
  <2>1. Shaped(stack[t]) /\ core = t
    BY <1>2, <1>4 DEF ShapeInv
  <2>2. /\ Shaped(stack'[t]) /\ stack'[t] # << >>
        /\ \A p \in Outer \cup Inner : Has(stack'[t], p) <=> Has(stack[t], p)
    <3>1. stack'[t] = OnTail(to, stack[t])
      BY <1>2 DEF OnTail
    <3> QED
      BY <1>2, <2>1, <3>1, ShapeKept
  <2>3. t # App /\ App \in Threads /\ Workers \subseteq Threads
    BY <1>4, ConnectionAssumption DEF ConnectionAssumption, Threads
  <2>4. stack'[App] = stack[App] /\ \A w \in Workers : w # t => stack'[w] = stack[w]
    BY <1>2, <2>3
  <2> QED
    BY <1>2, <2>1, <2>2, <2>4 DEF ShapeInv
<1> QED
  BY <1>3, <1>4 DEF Threads

\* A worker's step inside a callback keeps the shape of all stacks.
LEMMA WorkerGoto ==
    ASSUME ShapeInv, NEW t \in Threads, NEW from \in Inner \cup Outer,
           NEW to \in Seq(Places), Fits(from, to), Goto(t, from, to)
    PROVE  /\ t \in Workers /\ core = t /\ Has(stack[t], from)
           /\ \A w \in Workers \ {t} : stack[w] = << >> /\ stack'[w] = << >>
           /\ stack' \in [Threads -> Seq(Places)] /\ stack'[App] = stack[App]
           /\ Shaped(stack'[t])
           /\ from \in Inner =>
                 /\ stack'[t] # << >>
                 /\ \A p \in Outer : Has(stack'[t], p) <=> Has(stack[t], p)
                 /\ \A p \in Inner : Has(stack'[t], p) <=> Has(to, p)
           /\ from \in Outer => stack'[t] = to
<1>1. from # "idle"
  BY DEF Inner, Outer
<1>2. /\ stack[t] \in Seq(Places) /\ stack[t] # << >> /\ stack[t][1] = from
      /\ Has(stack[t], from)
      /\ stack'[t] = to \o Tail(stack[t])
      /\ stack' \in [Threads -> Seq(Places)]
      /\ \A u \in Threads : u # t => stack'[u] = stack[u]
  BY <1>1, TopOfStack
<1>3. t # App
  BY <1>2 DEF ShapeInv, Plain
<1>4. t \in Workers /\ Workers \subseteq Threads /\ App \in Threads
  BY <1>3 DEF Threads
<1>5. Shaped(stack[t]) /\ core = t
  BY <1>2, <1>4 DEF ShapeInv
<1>6. \A w \in Workers \ {t} : stack[w] = << >>
  BY <1>5 DEF ShapeInv
<1>7. Outer \cap Inner = {}
  BY DEF Outer, Inner
<1>8. \A w \in Workers \ {t} : stack'[w] = << >>
  BY <1>2, <1>4, <1>6
<1>9. stack'[App] = stack[App]
  BY <1>2, <1>3, <1>4
<1>10. Shaped(stack'[t]) /\ stack'[t] = OnTail(to, stack[t])
  <2>1. stack'[t] = OnTail(to, stack[t])
    BY <1>2 DEF OnTail
  <2> QED
    BY <1>2, <1>5, <2>1, ShapeKept
<1>11. ASSUME from \in Inner
       PROVE  /\ stack'[t] # << >>
              /\ \A p \in Outer : Has(stack'[t], p) <=> Has(stack[t], p)
              /\ \A p \in Inner : Has(stack'[t], p) <=> Has(to, p)
  <2> DEFINE s == stack[t]  new == stack'[t]
  <2>1. /\ s \in Seq(Places) /\ s # << >> /\ new = OnTail(to, s) /\ Shaped(s)
        /\ Fits(s[1], to) /\ s[1] \in Inner /\ s[1] \notin Outer
    BY <1>2, <1>5, <1>7, <1>10, <1>11
  <2> HIDE DEF s, new
  <2>2. new # << >> /\ \A p \in Outer : Has(new, p) <=> Has(s, p)
    BY <2>1, ShapeKept
  <2>3. \A p \in Inner : Has(new, p) <=> Has(to, p)
    BY <2>1, ShapeKept
  <2> QED
    BY <2>2, <2>3 DEF s, new
<1>12. from \in Outer => stack'[t] = to
  BY <1>2, <1>5, <1>10, ShapeKept
<1>13. t \in Workers /\ core = t /\ Has(stack[t], from)
  BY <1>2, <1>4, <1>5
<1>14. \A w \in Workers \ {t} : stack[w] = << >> /\ stack'[w] = << >>
  BY <1>6, <1>8
<1>15. stack' \in [Threads -> Seq(Places)]
  BY <1>2
<1> QED
  BY <1>9, <1>10, <1>11, <1>12, <1>13, <1>14, <1>15

-----------------------------------------------------------------------------
IoStates == {"none", "kernel", "queued", "inHand", "freed", "lost"}

\* A worker in a completion has its operation in hand, and the callbacks of the
\* connection are set whenever IOCPCore's mutex is free.
DataInv ==
    /\ io \in [Ops -> IoStates] /\ job \in [Workers -> Ops]
    /\ \A w \in Workers :
          Has(stack[w], "io") \/ Has(stack[w], "freeOp") => io[job[w]] = "inHand"
    /\ \A w \in Workers : Has(stack[w], "freeOp") => job[w] # Read
    /\ \A w \in Workers : Has(stack[w], "parse") => io[Read] = "inHand"
    /\ \A w \in Workers :
          Has(stack[w], "io") \/ Has(stack[w], "parse") => Has(stack[w], "leave")
    /\ \A w \in Workers : Has(stack[w], "setClose") => onMessage
    /\ \A w \in Workers : Has(stack[w], "leave") => onMessage /\ onClose
    /\ core = Free => onMessage /\ onClose

ConnInv == ShapeInv /\ DataInv

\* An empty stack has no place.
LEMMA Nothing == \A p : ~Has(<< >>, p)
BY DEF Has

\* Steps that change no place the invariant speaks of.
LEMMA NeutralData ==
    ASSUME DataInv, core' = core, job' = job, io' \in [Ops -> IoStates],
           \A o \in Ops : io[o] = "inHand" => io'[o] = "inHand",
           onMessage' = onMessage, onClose' = onClose,
           \A w \in Workers, p \in Inner \cup Outer : Has(stack'[w], p) <=> Has(stack[w], p)
    PROVE  DataInv'
<1>1. /\ {"io", "freeOp", "parse", "leave", "setClose"} \subseteq Inner \cup Outer
      /\ Read \in Ops
  BY DEF Inner, Outer, Ops
<1>2. \A w \in Workers : /\ Has(stack'[w], "io") <=> Has(stack[w], "io")
                         /\ Has(stack'[w], "freeOp") <=> Has(stack[w], "freeOp")
                         /\ Has(stack'[w], "parse") <=> Has(stack[w], "parse")
                         /\ Has(stack'[w], "leave") <=> Has(stack[w], "leave")
                         /\ Has(stack'[w], "setClose") <=> Has(stack[w], "setClose")
  BY <1>1
<1> QED
  BY <1>1, <1>2 DEF DataInv

\* Steps of a worker that leave one inner place for others.
LEMMA InnerData ==
    ASSUME ConnInv, core' = core, job' = job, io' \in [Ops -> IoStates],
           onMessage' = onMessage, onClose' = onClose,
           NEW t \in Threads, NEW from \in Inner, NEW to \in Seq(Places),
           Fits(from, to), Goto(t, from, to),
           ~Has(to, "io"),
           Has(to, "freeOp") => from = "io" /\ io' = io /\ job[t] # Read,
           Has(to, "parse") => from \in {"io", "parse"} /\ io'[Read] = "inHand"
    PROVE  ConnInv'
<1>1. /\ t \in Workers /\ core = t /\ Has(stack[t], from)
      /\ \A w \in Workers \ {t} : stack[w] = << >> /\ stack'[w] = << >>
      /\ stack' \in [Threads -> Seq(Places)] /\ stack'[App] = stack[App]
      /\ Shaped(stack'[t]) /\ stack'[t] # << >>
      /\ \A p \in Outer : Has(stack'[t], p) <=> Has(stack[t], p)
      /\ \A p \in Inner : Has(stack'[t], p) <=> Has(to, p)
  BY WorkerGoto DEF ConnInv
<1>2. {"io", "freeOp", "parse"} \subseteq Inner /\ {"leave", "setClose"} \subseteq Outer
  BY DEF Inner, Outer
<1>3. Shaped(<< >>)
  BY DEF Shaped
<1>4. ShapeInv'
  BY <1>1, <1>3 DEF ConnInv, ShapeInv
<1>5. /\ ~Has(stack'[t], "io")
      /\ Has(stack'[t], "freeOp") => io'[job'[t]] = "inHand" /\ job'[t] # Read
      /\ Has(stack'[t], "parse") => io'[Read] = "inHand" /\ Has(stack'[t], "leave")
      /\ Has(stack'[t], "setClose") => onMessage
      /\ Has(stack'[t], "leave") => onMessage /\ onClose
  BY <1>1, <1>2 DEF ConnInv, DataInv
<1>6. core' # Free
  BY <1>1, ConnectionAssumption DEF ConnectionAssumption, Threads
<1>7. \A w \in Workers \ {t}, p \in Places : ~Has(stack'[w], p)
  BY <1>1, Nothing
<1>8. {"io", "freeOp", "parse", "leave", "setClose"} \subseteq Places
  BY DEF Places
<1>9. job' \in [Workers -> Ops]
  BY DEF ConnInv, DataInv
<1>10. DataInv'
  BY <1>1, <1>5, <1>6, <1>7, <1>8, <1>9 DEF DataInv
<1> QED
  BY <1>4, <1>10 DEF ConnInv

\* The constructor starts within the invariant.
LEMMA ConnInit == Init => ConnInv
<1> SUFFICES ASSUME Init PROVE ConnInv
  OBVIOUS
<1>1. PICK creator \in Workers :
         /\ stack = [t \in Threads |-> IF t = creator THEN <<"asyncRead", "setMessage">> ELSE << >>]
         /\ core = creator
  BY DEF Init, Constructed
<1>2. /\ creator # App /\ creator # Free /\ App \in Threads /\ Workers \subseteq Threads
      /\ Read \in Ops
  BY ConnectionAssumption DEF ConnectionAssumption, Threads, Ops
<1> DEFINE first == <<"asyncRead", "setMessage">>
<1>3. /\ stack[creator] = first /\ stack[App] = << >>
      /\ \A w \in Workers : w # creator => stack[w] = << >>
  BY <1>1, <1>2
<1>4. first \in Seq(Places) /\ Shaped(first) /\ Shaped(<< >>) /\ Plain(<< >>) /\ first # << >>
  BY DEF Places, Shaped, Plain, Outer, Inner
<1>5. /\ ~Has(first, "io") /\ ~Has(first, "freeOp") /\ ~Has(first, "parse")
      /\ ~Has(first, "leave") /\ ~Has(first, "setClose")
  BY DEF Has
<1>6. stack \in [Threads -> Seq(Places)]
  BY <1>1, <1>4
<1>7. ShapeInv
  BY <1>1, <1>2, <1>3, <1>4, <1>6 DEF ShapeInv
<1>8. io \in [Ops -> IoStates] /\ job \in [Workers -> Ops]
  BY <1>2 DEF Init, Constructed, IoStates
<1>9. DataInv
  BY <1>1, <1>2, <1>3, <1>5, <1>8, Nothing DEF DataInv
<1> QED
  BY <1>7, <1>9 DEF ConnInv
-----------------------------------------------------------------------------
\* What the calls leave alone, and where they go.
LEMMA Calls ==
    ASSUME ConnInv, NEW t \in Threads, CallStep(t)
    PROVE  ConnInv'
<1> USE DEF locks, flags, data, owner
<1>0. /\ ShapeInv /\ DataInv /\ io \in [Ops -> IoStates] /\ Writes \subseteq Ops /\ Read \in Ops
      /\ \A o \in Writes : o # Read
  BY ConnectionAssumption DEF ConnInv, DataInv, Ops, ConnectionAssumption
<1>1. ASSUME NEW from \in {"asyncWrite", "send", "unlockSock", "close", "shut", "tell"},
             NEW to \in {<< >>, <<"send">>, <<"close", "unlockSock">>, <<"shut">>, <<"tell">>}
      PROVE  from \in Places \ (Inner \cup Outer) /\ to \in Seq(Places) /\ Fits(from, to)
  <2>1. from \in Places /\ from \notin Inner /\ from \notin Outer
    BY DEF Places, Inner, Outer
  <2>2. CASE to = << >>
    BY <2>1, <2>2 DEF Fits
  <2>3. ASSUME NEW p \in Places \ (Inner \cup Outer), to = <<p>>
        PROVE  to \in Seq(Places) /\ Fits(from, to)
    BY <2>1, <2>3 DEF Fits
  <2>4. CASE to = <<"close", "unlockSock">>
    <3>1. /\ {"close", "unlockSock"} \subseteq Places
          /\ \A i \in {1, 2} : to[i] \notin Outer /\ to[i] \notin Inner
      BY <2>4 DEF Places, Inner, Outer
    <3>2. DOMAIN to = {1, 2} /\ to \in Seq(Places)
      BY <2>4, <3>1
    <3> QED
      BY <2>1, <3>1, <3>2 DEF Fits
  <2>5. {"send", "shut", "tell"} \subseteq Places \ (Inner \cup Outer)
    BY DEF Places, Inner, Outer
  <2> QED
    BY <2>1, <2>2, <2>3, <2>4, <2>5
<1>2. ASSUME NEW from \in {"asyncRead", "recv"},
             NEW to \in {<< >>, <<"recv">>, <<"close", "unlockSock">>}
      PROVE  /\ from \in Inner /\ to \in Seq(Places) /\ Fits(from, to)
             /\ ~Has(to, "io") /\ ~Has(to, "freeOp") /\ ~Has(to, "parse")
  <2>1. from \in Inner /\ from \notin Outer
    BY DEF Inner, Outer
  <2>2. CASE to = << >>
    BY <2>1, <2>2 DEF Fits, Has
  <2>3. CASE to = <<"recv">>
    BY <2>1, <2>3 DEF Fits, Has, Outer, Places
  <2>4. CASE to = <<"close", "unlockSock">>
    <3>1. /\ {"close", "unlockSock"} \subseteq Places
          /\ \A i \in {1, 2} : /\ to[i] \notin Outer /\ to[i] \notin Inner
                               /\ to[i] # "io" /\ to[i] # "freeOp" /\ to[i] # "parse"
      BY <2>4 DEF Places, Inner, Outer
    <3>2. DOMAIN to = {1, 2} /\ to \in Seq(Places)
      BY <2>4, <3>1
    <3> QED
      BY <2>1, <3>1, <3>2 DEF Fits, Has
  <2> QED
    BY <2>1, <2>2, <2>3, <2>4
<1>3. ASSUME core' = core, job' = job, io' \in [Ops -> IoStates],
             \A o \in Ops : io[o] = "inHand" => io'[o] = "inHand",
             onMessage' = onMessage, onClose' = onClose,
             NEW from \in {"asyncWrite", "send", "unlockSock", "close", "shut", "tell"},
             NEW to \in {<< >>, <<"send">>, <<"close", "unlockSock">>, <<"shut">>, <<"tell">>},
             Goto(t, from, to)
      PROVE  ConnInv'
  <2>1. from \in Places \ (Inner \cup Outer) /\ to \in Seq(Places) /\ Fits(from, to)
    BY <1>1
  <2>2. /\ ShapeInv'
        /\ \A w \in Workers, p \in Inner \cup Outer : Has(stack'[w], p) <=> Has(stack[w], p)
    BY <2>1, <1>0, <1>3, NeutralGoto
  <2>3. DataInv'
    BY <2>2, <1>0, <1>3, NeutralData
  <2> QED
    BY <2>2, <2>3 DEF ConnInv
<1>4. ASSUME core' = core, job' = job, io' \in [Ops -> IoStates],
             onMessage' = onMessage, onClose' = onClose,
             NEW from \in {"asyncRead", "recv"},
             NEW to \in {<< >>, <<"recv">>, <<"close", "unlockSock">>},
             Goto(t, from, to)
      PROVE  ConnInv'
  <2>1. /\ from \in Inner /\ to \in Seq(Places) /\ Fits(from, to)
        /\ ~Has(to, "io") /\ ~Has(to, "freeOp") /\ ~Has(to, "parse")
    BY <1>2
  <2> QED
    BY <2>1, <1>4, InnerData
<1>5. CASE SkipClosed(t)
  BY <1>0, <1>3, <1>4, <1>5 DEF SkipClosed
<1>6. CASE TestOpen(t)
  BY <1>0, <1>3, <1>4, <1>6 DEF TestOpen
<1>7. CASE SocketGone(t)
  BY <1>0, <1>3, <1>4, <1>7 DEF SocketGone
<1>8. CASE PostRead(t)
  <2>1. io' \in [Ops -> IoStates]
    BY <1>0, <1>8 DEF PostRead, IoStates
  <2> QED
    BY <2>1, <1>4, <1>8 DEF PostRead
<1>9. ASSUME NEW o \in Writes, PostWrite(t, o) PROVE ConnInv'
  <2>1. /\ io' \in [Ops -> IoStates]
        /\ \A p \in Ops : io[p] = "inHand" => io'[p] = "inHand"
    BY <1>0, <1>9 DEF PostWrite, New, IoStates
  <2> QED
    BY <2>1, <1>3, <1>9 DEF PostWrite
<1>10. ASSUME NEW o \in Writes, WriteFails(t, o) PROVE ConnInv'
  <2>1. /\ io' \in [Ops -> IoStates]
        /\ \A p \in Ops : io[p] = "inHand" => io'[p] = "inHand"
    BY <1>0, <1>10 DEF WriteFails, New, IoStates
  <2> QED
    BY <2>1, <1>3, <1>10 DEF WriteFails
<1>11. CASE ReadFails(t)
  BY <1>0, <1>4, <1>11 DEF ReadFails
<1>12. CASE UnlockSock(t)
  BY <1>0, <1>3, <1>12 DEF UnlockSock
<1>13. CASE CloseAgain(t)
  BY <1>0, <1>3, <1>13 DEF CloseAgain
<1>14. CASE CloseFirst(t)
  BY <1>0, <1>3, <1>14 DEF CloseFirst
<1>15. CASE Shut(t)
  <2>1. /\ io' \in [Ops -> IoStates]
        /\ \A p \in Ops : io[p] = "inHand" => io'[p] = "inHand"
    BY <1>0, <1>15 DEF Shut, IoStates
  <2> QED
    BY <2>1, <1>3, <1>15 DEF Shut
<1>16. CASE Tell(t)
  BY <1>0, <1>3, <1>16 DEF Tell
<1> QED
  BY <1>5, <1>6, <1>7, <1>8, <1>9, <1>10, <1>11, <1>12, <1>13, <1>14, <1>15, <1>16 DEF CallStep

\* handleIOCompletion, processData and handleFrame.
LEMMA Completions ==
    ASSUME ConnInv, NEW w \in Workers,
           \/ IoClosed(w) \/ IoWritten(w) \/ IoNothing(w) \/ FreeOp(w) \/ IoEnd(w) \/ IoData(w)
           \/ ParseDone(w) \/ ParseBad(w) \/ LockFrame(w) \/ HandleFrame(w) \/ UnlockCb(w)
    PROVE  ConnInv'
<1> USE DEF locks, flags, data, owner
<1>0. /\ ShapeInv /\ DataInv /\ io \in [Ops -> IoStates] /\ Writes \subseteq Ops /\ Read \in Ops
      /\ w \in Threads /\ job[w] \in Ops
  BY DEF ConnInv, DataInv, Ops, Threads
<1>1. ASSUME NEW from \in {"io", "freeOp", "parse"},
             NEW to \in {<< >>, <<"close">>, <<"parse">>, <<"asyncRead">>}
      PROVE  /\ from \in Inner /\ to \in Seq(Places) /\ Fits(from, to)
             /\ ~Has(to, "io") /\ ~Has(to, "freeOp") /\ (Has(to, "parse") => to = <<"parse">>)
  <2>1. from \in Inner /\ from \notin Outer
    BY DEF Inner, Outer
  <2>2. CASE to = << >>
    BY <2>1, <2>2 DEF Fits, Has
  <2>3. ASSUME NEW p \in {"close", "parse", "asyncRead"}, to = <<p>>
        PROVE  /\ to \in Seq(Places) /\ Fits(from, to)
               /\ ~Has(to, "io") /\ ~Has(to, "freeOp") /\ (Has(to, "parse") => to = <<"parse">>)
    <3>1. p \in Places /\ p \notin Outer /\ p # "io" /\ p # "freeOp"
      BY DEF Places, Outer
    <3>2. DOMAIN to = {1} /\ to[1] = p /\ to \in Seq(Places) /\ Len(to) = 1
      BY <2>3, <3>1
    <3> QED
      BY <2>1, <2>3, <3>1, <3>2 DEF Fits, Has
  <2> QED
    BY <2>1, <2>2, <2>3
<1>2. ASSUME core' = core, job' = job, onMessage' = onMessage, onClose' = onClose,
             io' \in [Ops -> IoStates],
             NEW from \in {"io", "freeOp", "parse"},
             NEW to \in {<< >>, <<"close">>, <<"parse">>, <<"asyncRead">>},
             to = <<"parse">> => from \in {"io", "parse"} /\ io'[Read] = "inHand",
             Goto(w, from, to)
      PROVE  ConnInv'
  <2>1. /\ from \in Inner /\ to \in Seq(Places) /\ Fits(from, to)
        /\ ~Has(to, "io") /\ ~Has(to, "freeOp") /\ (Has(to, "parse") => to = <<"parse">>)
    BY <1>1, <1>2
  <2> QED
    BY <2>1, <1>0, <1>2, InnerData
<1>3. ASSUME core' = core, job' = job, io' = io, onMessage' = onMessage, onClose' = onClose,
              NEW to \in {<<"freeOp">>, <<"close", "freeOp">>}, Goto(w, "io", to),
              job[w] # Read
       PROVE  ConnInv'
  <2>1. "io" \in Inner /\ "io" \notin Outer
    BY DEF Inner, Outer
  <2>2. /\ to \in Seq(Places)
        /\ \A i \in DOMAIN to : /\ to[i] \in {"close", "freeOp"}
                              /\ to[i] = "freeOp" => i = Len(to)
    <3>1. {"close", "freeOp"} \subseteq Places
      BY DEF Places
    <3>2. CASE to = <<"freeOp">>
      <4>1. to \in Seq(Places) /\ DOMAIN to = {1} /\ Len(to) = 1 /\ to[1] = "freeOp"
        BY <3>1, <3>2
      <4> QED
        BY <4>1
    <3>3. CASE to = <<"close", "freeOp">>
      <4>1. /\ to \in Seq(Places) /\ DOMAIN to = {1, 2} /\ Len(to) = 2
            /\ to[1] = "close" /\ to[2] = "freeOp"
        BY <3>1, <3>3
      <4> QED
        BY <4>1
    <3> QED
      BY <1>3, <3>2, <3>3
  <2>3. \A p \in {"close", "freeOp"} : /\ p \notin Outer /\ p # "io" /\ p # "parse"
                                     /\ p \in Inner => p = "freeOp"
    BY DEF Inner, Outer
  <2>4. Fits("io", to) /\ ~Has(to, "io") /\ ~Has(to, "parse")
    <3>1. ASSUME NEW i \in DOMAIN to
          PROVE  to[i] \notin Outer /\ (to[i] \in Inner => i = Len(to))
      <4>1. to[i] \in {"close", "freeOp"} /\ (to[i] = "freeOp" => i = Len(to))
        BY <2>2, <3>1
      <4>2. CASE to[i] = "close"
        BY <4>2 DEF Outer, Inner
      <4>3. CASE to[i] = "freeOp"
        BY <4>1, <4>3 DEF Outer
      <4> QED
        BY <4>1, <4>2, <4>3
    <3>2. Fits("io", to)
      BY <2>1, <3>1 DEF Fits
    <3> QED
      BY <2>2, <2>3, <3>2 DEF Has
  <2>5. io' \in [Ops -> IoStates]
    BY <1>0, <1>3
  <2> QED
    BY <2>1, <2>2, <2>4, <2>5, <1>0, <1>3, InnerData
<1>4. \A from : from # "idle" /\ Top(w) = from => Has(stack[w], from)
  BY <1>0 DEF Top, Has, ShapeInv
<1>5. CASE IoClosed(w)
  <2>1. io' \in [Ops -> IoStates]
    BY <1>0, <1>5 DEF IoClosed, IoStates
  <2> QED
    BY <2>1, <1>2, <1>5 DEF IoClosed
<1>6. CASE IoWritten(w) \/ IoNothing(w)
  BY <1>3, <1>6 DEF IoWritten, IoNothing
<1>7. CASE FreeOp(w)
  <2>1. io' \in [Ops -> IoStates]
    BY <1>0, <1>7 DEF FreeOp, IoStates
  <2> QED
    BY <2>1, <1>2, <1>7 DEF FreeOp
<1>8. CASE IoEnd(w)
  <2>1. io' \in [Ops -> IoStates]
    BY <1>0, <1>8 DEF IoEnd, IoStates
  <2> QED
    BY <2>1, <1>2, <1>8 DEF IoEnd
<1>9. CASE IoData(w)
  <2>1. io[Read] = "inHand"
    BY <1>0, <1>4, <1>9 DEF IoData, Goto, DataInv
  <2> QED
    BY <2>1, <1>0, <1>2, <1>9 DEF IoData
<1>10. CASE ParseDone(w)
  <2>1. io' \in [Ops -> IoStates]
    BY <1>0, <1>10 DEF ParseDone, IoStates
  <2> QED
    BY <2>1, <1>2, <1>10 DEF ParseDone
<1>11. CASE ParseBad(w)
  <2>1. io' \in [Ops -> IoStates]
    BY <1>0, <1>11 DEF ParseBad, IoStates
  <2> QED
    BY <2>1, <1>2, <1>11 DEF ParseBad
<1>12. CASE LockFrame(w)
  <2> DEFINE to == <<"frame", "unlockCb", "parse">>
  <2>1. io[Read] = "inHand"
    BY <1>0, <1>4, <1>12 DEF LockFrame, Goto, DataInv
  <2>2. "parse" \in Inner /\ "parse" \notin Outer
    BY DEF Inner, Outer
  <2>3. to \in Seq(Places) /\ DOMAIN to = {1, 2, 3} /\ Len(to) = 3
    BY DEF Places
  <2>4. /\ \A i \in {1, 2, 3} : to[i] # "io" /\ to[i] # "freeOp" /\ to[i] \notin Outer
        /\ \A i \in {1, 2} : to[i] \notin Inner
    BY DEF Inner, Outer
  <2>5. Fits("parse", to) /\ ~Has(to, "io") /\ ~Has(to, "freeOp")
    BY <2>2, <2>3, <2>4 DEF Fits, Has
  <2>6. Goto(w, "parse", to) /\ core' = core /\ job' = job /\ io' = io
        /\ onMessage' = onMessage /\ onClose' = onClose
    BY <1>12 DEF LockFrame
  <2> HIDE DEF to
  <2> QED
    BY <2>1, <2>2, <2>3, <2>5, <2>6, <1>0, InnerData
<1>13. ASSUME core' = core, job' = job, io' = io, onMessage' = onMessage, onClose' = onClose,
              NEW from \in {"frame", "unlockCb"},
              NEW to \in {<< >>, <<"asyncWrite">>, <<"close">>},
              Goto(w, from, to)
       PROVE  ConnInv'
  <2>1. from \in Places \ (Inner \cup Outer)
    BY DEF Places, Inner, Outer
  <2>2. to \in Seq(Places) /\ Fits(from, to)
    <3>1. CASE to = << >>
      BY <3>1, <2>1 DEF Fits
    <3>2. ASSUME NEW p \in {"asyncWrite", "close"}, to = <<p>>
          PROVE  to \in Seq(Places) /\ Fits(from, to)
      <4>1. p \in Places /\ p \notin Outer /\ p \notin Inner
        BY DEF Places, Inner, Outer
      <4> QED
        BY <4>1, <3>2, <2>1 DEF Fits
    <3> QED
      BY <3>1, <3>2
  <2>3. /\ ShapeInv'
        /\ \A v \in Workers, p \in Inner \cup Outer : Has(stack'[v], p) <=> Has(stack[v], p)
    BY <2>1, <2>2, <1>0, <1>13, NeutralGoto
  <2>4. DataInv'
    BY <2>3, <1>0, <1>13, NeutralData
  <2> QED
    BY <2>3, <2>4 DEF ConnInv
<1>14. CASE HandleFrame(w)
  <2>1. PICK to \in {<< >>, <<"asyncWrite">>, <<"close">>} : Goto(w, "frame", to)
    BY <1>14 DEF HandleFrame
  <2> QED
    BY <2>1, <1>13, <1>14 DEF HandleFrame
<1>15. CASE UnlockCb(w)
  BY <1>13, <1>15 DEF UnlockCb
<1> QED
  BY <1>5, <1>6, <1>7, <1>8, <1>9, <1>10, <1>11, <1>12, <1>14, <1>15

\* The rest of handleNewConnection, and where a callback begins and ends.
LEMMA Callbacks ==
    ASSUME ConnInv, NEW w \in Workers,
           SetMessageCallback(w) \/ SetCloseCallback(w) \/ Leave(w) \/ \E o \in Ops : Take(w, o)
    PROVE  ConnInv'
<1> USE DEF locks, flags, data, owner
<1>0. /\ ShapeInv /\ DataInv /\ w \in Threads /\ App \in Threads /\ Workers \subseteq Threads
      /\ w # App /\ Free \notin Workers /\ Read \in Ops
  BY ConnectionAssumption DEF ConnectionAssumption, ConnInv, Threads, Ops
<1>1. Shaped(<< >>)
  BY DEF Shaped
<1>2. ASSUME core' = core, io' = io, job' = job,
             NEW from \in {"setMessage", "setClose"}, NEW p \in {"setClose", "leave"},
             Goto(w, from, <<p>>),
             p = "setClose" => onMessage',
             p = "leave" => onMessage' /\ onClose'
      PROVE  ConnInv'
  <2>1. /\ from \in Outer /\ from \notin Inner /\ p \in Places /\ p \in Outer /\ p \notin Inner
    BY DEF Outer, Inner, Places
  <2>2. <<p>> \in Seq(Places) /\ Fits(from, <<p>>)
    BY <2>1 DEF Fits
  <2>3. /\ core = w
        /\ \A v \in Workers \ {w} : stack[v] = << >> /\ stack'[v] = << >>
        /\ stack' \in [Threads -> Seq(Places)] /\ stack'[App] = stack[App]
        /\ Shaped(stack'[w]) /\ stack'[w] = <<p>>
    BY <2>1, <2>2, <1>0, <1>2, WorkerGoto
  <2>4. ShapeInv'
    <3>1. stack'[w] # << >>
      BY <2>3
    <3>2. \A v \in Workers : Shaped(stack'[v]) /\ (stack'[v] # << >> <=> core' = v)
      BY <3>1, <2>3, <1>1, <1>2
    <3> QED
      BY <3>2, <2>3, <1>0, <1>2 DEF ShapeInv
  <2>5. /\ ~Has(stack'[w], "io") /\ ~Has(stack'[w], "freeOp") /\ ~Has(stack'[w], "parse")
        /\ Has(stack'[w], "setClose") => p = "setClose"
        /\ Has(stack'[w], "leave") => p = "leave"
    BY <2>3 DEF Has
  <2>6. \A v \in Workers \ {w} : \A q : ~Has(stack'[v], q)
    BY <2>3, Nothing
  <2>7. DataInv'
    BY <2>3, <2>5, <2>6, <1>0, <1>2 DEF DataInv
  <2> QED
    BY <2>4, <2>7 DEF ConnInv
<1>3. CASE SetMessageCallback(w)
  BY <1>2, <1>3 DEF SetMessageCallback
<1>4. CASE SetCloseCallback(w)
  <2>1. Has(stack[w], "setClose")
    BY <1>0, <1>4 DEF SetCloseCallback, Goto, Top, Has, ShapeInv
  <2>2. onMessage
    BY <2>1, <1>0 DEF DataInv
  <2> QED
    BY <2>2, <1>2, <1>4 DEF SetCloseCallback
<1>5. CASE Leave(w)
  <2>1. "leave" \in Outer /\ "leave" \notin Inner /\ << >> \in Seq(Places)
    BY DEF Outer, Inner
  <2>2. Fits("leave", << >>)
    BY <2>1 DEF Fits
  <2>3. /\ core = w /\ Has(stack[w], "leave")
        /\ \A v \in Workers \ {w} : stack[v] = << >> /\ stack'[v] = << >>
        /\ stack' \in [Threads -> Seq(Places)] /\ stack'[App] = stack[App]
        /\ stack'[w] = << >>
    BY <2>1, <2>2, <1>0, <1>5, WorkerGoto DEF Leave
  <2>4. core' = Free /\ \A v \in Workers : stack'[v] = << >>
    BY <2>3, <1>5 DEF Leave
  <2>5. ShapeInv'
    BY <2>3, <2>4, <1>0, <1>1 DEF ShapeInv
  <2>6. onMessage /\ onClose
    BY <2>3, <1>0 DEF DataInv
  <2>7. DataInv'
    BY <2>4, <2>6, <1>0, <1>5, Nothing DEF DataInv, Leave
  <2> QED
    BY <2>5, <2>7 DEF ConnInv
<1>6. ASSUME NEW o \in Ops, Take(w, o) PROVE ConnInv'
  <2> DEFINE new == <<"io", "leave">>
  <2>1. core = Free /\ core' = w /\ stack' = [stack EXCEPT ![w] = new]
    BY <1>6 DEF Take, Begin
  <2>2. \A v \in Workers : stack[v] = << >>
    BY <2>1, <1>0 DEF ShapeInv
  <2>3. new \in Seq(Places) /\ new # << >> /\ Shaped(new)
    BY DEF Places, Shaped, Outer, Inner
  <2>4. /\ stack' \in [Threads -> Seq(Places)] /\ stack'[App] = stack[App]
        /\ stack'[w] = new /\ \A v \in Workers \ {w} : stack'[v] = << >>
    BY <2>1, <2>2, <2>3, <1>0 DEF ShapeInv
  <2>5. ShapeInv'
    <3> HIDE DEF new
    <3>1. \A v \in Workers : Shaped(stack'[v]) /\ (stack'[v] # << >> <=> core' = v)
      BY <2>1, <2>3, <2>4, <1>1
    <3> QED
      BY <3>1, <2>1, <2>4, <1>0 DEF ShapeInv
  <2>6. Has(new, "leave") /\ ~Has(new, "freeOp") /\ ~Has(new, "parse") /\ ~Has(new, "setClose")
    BY DEF Has
  <2>7. io' \in [Ops -> IoStates] /\ job' \in [Workers -> Ops]
        /\ job'[w] = o /\ io'[o] = "inHand"
    BY <1>0, <1>6 DEF Take, DataInv, IoStates
  <2>8. onMessage /\ onClose /\ onMessage' = onMessage /\ onClose' = onClose
    BY <2>1, <1>0, <1>6 DEF DataInv, Take
  <2>9. \A v \in Workers \ {w} : \A q : ~Has(stack'[v], q)
    BY <2>4, Nothing
  <2> HIDE DEF new
  <2>10. DataInv'
    BY <2>1, <2>4, <2>6, <2>7, <2>8, <2>9, <1>0 DEF DataInv
  <2> QED
    BY <2>5, <2>10 DEF ConnInv
<1> QED
  BY <1>3, <1>4, <1>5, <1>6

\* Every step of workers, the program, the kernel and the peer keeps the invariant.
LEMMA ConnStep == ConnInv /\ [Next]_vars => ConnInv'
<1> SUFFICES ASSUME ConnInv, [Next]_vars PROVE ConnInv'
  OBVIOUS
<1> USE DEF locks, flags, data, owner
<1>0. /\ ShapeInv /\ DataInv /\ io \in [Ops -> IoStates] /\ Writes \subseteq Ops /\ Read \in Ops
  BY DEF ConnInv, DataInv, Ops
<1>1. CASE \E t \in Threads : CallStep(t)
  BY <1>1, Calls
<1>2. CASE \E w \in Workers : WorkerStep(w)
  BY <1>2, Completions, Callbacks DEF WorkerStep
<1>3. ASSUME stack' = stack, core' = core, job' = job, io' \in [Ops -> IoStates],
             \A o \in Ops : io[o] = "inHand" => io'[o] = "inHand",
             onMessage' = onMessage, onClose' = onClose
      PROVE  ConnInv'
  <2>1. ShapeInv'
    BY <1>0, <1>3 DEF ShapeInv
  <2>2. DataInv'
    BY <1>0, <1>3, NeutralData
  <2> QED
    BY <2>1, <2>2 DEF ConnInv
<1>4. CASE \E batch \in Batches : KernelReads(batch)
  BY <1>0, <1>3, <1>4 DEF KernelReads, IoStates
<1>5. CASE KernelEnds
  BY <1>0, <1>3, <1>5 DEF KernelEnds, IoStates
<1>6. CASE \E o \in Writes : KernelWrites(o)
  <2>1. PICK o \in Writes : KernelWrites(o)
    BY <1>6
  <2>2. /\ io' \in [Ops -> IoStates]
        /\ \A p \in Ops : io[p] = "inHand" => io'[p] = "inHand"
    BY <2>1, <1>0 DEF KernelWrites, IoStates
  <2> QED
    BY <2>1, <2>2, <1>3 DEF KernelWrites
<1>7. CASE SendText \/ CallClose
  <2>1. PICK to \in {<<"asyncWrite">>, <<"close">>} : stack' = [stack EXCEPT ![App] = to]
    BY <1>7 DEF SendText, CallClose, Begin
  <2>2. /\ core' = core /\ job' = job /\ io' = io
        /\ onMessage' = onMessage /\ onClose' = onClose
    BY <1>7 DEF SendText, CallClose
  <2>3. to \in Seq(Places) /\ Plain(to)
    <3>1. ASSUME NEW p \in {"asyncWrite", "close"}, to = <<p>> PROVE to \in Seq(Places) /\ Plain(to)
      <4>1. p \in Places /\ p \notin Outer \cup Inner
        BY DEF Places, Outer, Inner
      <4> QED
        BY <3>1, <4>1 DEF Plain
    <3> QED
      BY <3>1
  <2>4. App \in Threads /\ Workers \subseteq Threads /\ App \notin Workers
    BY ConnectionAssumption DEF ConnectionAssumption, Threads
  <2>5. /\ stack' \in [Threads -> Seq(Places)] /\ stack'[App] = to
        /\ \A w \in Workers : stack'[w] = stack[w]
    BY <2>1, <2>3, <2>4, <1>0 DEF ShapeInv
  <2>6. ShapeInv'
    BY <2>2, <2>3, <2>5, <1>0 DEF ShapeInv
  <2>7. DataInv'
    BY <2>2, <2>5, <1>0, NeutralData
  <2> QED
    BY <2>6, <2>7 DEF ConnInv
<1>8. CASE UNCHANGED vars
  BY <1>0, <1>3, <1>8 DEF vars
<1> QED
  BY <1>1, <1>2, <1>4, <1>5, <1>6, <1>7, <1>8 DEF Next, Stuck

\* The invariant holds for any number of workers, writes, frames and sends:
\* callbacks run under IOCPCore's mutex and the read has one place at a time.
THEOREM ConnInvariant == Spec => []ConnInv
BY ConnInit, ConnStep, PTL DEF Spec

\* For any number of workers: while one works on what a read brought, no other
\* does and the kernel has no read.
THEOREM OneReaderAlways == Spec => []OneReader
<1>1. ConnInv => OneReader
  <2> SUFFICES ASSUME ConnInv, NEW w \in Workers, InParse(w)
               PROVE  /\ io[Read] = "inHand"
                      /\ \A v \in Workers : InParse(v) => v = w
    BY DEF OneReader
  <2>1. io[Read] = "inHand"
    BY DEF ConnInv, DataInv, InParse
  <2>2. \A v \in Workers : InParse(v) => core = v
    BY Nothing DEF ConnInv, ShapeInv, InParse
  <2> QED
    BY <2>1, <2>2
<1> QED
  BY <1>1, ConnInvariant, PTL

\* The mutex of IOCPCore holds every completion back until the callbacks are set.
THEOREM CallbacksSetFirst == Spec => []NoFrameTooEarly
<1>1. ConnInv => NoFrameTooEarly
  BY DEF ConnInv, DataInv, NoFrameTooEarly, InParse
<1> QED
  BY <1>1, ConnInvariant, PTL

\* For any number of workers, writes and frames: a write belongs to the kernel until
\* it completes and is freed once, by the worker that had its completion in hand, also
\* while that worker closes, or by the call of WSASend that fails; and none that is
\* freed is ever used again.
THEOREM WritesFreedOnce == Spec => WriteLife
<1> DEFINE Life == \A o \in Writes : io'[o] # io[o] =>
          \/ <<io[o], io'[o]>> \in {<<"none", "kernel">>, <<"none", "freed">>,
                                    <<"kernel", "queued">>, <<"queued", "inHand">>,
                                    <<"inHand", "freed">>}
          \/ <<io[o], io'[o]>> = <<"inHand", "lost">> /\ isClosed
<1>1. ConnInv /\ [Next]_vars => [Life]_io
  <2> SUFFICES ASSUME ConnInv, [Next]_vars, io' # io, NEW o \in Writes, io'[o] # io[o]
               PROVE  \/ <<io[o], io'[o]>> \in {<<"none", "kernel">>, <<"none", "freed">>,
                                              <<"kernel", "queued">>, <<"queued", "inHand">>,
                                              <<"inHand", "freed">>}
                      \/ <<io[o], io'[o]>> = <<"inHand", "lost">> /\ isClosed
    OBVIOUS
  <2>0. /\ io \in [Ops -> IoStates] /\ Writes \subseteq Ops /\ Read \in Ops /\ o \in Ops /\ o # Read
        /\ \A w \in Workers : Top(w) \in {"io", "freeOp"} => io[job[w]] = "inHand" /\ job[w] \in Ops
    <3>1. ASSUME NEW w \in Workers, NEW p \in {"io", "freeOp"}, Top(w) = p PROVE Has(stack[w], p)
      BY <3>1 DEF Top, Has, ConnInv, ShapeInv, Threads
    <3> QED
      BY <3>1, ConnectionAssumption DEF ConnectionAssumption, ConnInv, DataInv, Ops
  <2> USE DEF locks, flags, data, owner
  <2>1. CASE \E t \in Threads : CallStep(t)
    <3>1. PICK t \in Threads : CallStep(t)
      BY <2>1
    <3>2. CASE PostRead(t)
      BY <3>2, <2>0 DEF PostRead
    <3>3. CASE \E p \in Writes : PostWrite(t, p) \/ WriteFails(t, p)
      BY <3>3, <2>0 DEF PostWrite, WriteFails, New
    <3>4. CASE Shut(t)
      BY <3>4, <2>0 DEF Shut
    <3> QED
      BY <3>1, <3>2, <3>3, <3>4 DEF CallStep, SkipClosed, TestOpen, SocketGone, ReadFails,
         UnlockSock, CloseAgain, CloseFirst, Tell
  <2>2. CASE \E w \in Workers : WorkerStep(w)
    <3>1. PICK w \in Workers : WorkerStep(w)
      BY <2>2
    <3>2. CASE \E p \in Ops : Take(w, p)
      BY <3>2, <2>0 DEF Take
    <3>3. CASE IoClosed(w)
      BY <3>3, <2>0 DEF IoClosed, Goto
    <3>4. CASE FreeOp(w)
      BY <3>4, <2>0 DEF FreeOp, Goto
    <3>5. CASE IoEnd(w) \/ ParseDone(w) \/ ParseBad(w)
      BY <3>5, <2>0 DEF IoEnd, ParseDone, ParseBad
    <3> QED
      BY <3>1, <3>2, <3>3, <3>4, <3>5 DEF WorkerStep, SetMessageCallback, SetCloseCallback,
         Leave, IoWritten, IoNothing, IoData, LockFrame, HandleFrame, UnlockCb
  <2>3. CASE \E batch \in Batches : KernelReads(batch)
    BY <2>3, <2>0 DEF KernelReads
  <2>4. CASE KernelEnds
    BY <2>4, <2>0 DEF KernelEnds
  <2>5. CASE \E p \in Writes : KernelWrites(p)
    BY <2>5, <2>0 DEF KernelWrites
  <2> QED
    BY <2>1, <2>2, <2>3, <2>4, <2>5 DEF Next, SendText, CallClose, Stuck, vars
<1> QED
  BY <1>1, ConnInvariant, PTL DEF Spec, WriteLife
=============================================================================

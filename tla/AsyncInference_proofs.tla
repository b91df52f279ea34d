------------------------ MODULE AsyncInference_proofs ------------------------
(***************************************************************************)
(* Theorems about AsyncInference for every chunk size, threshold, bound of  *)
(* timesteps and number of faults.                                          *)
(***************************************************************************)
EXTENDS AsyncInference, SequenceTheorems, TLAPS

-----------------------------------------------------------------------------
(* Types.                                                                   *)

Observations == [ts : 0..MaxStep, must : BOOLEAN]

FlagOK ==
  /\ processed \in BOOLEAN /\ mustGo \in BOOLEAN
  /\ torn \in BOOLEAN /\ overlapped \in BOOLEAN /\ overtaken \in BOOLEAN

\* The places of the threads, and the values that are there in each place.
PlaceOK ==
  /\ pc \in {"check", "pop", "act", "ready", "look", "send", "accept", "room", "pull",
             "put", "clear", "stopped", "crashed"}
  /\ rx \in {"call", "take", "mark", "prepare", "infer", "scan", "build", "swap", "set", "dead"}
  /\ latest \in -1..MaxStep
  /\ IF pc = "act" THEN held \in 0..MaxStep ELSE held = None
  /\ IF pc \in {"send", "accept", "room", "pull", "put", "clear"}
     THEN obs \in Observations ELSE obs = None
  /\ slot \in Observations \cup {None}
  /\ IF rx \in {"call", "take"} THEN src = None ELSE src \in 0..MaxStep
  /\ predicted \subseteq 0..MaxStep
  /\ faults \in 0..MaxFaults

\* The last timestep was done or is being done: no other action will leave the queue.
AtEnd == latest = MaxStep \/ (pc = "act" /\ held = MaxStep)

Ascending(q) == \A i, j \in 1..Len(q) : i < j => q[i] < q[j]

\* Actions after the last timestep come after that timestep's own, or it was done.
EndsWell(q) == AtEnd \/ \A i \in 1..Len(q) : q[i] > MaxStep => i > 1 /\ q[i - 1] >= MaxStep

QueueOK ==
  /\ queue \in Seq(Timesteps) /\ Ascending(queue) /\ EndsWell(queue)
  /\ future \in Seq(Timesteps) /\ Ascending(future) /\ EndsWell(future)
  /\ rx \notin {"build", "swap"} => future = <<>> /\ next = None
  /\ rx = "build" => next \in src..src + ChunkSize
  /\ rx = "swap" => next = src + ChunkSize
  /\ rx \in {"build", "swap"} =>
       /\ \A i \in 1..Len(future) : src <= future[i] /\ future[i] < next
       /\ next > MaxStep => AtEnd \/ (future # <<>> /\ future[Len(future)] >= MaxStep)
  /\ latest = MaxStep => pc \notin {"pop", "act"}

\* Outside the overlap of an action with the building of a queue, every action that
\* is still to be done comes after those that were done.
OrderInv ==
  ~overlapped =>
    /\ \A i \in 1..Len(queue) : queue[i] > latest
    /\ pc = "act" => held > latest /\ \A i \in 1..Len(queue) : queue[i] > held
    /\ rx \in {"build", "swap"} => \A i \in 1..Len(future) : future[i] > latest
    /\ (rx \in {"build", "swap"} /\ next > src) => pc # "act"

\* An observation with must_go that was not put, or was taken out, is being answered.
Excused == faults > 0 \/ rx = "dead" \/ overtaken

MustGoInv ==
  /\ ~mustGo => AnswerUnderWay \/ Excused
  /\ (pc \in {"pull", "clear"} /\ obs.must) => AnswerUnderWay \/ Excused

-----------------------------------------------------------------------------
(* The types are inductive.                                                 *)

LEMMA FlagStep == FlagOK /\ PlaceOK /\ [Next]_vars => FlagOK'
<1> SUFFICES ASSUME FlagOK, PlaceOK, [Next]_vars PROVE FlagOK'
  OBVIOUS
<1>1. ASSUME pc = "clear" PROVE obs.must \in BOOLEAN
  <2>1. obs \in Observations
    BY <1>1 DEF PlaceOK
  <2> QED
    BY <2>1 DEF Observations
<1> USE DEF FlagOK
<1>2. CASE Clear
  BY Zenon, <1>1, <1>2 DEF Clear, receiver, server, history
<1>3. CASE Check \/ Pop \/ Act \/ Ready \/ Look \/ Send \/ Accept \/ Room \/ Pull \/ Put
  BY Zenon, <1>3 DEF Check, Pop, Act, Ready, Look, Send, Accept, Room, Pull, Put, receiver,
     server, history
<1>4. CASE LookFails \/ CallFails \/ InferFails
  BY Zenon, <1>4 DEF LookFails, CallFails, InferFails, server, control
<1>5. CASE ReceiverThread
  BY Zenon, <1>5 DEF ReceiverThread, Call, Take, Mark, Prepare, Infer, Scan, Build, Built, Swap,
     Set, control, server, history
<1>6. CASE UNCHANGED vars
  BY Zenon, <1>6 DEF vars, server, history
<1> QED
  BY Zenon, <1>2, <1>3, <1>4, <1>5, <1>6 DEF Next, ControlThread

LEMMA PlaceStep == PlaceOK /\ QueueOK /\ [Next]_vars => PlaceOK'
<1> SUFFICES ASSUME PlaceOK, QueueOK, [Next]_vars PROVE PlaceOK'
  OBVIOUS
<1>0. MaxStep \in Nat /\ MaxFaults \in Nat /\ None \notin Int /\ None \notin Observations
  BY AsyncAssumption DEF AsyncAssumption, Observations
<1> USE <1>0 DEF PlaceOK
<1>1. CASE Check
  BY <1>1 DEF Check, Goto, receiver, server, history
<1>2. CASE Pop
  <2>1. queue # <<>> => Head(queue) \in 0..MaxStep
    <3>1. ASSUME queue # <<>> PROVE Head(queue) \in 0..MaxStep
      <4>1. Head(queue) = queue[1] /\ Len(queue) >= 1 /\ queue[1] \in Timesteps
        BY <3>1, HeadTailProperties, EmptySeq DEF QueueOK
      <4>2. ~AtEnd
        BY <1>2 DEF Pop, QueueOK, AtEnd
      <4>3. ~(queue[1] > MaxStep)
        BY <4>1, <4>2 DEF QueueOK, EndsWell
      <4> QED
        BY <4>1, <4>3 DEF Timesteps
    <3> QED
      BY <3>1
  <2> QED
    BY <1>2, <2>1 DEF Pop, Goto, receiver, server
<1>3. CASE Act
  BY <1>3 DEF Act, Goto, receiver, server, history
<1>4. CASE Ready
  BY <1>4 DEF Ready, Goto, receiver, server, history
<1>5. CASE Look
  <2>1. obs' \in Observations
    <3>1. (mustGo /\ queue = <<>>) \in BOOLEAN
      BY Zenon
    <3>2. (IF latest < 0 THEN 0 ELSE latest) \in 0..MaxStep
      OBVIOUS
    <3> QED
      BY <1>5, <3>1, <3>2 DEF Look, Observations
  <2>2. pc' = "send" /\ pc = "look"
    BY <1>5 DEF Look, Goto
  <2> QED
    BY <1>5, <2>1, <2>2 DEF Look, receiver, server, history
<1>6. CASE Send \/ Accept \/ Room
  <2>1. CASE Send
    BY <2>1 DEF Send, Fault, Goto, receiver, server
  <2>2. CASE Accept
    BY <2>2 DEF Accept, Goto, receiver, server, history
  <2>3. CASE Room
    BY <2>3 DEF Room, Goto, receiver, server, history
  <2> QED
    BY <1>6, <2>1, <2>2, <2>3
<1>7. CASE Pull \/ Put
  BY <1>7 DEF Pull, Put, Goto, receiver, history
<1>8. CASE Clear
  BY <1>8 DEF Clear, Goto, receiver, server, history
<1>9. CASE LookFails
  BY <1>9 DEF LookFails, Fault, Goto, receiver, server
<1>10. CASE CallFails \/ InferFails
  <2>1. /\ faults' \in 0..MaxFaults /\ rx' = "call" /\ src' = None
        /\ UNCHANGED <<pc, held, latest, obs, slot, predicted>>
    BY <1>10 DEF CallFails, InferFails, Fault, EmptyAnswer, RxGoto, control, server
  <2> QED
    BY <2>1
<1>11. CASE Take
  <2>1. slot.ts \in 0..MaxStep
    BY <1>11 DEF Take, Observations
  <2> QED
    BY <1>11, <2>1 DEF Take, RxGoto, control, history
<1>12. CASE Call \/ Mark \/ Prepare \/ Infer
  BY <1>12 DEF Call, Mark, Prepare, Infer, RxGoto, control, server, history
<1>13. CASE Scan \/ Build \/ Built \/ Swap
  BY <1>13 DEF Scan, Build, Built, Swap, RxGoto, control, server, history
<1>14. CASE Set
  BY <1>14 DEF Set, RxGoto, control, server
<1>15. CASE UNCHANGED vars
  BY <1>15 DEF vars, control, receiver, server, history
<1> QED
  BY <1>1, <1>2, <1>3, <1>4, <1>5, <1>6, <1>7, <1>8, <1>9, <1>10, <1>11, <1>12, <1>13, <1>14,
     <1>15 DEF Next, ControlThread, ReceiverThread

-----------------------------------------------------------------------------
(* The queues.                                                              *)

LEMMA EmptyQueue ==
  <<>> \in Seq(Timesteps) /\ Ascending(<<>>) /\ EndsWell(<<>>) /\ EndsWell(<<>>)'
  BY EmptySeq DEF Ascending, EndsWell

\* What popping an action leaves.
LEMMA TailOfQueue ==
  ASSUME NEW q \in Seq(Timesteps), q # <<>>, Ascending(q)
  PROVE  /\ Tail(q) \in Seq(Timesteps) /\ Ascending(Tail(q)) /\ Head(q) = q[1]
         /\ Head(q) \in Timesteps
         /\ Len(Tail(q)) = Len(q) - 1 /\ Len(q) \in Nat
         /\ \A i \in 1..Len(Tail(q)) : /\ Tail(q)[i] = q[i + 1] /\ Tail(q)[i] > Head(q)
                                       /\ i + 1 \in 1..Len(q)
<1>1. /\ Head(q) = q[1] /\ Head(q) \in Timesteps /\ Tail(q) \in Seq(Timesteps)
      /\ Len(Tail(q)) = Len(q) - 1 /\ Len(q) \in Nat /\ Len(q) >= 1
      /\ \A i \in 1..Len(Tail(q)) : Tail(q)[i] = q[i + 1]
  BY HeadTailProperties, EmptySeq
<1>2. \A i \in 1..Len(Tail(q)) : i + 1 \in 1..Len(q) /\ 1 \in 1..Len(q) /\ 1 < i + 1
  BY <1>1
<1>3. \A i \in 1..Len(q) : q[i] \in Int
  <2>1. Timesteps \subseteq Int
    BY AsyncAssumption DEF AsyncAssumption, Timesteps
  <2>2. \A i \in 1..Len(q) : q[i] \in Timesteps
    BY ElementOfSeq
  <2> QED
    BY <2>1, <2>2
<1>4. \A i \in 1..Len(Tail(q)) : Tail(q)[i] > Head(q)
  BY <1>1, <1>2, <1>3 DEF Ascending
<1>5. Ascending(Tail(q))
  BY <1>1, <1>2 DEF Ascending
<1> QED
  BY <1>1, <1>2, <1>4, <1>5

\* What looking at the next action of a chunk makes of the new queue.
LEMMA AppendToQueue ==
  ASSUME NEW q \in Seq(Timesteps), Ascending(q), NEW ts \in Timesteps,
         \A i \in 1..Len(q) : q[i] < ts
  PROVE  /\ Append(q, ts) \in Seq(Timesteps) /\ Ascending(Append(q, ts))
         /\ Len(Append(q, ts)) = Len(q) + 1 /\ Len(q) \in Nat
         /\ Append(q, ts)[Len(q) + 1] = ts
         /\ \A i \in 1..Len(q) : Append(q, ts)[i] = q[i]
<1>1. /\ Append(q, ts) \in Seq(Timesteps) /\ Len(Append(q, ts)) = Len(q) + 1 /\ Len(q) \in Nat
      /\ Append(q, ts)[Len(q) + 1] = ts
      /\ \A i \in 1..Len(q) : Append(q, ts)[i] = q[i]
  BY AppendProperties
<1>2. Ascending(Append(q, ts))
  BY <1>1 DEF Ascending
<1> QED
  BY <1>1, <1>2

\* The end stays reached.
LEMMA EndStays ==
  ASSUME PlaceOK, QueueOK, [Next]_vars
  PROVE  AtEnd => AtEnd'
<1>1. CASE pc = "act"
  BY <1>1 DEF PlaceOK, AtEnd, QueueOK, Next, ControlThread, ReceiverThread, Check, Pop, Act, Ready,
     Look, Send, Accept, Room, Pull, Put, Clear, LookFails, CallFails, InferFails, Call, Take, Mark,
     Prepare, Infer, Scan, Build, Built, Swap, Set, control, vars
<1>2. CASE pc # "act"
  <2>1. AtEnd => latest = MaxStep
    BY <1>2 DEF AtEnd
  <2>2. latest' = latest
    BY <1>2 DEF Next, ControlThread, ReceiverThread, Check, Pop, Act, Ready,
     Look, Send, Accept, Room, Pull, Put, Clear, LookFails, CallFails, InferFails, Call, Take, Mark,
     Prepare, Infer, Scan, Build, Built, Swap, Set, control, vars
  <2> QED
    BY <2>1, <2>2 DEF AtEnd
<1> QED
  BY <1>1, <1>2

LEMMA QueueStep == PlaceOK /\ QueueOK /\ [Next]_vars => QueueOK'
<1> SUFFICES ASSUME PlaceOK, QueueOK, [Next]_vars PROVE QueueOK'
  OBVIOUS
<1>0. /\ MaxStep \in Nat /\ ChunkSize \in Nat /\ None \notin Int
      /\ Timesteps = 0..(MaxStep + ChunkSize)
  BY AsyncAssumption DEF AsyncAssumption, Timesteps
<1>1. AtEnd => AtEnd'
  BY EndStays
<1>2. EndsWell(queue) => \/ AtEnd'
                         \/ \A i \in 1..Len(queue) :
                              queue[i] > MaxStep => i > 1 /\ queue[i - 1] >= MaxStep
  BY <1>1 DEF EndsWell
<1>3. EndsWell(future) => \/ AtEnd'
                          \/ \A i \in 1..Len(future) :
                               future[i] > MaxStep => i > 1 /\ future[i - 1] >= MaxStep
  BY <1>1 DEF EndsWell
<1>4. ASSUME UNCHANGED <<queue, future, next>>, rx' = rx \/ rx' \notin {"build", "swap"},
             rx \in {"build", "swap"} => UNCHANGED <<rx, src>>,
             latest' = MaxStep => pc' \notin {"pop", "act"}
      PROVE  QueueOK'
  BY <1>1, <1>2, <1>3, <1>4 DEF QueueOK, EndsWell, Ascending
<1>5. CASE Pop
  <2>1. CASE queue = <<>>
    BY <1>4, <1>5, <2>1 DEF Pop, Goto, receiver
  <2>2. CASE queue # <<>>
    <3>1. /\ queue' = Tail(queue) /\ held' = Head(queue) /\ pc' = "act" /\ latest' = latest
          /\ UNCHANGED <<rx, src, next, future>> /\ pc = "pop"
      BY <1>5, <2>2 DEF Pop, Goto, receiver
    <3>2. /\ queue' \in Seq(Timesteps) /\ Ascending(queue') /\ Head(queue) = queue[1]
          /\ Len(queue') = Len(queue) - 1 /\ Len(queue) \in Nat /\ queue[1] \in Int
          /\ \A i \in 1..Len(queue') : queue'[i] = queue[i + 1] /\ i + 1 \in 1..Len(queue)
      BY <1>0, <2>2, <3>1, TailOfQueue DEF QueueOK
    <3>3. AtEnd' \/ \A i \in 1..Len(queue') : queue'[i] > MaxStep => i > 1 /\ queue'[i - 1] >= MaxStep
      <4> SUFFICES ASSUME ~AtEnd', NEW i \in 1..Len(queue'), queue'[i] > MaxStep
                   PROVE  i > 1 /\ queue'[i - 1] >= MaxStep
        OBVIOUS
      <4>1. /\ \A k \in 1..Len(queue) : queue[k] > MaxStep => k > 1 /\ queue[k - 1] >= MaxStep
        BY <1>2 DEF QueueOK
      <4>2. queue[i + 1] > MaxStep /\ i + 1 \in 1..Len(queue)
        BY <3>2
      <4>3. queue[i] >= MaxStep
        BY <4>1, <4>2
      <4>4. i # 1
        <5> SUFFICES ASSUME i = 1 PROVE FALSE
          OBVIOUS
        <5>1. queue[1] >= MaxStep /\ queue[1] # MaxStep
          BY <3>1, <3>2, <4>3 DEF AtEnd
        <5>2. queue[1] > MaxStep /\ 1 \in 1..Len(queue)
          BY <1>0, <3>2, <5>1
        <5> QED
          BY <4>1, <5>2
      <4>5. i - 1 \in 1..Len(queue') /\ queue'[i - 1] = queue[i]
        BY <3>2, <4>4
      <4> QED
        BY <4>3, <4>4, <4>5
    <3>4. EndsWell(queue)'
      BY <3>3 DEF EndsWell
    <3>5. latest' # MaxStep
      BY <3>1 DEF QueueOK
    <3> QED
      BY <1>1, <1>3, <3>1, <3>2, <3>4, <3>5 DEF QueueOK, EndsWell, Ascending
  <2> QED
    BY <2>1, <2>2
<1>6. CASE Check \/ Act \/ Ready \/ Look \/ Send \/ Accept \/ Room \/ Pull \/ Put \/ Clear \/ LookFails
  <2>1. UNCHANGED <<queue, future, next, rx, src>>
    BY <1>6 DEF Check, Act, Ready, Look, Send, Accept, Room, Pull, Put, Clear, LookFails, receiver
  <2>2. latest' = MaxStep => pc' \notin {"pop", "act"}
    BY <1>0, <1>6 DEF Check, Act, Ready, Look, Send, Accept, Room, Pull, Put, Clear, LookFails, Goto, QueueOK
  <2> QED
    BY <1>4, <2>1, <2>2
<1>7. CASE Call \/ CallFails \/ Take \/ Mark \/ Prepare \/ Infer \/ InferFails \/ Set
  <2>1. UNCHANGED <<queue, future, next, pc, latest>> /\ rx \notin {"build", "swap"}
        /\ rx' \notin {"build", "swap"}
    BY <1>7 DEF Call, CallFails, Take, Mark, Prepare, Infer, InferFails, EmptyAnswer, RxGoto, Set,
       control
  <2> QED
    BY <1>4, <2>1 DEF QueueOK
<1>8. CASE Scan
  <2>1. UNCHANGED <<queue, future, pc, latest, src, held>> /\ rx = "scan"
    BY <1>8 DEF Scan, control
  <2>2. CASE torn
    BY <1>4, <1>8, <2>1, <2>2 DEF Scan, RxGoto, QueueOK
  <2>3. CASE ~torn
    <3>1. rx' = "build" /\ next' = src /\ future = <<>> /\ src \in 0..MaxStep
      BY <1>8, <2>3 DEF Scan, RxGoto, QueueOK, PlaceOK
    <3>2. Len(future) = 0
      BY <3>1
    <3> QED
      BY <1>0, <1>2, <1>3, <2>1, <3>1, <3>2 DEF QueueOK, EndsWell, Ascending
  <2> QED
    BY <2>2, <2>3
<1>9. CASE Build
  <2>1. /\ rx = "build" /\ next \in src..src + ChunkSize - 1 /\ src \in 0..MaxStep
        /\ next' = next + 1 /\ UNCHANGED <<queue, pc, latest, held, rx, src>>
    BY <1>0, <1>9 DEF Build, control, QueueOK, PlaceOK
  <2>2. next \in Timesteps /\ \A i \in 1..Len(future) : future[i] \in Int /\ future[i] < next
    BY <1>0, <2>1 DEF QueueOK
  <2>3. /\ future' \in Seq(Timesteps) /\ Ascending(future')
        /\ \A i \in 1..Len(future') : src <= future'[i] /\ future'[i] < next'
        /\ EndsWell(future)'
        /\ next' > MaxStep => AtEnd' \/ (future' # <<>> /\ future'[Len(future')] >= MaxStep)
    <3>1. CASE Skipped(next)
      <4>1. future' = future /\ next <= latest
        BY <1>9, <3>1 DEF Build, Skipped
      <4>2. next' > MaxStep => AtEnd'
        BY <1>0, <2>1, <4>1 DEF PlaceOK, AtEnd
      <4> QED
        BY <1>3, <2>1, <2>2, <4>1, <4>2 DEF QueueOK, EndsWell
    <3>2. CASE ~Skipped(next)
      <4>1. future' = Append(future, next)
        BY <1>9, <3>2 DEF Build
      <4>2. /\ future' \in Seq(Timesteps) /\ Ascending(future')
            /\ Len(future') = Len(future) + 1 /\ Len(future) \in Nat
            /\ future'[Len(future')] = next
            /\ \A i \in 1..Len(future) : future'[i] = future[i]
        BY <2>2, <4>1, AppendToQueue DEF QueueOK
      <4>3. \A i \in 1..Len(future') : src <= future'[i] /\ future'[i] < next'
        BY <2>1, <2>2, <4>2 DEF QueueOK
      <4>4. future' # <<>>
        BY <4>2, EmptySeq
      <4>5. EndsWell(future)'
        <5> SUFFICES ASSUME ~AtEnd', NEW i \in 1..Len(future'), future'[i] > MaxStep
                     PROVE  i > 1 /\ future'[i - 1] >= MaxStep
          BY DEF EndsWell
        <5>1. CASE i \in 1..Len(future)
          <6>1. i > 1 /\ future[i - 1] >= MaxStep
            BY <1>3, <4>2, <5>1 DEF QueueOK
          <6>2. i - 1 \in 1..Len(future)
            BY <4>2, <5>1, <6>1
          <6> QED
            BY <4>2, <6>1, <6>2
        <5>2. CASE i = Len(future) + 1
          <6>1. next > MaxStep /\ ~AtEnd
            BY <1>1, <4>2, <5>2
          <6>2. future # <<>> /\ future[Len(future)] >= MaxStep
            BY <2>1, <6>1 DEF QueueOK
          <6>3. Len(future) \in 1..Len(future) /\ i - 1 = Len(future)
            BY <4>2, <5>2, <6>2, EmptySeq DEF QueueOK
          <6> QED
            BY <4>2, <6>2, <6>3
        <5> QED
          BY <4>2, <5>1, <5>2
      <4>6. next' > MaxStep => future'[Len(future')] >= MaxStep
        BY <1>0, <2>1, <4>2
      <4> QED
        BY <4>2, <4>3, <4>4, <4>5, <4>6
    <3> QED
      BY <3>1, <3>2
  <2>4. next' \in src'..src' + ChunkSize
    BY <1>0, <2>1
  <2>5. EndsWell(queue)'
    BY <1>2, <2>1 DEF QueueOK, EndsWell
  <2> QED
    BY <2>1, <2>3, <2>4, <2>5 DEF QueueOK, Ascending
<1>10. CASE Built
  <2>1. rx = "build" /\ rx' = "swap" /\ next = src + ChunkSize
        /\ UNCHANGED <<queue, pc, latest, held, src, next, future>>
    BY <1>10 DEF Built, RxGoto, control
  <2> QED
    BY <1>2, <1>3, <2>1 DEF QueueOK, EndsWell, Ascending, AtEnd
<1>11. CASE Swap
  <2>1. rx = "swap" /\ rx' = "set" /\ queue' = future /\ future' = <<>> /\ next' = None
        /\ UNCHANGED <<pc, latest, held, src>>
    BY <1>11 DEF Swap, RxGoto, control
  <2>2. EndsWell(queue)'
    BY <1>3, <2>1 DEF QueueOK, EndsWell
  <2>3. <<>> \in Seq(Timesteps) /\ Len(<<>>) = 0
    BY EmptySeq
  <2> QED
    BY <2>1, <2>2, <2>3 DEF QueueOK, EndsWell, Ascending
<1>12. CASE UNCHANGED vars
  BY <1>4, <1>12 DEF vars, control, receiver, QueueOK
<1> QED
  BY <1>5, <1>6, <1>7, <1>8, <1>9, <1>10, <1>11, <1>12 DEF Next, ControlThread, ReceiverThread

-----------------------------------------------------------------------------
(* The order of the actions, and must_go.                                    *)

LEMMA OrderStep ==
  ASSUME PlaceOK, QueueOK, OrderInv, [Next]_vars
  PROVE  OrderInv'
<1>0. /\ \A i \in 1..Len(queue) : queue[i] \in Int
      /\ \A i \in 1..Len(future) : future[i] \in Int
      /\ Len(queue) \in Nat /\ Len(future) \in Nat
  <2>1. Timesteps \subseteq Int
    BY AsyncAssumption DEF AsyncAssumption, Timesteps
  <2>2. /\ \A i \in 1..Len(queue) : queue[i] \in Timesteps
        /\ \A i \in 1..Len(future) : future[i] \in Timesteps
        /\ Len(queue) \in Nat /\ Len(future) \in Nat
    BY ElementOfSeq, LenProperties DEF QueueOK
  <2> QED
    BY <2>1, <2>2
<1>1. CASE Pop
  <2>1. CASE queue = <<>>
    BY <1>1, <2>1 DEF Pop, Goto, receiver, OrderInv
  <2>2. CASE queue # <<>>
    <3>1. /\ queue' = Tail(queue) /\ held' = Head(queue) /\ pc' = "act" /\ latest' = latest
          /\ UNCHANGED <<rx, src, next, future>>
          /\ overlapped' = (overlapped \/ rx \in {"build", "swap"})
      BY <1>1, <2>2 DEF Pop, Goto, receiver
    <3>2. /\ Head(queue) = queue[1] /\ 1 \in 1..Len(queue)
          /\ \A i \in 1..Len(queue') : /\ queue'[i] = queue[i + 1] /\ queue'[i] > held'
                                       /\ i + 1 \in 1..Len(queue)
      BY <2>2, <3>1, TailOfQueue, EmptySeq DEF QueueOK
    <3>3. CASE overlapped'
      BY <3>3 DEF OrderInv
    <3>4. CASE ~overlapped'
      <4>1. ~overlapped /\ rx \notin {"build", "swap"}
        BY Zenon, <3>1, <3>4
      <4> QED
        BY <3>1, <3>2, <4>1 DEF OrderInv
    <3> QED
      BY <3>3, <3>4
  <2> QED
    BY <2>1, <2>2
<1>2. CASE Act
  <2>1. /\ pc = "act" /\ latest' = held /\ pc' = "ready"
        /\ UNCHANGED <<queue, rx, src, next, future, overlapped>>
    BY <1>2 DEF Act, Goto, receiver, history
  <2>2. CASE overlapped
    BY <2>1, <2>2 DEF OrderInv
  <2>3. CASE ~overlapped
    <3>1. rx \in {"build", "swap"} => ~(next > src)
      BY <2>1, <2>3 DEF OrderInv
    <3>2. rx \in {"build", "swap"} => Len(future) = 0
      <4> SUFFICES ASSUME rx \in {"build", "swap"}, Len(future) # 0 PROVE FALSE
        OBVIOUS
      <4>1. 1 \in 1..Len(future)
        BY <1>0
      <4>2. src <= future[1] /\ future[1] < next
        BY <4>1 DEF QueueOK
      <4>3. src \in Int /\ next \in Int
        BY AsyncAssumption DEF AsyncAssumption, PlaceOK, QueueOK
      <4> QED
        BY <1>0, <3>1, <4>1, <4>2, <4>3
    <3> QED
      BY <2>1, <2>3, <3>1, <3>2 DEF OrderInv
  <2> QED
    BY <2>2, <2>3
<1>3. CASE Check \/ Ready \/ Look \/ Send \/ Accept \/ Room \/ Pull \/ Put \/ Clear \/ LookFails
  <2>1. /\ UNCHANGED <<queue, rx, src, next, future, overlapped, latest>> /\ pc' # "act"
    BY <1>3 DEF Check, Ready, Look, Send, Accept, Room, Pull, Put, Clear, LookFails, receiver,
       history, Goto
  <2> QED
    BY <2>1 DEF OrderInv
<1>4. CASE Call \/ CallFails \/ Take \/ Mark \/ Prepare \/ Infer \/ InferFails \/ Set
  <2>1. UNCHANGED <<queue, pc, latest, held, overlapped>> /\ rx' \notin {"build", "swap"}
    BY <1>4 DEF Call, CallFails, Take, Mark, Prepare, Infer, InferFails, EmptyAnswer, RxGoto, Set,
       control, history
  <2> QED
    BY <2>1 DEF OrderInv
<1>5. CASE Scan
  <2>1. /\ UNCHANGED <<queue, pc, latest, held, overlapped, future, src>> /\ future = <<>>
        /\ rx' = "build" => next' = src
        /\ rx' \in {"dead", "build"}
    BY <1>5 DEF Scan, RxGoto, control, history, QueueOK
  <2>2. Len(future) = 0 /\ (rx' = "build" => ~(next' > src'))
    BY <1>5, <2>1 DEF Scan, PlaceOK
  <2> QED
    BY <2>1, <2>2 DEF OrderInv
<1>6. CASE Build
  <2>1. /\ UNCHANGED <<queue, pc, latest, held, rx, src>> /\ rx = "build"
        /\ overlapped' = (overlapped \/ pc = "act")
    BY <1>6 DEF Build, control
  <2>2. CASE overlapped'
    BY <2>2 DEF OrderInv
  <2>3. CASE ~overlapped'
    <3>1. ~overlapped /\ pc # "act"
      BY Zenon, <2>1, <2>3
    <3>2. \A i \in 1..Len(future') : future'[i] > latest
      <4>1. CASE Skipped(next)
        BY <1>6, <2>1, <3>1, <4>1 DEF Build, OrderInv
      <4>2. CASE ~Skipped(next)
        <5>1. future' = Append(future, next) /\ next > latest
          <6>1. next \in Int /\ latest \in Int
            BY <2>1, AsyncAssumption DEF AsyncAssumption, QueueOK, PlaceOK
          <6> QED
            BY <1>6, <4>2, <6>1 DEF Build, Skipped
        <5>2. /\ Len(future') = Len(future) + 1
              /\ future'[Len(future) + 1] = next
              /\ \A i \in 1..Len(future) : future'[i] = future[i]
          BY <5>1, AppendProperties DEF QueueOK
        <5>3. \A i \in 1..Len(future) : future[i] > latest
          BY <2>1, <3>1 DEF OrderInv
        <5> QED
          BY <1>0, <5>1, <5>2, <5>3
      <4> QED
        BY <4>1, <4>2
    <3> QED
      BY <2>1, <3>1, <3>2 DEF OrderInv
  <2> QED
    BY <2>2, <2>3
<1>7. CASE Built
  BY <1>7 DEF Built, RxGoto, control, history, OrderInv
<1>8. CASE Swap
  <2>1. /\ rx = "swap" /\ rx' = "set" /\ queue' = future
        /\ UNCHANGED <<pc, latest, held, overlapped>>
    BY <1>8 DEF Swap, RxGoto, control, history
  <2>2. next > src
    BY <2>1, AsyncAssumption DEF AsyncAssumption, QueueOK, PlaceOK
  <2> QED
    BY <2>1, <2>2 DEF OrderInv
<1>9. CASE UNCHANGED vars
  BY <1>9 DEF vars, control, receiver, history, OrderInv
<1> QED
  BY <1>1, <1>2, <1>3, <1>4, <1>5, <1>6, <1>7, <1>8, <1>9 DEF Next, ControlThread, ReceiverThread

LEMMA MustGoStep ==
  ASSUME PlaceOK, MustGoInv, [Next]_vars
  PROVE  MustGoInv'
<1>0. None \notin Observations /\ faults \in Int
  BY AsyncAssumption DEF AsyncAssumption, Observations, PlaceOK
<1>1. Excused => Excused'
  <2> USE DEF Next, ControlThread, ReceiverThread, Check, Pop, Act, Ready, Look, Send, Accept, Room,
       Pull, Put, Clear, LookFails, CallFails, InferFails, Call, Take, Mark, Prepare, Infer, Scan,
       Build, Built, Swap, Set, Fault, RxGoto, EmptyAnswer, control, receiver, history, vars
  <2>1. rx = "dead" => rx' = "dead"
    OBVIOUS
  <2>2. overtaken => overtaken'
    BY Zenon
  <2>3. faults > 0 => faults' > 0
    BY <1>0
  <2> QED
    BY <2>1, <2>2, <2>3 DEF Excused
<1>2. CASE Check \/ Pop \/ Act \/ Ready \/ Look \/ LookFails
  <2>1. /\ UNCHANGED <<slot, rx, mustGo>> /\ pc # "put" /\ pc' \notin {"put", "pull", "clear"}
    BY <1>2 DEF Check, Pop, Act, Ready, Look, LookFails, receiver, server, Goto
  <2> QED
    BY <1>1, <2>1 DEF MustGoInv, AnswerUnderWay
<1>3. CASE Send
  <2>1. CASE faults' = faults + 1
    <3>1. Excused'
      BY <1>0, <2>1 DEF Excused, PlaceOK
    <3> QED
      BY <3>1 DEF MustGoInv
  <2>2. CASE pc' = "accept"
    BY <1>1, <1>3, <2>2 DEF Send, Goto, MustGoInv, AnswerUnderWay, receiver, server
  <2> QED
    BY <1>3, <2>1, <2>2 DEF Send, Goto, Fault
<1>4. CASE Accept
  BY <1>1, <1>4 DEF Accept, Goto, MustGoInv, AnswerUnderWay, receiver, server
<1>5. CASE Room
  BY <1>1, <1>5 DEF Room, Goto, MustGoInv, AnswerUnderWay, receiver, server
<1>6. CASE Pull
  <2>1. CASE slot # None
    BY <1>6, <2>1 DEF Pull, Goto, MustGoInv, AnswerUnderWay
  <2>2. CASE slot = None
    BY <1>1, <1>6, <2>2 DEF Pull, Goto, MustGoInv, AnswerUnderWay, receiver
  <2> QED
    BY <2>1, <2>2
<1>7. CASE Put
  <2>1. slot' # None
    BY <1>0, <1>7 DEF Put, PlaceOK
  <2> QED
    BY <2>1 DEF MustGoInv, AnswerUnderWay
<1>8. CASE Clear
  <2>1. /\ UNCHANGED <<slot, rx>> /\ pc = "clear" /\ pc' = "check"
        /\ ~mustGo' => ~mustGo \/ obs.must
    BY Zenon, <1>8 DEF Clear, Goto, receiver, server
  <2> QED
    BY <1>1, <2>1 DEF MustGoInv, AnswerUnderWay
<1>9. CASE Call
  BY <1>1, <1>9 DEF Call, RxGoto, MustGoInv, AnswerUnderWay, control, server
<1>10. CASE CallFails \/ InferFails
  <2>1. faults' = faults + 1
    BY <1>10 DEF CallFails, InferFails, Fault
  <2>2. Excused'
    BY <2>1 DEF Excused, PlaceOK
  <2> QED
    BY <2>2 DEF MustGoInv
<1>11. CASE Take \/ Mark \/ Prepare \/ Infer \/ Build \/ Built \/ Swap
  <2>1. rx' \in {"mark", "prepare", "infer", "scan", "build", "swap", "set"}
    BY <1>11 DEF Take, Mark, Prepare, Infer, Build, Built, Swap, RxGoto
  <2> QED
    BY <2>1 DEF MustGoInv, AnswerUnderWay
<1>12. CASE Scan
  <2>1. rx' \in {"build", "dead"}
    BY <1>12 DEF Scan, RxGoto
  <2> QED
    BY <2>1 DEF MustGoInv, AnswerUnderWay, Excused
<1>13. CASE Set
  <2>1. mustGo' = TRUE /\ UNCHANGED <<pc, obs>>
        /\ overtaken' = (overtaken \/ (pc \in {"pull", "clear"} /\ obs.must))
    BY <1>13 DEF Set, control
  <2> QED
    BY <2>1 DEF MustGoInv, Excused
<1>14. CASE UNCHANGED vars
  BY <1>14 DEF vars, control, receiver, server, history, MustGoInv, AnswerUnderWay, Excused
<1> QED
  BY <1>2, <1>3, <1>4, <1>5, <1>6, <1>7, <1>8, <1>9, <1>10, <1>11, <1>12, <1>13, <1>14
     DEF Next, ControlThread, ReceiverThread

-----------------------------------------------------------------------------
(* The theorems.                                                            *)

LEMMA AllHold == Spec => [](FlagOK /\ PlaceOK /\ QueueOK /\ OrderInv /\ MustGoInv)
<1>1. Init => FlagOK
  BY Zenon DEF Init, FlagOK
<1>2. Init => PlaceOK
  BY AsyncAssumption DEF AsyncAssumption, Init, PlaceOK
<1>3. Init => QueueOK /\ OrderInv
  <2>1. <<>> \in Seq(Timesteps) /\ Len(<<>>) = 0
    BY EmptySeq
  <2> QED
    BY <2>1, AsyncAssumption
       DEF AsyncAssumption, Init, QueueOK, OrderInv, Ascending, EndsWell
<1>4. Init => MustGoInv
  BY DEF Init, MustGoInv
<1> QED
  BY <1>1, <1>2, <1>3, <1>4, FlagStep, PlaceStep, QueueStep, OrderStep, MustGoStep, PTL DEF Spec

\* Every variable keeps its type: no timestep is done or observed after the last, and no
\* action lies further ahead than one chunk.
THEOREM AsyncTypeCorrect == Spec => []TypeOK
<1>1. FlagOK /\ PlaceOK /\ QueueOK => TypeOK
  <2> SUFFICES ASSUME FlagOK, PlaceOK, QueueOK PROVE TypeOK
    OBVIOUS
  <2>1. /\ 0..MaxStep \subseteq Timesteps /\ MaxStep \in Nat /\ ChunkSize \in Nat
        /\ Observations \subseteq [ts : Timesteps, must : BOOLEAN]
    BY AsyncAssumption DEF AsyncAssumption, Timesteps, Observations
  <2>2. next \in (0..(MaxStep + 2 * ChunkSize)) \cup {None}
    BY <2>1 DEF PlaceOK, QueueOK
  <2>3. /\ held \in Timesteps \cup {None} /\ latest \in Timesteps \cup {-1}
        /\ obs \in [ts : Timesteps, must : BOOLEAN] \cup {None}
        /\ slot \in [ts : Timesteps, must : BOOLEAN] \cup {None}
        /\ src \in Timesteps \cup {None} /\ predicted \subseteq Timesteps
    BY <2>1 DEF PlaceOK
  <2> QED
    BY <2>2, <2>3 DEF FlagOK, PlaceOK, QueueOK, TypeOK
<1> QED
  BY <1>1, AllHold, PTL

\* The put of an observation finds room, although another thread takes from the queue
\* between the test and the put.
THEOREM PutNeverBlocksHolds == Spec => []PutNeverBlocks
<1>1. Init => PutNeverBlocks
  BY DEF Init, PutNeverBlocks
<1>2. PutNeverBlocks /\ [Next]_vars => PutNeverBlocks'
  BY DEF PutNeverBlocks, Next, ControlThread, ReceiverThread, Check, Pop, Act, Ready,
     Look, Send, Accept, Room, Pull, Put, Clear, LookFails, CallFails, InferFails, Call, Take, Mark,
     Prepare, Infer, Scan, Build, Built, Swap, Set, Goto, control, receiver, server, vars
<1> QED
  BY <1>1, <1>2, PTL DEF Spec

\* While must_go is clear an answer is under way that sets it, or one of the excuses holds.
THEOREM MustGoHolds == Spec => []MustGoComesBack
<1>1. MustGoInv => MustGoComesBack
  BY DEF MustGoInv, MustGoComesBack, Excused
<1> QED
  BY <1>1, AllHold, PTL

\* No action is repeated and no older one is done unless an action overlapped the building of
\* the queue.
THEOREM NoStepBackHolds == Spec => []NoStepBack
<1>1. OrderInv => NoStepBack
  BY DEF OrderInv, NoStepBack
<1> QED
  BY <1>1, AllHold, PTL
=============================================================================

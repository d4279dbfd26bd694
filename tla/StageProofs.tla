----------------------------- MODULE StageProofs -----------------------------
(***************************************************************************)
(* For any number of stages, threads, events and any capacity: a handler   *)
(* only runs in a complete stage, only quiet stages are deleted, and what  *)
(* a thread leaves behind came late.                                       *)
(*                                                                         *)
(* The argument follows _create_status.  A thread runs only if its status  *)
(* is ok; stages get it in the order of their creation, each only once all *)
(* its threads have been started; so whoever may send to a stage of which  *)
(* a thread has been told to give up has never run, and every thread that  *)
(* has run belongs to a stage that stop_all stops.                         *)
(*                                                                         *)
(* The queues of the stages are used as EventChannel allows, which the     *)
(* part after that shows step by step.  The last part is about the timer   *)
(* stage beside the pipeline in MCStage, for any delays and any bounds.    *)
(***************************************************************************)
EXTENDS MCStage, Integers, SequenceTheorems, TLAPS

Creating == {"create", "start", "unwind", "unjoin", "ok", "register"}
Deleting == {"drain", "drop", "delete"}
Stopping == {"signal", "join"} \cup Deleting

(* The thread has an event of its queue in hand.                           *)
Handling(t) ==
  \/ pc[t] \in {"lookup", "on_event", "destroy"}
  \/ pc[t] \in {"waiting", "push"} /\ emit[t] = 0

(* Past on_start, and not in the middle of sending.                        *)
Looping == {"pop", "check", "lookup", "on_event", "destroy", "on_finish"}

(* A thread that looks at _stop, or has, found nothing that was in time.   *)
NothingInTime(t) == queue[t] # <<>> => ~Head(queue[t]).committed \/ Head(queue[t]).late

(* Where the main thread may be.                                           *)
MainInv ==
  /\ Len(registered) <= Len(NumThreads)
  /\ mpc \in Creating => /\ cur \in Stages /\ Len(registered) = cur - 1
                         /\ gone = {}
                         /\ \A s \in Stages : s >= cur => stopped[s]
  /\ mpc \in {"start", "ok", "unjoin"} => idx \in 1 .. NumThreads[cur]
  /\ mpc = "unwind" => idx \in 1 .. NumThreads[cur] + 1
  /\ mpc \in Stopping => /\ cur \in 1 .. Len(registered)
                         /\ idx \in 1 .. NumThreads[registered[cur]]
  /\ mpc \in Deleting => cur = 1
  /\ mpc = "delete" => idx = 1

(* What ~thread_obj is about to destroy is there, and committed.           *)
DropInv == mpc = "drop" => queue[Visited] # <<>> /\ Head(queue[Visited]).committed

(* Where a stage thread may be.                                            *)
ThreadInv ==
  \A t \in Threads :
    /\ Running(t) => status[t] = "ok"
    /\ pc[t] \in Looping => emit[t] = 0
    /\ pc[t] \in {"waiting", "push"} => Dest[t[1]] # 0 /\ at[t] \in Of(Dest[t[1]])

(* Only threads that have been let go are sent events.                     *)
QueuePart(t) ==
  /\ status[t] # "ok" => queue[t] = <<>>
  /\ Handling(t) => queue[t] # <<>> /\ Head(queue[t]).committed
  /\ pc[t] \in {"check", "on_finish", "exited"} /\ mpc \notin Deleting \cup {"done"}
     => NothingInTime(t)

QueueInv == \A t \in Threads : QueuePart(t)

(* The threads of the stage under creation.                                *)
Fresh(t) == status[t] = "creating" /\ pc[t] = "none" /\ ~handle[t]
Born(t) == status[t] = "creating" /\ pc[t] \notin {"none", "exited"} /\ handle[t]
GivenUp(t) == status[t] = "failed" /\ pc[t] = "exited" /\ ~handle[t]

CurrentPart(t) ==
  /\ mpc = "create" => Fresh(t)
  /\ mpc = "start" => IF t[2] < idx THEN Born(t) ELSE Fresh(t)
  /\ mpc = "ok" => /\ pc[t] # "none"
                   /\ IF t[2] < idx THEN status[t] = "ok" ELSE status[t] = "creating"
  /\ mpc = "register" => pc[t] # "none" /\ status[t] = "ok"
  /\ mpc \in {"unwind", "unjoin"} =>
       /\ t[2] < idx => GivenUp(t)
       /\ t[2] > idx => Fresh(t) \/ Born(t)
       /\ t[2] = idx => \/ mpc = "unwind" /\ (Fresh(t) \/ Born(t))
                        \/ mpc = "unjoin" /\ status[t] = "failed" /\ handle[t]
       /\ handle[t] => \A i \in idx .. t[2] : handle[<<cur, i>>]

CurrentInv == \A t \in Of(cur) : CurrentPart(t)

(* Stages are created one after the other.                                 *)
CreationInv ==
  /\ \A t, u \in Threads : status[t] = "ok" /\ u[1] < t[1] => status[u] = "ok"
  /\ \A t, u \in Threads : status[t] = "ok" /\ u[1] = t[1] => pc[u] # "none"
  /\ mpc \in Creating =>
       /\ \A t \in Threads : t[1] < cur => status[t] = "ok"
       /\ \A t \in Threads : t[1] > cur => Fresh(t)
       /\ CurrentInv

(* A stage whose threads have been let go is registered.                   *)
RegisteredInv ==
  /\ mpc \in Creating =>
       \A s \in Stages : s < cur => \E i \in 1 .. Len(registered) : registered[i] = s
  /\ mpc \in {"up", "signal", "join"} =>
       \A t \in Threads : status[t] = "ok" =>
         \E i \in 1 .. Len(registered) : registered[i] = t[1]

(* Stages whose threads have been joined.                                  *)
Left(t) == ~handle[t] /\ pc[t] = "exited"
Joined(s) == stopped[s] /\ \A t \in Of(s) : Left(t)

StopInv ==
  /\ mpc = "join" =>
       /\ \A i \in 1 .. cur - 1 : Joined(registered[i])
       /\ \A t \in Of(registered[cur]) : t[2] < idx => Left(t)
       /\ idx > 1 => stopped[registered[cur]]
  /\ mpc \in Deleting => \A i \in 1 .. Len(registered) : Joined(registered[i])
  /\ mpc \in Deleting \cup {"done"} =>
       \A t \in Threads : status[t] = "ok" => pc[t] = "exited"

(* Stages that have been deleted.                                          *)
GoneInv ==
  \A s \in gone :
    /\ stopped[s]
    /\ \A t \in Of(s) : ~handle[t] /\ pc[t] \in {"none", "exited"}
    /\ mpc \notin Deleting \cup {"done"} => \A t \in Threads : status[t] = "ok" => t[1] < s

IInv == /\ TypeOK /\ MainInv /\ DropInv /\ ThreadInv /\ QueueInv /\ CreationInv
        /\ RegisteredInv /\ StopInv /\ GoneInv

-----------------------------------------------------------------------------
(* The constants *)

(* What the provers need to know of stages and threads.                    *)
LEMMA Shape ==
  /\ Stages = 1 .. Len(NumThreads) /\ Len(NumThreads) \in Nat /\ Len(NumThreads) > 0
  /\ \A s \in Stages : /\ NumThreads[s] \in Nat /\ NumThreads[s] > 0
                       /\ Dest[s] \in Nat /\ Dest[s] < s /\ Emits[s] \in Nat
  /\ QueueCap \in Nat
<1>1. NumThreads \in Seq(Nat \ {0}) /\ NumThreads # <<>>  BY ShapeAssumption
<1>2. Stages = 1 .. Len(NumThreads) /\ Len(NumThreads) \in Nat /\ Len(NumThreads) > 0
  BY <1>1 DEF Stages
<1>3. \A s \in Stages : NumThreads[s] \in Nat \ {0}  BY <1>1, <1>2
<1> QED  BY <1>2, <1>3, ShapeAssumption

LEMMA ThreadShape ==
  /\ \A t \in Threads : /\ t = <<t[1], t[2]>> /\ t[1] \in Stages
                        /\ t[2] \in 1 .. NumThreads[t[1]]
  /\ \A s \in Stages : \A i \in 1 .. NumThreads[s] : <<s, i>> \in Threads
BY DEF Threads

LEMMA OfStage ==
  /\ \A s \in Stages : \A t \in Of(s) : t \in Threads /\ t[1] = s /\ t[2] \in Nat /\ t = <<s, t[2]>>
                                        /\ 1 <= t[2] /\ t[2] <= NumThreads[s]
  /\ \A s, t : t \in Of(s) <=> t \in Threads /\ t[1] = s
BY ThreadShape, Shape DEF Of

-----------------------------------------------------------------------------
(* The initial states *)

LEMMA InitInv == Init => IInv
<1> SUFFICES ASSUME Init PROVE IInv  OBVIOUS
<1>1. TypeOK
  <2>1. \A t \in Threads : Emits[t[1]] \in Nat  BY Shape, ThreadShape
  <2>2. Len(NumThreads) + 1 \in Nat /\ 1 \in 1 .. Len(NumThreads) + 1  BY Shape
  <2>3. <<>> \in Seq(Stages) /\ <<>> \in Seq(Event)  OBVIOUS
  <2>4. emit \in [Threads -> Nat]  BY <2>1 DEF Init
  <2>5. queue \in [Threads -> Seq(Event)]  BY <2>3 DEF Init
  <2>6. /\ stopped \in [Stages -> BOOLEAN] /\ status \in [Threads -> Statuses]
        /\ handle \in [Threads -> BOOLEAN] /\ stop \in [Threads -> BOOLEAN]
        /\ pc \in [Threads -> PCs] /\ at \in [Threads -> Threads \cup {NoThread}]
    BY DEF Init, Statuses, PCs
  <2>7. /\ mpc \in MainPCs /\ cur \in 1 .. Len(NumThreads) + 1 /\ idx \in Nat
        /\ mgrLock \in BOOLEAN /\ registered \in Seq(Stages) /\ gone \subseteq Stages
    BY <2>2, <2>3 DEF Init, MainPCs
  <2> QED  BY <2>4, <2>5, <2>6, <2>7 DEF TypeOK
<1>2. MainInv  BY Shape DEF Init, MainInv, Creating, Stopping, Deleting
<1>9. DropInv  BY DEF Init, DropInv
<1>3. ThreadInv  BY DEF Init, ThreadInv, Running, Looping
<1>4. QueueInv  BY DEF Init, QueueInv, QueuePart, Handling
<1>5. CreationInv
  <2>1. \A t \in Threads : Fresh(t)  BY DEF Init, Fresh
  <2>2. \A t \in Threads : t[1] \in Nat /\ t[1] >= 1  BY Shape, ThreadShape
  <2>3. \A t \in Threads : t[1] >= cur  BY <2>2 DEF Init
  <2> QED  BY <2>1, <2>2, <2>3, OfStage DEF Init, CreationInv, CurrentInv, CurrentPart, Fresh
<1>6. RegisteredInv  BY Shape DEF Init, RegisteredInv
<1>7. StopInv  BY DEF Init, StopInv, Deleting
<1>8. GoneInv  BY DEF Init, GoneInv
<1> QED  BY <1>1, <1>2, <1>3, <1>4, <1>5, <1>6, <1>7, <1>8, <1>9 DEF IInv

-----------------------------------------------------------------------------
(* The steps of the stage threads *)

(* What the rest of the system sees of a step of a stage thread.           *)
ThreadFrame ==
  /\ UNCHANGED <<main, mgr, ctl>>
  /\ \A u \in Threads :
       /\ pc[u] \in {"none", "exited"} => pc'[u] = pc[u]
       /\ pc'[u] = "none" => pc[u] = "none"
       /\ status[u] = "creating" => pc'[u] = pc[u]
       /\ pc'[u] \notin {"none", "born", "exited"} => status[u] = "ok"

LEMMA StepFrame ==
  ASSUME IInv, NEW t \in Threads, StageThread(t)
  PROVE  ThreadFrame /\ pc' \in [Threads -> PCs]
<1> USE DEF Go
<1>1. /\ pc \in [Threads -> PCs] /\ status \in [Threads -> Statuses]
      /\ \A u \in Threads : pc[u] \notin {"none", "born", "exited"} => status[u] = "ok"
  BY DEF IInv, TypeOK, ThreadInv, Running
<1>2. UNCHANGED <<main, mgr, ctl>>
  BY DEF StageThread, Released, Started, PopEvent, CheckStop, GetStageByName, Dispatch,
         AllocateEvent, PushEvent, Consume, DestroyEvent, Finish
<1>3. \E to \in PCs :
        /\ pc' = [pc EXCEPT ![t] = to]
        /\ pc[t] \notin {"none", "exited"} /\ to # "none" /\ status[t] # "creating"
        /\ to \notin {"born", "exited"} => status[t] = "ok"
  <2>1. CASE Released(t)  BY <2>1, <1>1 DEF Released, Statuses, PCs
  <2>2. CASE Started(t)  BY <2>2, <1>1 DEF Started, PCs
  <2>3. CASE PopEvent(t)  BY <2>3, <1>1 DEF PopEvent, PCs
  <2>4. CASE CheckStop(t)  BY <2>4, <1>1 DEF CheckStop, PCs
  <2>5. CASE GetStageByName(t)  BY <2>5, <1>1 DEF GetStageByName, PCs
  <2>6. CASE Dispatch(t)  BY <2>6, <1>1 DEF Dispatch, PCs
  <2>7. CASE AllocateEvent(t)  BY <2>7, <1>1 DEF AllocateEvent, PCs
  <2>8. CASE PushEvent(t)  BY <2>8, <1>1 DEF PushEvent, PCs
  <2>9. CASE Consume(t)  BY <2>9, <1>1 DEF Consume, PCs
  <2>10. CASE DestroyEvent(t)  BY <2>10, <1>1 DEF DestroyEvent, PCs
  <2>11. CASE Finish(t)  BY <2>11, <1>1 DEF Finish, PCs
  <2> QED  BY <2>1, <2>2, <2>3, <2>4, <2>5, <2>6, <2>7, <2>8, <2>9, <2>10, <2>11 DEF StageThread
<1> QED  BY <1>1, <1>2, <1>3 DEF ThreadFrame

(* All that does not concern queues survives such a step.                  *)
LEMMA FrameInv ==
  ASSUME IInv, ThreadFrame
  PROVE  MainInv' /\ CreationInv' /\ RegisteredInv' /\ StopInv' /\ GoneInv'
<1> USE DEF ThreadFrame, main, mgr, ctl
<1>1. MainInv'  BY DEF IInv, MainInv
<1>2. CreationInv'
  <2>1. \A u \in Threads : Fresh(u) => Fresh(u)'  BY DEF Fresh
  <2>3. mpc \in Creating => CurrentInv'
    <3> SUFFICES ASSUME mpc \in Creating PROVE CurrentInv'  OBVIOUS
    <3>1. CurrentInv  BY DEF IInv, CreationInv
    <3>2. Of(cur)' = Of(cur)  BY DEF Of
    <3> SUFFICES ASSUME NEW u \in Of(cur)
                 PROVE  CurrentPart(u)'
      BY <3>2 DEF CurrentInv
    <3>3. u \in Threads  BY OfStage
    <3>4. CurrentPart(u)  BY <3>1 DEF CurrentInv
    <3>6. /\ pc[u] # "none" => pc'[u] # "none"
          /\ pc[u] \in {"none", "exited"} => pc'[u] = pc[u]
          /\ status[u] = "creating" => pc'[u] = pc[u]
      BY <3>3
    <3>7. UNCHANGED <<mpc, cur, idx, status, handle>>  OBVIOUS
    <3> HIDE DEF ThreadFrame
    <3> QED  BY <3>4, <3>6, <3>7 DEF CurrentPart, Fresh, Born, GivenUp
  <2> QED  BY <2>1, <2>3 DEF IInv, CreationInv
<1>3. RegisteredInv'  BY DEF IInv, RegisteredInv
<1>4. StopInv'
  <2>1. \A u \in Threads : Left(u) => Left(u)'  BY DEF Left
  <2>2. \A s : Joined(s) => Joined(s)'  BY <2>1 DEF Joined, Of
  <2> QED  BY <2>1, <2>2 DEF IInv, StopInv, Of
<1>5. GoneInv'  BY OfStage DEF IInv, GoneInv, Of
<1> QED  BY <1>1, <1>2, <1>3, <1>4, <1>5

(* Whom a thread sends to.                                                 *)
LEMMA Receiver ==
  ASSUME IInv, NEW t \in Threads, pc[t] \in {"waiting", "push"}
  PROVE  /\ at[t] \in Threads /\ at[t] # t
         /\ status[t] = "ok" /\ status[at[t]] = "ok"
<1>1. status[t] = "ok"  BY DEF IInv, ThreadInv, Running
<1>2. Dest[t[1]] # 0 /\ at[t] \in Of(Dest[t[1]])  BY DEF IInv, ThreadInv
<1>3. at[t] \in Threads /\ at[t][1] < t[1]  BY <1>2, OfStage, ThreadShape, Shape
<1>4. status[at[t]] = "ok"  BY <1>1, <1>3 DEF IInv, CreationInv
<1>5. t[1] \in Nat  BY ThreadShape, Shape
<1> QED  BY <1>1, <1>3, <1>4, <1>5

LEMMA SendType ==
  ASSUME IInv, NEW t \in Threads, StageThread(t)
  PROVE  emit' \in [Threads -> Nat] /\ at' \in [Threads -> Threads \cup {NoThread}]
<1>1. emit \in [Threads -> Nat] /\ at \in [Threads -> Threads \cup {NoThread}]
  BY DEF IInv, TypeOK
<1>2. CASE Dispatch(t)
  <2>1. \A s : \A q \in Of(s) : q \in Threads  BY OfStage
  <2> QED  BY <1>1, <1>2, <2>1 DEF Dispatch
<1>3. CASE PushEvent(t)
  <2>1. emit[t] \in Nat  BY <1>1
  <2>2. emit' \in [Threads -> Nat]
    <3>1. CASE emit[t] > 0
      <4>1. emit' = [emit EXCEPT ![t] = @ - 1]  BY <1>3, <3>1 DEF PushEvent
      <4>2. emit[t] - 1 \in Nat  BY <2>1, <3>1
      <4> QED  BY <1>1, <4>1, <4>2
    <3>2. CASE ~(emit[t] > 0)
      <4>1. emit' = emit  BY <1>3, <3>2 DEF PushEvent
      <4> QED  BY <1>1, <4>1
    <3> QED  BY <3>1, <3>2
  <2>3. at' = [at EXCEPT ![t] = NoThread]  BY <1>3 DEF PushEvent
  <2> QED  BY <1>1, <2>2, <2>3
<1>4. CASE ~Dispatch(t) /\ ~PushEvent(t)
  <2>1. UNCHANGED <<emit, at>>
    BY <1>4 DEF StageThread, Released, Started, PopEvent, CheckStop, GetStageByName,
                AllocateEvent, Consume, DestroyEvent, Finish
  <2> QED  BY <1>1, <2>1
<1> QED  BY <1>2, <1>3, <1>4

(* What push_event makes of a queue.                                       *)
Pushed(q, t, when) ==
  [i \in DOMAIN q |-> IF q[i].from = t /\ ~q[i].committed
                      THEN [q[i] EXCEPT !.committed = TRUE, !.late = when]
                      ELSE q[i]]

LEMMA PushedQueue ==
  ASSUME NEW q \in Seq(Event), NEW t, NEW when \in BOOLEAN
  PROVE  /\ Pushed(q, t, when) \in Seq(Event)
         /\ Len(Pushed(q, t, when)) = Len(q)
         /\ (q = <<>>) <=> (Pushed(q, t, when) = <<>>)
         /\ q # <<>> => Head(Pushed(q, t, when)) =
              IF Head(q).from = t /\ ~Head(q).committed
              THEN [Head(q) EXCEPT !.committed = TRUE, !.late = when] ELSE Head(q)
<1>1. \A e \in Event : [e EXCEPT !.committed = TRUE, !.late = when] \in Event
  BY DEF Event
<1>2. \A i \in DOMAIN q : q[i] \in Event  OBVIOUS
<1>3. DOMAIN q = 1 .. Len(q) /\ Len(q) \in Nat  OBVIOUS
<1>4. \A i \in DOMAIN q : Pushed(q, t, when)[i] \in Event  BY <1>1, <1>2 DEF Pushed
<1>5. DOMAIN Pushed(q, t, when) = 1 .. Len(q)  BY <1>3 DEF Pushed
<1>6. Pushed(q, t, when) \in Seq(Event)
  <2>1. Pushed(q, t, when) \in [1 .. Len(q) -> Event]
    <3>1. Pushed(q, t, when) = [i \in 1 .. Len(q) |-> Pushed(q, t, when)[i]]
      BY <1>3 DEF Pushed
    <3> QED  BY <1>3, <1>4, <3>1
  <2> QED  BY <1>3, <2>1, SeqDef
<1>7. Len(Pushed(q, t, when)) = Len(q)  BY <1>3, <1>5, <1>6
<1>8. q # <<>> => Head(q) = q[1] /\ 1 \in DOMAIN q  BY <1>3
<1>9. (q = <<>>) <=> (Pushed(q, t, when) = <<>>)  BY <1>3, <1>6, <1>7
<1>10. q # <<>> => Head(Pushed(q, t, when)) = Pushed(q, t, when)[1]  BY <1>6, <1>9
<1>11. q # <<>> => Pushed(q, t, when)[1] =
              IF Head(q).from = t /\ ~Head(q).committed
              THEN [Head(q) EXCEPT !.committed = TRUE, !.late = when] ELSE Head(q)
  BY <1>8 DEF Pushed
<1> QED  BY <1>6, <1>7, <1>9, <1>10, <1>11

(* The ways in which a step of a thread changes the queues.                *)
LEMMA StepQueues ==
  ASSUME IInv, NEW t \in Threads, StageThread(t)
  PROVE  \/ UNCHANGED queue /\ ~AllocateEvent(t) /\ ~PushEvent(t) /\ ~DestroyEvent(t)
         \/ AllocateEvent(t) \/ PushEvent(t) \/ DestroyEvent(t)
BY DEF StageThread, Released, Started, PopEvent, CheckStop, GetStageByName, Dispatch,
       Consume, Finish

NewEvent(t) == [from |-> t, committed |-> FALSE, late |-> FALSE]

LEMMA AllocatedQueue ==
  ASSUME IInv, NEW t \in Threads, AllocateEvent(t)
  PROVE  /\ at[t] \in Threads /\ at[t] # t
         /\ queue' = [queue EXCEPT ![at[t]] = Append(@, NewEvent(t))]
         /\ queue' \in [Threads -> Seq(Event)]
         /\ queue'[at[t]] # <<>>
         /\ Head(queue'[at[t]]) = IF queue[at[t]] = <<>> THEN NewEvent(t)
                                  ELSE Head(queue[at[t]])
<1>1. at[t] \in Threads /\ at[t] # t  BY Receiver DEF AllocateEvent
<1>2. queue' = [queue EXCEPT ![at[t]] = Append(@, NewEvent(t))]
  BY DEF AllocateEvent, NewEvent
<1>3. NewEvent(t) \in Event  BY DEF NewEvent, Event
<1>4. queue \in [Threads -> Seq(Event)]  BY DEF IInv, TypeOK
<1> DEFINE q == queue[at[t]]
<1>5. q \in Seq(Event)  BY <1>1, <1>4
<1> HIDE DEF q
<1>6. /\ Append(q, NewEvent(t)) \in Seq(Event) /\ Append(q, NewEvent(t)) # <<>>
      /\ Head(Append(q, NewEvent(t))) = IF q = <<>> THEN NewEvent(t) ELSE Head(q)
  <2>1. Append(q, NewEvent(t)) \in Seq(Event)  BY <1>3, <1>5
  <2>2. Len(Append(q, NewEvent(t))) = Len(q) + 1 /\ Len(q) \in Nat  BY <1>3, <1>5
  <2>3. Append(q, NewEvent(t)) # <<>>  BY <2>1, <2>2
  <2>4. Head(Append(q, NewEvent(t))) = Append(q, NewEvent(t))[1]  BY <2>1, <2>3
  <2>5. q = <<>> => Append(q, NewEvent(t))[1] = NewEvent(t)  BY <1>3
  <2>6. q # <<>> => Append(q, NewEvent(t))[1] = q[1] /\ Head(q) = q[1]  BY <1>3, <1>5
  <2> QED  BY <2>1, <2>3, <2>4, <2>5, <2>6
<1>7. queue'[at[t]] = Append(q, NewEvent(t))  BY <1>1, <1>2, <1>4 DEF q
<1>8. queue' \in [Threads -> Seq(Event)]  BY <1>2, <1>4, <1>6 DEF q
<1> QED  BY <1>1, <1>2, <1>6, <1>7, <1>8 DEF q

LEMMA PushedQueues ==
  ASSUME IInv, NEW t \in Threads, PushEvent(t)
  PROVE  LET q == queue[at[t]]
             when == pc[at[t]] \in {"check", "on_finish", "exited"} IN
         /\ at[t] \in Threads /\ at[t] # t
         /\ q \in Seq(Event) /\ when \in BOOLEAN
         /\ queue' = [queue EXCEPT ![at[t]] = Pushed(q, t, when)]
         /\ queue'[at[t]] = Pushed(q, t, when)
         /\ queue' \in [Threads -> Seq(Event)]
<1> DEFINE q == queue[at[t]]
           when == pc[at[t]] \in {"check", "on_finish", "exited"}
<1>1. at[t] \in Threads /\ at[t] # t  BY Receiver DEF PushEvent
<1>2. queue \in [Threads -> Seq(Event)]  BY DEF IInv, TypeOK
<1>3. q \in Seq(Event) /\ when \in BOOLEAN  BY <1>1, <1>2
<1>4. queue' = [queue EXCEPT ![at[t]] = Pushed(q, t, when)]
  BY DEF PushEvent, Pushed
<1> HIDE DEF q, when
<1>5. Pushed(q, t, when) \in Seq(Event)  BY <1>3, PushedQueue
<1>6. queue'[at[t]] = Pushed(q, t, when)  BY <1>1, <1>2, <1>4
<1>7. queue' \in [Threads -> Seq(Event)]  BY <1>2, <1>4, <1>5
<1> QED  BY <1>1, <1>3, <1>4, <1>6, <1>7 DEF q, when

LEMMA DestroyedQueue ==
  ASSUME IInv, NEW t \in Threads, DestroyEvent(t)
  PROVE  /\ queue[t] # <<>> /\ queue[t] \in Seq(Event)
         /\ queue' = [queue EXCEPT ![t] = Tail(@)]
         /\ queue' \in [Threads -> Seq(Event)]
<1>1. queue[t] # <<>>
  BY DEF IInv, QueueInv, QueuePart, Handling, DestroyEvent, Go
<1>2. queue \in [Threads -> Seq(Event)]  BY DEF IInv, TypeOK
<1>3. queue[t] \in Seq(Event)  BY <1>2
<1>4. Tail(queue[t]) \in Seq(Event)  BY <1>1, <1>3
<1>5. queue' = [queue EXCEPT ![t] = Tail(@)]  BY DEF DestroyEvent
<1> QED  BY <1>1, <1>2, <1>3, <1>4, <1>5

LEMMA ThreadType ==
  ASSUME IInv, NEW t \in Threads, StageThread(t)
  PROVE  TypeOK'
<1>1. UNCHANGED <<main, mgr, ctl>> /\ pc' \in [Threads -> PCs]
  BY StepFrame DEF ThreadFrame
<1>2. emit' \in [Threads -> Nat] /\ at' \in [Threads -> Threads \cup {NoThread}]
  BY SendType
<1>3. queue' \in [Threads -> Seq(Event)]
  <2>1. CASE UNCHANGED queue  BY <2>1 DEF IInv, TypeOK
  <2> QED  BY <2>1, StepQueues, AllocatedQueue, PushedQueues, DestroyedQueue
<1> QED  BY <1>1, <1>2, <1>3 DEF IInv, TypeOK, main, mgr, ctl

LEMMA ThreadStepThread ==
  ASSUME IInv, NEW t \in Threads, StageThread(t)
  PROVE  ThreadInv'
<1>1. ThreadFrame /\ pc \in [Threads -> PCs] /\ pc' \in [Threads -> PCs]
  BY StepFrame DEF IInv, TypeOK
<1>2. emit \in [Threads -> Nat] /\ at \in [Threads -> Threads \cup {NoThread}]
  BY DEF IInv, TypeOK
<1>3. status' = status  BY <1>1 DEF ThreadFrame, ctl
<1>4. \A u \in Threads : Running(u)' => status'[u] = "ok"
  BY <1>1, <1>3 DEF ThreadFrame, Running
<1>5. \A u \in Threads : u # t => pc'[u] = pc[u] /\ emit'[u] = emit[u] /\ at'[u] = at[u]
  BY <1>1, <1>2
  DEF StageThread, Released, Started, PopEvent, CheckStop, GetStageByName, Dispatch,
      AllocateEvent, PushEvent, Consume, DestroyEvent, Finish, Go
<1>6. \A u \in Threads :
        /\ pc[u] \in Looping => emit[u] = 0
        /\ pc[u] \in {"waiting", "push"} => Dest[u[1]] # 0 /\ at[u] \in Of(Dest[u[1]])
  BY DEF IInv, ThreadInv
<1>7. /\ pc'[t] \in Looping => emit'[t] = 0
      /\ pc'[t] \in {"waiting", "push"} => Dest[t[1]] # 0 /\ at'[t] \in Of(Dest[t[1]])
  <2> USE DEF Go, Looping
  <2>1. CASE Released(t)  BY <2>1, <1>1 DEF Released
  <2>2. CASE Started(t)  BY <2>2, <1>1 DEF Started
  <2>3. CASE PopEvent(t)  BY <2>3, <1>1, <1>6 DEF PopEvent
  <2>4. CASE CheckStop(t)  BY <2>4, <1>1, <1>6 DEF CheckStop
  <2>5. CASE GetStageByName(t)  BY <2>5, <1>1, <1>6 DEF GetStageByName
  <2>6. CASE Dispatch(t)  BY <2>6, <1>1, <1>2 DEF Dispatch
  <2>7. CASE AllocateEvent(t)  BY <2>7, <1>1, <1>6 DEF AllocateEvent
  <2>8. CASE PushEvent(t)
    <3>1. pc'[t] = IF emit[t] > 0 THEN "on_start" ELSE "destroy"  BY <2>8, <1>1 DEF PushEvent
    <3>2. ~(emit[t] > 0) => emit'[t] = 0
      <4>1. emit[t] \in Nat  BY <1>2
      <4>2. ~(emit[t] > 0) => emit' = emit  BY <2>8 DEF PushEvent
      <4> QED  BY <4>1, <4>2
    <3> QED  BY <3>1, <3>2
  <2>9. CASE Consume(t)  BY <2>9, <1>1, <1>6 DEF Consume
  <2>10. CASE DestroyEvent(t)  BY <2>10, <1>1, <1>6 DEF DestroyEvent
  <2>11. CASE Finish(t)  BY <2>11, <1>1, <1>6 DEF Finish
  <2> QED  BY <2>1, <2>2, <2>3, <2>4, <2>5, <2>6, <2>7, <2>8, <2>9, <2>10, <2>11 DEF StageThread
<1>8. \A u \in Threads :
        /\ pc'[u] \in Looping => emit'[u] = 0
        /\ pc'[u] \in {"waiting", "push"} => Dest[u[1]] # 0 /\ at'[u] \in Of(Dest[u[1]])
  BY <1>5, <1>6, <1>7
<1> QED  BY <1>4, <1>8 DEF ThreadInv, Of

(* A thread that leaves its own queue and those of others alone.           *)
LEMMA KeptQueues ==
  ASSUME IInv, NEW t \in Threads, StageThread(t), UNCHANGED queue,
         ~AllocateEvent(t), ~PushEvent(t), ~DestroyEvent(t)
  PROVE  QueueInv'
<1>1. UNCHANGED <<main, mgr, ctl>>  BY StepFrame DEF ThreadFrame
<1>2. pc \in [Threads -> PCs] /\ status \in [Threads -> Statuses]
  BY DEF IInv, TypeOK
<1>3. SUFFICES ASSUME NEW u \in Threads PROVE QueuePart(u)'
  BY DEF QueueInv
<1>4. QueuePart(u)  BY DEF IInv, QueueInv
<1>5. ThreadInv!(u)  BY DEF IInv, ThreadInv
<1>6. emit' = emit
  BY DEF StageThread, Released, Started, PopEvent, CheckStop, GetStageByName, Dispatch,
         Consume, Finish
<1>7. CASE u # t
  <2>1. pc'[u] = pc[u]
    BY <1>2, <1>7
    DEF StageThread, Released, Started, PopEvent, CheckStop, GetStageByName, Dispatch,
        Consume, Finish, Go
  <2> QED  BY <1>1, <1>4, <1>6, <2>1 DEF QueuePart, Handling, NothingInTime, main, ctl
<1>8. CASE u = t
  <2> USE <1>1, <1>2, <1>4, <1>5, <1>6, <1>8
      DEF QueuePart, Handling, NothingInTime, Go, main, ctl, Looping
  <2>1. CASE Released(t)  BY <2>1 DEF Released
  <2>2. CASE Started(t)  BY <2>2 DEF Started
  <2>3. CASE PopEvent(t)  BY <2>3 DEF PopEvent
  <2>4. CASE CheckStop(t)  BY <2>4 DEF CheckStop
  <2>5. CASE GetStageByName(t)  BY <2>5 DEF GetStageByName
  <2>6. CASE Dispatch(t)  BY <2>6 DEF Dispatch
  <2>7. CASE Consume(t)  BY <2>7 DEF Consume
  <2>8. CASE Finish(t)  BY <2>8 DEF Finish
  <2> QED  BY <2>1, <2>2, <2>3, <2>4, <2>5, <2>6, <2>7, <2>8 DEF StageThread
<1> QED  BY <1>7, <1>8

LEMMA AllocateQueues ==
  ASSUME IInv, NEW t \in Threads, AllocateEvent(t)
  PROVE  QueueInv'
<1>1. UNCHANGED <<main, mgr, ctl, emit>>  BY DEF AllocateEvent
<1>2. pc \in [Threads -> PCs] /\ pc' = [pc EXCEPT ![t] = "push"] /\ pc[t] = "waiting"
  BY DEF IInv, TypeOK, AllocateEvent
<1>3. SUFFICES ASSUME NEW u \in Threads PROVE QueuePart(u)'
  BY DEF QueueInv
<1>4. QueuePart(u)  BY DEF IInv, QueueInv
<1>5. queue \in [Threads -> Seq(Event)]  BY DEF IInv, TypeOK
<1> USE DEF main, ctl
<1>6. CASE u = at[t]
  <2>1. status[u] = "ok" /\ u # t  BY <1>2, <1>6, Receiver
  <2>2. /\ queue'[u] # <<>>
        /\ Head(queue'[u]) = IF queue[u] = <<>> THEN NewEvent(t) ELSE Head(queue[u])
    BY <1>6, AllocatedQueue
  <2>3. pc'[u] = pc[u]  BY <1>2, <2>1
  <2>4. ~NewEvent(t).committed  BY DEF NewEvent
  <2>5. Handling(u)' => queue'[u] # <<>> /\ Head(queue'[u]).committed
    BY <1>1, <1>4, <2>2, <2>3 DEF QueuePart, Handling
  <2>6. NothingInTime(u) => NothingInTime(u)'
    BY <2>2, <2>4 DEF NothingInTime
  <2> QED  BY <1>1, <1>4, <2>1, <2>3, <2>5, <2>6 DEF QueuePart
<1>7. CASE u # at[t]
  <2>1. queue'[u] = queue[u]  BY <1>5, <1>7, AllocatedQueue
  <2>2. u # t => pc'[u] = pc[u]  BY <1>2
  <2>3. pc'[t] = "push"  BY <1>2
  <2> QED  BY <1>1, <1>2, <1>4, <2>1, <2>2, <2>3 DEF QueuePart, Handling, NothingInTime
<1> QED  BY <1>6, <1>7

LEMMA PushQueues ==
  ASSUME IInv, NEW t \in Threads, PushEvent(t)
  PROVE  QueueInv'
<1>1. UNCHANGED <<main, mgr, ctl>>  BY DEF PushEvent
<1>2. /\ pc \in [Threads -> PCs] /\ pc[t] = "push"
      /\ pc' = [pc EXCEPT ![t] = IF emit[t] > 0 THEN "on_start" ELSE "destroy"]
  BY DEF IInv, TypeOK, PushEvent
<1>3. SUFFICES ASSUME NEW u \in Threads PROVE QueuePart(u)'
  BY DEF QueueInv
<1>4. QueuePart(u)  BY DEF IInv, QueueInv
<1>5. /\ queue \in [Threads -> Seq(Event)] /\ emit \in [Threads -> Nat]
  BY DEF IInv, TypeOK
<1>6. u # t => emit'[u] = emit[u] /\ pc'[u] = pc[u]
  <2>1. u # t => pc'[u] = pc[u]  BY <1>2
  <2>2. u # t => emit'[u] = emit[u]
    <3>1. CASE emit[t] > 0
      <4>1. emit' = [emit EXCEPT ![t] = @ - 1]  BY <3>1 DEF PushEvent
      <4> QED  BY <1>5, <4>1
    <3>2. CASE ~(emit[t] > 0)  BY <3>2 DEF PushEvent
    <3> QED  BY <3>1, <3>2
  <2> QED  BY <2>1, <2>2
<1> DEFINE q == queue[at[t]]
           when == pc[at[t]] \in {"check", "on_finish", "exited"}
<1>7. /\ at[t] # t /\ q \in Seq(Event) /\ when \in BOOLEAN
      /\ queue'[at[t]] = Pushed(q, t, when)
      /\ queue' = [queue EXCEPT ![at[t]] = Pushed(q, t, when)]
  BY PushedQueues
<1> USE DEF main, ctl
<1>8. CASE u = at[t]
  <2>1. /\ (queue[u] = <<>>) <=> (queue'[u] = <<>>)
        /\ queue[u] # <<>> => Head(queue'[u]) =
              IF Head(queue[u]).from = t /\ ~Head(queue[u]).committed
              THEN [Head(queue[u]) EXCEPT !.committed = TRUE, !.late = when]
              ELSE Head(queue[u])
    <3> HIDE DEF when, q
    <3>1. /\ (q = <<>>) <=> (Pushed(q, t, when) = <<>>)
          /\ q # <<>> => Head(Pushed(q, t, when)) =
                IF Head(q).from = t /\ ~Head(q).committed
                THEN [Head(q) EXCEPT !.committed = TRUE, !.late = when]
                ELSE Head(q)
      BY <1>7, PushedQueue
    <3>2. q = queue[u] /\ queue'[u] = Pushed(q, t, when)  BY <1>7, <1>8 DEF q
    <3> QED  BY <3>1, <3>2
  <2>2. queue[u] # <<>> => Head(queue[u]) \in Event  BY <1>5
  <2>3. queue[u] # <<>> => \/ Head(queue'[u]) = Head(queue[u])
                           \/ /\ Head(queue'[u]).committed
                              /\ Head(queue'[u]).late = when
    <3> HIDE DEF when
    <3> QED  BY <2>1, <2>2 DEF Event
  <2>4. u # t /\ emit'[u] = emit[u] /\ pc'[u] = pc[u]  BY <1>6, <1>7, <1>8
  <2>5. status'[u] # "ok" => queue'[u] = <<>>  BY <1>1, <1>4, <2>1 DEF QueuePart
  <2>6. Handling(u)' => queue'[u] # <<>> /\ Head(queue'[u]).committed
    BY <1>4, <2>1, <2>3, <2>4 DEF QueuePart, Handling
  <2>7. pc[u] \in {"check", "on_finish", "exited"} /\ NothingInTime(u) => NothingInTime(u)'
    BY <1>8, <2>1, <2>3 DEF NothingInTime
  <2> QED  BY <1>1, <1>4, <2>4, <2>5, <2>6, <2>7 DEF QueuePart
<1>9. CASE u # at[t]
  <2>1. queue'[u] = queue[u]
    <3> HIDE DEF when, q
    <3> QED  BY <1>5, <1>7, <1>9
  <2>2. CASE u # t
    BY <1>1, <1>4, <1>6, <2>1, <2>2 DEF QueuePart, Handling, NothingInTime
  <2>3. CASE u = t
    <3>1. Handling(u)' => Handling(u)
      <4>1. emit[t] \in Nat  BY <1>5
      <4>2. pc'[t] \in {"on_start", "destroy"} /\ (pc'[t] = "destroy" => ~(emit[t] > 0))
        BY <1>2
      <4>3. ~(emit[t] > 0) => emit[t] = 0  BY <4>1
      <4> QED  BY <1>2, <2>3, <4>2, <4>3 DEF Handling
    <3>2. pc'[t] \notin {"check", "on_finish", "exited"}  BY <1>2
    <3> QED  BY <1>1, <1>4, <2>1, <2>3, <3>1, <3>2 DEF QueuePart
  <2> QED  BY <2>2, <2>3
<1> QED  BY <1>8, <1>9

LEMMA DestroyQueues ==
  ASSUME IInv, NEW t \in Threads, DestroyEvent(t)
  PROVE  QueueInv'
<1>1. UNCHANGED <<main, mgr, ctl, emit>>  BY DEF DestroyEvent
<1>2. /\ pc \in [Threads -> PCs] /\ pc[t] = "destroy" /\ pc' = [pc EXCEPT ![t] = "pop"]
  BY DEF IInv, TypeOK, DestroyEvent, Go
<1>3. SUFFICES ASSUME NEW u \in Threads PROVE QueuePart(u)'
  BY DEF QueueInv
<1>4. QueuePart(u)  BY DEF IInv, QueueInv
<1>5. queue \in [Threads -> Seq(Event)]  BY DEF IInv, TypeOK
<1>6. status[t] = "ok"  BY <1>2 DEF IInv, ThreadInv, Running
<1> USE DEF main, ctl
<1>7. CASE u = t
  <2>1. pc'[u] = "pop"  BY <1>2, <1>7
  <2> QED  BY <1>1, <1>6, <1>7, <2>1 DEF QueuePart, Handling
<1>8. CASE u # t
  <2>1. queue'[u] = queue[u]  BY <1>5, <1>8, DestroyedQueue
  <2>2. pc'[u] = pc[u]  BY <1>2, <1>8
  <2> QED  BY <1>1, <1>4, <2>1, <2>2 DEF QueuePart, Handling, NothingInTime
<1> QED  BY <1>7, <1>8

(* Every step of a stage thread keeps the invariant.                       *)
LEMMA ThreadStep ==
  ASSUME IInv, NEW t \in Threads, StageThread(t)
  PROVE  IInv'
<1>1. QueueInv'  BY StepQueues, KeptQueues, AllocateQueues, PushQueues, DestroyQueues
<1>2. MainInv' /\ CreationInv' /\ RegisteredInv' /\ StopInv' /\ GoneInv'
  BY StepFrame, FrameInv
<1>3. DropInv'
  <2>1. UNCHANGED <<mpc, cur, idx, registered>>  BY StepFrame DEF ThreadFrame, main, mgr
  <2>2. mpc = "drop" => ~Running(t)
    BY DEF IInv, ThreadInv, StopInv, Deleting, Running
  <2>3. mpc = "drop" => UNCHANGED queue
    BY <2>2, StepQueues DEF AllocateEvent, PushEvent, DestroyEvent, Go, Running
  <2> QED  BY <2>1, <2>3 DEF IInv, DropInv, Visited
<1> QED  BY <1>1, <1>2, <1>3, ThreadType, ThreadStepThread DEF IInv

-----------------------------------------------------------------------------
(* The steps of the main thread that create stages *)

(* Most of its steps do not concern the stage threads.                     *)
LEMMA Undisturbed ==
  ASSUME IInv, UNCHANGED <<status, pc, emit, at, queue>>,
         mpc \in Deleting \cup {"done"} => mpc' \in Deleting \cup {"done"}
  PROVE  ThreadInv' /\ QueueInv'
<1>1. ThreadInv'  BY DEF IInv, ThreadInv, Running, Of
<1>2. QueueInv'
  <2> SUFFICES ASSUME NEW u \in Threads PROVE QueuePart(u)'
    BY DEF QueueInv
  <2>1. QueuePart(u)  BY DEF IInv, QueueInv
  <2> QED  BY <2>1 DEF QueuePart, Handling, NothingInTime
<1> QED  BY <1>1, <1>2

(* What is known while a stage is under creation.                          *)
LEMMA Current ==
  ASSUME IInv, mpc \in Creating
  PROVE  /\ cur \in Stages /\ gone = {} /\ Len(registered) = cur - 1
         /\ \A s \in Stages : s >= cur => stopped[s]
         /\ \A t \in Threads : t[1] < cur => status[t] = "ok"
         /\ \A t \in Threads : t[1] > cur => Fresh(t)
         /\ \A t \in Threads : t[1] = cur => CurrentPart(t)
         /\ \A s \in Stages : s < cur => \E i \in 1 .. Len(registered) : registered[i] = s
<1>1. CurrentInv  BY DEF IInv, CreationInv
<1>2. \A t \in Threads : t[1] = cur => t \in Of(cur)  BY DEF Of
<1>3. \A t \in Threads : t[1] = cur => CurrentPart(t)  BY <1>1, <1>2 DEF CurrentInv
<1> QED  BY <1>3 DEF IInv, MainInv, CreationInv, RegisteredInv

(* Whoever has been let go while the present stage is not complete belongs *)
(* to an earlier one, which is registered.                                 *)
LEMMA Earlier ==
  ASSUME IInv, mpc \in {"create", "start", "unwind", "unjoin"},
         NEW t \in Threads, status[t] = "ok"
  PROVE  t[1] < cur /\ \E i \in 1 .. Len(registered) : registered[i] = t[1]
<1>1. mpc \in Creating  BY DEF Creating
<1>2. t[1] \in Stages /\ t[1] \in Nat /\ cur \in Nat /\ t[2] \in Nat
  BY <1>1, Current, ThreadShape, Shape
<1>3. idx \in Nat  BY DEF IInv, TypeOK
<1>4. ~(t[1] > cur)  BY <1>1, Current DEF Fresh
<1>5. t[1] # cur
  <2>1. SUFFICES ASSUME t[1] = cur PROVE FALSE  OBVIOUS
  <2>2. CurrentPart(t)  BY <1>1, <2>1, Current
  <2>3. mpc \in {"unwind", "unjoin"} => t[2] < idx \/ t[2] = idx \/ t[2] > idx
    BY <1>2, <1>3
  <2> QED  BY <2>2, <2>3 DEF CurrentPart, Fresh, Born, GivenUp
<1>6. t[1] < cur  BY <1>2, <1>4, <1>5
<1> QED  BY <1>1, <1>2, <1>6, Current

(* A step that only concerns the threads of the stage under creation.      *)
LEMMA CreationKept ==
  ASSUME IInv, mpc \in Creating, cur' = cur,
         \A t \in Threads : t[1] # cur => UNCHANGED <<status[t], pc[t], handle[t]>>,
         \A t \in Threads : pc'[t] = "none" => pc[t] = "none",
         \A t \in Threads : status'[t] = "ok" =>
            \/ status[t] = "ok"
            \/ t[1] = cur /\ \A u \in Threads : u[1] = cur => pc[u] # "none",
         \A t \in Threads : status[t] = "ok" => status'[t] = "ok",
         mpc' \in Creating => CurrentInv'
  PROVE  CreationInv'
<1>1. \A t, u \in Threads : status'[t] = "ok" /\ u[1] < t[1] => status'[u] = "ok"
  BY Current DEF IInv, CreationInv
<1>2. \A t, u \in Threads : status'[t] = "ok" /\ u[1] = t[1] => pc'[u] # "none"
  BY DEF IInv, CreationInv
<1>3. \A t \in Threads : t[1] < cur => status'[t] = "ok"  BY Current
<1>4. cur \in Nat  BY Current, Shape
<1>5. \A t \in Threads : t[1] > cur => Fresh(t)'
  <2> SUFFICES ASSUME NEW t \in Threads, t[1] > cur PROVE Fresh(t)'  OBVIOUS
  <2>1. t[1] # cur  BY <1>4, ThreadShape, Shape
  <2> QED  BY <2>1, Current DEF Fresh
<1> QED  BY <1>1, <1>2, <1>3, <1>5 DEF CreationInv

LEMMA CreateHandlersStep == ASSUME IInv, CreateHandlers PROVE IInv'
<1> USE DEF CreateHandlers, mgr, ctl
<1>1. mpc = "create" /\ mpc \in Creating  BY DEF Creating
<1>2. /\ cur \in Stages /\ gone = {}
      /\ \A t \in Threads : t[1] = cur => Fresh(t)
  BY <1>1, Current DEF CurrentPart
<1>3. TypeOK'  BY <1>2 DEF IInv, TypeOK, MainPCs
<1>4. MainInv'
  BY <1>1, <1>2, Shape DEF IInv, MainInv, Creating, Stopping, Deleting
<1>5. DropInv'  BY DEF DropInv
<1>6. ThreadInv' /\ QueueInv'  BY Undisturbed DEF Deleting
<1>7. CreationInv'
  <2>1. \A t \in Threads : t[2] >= 1  BY ThreadShape, Shape
  <2>2. mpc' \in Creating => CurrentInv'
    <3>1. SUFFICES ASSUME mpc' = "start", NEW t \in Of(cur) PROVE CurrentPart(t)'
      BY DEF CurrentInv, Creating, Of
    <3>2. t \in Threads /\ t[1] = cur /\ t[2] \in Nat /\ t[2] >= 1  BY <2>1, <1>2, OfStage
    <3>3. Fresh(t)  BY <1>2, <3>2
    <3> QED  BY <3>1, <3>2, <3>3 DEF CurrentPart, Fresh
  <2> QED  BY <1>1, <2>2, CreationKept
<1>8. RegisteredInv'
  BY <1>1, Earlier DEF IInv, RegisteredInv, Creating
<1>9. StopInv'  BY DEF StopInv, Deleting
<1>10. GoneInv'
  <2> SUFFICES ASSUME NEW s \in gone'
               PROVE  /\ s = cur /\ stopped[s]
                      /\ \A t \in Threads : t[1] = s => ~handle[t] /\ pc[t] = "none"
                      /\ \A t \in Threads : status[t] = "ok" => t[1] < s
    BY DEF GoneInv, Of
  <2>1. s = cur  BY <1>2
  <2>2. cur >= cur  BY <1>2, Shape
  <2> QED  BY <1>1, <1>2, <2>1, <2>2, Current, Earlier DEF Fresh
<1> QED  BY <1>3, <1>4, <1>5, <1>6, <1>7, <1>8, <1>9, <1>10 DEF IInv

LEMMA StartThreadStep == ASSUME IInv, StartThread PROVE IInv'
<1> DEFINE t == <<cur, idx>>
<1> USE DEF mgr
<1>1. mpc = "start" /\ mpc \in Creating  BY DEF StartThread, Creating
<1>2. /\ cur \in Stages /\ gone = {} /\ idx \in 1 .. NumThreads[cur] /\ idx \in Nat
      /\ NumThreads[cur] \in Nat
  BY <1>1, Current, Shape DEF IInv, MainInv, TypeOK
<1>3. t \in Threads /\ t[1] = cur /\ t[2] = idx  BY <1>2, ThreadShape
<1> HIDE DEF t
<1>4. /\ pc' = [pc EXCEPT ![t] = "born"] /\ handle' = [handle EXCEPT ![t] = TRUE]
      /\ mpc' = IF idx < NumThreads[cur] THEN "start" ELSE "ok"
      /\ idx' = IF idx < NumThreads[cur] THEN idx + 1 ELSE 1
      /\ UNCHANGED <<cur, mgrLock, registered, gone, stopped, status, stop, emit, at, queue>>
  BY <1>1 DEF StartThread, t
<1>5. pc \in [Threads -> PCs] /\ handle \in [Threads -> BOOLEAN]  BY DEF IInv, TypeOK
<1>6. Fresh(t)
  <2>1. CurrentPart(t)  BY <1>1, <1>3, Current
  <2>2. ~(t[2] < idx)  BY <1>2, <1>3
  <2> QED  BY <1>1, <2>1, <2>2 DEF CurrentPart
<1>7. TypeOK'
  <2>1. pc' \in [Threads -> PCs] /\ handle' \in [Threads -> BOOLEAN]
    BY <1>4, <1>5 DEF PCs
  <2>2. idx' \in Nat /\ mpc' \in MainPCs  BY <1>2, <1>4 DEF MainPCs
  <2> QED  BY <1>4, <2>1, <2>2 DEF IInv, TypeOK
<1>8. MainInv'
  <2>1. mpc' \in {"start", "ok"} /\ idx' \in 1 .. NumThreads[cur]  BY <1>2, <1>4
  <2> QED  BY <1>1, <1>4, <2>1 DEF IInv, MainInv, Creating, Stopping, Deleting
<1>9. DropInv'  BY <1>4 DEF DropInv
<1>10. \A u \in Threads : u # t => pc'[u] = pc[u] /\ handle'[u] = handle[u]
  BY <1>4, <1>5
<1>11. pc'[t] = "born" /\ handle'[t]  BY <1>3, <1>4, <1>5
<1>12. ThreadInv'
  <2> SUFFICES ASSUME NEW u \in Threads PROVE ThreadInv!(u)'  BY DEF ThreadInv
  <2>1. CASE u # t  BY <1>4, <1>10, <2>1 DEF IInv, ThreadInv, Running, Of
  <2>2. CASE u = t  BY <1>11, <2>2 DEF Running, Looping
  <2> QED  BY <2>1, <2>2
<1>13. QueueInv'
  <2> SUFFICES ASSUME NEW u \in Threads PROVE QueuePart(u)'  BY DEF QueueInv
  <2>1. QueuePart(u)  BY DEF IInv, QueueInv
  <2>2. CASE u # t
    BY <1>1, <1>4, <1>10, <2>1, <2>2 DEF QueuePart, Handling, NothingInTime, Deleting
  <2>3. CASE u = t  BY <1>4, <1>11, <2>1, <2>3 DEF QueuePart, Handling
  <2> QED  BY <2>2, <2>3
<1>14. CreationInv'
  <2>1. CurrentInv'
    <3>1. SUFFICES ASSUME NEW u \in Of(cur) PROVE CurrentPart(u)'
      BY <1>4 DEF CurrentInv, Of
    <3>2. u \in Threads /\ u[1] = cur /\ u[2] \in Nat /\ u[2] <= NumThreads[cur]
          /\ u = <<cur, u[2]>>
      BY <1>2, OfStage
    <3>3. CurrentPart(u)  BY <1>1, <3>2, Current
    <3>4. u[2] < idx => Born(u)'
      <4>1. u[2] < idx => Born(u) /\ u # t  BY <1>1, <1>2, <1>3, <3>2, <3>3 DEF CurrentPart
      <4> QED  BY <1>4, <1>10, <3>2, <4>1 DEF Born
    <3>5. u[2] > idx => Fresh(u)'
      <4>1. u[2] > idx => Fresh(u) /\ u # t
        BY <1>1, <1>2, <1>3, <3>2, <3>3 DEF CurrentPart
      <4> QED  BY <1>4, <1>10, <3>2, <4>1 DEF Fresh
    <3>6. u[2] = idx => Born(u)'
      <4>1. u[2] = idx => u = t  BY <3>2 DEF t
      <4> QED  BY <1>4, <1>6, <1>11, <4>1 DEF Born, Fresh
    <3>7. CASE idx < NumThreads[cur]
      <4>1. mpc' = "start" /\ idx' = idx + 1  BY <1>4, <3>7
      <4>2. u[2] < idx' \/ u[2] > idx  BY <1>2, <3>2, <4>1
      <4>3. IF u[2] < idx' THEN Born(u)' ELSE Fresh(u)'
        BY <1>2, <3>2, <3>4, <3>5, <3>6, <4>1
      <4> QED  BY <4>1, <4>3 DEF CurrentPart
    <3>8. CASE ~(idx < NumThreads[cur])
      <4>1. mpc' = "ok" /\ idx' = 1  BY <1>4, <3>8
      <4>2. u[2] <= idx /\ ~(u[2] < 1)  BY <1>2, <3>2, <3>8, OfStage
      <4>3. Born(u)'  BY <1>2, <3>2, <3>4, <3>6, <4>2
      <4> QED  BY <4>1, <4>2, <4>3 DEF CurrentPart, Born
    <3> QED  BY <3>7, <3>8
  <2> QED  BY <1>1, <1>3, <1>4, <1>10, <1>11, <2>1, CreationKept
<1>15. RegisteredInv'  BY <1>1, <1>4 DEF IInv, RegisteredInv
<1>16. StopInv'  BY <1>4 DEF StopInv, Deleting
<1>17. GoneInv'  BY <1>2, <1>4 DEF GoneInv
<1> QED  BY <1>7, <1>8, <1>9, <1>12, <1>13, <1>14, <1>15, <1>16, <1>17 DEF IInv

LEMMA FailStartStep == ASSUME IInv, FailStart PROVE IInv'
<1> USE DEF FailStart, mgr, ctl
<1>1. mpc = "start" /\ mpc \in Creating  BY DEF Creating
<1>2. cur \in Stages /\ gone = {} /\ NumThreads[cur] \in Nat /\ NumThreads[cur] > 0 /\ idx \in Nat
  BY <1>1, Current, Shape DEF IInv, TypeOK
<1>3. TypeOK'  BY DEF IInv, TypeOK, MainPCs
<1>4. MainInv'
  BY <1>1, <1>2 DEF IInv, MainInv, Creating, Stopping, Deleting
<1>5. DropInv'  BY DEF DropInv
<1>6. ThreadInv' /\ QueueInv'  BY Undisturbed DEF Deleting
<1>7. CreationInv'
  <2>1. CurrentInv'
    <3>1. SUFFICES ASSUME NEW t \in Of(cur) PROVE CurrentPart(t)'
      BY DEF CurrentInv, Of
    <3>2. t \in Threads /\ t[1] = cur /\ t[2] \in Nat /\ t[2] >= 1 /\ t[2] <= NumThreads[cur]
      BY <1>2, OfStage
    <3>3. IF t[2] < idx THEN Born(t) ELSE Fresh(t)  BY <1>1, <3>2, Current DEF CurrentPart
    <3>4. Fresh(t)' \/ Born(t)'  BY <3>3 DEF Fresh, Born
    <3>5. ASSUME handle[t], NEW i \in 1 .. t[2] PROVE handle[<<cur, i>>]
      <4>1. t[2] < idx  BY <3>3, <3>5 DEF Fresh
      <4>2. i \in 1 .. NumThreads[cur] /\ i < idx  BY <1>2, <3>2, <4>1
      <4>3. <<cur, i>> \in Threads  BY <1>2, <4>2, ThreadShape
      <4>4. CurrentPart(<<cur, i>>)  BY <1>1, <4>3, Current
      <4> QED  BY <1>1, <4>2, <4>4 DEF CurrentPart, Born
    <3> QED  BY <3>2, <3>4, <3>5 DEF CurrentPart
  <2> QED  BY <1>1, <2>1, CreationKept
<1>8. RegisteredInv'  BY <1>1 DEF IInv, RegisteredInv
<1>9. StopInv'  BY DEF StopInv, Deleting
<1>10. GoneInv'  BY <1>2 DEF GoneInv
<1> QED  BY <1>3, <1>4, <1>5, <1>6, <1>7, <1>8, <1>9, <1>10 DEF IInv

(* The failure path tells a thread to give up ...                          *)
LEMMA UnwindThread ==
  ASSUME IInv, Unwind, <<cur, idx>> \in Threads, handle[<<cur, idx>>]
  PROVE  IInv'
<1> DEFINE t == <<cur, idx>>
<1>1. mpc = "unwind" /\ mpc \in Creating  BY DEF Unwind, Creating
<1>2. cur \in Stages /\ gone = {} /\ idx \in Nat /\ idx \in 1 .. NumThreads[cur]
  <2>1. cur \in Stages /\ gone = {} /\ idx \in Nat
    BY <1>1, Current DEF IInv, TypeOK
  <2>2. t \in Threads /\ t[1] = cur /\ t[2] = idx  OBVIOUS
  <2>3. t[2] \in 1 .. NumThreads[t[1]]  BY <2>2, ThreadShape
  <2> QED  BY <2>1, <2>2, <2>3
<1>3. t \in Threads /\ t[1] = cur /\ t[2] = idx /\ handle[t]  OBVIOUS
<1>4. /\ status' = [status EXCEPT ![t] = "failed"] /\ mpc' = "unjoin"
      /\ UNCHANGED <<cur, idx, mgrLock, registered, gone, stopped, handle, stop, pc, emit,
                     at, queue>>
  BY DEF Unwind
<1> HIDE DEF t
<1>5. Born(t)
  <2>1. CurrentPart(t)  BY <1>1, <1>3, Current
  <2>2. ~(t[2] < idx) /\ ~(t[2] > idx)  BY <1>2, <1>3
  <2> QED  BY <1>1, <1>3, <2>1, <2>2 DEF CurrentPart, Fresh
<1>6. status \in [Threads -> Statuses]  BY DEF IInv, TypeOK
<1>7. (\A u \in Threads : u # t => status'[u] = status[u]) /\ status'[t] = "failed"
  BY <1>3, <1>4, <1>6
<1>8. TypeOK'
  <2>1. status' \in [Threads -> Statuses]  BY <1>4, <1>6 DEF Statuses
  <2> QED  BY <1>4, <2>1 DEF IInv, TypeOK, MainPCs
<1>9. MainInv'
  BY <1>1, <1>2, <1>4 DEF IInv, MainInv, Creating, Stopping, Deleting
<1>10. DropInv'  BY <1>4 DEF DropInv
<1>11. ThreadInv'
  <2> SUFFICES ASSUME NEW u \in Threads PROVE ThreadInv!(u)'  BY DEF ThreadInv
  <2>1. Running(u) => u # t  BY <1>5 DEF IInv, ThreadInv, Born
  <2> QED  BY <1>4, <1>7, <2>1 DEF IInv, ThreadInv, Running, Of
<1>12. QueueInv'
  <2> SUFFICES ASSUME NEW u \in Threads PROVE QueuePart(u)'  BY DEF QueueInv
  <2>1. QueuePart(u)  BY DEF IInv, QueueInv
  <2>2. status'[u] # "ok" => queue'[u] = <<>>  BY <1>4, <1>5, <1>7, <2>1 DEF QueuePart, Born
  <2> QED  BY <1>1, <1>4, <2>1, <2>2 DEF QueuePart, Handling, NothingInTime, Deleting
<1>13. CreationInv'
  <2>1. CurrentInv'
    <3>1. SUFFICES ASSUME NEW u \in Of(cur) PROVE CurrentPart(u)'
      BY <1>4 DEF CurrentInv, Of
    <3>2. u \in Threads /\ u[1] = cur /\ u[2] \in Nat /\ u = <<cur, u[2]>>
      BY <1>2, OfStage
    <3>3. CurrentPart(u)  BY <1>1, <3>2, Current
    <3>4. u[2] # idx => u # t  BY <1>3
    <3>5. u[2] < idx => GivenUp(u)'
      BY <1>1, <1>2, <1>4, <1>7, <3>2, <3>3, <3>4 DEF CurrentPart, GivenUp
    <3>6. u[2] > idx => Fresh(u)' \/ Born(u)'
      BY <1>1, <1>2, <1>4, <1>7, <3>2, <3>3, <3>4 DEF CurrentPart, Fresh, Born
    <3>7. u[2] = idx => status'[u] = "failed" /\ handle'[u]
      <4>1. u[2] = idx => u = t  BY <3>2 DEF t
      <4> QED  BY <1>3, <1>4, <1>7, <4>1
    <3>8. handle'[u] => \A i \in idx .. u[2] : handle'[<<cur, i>>]
      BY <1>1, <1>4, <3>3 DEF CurrentPart
    <3> QED  BY <1>4, <3>5, <3>6, <3>7, <3>8 DEF CurrentPart
  <2>2. \A u \in Threads : status'[u] = "ok" => status[u] = "ok"  BY <1>7
  <2>3. \A u \in Threads : status[u] = "ok" => status'[u] = "ok"
    BY <1>5, <1>7 DEF Born
  <2>4. \A u \in Threads : u[1] # cur => u # t  BY <1>3
  <2> QED  BY <1>1, <1>4, <1>7, <2>1, <2>2, <2>3, <2>4, CreationKept
<1>14. RegisteredInv'  BY <1>1, <1>4 DEF IInv, RegisteredInv
<1>15. StopInv'  BY <1>4 DEF StopInv, Deleting
<1>16. GoneInv'  BY <1>2, <1>4 DEF GoneInv
<1> QED  BY <1>8, <1>9, <1>10, <1>11, <1>12, <1>13, <1>14, <1>15, <1>16 DEF IInv

(* ... until it meets one that was never started, and deletes the stage.   *)
LEMMA UnwindEnds ==
  ASSUME IInv, Unwind, ~(<<cur, idx>> \in Threads /\ handle[<<cur, idx>>])
  PROVE  IInv'
<1>1. mpc = "unwind" /\ mpc \in Creating  BY DEF Unwind, Creating
<1>2. /\ cur \in Stages /\ gone = {} /\ idx \in Nat /\ idx \in 1 .. NumThreads[cur] + 1
      /\ NumThreads[cur] \in Nat
  BY <1>1, Current, Shape DEF IInv, TypeOK, MainInv
<1>3. /\ mpc' = "up" /\ gone' = {cur}
      /\ UNCHANGED <<status, cur, idx, mgrLock, registered, stopped, handle, stop, pc, emit,
                     at, queue>>
  BY <1>2 DEF Unwind
<1>4. TypeOK'  BY <1>2, <1>3 DEF IInv, TypeOK, MainPCs
<1>5. MainInv'  BY <1>3 DEF IInv, MainInv, Creating, Stopping, Deleting
<1>6. DropInv'  BY <1>3 DEF DropInv
<1>7. ThreadInv' /\ QueueInv'  BY <1>1, <1>3, Undisturbed DEF Deleting
<1>8. CreationInv'  BY <1>1, <1>3, CreationKept DEF Creating
<1>9. RegisteredInv'  BY <1>1, <1>3, Earlier DEF RegisteredInv, Creating
<1>10. StopInv'  BY <1>3 DEF StopInv, Deleting
<1>11. \A t \in Of(cur) : ~handle[t] /\ pc[t] \in {"none", "exited"}
  <2> SUFFICES ASSUME NEW t \in Of(cur)
               PROVE  ~handle[t] /\ pc[t] \in {"none", "exited"}
    OBVIOUS
  <2>1. t \in Threads /\ t[1] = cur /\ t[2] \in Nat /\ t = <<cur, t[2]>> /\ t[2] <= NumThreads[cur]
    BY <1>2, OfStage
  <2>2. CurrentPart(t)  BY <1>1, <2>1, Current
  <2>3. CASE t[2] < idx  BY <1>1, <2>2, <2>3 DEF CurrentPart, GivenUp
  <2>4. CASE t[2] >= idx
    <3>1. idx \in 1 .. NumThreads[cur]  BY <1>2, <2>1, <2>4
    <3>2. ~handle[<<cur, idx>>]  BY <1>2, <3>1, ThreadShape
    <3>3. idx \in idx .. t[2]  BY <1>2, <2>1, <2>4
    <3>4. ~handle[t]  BY <1>1, <2>2, <3>2, <3>3 DEF CurrentPart
    <3>5. t[2] > idx \/ t[2] = idx  BY <1>2, <2>1, <2>4
    <3> QED  BY <1>1, <2>2, <3>4, <3>5 DEF CurrentPart, Fresh, Born
  <2> QED  BY <1>2, <2>1, <2>3, <2>4
<1>12. GoneInv'
  <2>1. cur >= cur  BY <1>2, Shape
  <2>2. stopped[cur]  BY <1>1, <1>2, <2>1, Current
  <2>3. \A t \in Threads : status[t] = "ok" => t[1] < cur  BY <1>1, Earlier
  <2> QED  BY <1>3, <1>11, <2>2, <2>3 DEF GoneInv, Of
<1> QED  BY <1>4, <1>5, <1>6, <1>7, <1>8, <1>9, <1>10, <1>12 DEF IInv

LEMMA JoinFailedStep == ASSUME IInv, JoinFailed PROVE IInv'
<1> DEFINE t == <<cur, idx>>
<1>1. mpc = "unjoin" /\ mpc \in Creating  BY DEF JoinFailed, Creating
<1>2. /\ cur \in Stages /\ gone = {} /\ idx \in Nat /\ idx \in 1 .. NumThreads[cur]
      /\ NumThreads[cur] \in Nat
  BY <1>1, Current, Shape DEF IInv, TypeOK, MainInv
<1>3. t \in Threads /\ t[1] = cur /\ t[2] = idx  BY <1>2, ThreadShape
<1>4. /\ pc[t] = "exited" /\ handle' = [handle EXCEPT ![t] = FALSE]
      /\ mpc' = "unwind" /\ idx' = idx + 1
      /\ UNCHANGED <<cur, mgrLock, registered, gone, stopped, status, stop, pc, emit, at,
                     queue>>
  BY DEF JoinFailed, mgr
<1> HIDE DEF t
<1>5. handle \in [Threads -> BOOLEAN]  BY DEF IInv, TypeOK
<1>6. (\A u \in Threads : u # t => handle'[u] = handle[u]) /\ ~handle'[t]
  BY <1>3, <1>4, <1>5
<1>7. TypeOK'
  <2>1. handle' \in [Threads -> BOOLEAN]  BY <1>4, <1>5
  <2>2. idx' \in Nat  BY <1>2, <1>4
  <2> QED  BY <1>4, <2>1, <2>2 DEF IInv, TypeOK, MainPCs
<1>8. MainInv'
  BY <1>1, <1>2, <1>4 DEF IInv, MainInv, Creating, Stopping, Deleting
<1>9. DropInv'  BY <1>4 DEF DropInv
<1>10. ThreadInv' /\ QueueInv'  BY <1>1, <1>4, Undisturbed DEF Deleting
<1>11. CreationInv'
  <2>1. CurrentInv'
    <3>1. SUFFICES ASSUME NEW u \in Of(cur) PROVE CurrentPart(u)'
      BY <1>4 DEF CurrentInv, Of
    <3>2. u \in Threads /\ u[1] = cur /\ u[2] \in Nat /\ u = <<cur, u[2]>>
          /\ u[2] <= NumThreads[cur]
      BY <1>2, OfStage
    <3>3. CurrentPart(u)  BY <1>1, <3>2, Current
    <3>4. u[2] # idx => u # t  BY <1>3
    <3>5. u[2] < idx => GivenUp(u)'
      BY <1>1, <1>2, <1>4, <1>6, <3>2, <3>3, <3>4 DEF CurrentPart, GivenUp
    <3>6. u[2] > idx => Fresh(u)' \/ Born(u)'
      BY <1>1, <1>2, <1>4, <1>6, <3>2, <3>3, <3>4 DEF CurrentPart, Fresh, Born
    <3>7. u[2] = idx => GivenUp(u)'
      <4>1. u[2] = idx => u = t  BY <3>2 DEF t
      <4>2. u[2] = idx => status[u] = "failed"  BY <1>1, <3>3 DEF CurrentPart
      <4> QED  BY <1>4, <1>6, <4>1, <4>2 DEF GivenUp
    <3>8. handle'[u] => \A i \in idx + 1 .. u[2] : handle'[<<cur, i>>]
      <4> SUFFICES ASSUME handle'[u], NEW i \in idx + 1 .. u[2] PROVE handle'[<<cur, i>>]
        OBVIOUS
      <4>1. u # t => handle[u]  BY <1>6, <3>2
      <4>2. handle[u]  BY <1>6, <4>1
      <4>3. i \in idx .. u[2] /\ i # idx /\ i \in 1 .. NumThreads[cur]  BY <1>2, <3>2
      <4>4. handle[<<cur, i>>]  BY <1>1, <3>3, <4>2, <4>3 DEF CurrentPart
      <4>5. <<cur, i>> \in Threads /\ <<cur, i>> # t  BY <1>2, <4>3, ThreadShape DEF t
      <4> QED  BY <1>6, <4>4, <4>5
    <3>9. u[2] < idx \/ u[2] = idx \/ u[2] = idx + 1 \/ u[2] > idx + 1  BY <1>2, <3>2
    <3>10. /\ u[2] < idx + 1 => GivenUp(u)'
           /\ u[2] >= idx + 1 => Fresh(u)' \/ Born(u)'
      BY <1>2, <3>2, <3>5, <3>6, <3>7, <3>9
    <3>11. /\ u[2] > idx + 1 => u[2] >= idx + 1
           /\ u[2] = idx + 1 => u[2] >= idx + 1
      BY <1>2, <3>2
    <3> QED  BY <1>4, <3>8, <3>10, <3>11 DEF CurrentPart
  <2>2. \A u \in Threads : u[1] # cur => u # t  BY <1>3
  <2> QED  BY <1>1, <1>4, <1>6, <2>1, <2>2, CreationKept
<1>12. RegisteredInv'  BY <1>1, <1>4 DEF IInv, RegisteredInv
<1>13. StopInv'  BY <1>4 DEF StopInv, Deleting
<1>14. GoneInv'  BY <1>2, <1>4 DEF GoneInv
<1> QED  BY <1>7, <1>8, <1>9, <1>10, <1>11, <1>12, <1>13, <1>14 DEF IInv

LEMMA ReleaseThreadStep == ASSUME IInv, ReleaseThread PROVE IInv'
<1> DEFINE t == <<cur, idx>>
<1>1. mpc = "ok" /\ mpc \in Creating  BY DEF ReleaseThread, Creating
<1>2. /\ cur \in Stages /\ gone = {} /\ idx \in Nat /\ idx \in 1 .. NumThreads[cur]
      /\ NumThreads[cur] \in Nat
  BY <1>1, Current, Shape DEF IInv, TypeOK, MainInv
<1>3. t \in Threads /\ t[1] = cur /\ t[2] = idx  BY <1>2, ThreadShape
<1>4. /\ status' = [status EXCEPT ![t] = "ok"]
      /\ mpc' = IF idx < NumThreads[cur] THEN "ok" ELSE "register"
      /\ idx' = IF idx < NumThreads[cur] THEN idx + 1 ELSE 1
      /\ UNCHANGED <<cur, mgrLock, registered, gone, stopped, handle, stop, pc, emit, at,
                     queue>>
  BY <1>1 DEF ReleaseThread, mgr
<1> HIDE DEF t
<1>5. status \in [Threads -> Statuses]  BY DEF IInv, TypeOK
<1>6. (\A u \in Threads : u # t => status'[u] = status[u]) /\ status'[t] = "ok"
  BY <1>3, <1>4, <1>5
<1>7. \A u \in Threads : status[u] = "ok" => status'[u] = "ok"  BY <1>6
<1>8. TypeOK'
  <2>1. status' \in [Threads -> Statuses]  BY <1>4, <1>5 DEF Statuses
  <2>2. idx' \in Nat /\ mpc' \in MainPCs  BY <1>2, <1>4 DEF MainPCs
  <2> QED  BY <1>4, <2>1, <2>2 DEF IInv, TypeOK
<1>9. MainInv'
  <2>1. mpc' \in {"ok", "register"} /\ (mpc' = "ok" => idx' \in 1 .. NumThreads[cur])
    BY <1>2, <1>4
  <2> QED  BY <1>1, <1>4, <2>1 DEF IInv, MainInv, Creating, Stopping, Deleting
<1>10. DropInv'  BY <1>4 DEF DropInv
<1>11. ThreadInv'  BY <1>4, <1>7 DEF IInv, ThreadInv, Running, Of
<1>12. QueueInv'
  <2> SUFFICES ASSUME NEW u \in Threads PROVE QueuePart(u)'  BY DEF QueueInv
  <2>1. QueuePart(u)  BY DEF IInv, QueueInv
  <2> QED  BY <1>1, <1>4, <1>7, <2>1 DEF QueuePart, Handling, NothingInTime, Deleting
<1>13. \A u \in Threads : u[1] = cur => pc[u] # "none"
  BY <1>1, Current DEF CurrentPart
<1>14. CreationInv'
  <2>1. CurrentInv'
    <3>1. SUFFICES ASSUME NEW u \in Of(cur) PROVE CurrentPart(u)'
      BY <1>4 DEF CurrentInv, Of
    <3>2. u \in Threads /\ u[1] = cur /\ u[2] \in Nat /\ u = <<cur, u[2]>>
          /\ u[2] <= NumThreads[cur]
      BY <1>2, OfStage
    <3>3. CurrentPart(u)  BY <1>1, <3>2, Current
    <3>4. u[2] < idx => status'[u] = "ok"  BY <1>1, <1>7, <3>2, <3>3 DEF CurrentPart
    <3>5. u[2] = idx => status'[u] = "ok"
      <4>1. u[2] = idx => u = t  BY <3>2 DEF t
      <4> QED  BY <1>6, <4>1
    <3>6. u[2] > idx => status'[u] = "creating"
      <4>1. u[2] > idx => u # t /\ ~(u[2] < idx)  BY <1>2, <1>3, <3>2
      <4> QED  BY <1>1, <1>6, <3>2, <3>3, <4>1 DEF CurrentPart
    <3>7. CASE idx < NumThreads[cur]
      <4>1. mpc' = "ok" /\ idx' = idx + 1  BY <1>4, <3>7
      <4>2. /\ u[2] < idx + 1 => u[2] < idx \/ u[2] = idx
            /\ ~(u[2] < idx + 1) => u[2] > idx
        BY <1>2, <3>2
      <4> QED  BY <1>4, <1>13, <3>2, <3>4, <3>5, <3>6, <4>1, <4>2 DEF CurrentPart
    <3>8. CASE ~(idx < NumThreads[cur])
      <4>1. mpc' = "register"  BY <1>4, <3>8
      <4>2. u[2] < idx \/ u[2] = idx  BY <1>2, <3>2, <3>8
      <4> QED  BY <1>4, <1>13, <3>2, <3>4, <3>5, <4>1, <4>2 DEF CurrentPart
    <3> QED  BY <3>7, <3>8
  <2>2. \A u \in Threads : u[1] # cur => u # t  BY <1>3
  <2> QED  BY <1>1, <1>3, <1>4, <1>6, <1>7, <1>13, <2>1, <2>2, CreationKept
<1>15. RegisteredInv'  BY <1>1, <1>4 DEF IInv, RegisteredInv
<1>16. StopInv'  BY <1>4 DEF StopInv, Deleting
<1>17. GoneInv'  BY <1>2, <1>4 DEF GoneInv
<1> QED  BY <1>8, <1>9, <1>10, <1>11, <1>12, <1>14, <1>15, <1>16, <1>17 DEF IInv

LEMMA RegisterStep == ASSUME IInv, Register PROVE IInv'
<1> USE DEF Register, ctl
<1>1. mpc = "register" /\ mpc \in Creating  BY DEF Creating
<1>2. /\ cur \in Stages /\ gone = {} /\ Len(registered) = cur - 1
      /\ registered \in Seq(Stages) /\ cur \in Nat /\ cur <= Len(NumThreads)
  BY <1>1, Current, Shape DEF IInv, TypeOK
<1>3. /\ registered' \in Seq(Stages) /\ Len(registered') = cur /\ registered'[cur] = cur
      /\ \A i \in 1 .. cur - 1 : registered'[i] = registered[i]
  <2>1. registered' = Append(registered, cur)  OBVIOUS
  <2>2. cur = Len(registered) + 1  BY <1>2
  <2> QED  BY <1>2, <2>1, <2>2
<1>4. cur' = cur + 1 /\ (mpc' = "up" \/ (mpc' = "create" /\ cur + 1 \in Stages))
  <2> DEFINE last == Len(NumThreads)
  <2>1. cur' = cur + 1 /\ mpc' = IF cur = last THEN "up" ELSE "create"  OBVIOUS
  <2>2. last \in Nat /\ Stages = 1 .. last /\ cur <= last  BY <1>2, Shape
  <2> HIDE DEF last, Register
  <2>3. cur # last => cur + 1 \in Stages  BY <1>2, <2>2
  <2> QED  BY <2>1, <2>3
<1>5. TypeOK'
  <2>1. stopped' \in [Stages -> BOOLEAN]  BY DEF IInv, TypeOK
  <2>2. cur' \in 1 .. Len(NumThreads) + 1 /\ mpc' \in MainPCs
    BY <1>2, <1>4, Shape DEF MainPCs
  <2> QED  BY <1>3, <2>1, <2>2 DEF IInv, TypeOK
<1>6. MainInv'
  <2>1. \A s \in Stages : s >= cur + 1 => stopped'[s]
    <3> SUFFICES ASSUME NEW s \in Stages, s >= cur + 1 PROVE stopped'[s]  OBVIOUS
    <3>1. s >= cur /\ s # cur  BY <1>2, Shape
    <3>2. stopped[s]  BY <1>1, <3>1, Current
    <3> QED  BY <3>1, <3>2 DEF IInv, TypeOK
  <2>2. cur = (cur + 1) - 1  BY <1>2
  <2>3. mpc' \in Creating => cur' \in Stages  BY <1>4 DEF Creating
  <2> QED  BY <1>2, <1>3, <1>4, <2>1, <2>2, <2>3, Shape
           DEF MainInv, Creating, Stopping, Deleting
<1>7. DropInv'  BY <1>4 DEF DropInv
<1>8. ThreadInv' /\ QueueInv'  BY <1>1, Undisturbed DEF Deleting
<1>9. \A t \in Threads : t[1] < cur + 1 => status[t] = "ok"
  <2> SUFFICES ASSUME NEW t \in Threads, t[1] < cur + 1 PROVE status[t] = "ok"  OBVIOUS
  <2>1. t[1] < cur \/ t[1] = cur  BY <1>2, ThreadShape, Shape
  <2> QED  BY <1>1, <2>1, Current DEF CurrentPart
<1>10. CreationInv'
  <2>1. \A t \in Threads : t[1] > cur => Fresh(t)  BY <1>1, Current
  <2>2. \A t \in Threads : t[1] > cur + 1 => t[1] > cur  BY <1>2, ThreadShape, Shape
  <2>3. mpc' = "create" => CurrentInv'
    <3>1. SUFFICES ASSUME mpc' = "create", NEW t \in Threads, t[1] = cur + 1
                   PROVE  CurrentPart(t)'
      BY <1>4 DEF CurrentInv, Of
    <3>2. Fresh(t)  BY <1>2, <2>1, <3>1
    <3> QED  BY <3>1, <3>2 DEF CurrentPart, Fresh
  <2> QED  BY <1>4, <1>9, <2>1, <2>2, <2>3 DEF IInv, CreationInv, Creating, Fresh
<1>11. \A s \in Stages : s < cur + 1 => \E i \in 1 .. Len(registered') : registered'[i] = s
  <2> SUFFICES ASSUME NEW s \in Stages, s < cur + 1
               PROVE  \E i \in 1 .. cur : registered'[i] = s
    BY <1>3
  <2>1. CASE s = cur  BY <1>2, <1>3, <2>1
  <2>2. CASE s < cur
    <3>1. PICK i \in 1 .. cur - 1 : registered[i] = s  BY <1>1, <1>2, <2>2, Current
    <3>2. i \in 1 .. cur /\ registered'[i] = s  BY <1>2, <1>3, <3>1
    <3> QED  BY <3>2
  <2> QED  BY <1>2, <2>1, <2>2, Shape
<1>12. RegisteredInv'
  <2>1. \A t \in Threads : status[t] = "ok" => t[1] \in Stages /\ t[1] < cur + 1
    <3> SUFFICES ASSUME NEW t \in Threads, status[t] = "ok"
                 PROVE  t[1] \in Stages /\ t[1] < cur + 1
      OBVIOUS
    <3>1. ~(t[1] > cur)  BY <1>1, Current DEF Fresh
    <3> QED  BY <1>2, <3>1, ThreadShape, Shape
  <2> QED  BY <1>4, <1>11, <2>1 DEF RegisteredInv
<1>13. StopInv'  BY <1>4 DEF StopInv, Deleting
<1>14. GoneInv'  BY <1>2 DEF GoneInv
<1> QED  BY <1>5, <1>6, <1>7, <1>8, <1>10, <1>12, <1>13, <1>14 DEF IInv

-----------------------------------------------------------------------------
(* The steps of stop_all *)

(* The visited thread. *)
LEMMA VisitedThread ==
  ASSUME IInv, mpc \in Stopping
  PROVE  /\ cur \in 1 .. Len(registered) /\ Len(registered) \in Nat /\ cur \in Nat
         /\ registered[cur] \in Stages /\ idx \in 1 .. NumThreads[registered[cur]]
         /\ idx \in Nat /\ NumThreads[registered[cur]] \in Nat
         /\ Visited \in Threads /\ Visited[1] = registered[cur] /\ Visited[2] = idx
<1>1. cur \in 1 .. Len(registered) /\ idx \in 1 .. NumThreads[registered[cur]]
  BY DEF IInv, MainInv
<1>2. registered \in Seq(Stages) /\ idx \in Nat  BY DEF IInv, TypeOK
<1>3. registered[cur] \in Stages /\ Len(registered) \in Nat  BY <1>1, <1>2
<1> QED  BY <1>1, <1>2, <1>3, Shape, ThreadShape DEF Visited

(* The next thread to visit, or the next phase. *)
LEMMA Advances ==
  ASSUME IInv, mpc \in {"signal", "join"}, NEW phase \in {"join", "drain"}, Advance(phase),
         registered' = registered
  PROVE  /\ mpc' \in {mpc, phase} /\ idx' \in Nat /\ cur' \in Nat
         /\ cur' \in 1 .. Len(registered) /\ idx' \in 1 .. NumThreads[registered[cur']]
         /\ \/ mpc' = mpc /\ cur' = cur /\ idx' = idx + 1
            \/ mpc' = mpc /\ cur' = cur + 1 /\ idx' = 1 /\ idx = NumThreads[registered[cur]]
            \/ mpc' = phase /\ cur' = 1 /\ idx' = 1 /\ idx = NumThreads[registered[cur]]
               /\ cur = Len(registered)
<1>1. mpc \in Stopping  BY DEF Stopping
<1>2. registered \in Seq(Stages)  BY DEF IInv, TypeOK
<1> DEFINE n == NumThreads[registered[cur]]
           length == Len(registered)
<1>3. cur \in 1 .. length /\ length \in Nat /\ idx \in 1 .. n /\ n \in Nat /\ idx \in Nat
      /\ cur \in Nat
  BY <1>1, VisitedThread
<1>4. \A i \in 1 .. length : NumThreads[registered[i]] \in Nat /\ NumThreads[registered[i]] >= 1
  <2> SUFFICES ASSUME NEW i \in 1 .. length
               PROVE  NumThreads[registered[i]] \in Nat /\ NumThreads[registered[i]] >= 1
    OBVIOUS
  <2>1. registered[i] \in Stages  BY <1>2
  <2> QED  BY <2>1, Shape
<1>5. \/ idx < n /\ mpc' = mpc /\ cur' = cur /\ idx' = idx + 1
      \/ ~(idx < n) /\ cur < length /\ mpc' = mpc /\ cur' = cur + 1 /\ idx' = 1
      \/ ~(idx < n) /\ ~(cur < length) /\ mpc' = phase /\ cur' = 1 /\ idx' = 1
  BY DEF Advance
<1> HIDE DEF n, length
<1>6. CASE idx < n /\ mpc' = mpc /\ cur' = cur /\ idx' = idx + 1
  <2>1. idx + 1 \in 1 .. n /\ idx + 1 \in Nat  BY <1>3, <1>6
  <2> QED  BY <1>3, <1>6, <2>1 DEF n, length
<1>7. CASE ~(idx < n) /\ cur < length /\ mpc' = mpc /\ cur' = cur + 1 /\ idx' = 1
  <2>1. idx = n /\ cur + 1 \in 1 .. length /\ cur + 1 \in Nat  BY <1>3, <1>7
  <2>2. 1 \in 1 .. NumThreads[registered[cur + 1]]  BY <1>4, <2>1
  <2> QED  BY <1>3, <1>7, <2>1, <2>2 DEF n, length
<1>8. CASE ~(idx < n) /\ ~(cur < length) /\ mpc' = phase /\ cur' = 1 /\ idx' = 1
  <2>1. idx = n /\ cur = length /\ 1 \in 1 .. length  BY <1>3, <1>8
  <2>2. 1 \in 1 .. NumThreads[registered[1]]  BY <1>4, <2>1
  <2> QED  BY <1>3, <1>8, <2>1, <2>2 DEF n, length
<1> QED  BY <1>5, <1>6, <1>7, <1>8

(* Once the stages are complete, or have been given up, nothing of what    *)
(* concerns their creation changes.                                        *)
LEMMA CreationDone ==
  ASSUME IInv, UNCHANGED <<status, pc>>, mpc' \notin Creating
  PROVE  CreationInv'
BY DEF IInv, CreationInv

LEMMA StopAllStep == ASSUME IInv, StopAll PROVE IInv'
<1> USE DEF StopAll, ctl
<1>1. mpc = "up" /\ cur' = 1 /\ idx' = 1 /\ registered \in Seq(Stages)
  BY DEF IInv, TypeOK
<1>2. \/ mpc' = "done" /\ registered = <<>> /\ UNCHANGED mgrLock
      \/ mpc' = "signal" /\ registered # <<>> /\ mgrLock' = TRUE
  OBVIOUS
<1>3. TypeOK'
  <2>1. 1 \in 1 .. Len(NumThreads) + 1  BY Shape
  <2>2. mpc' \in MainPCs /\ mgrLock' \in BOOLEAN  BY <1>2 DEF IInv, TypeOK, MainPCs
  <2> QED  BY <1>1, <2>1, <2>2 DEF IInv, TypeOK
<1>4. MainInv'
  <2>1. registered # <<>> => Len(registered) >= 1 /\ registered[1] \in Stages
    BY <1>1
  <2>2. registered # <<>> => 1 \in 1 .. Len(registered) /\ 1 \in 1 .. NumThreads[registered[1]]
    BY <1>1, <2>1, Shape
  <2> QED  BY <1>1, <1>2, <2>2 DEF IInv, MainInv, Creating, Stopping, Deleting
<1>5. DropInv'  BY <1>2 DEF DropInv
<1>6. ThreadInv' /\ QueueInv'  BY <1>1, Undisturbed DEF Deleting
<1>7. CreationInv'  BY <1>2, CreationDone DEF Creating
<1>8. RegisteredInv'  BY <1>1, <1>2 DEF IInv, RegisteredInv, Creating
<1>9. StopInv'
  <2>1. registered = <<>> => 1 .. Len(registered) = {}  BY <1>1
  <2>2. registered = <<>> => \A t \in Threads : status[t] # "ok"
    BY <1>1, <2>1 DEF IInv, RegisteredInv
  <2> QED  BY <1>2, <2>2 DEF StopInv, Deleting
<1>10. GoneInv'  BY <1>1, <1>2 DEF IInv, GoneInv, Of, Deleting
<1> QED  BY <1>3, <1>4, <1>5, <1>6, <1>7, <1>8, <1>9, <1>10 DEF IInv

LEMMA SignalStopStep == ASSUME IInv, SignalStop PROVE IInv'
<1>1. /\ mpc = "signal" /\ stop' = [stop EXCEPT ![Visited] = TRUE] /\ Advance("join")
      /\ UNCHANGED <<mgrLock, registered, gone, stopped, status, handle, pc, emit, at, queue>>
  BY DEF SignalStop, mgr
<1>2. /\ mpc' \in {"signal", "join"} /\ idx' \in Nat /\ cur' \in 1 .. Len(registered)
      /\ idx' \in 1 .. NumThreads[registered[cur']]
      /\ mpc' = "join" => cur' = 1 /\ idx' = 1
  BY <1>1, Advances
<1>3. Len(registered) <= Len(NumThreads) /\ Len(registered) \in Nat /\ Len(NumThreads) \in Nat
  BY Shape DEF IInv, MainInv, TypeOK
<1>4. TypeOK'
  <2>1. stop' \in [Threads -> BOOLEAN]  BY <1>1 DEF IInv, TypeOK
  <2>2. cur' \in 1 .. Len(NumThreads) + 1  BY <1>2, <1>3
  <2> QED  BY <1>1, <1>2, <2>1, <2>2 DEF IInv, TypeOK, MainPCs
<1>5. MainInv'
  BY <1>1, <1>2, <1>3 DEF MainInv, Creating, Stopping, Deleting
<1>6. DropInv'  BY <1>2 DEF DropInv
<1>7. ThreadInv' /\ QueueInv'  BY <1>1, Undisturbed DEF Deleting
<1>8. CreationInv'  BY <1>1, <1>2, CreationDone DEF Creating
<1>9. RegisteredInv'  BY <1>1, <1>2 DEF IInv, RegisteredInv, Creating
<1>10. StopInv'
  <2>1. \A s : Of(s)' = Of(s)  BY DEF Of
  <2>2. 1 .. 1 - 1 = {} /\ ~(1 > 1)  OBVIOUS
  <2>3. mpc' = "join" => \A t \in Of(registered[1]) : ~(t[2] < 1)
    BY <1>1, VisitedThread, OfStage, ThreadShape, Shape DEF Stopping
  <2> QED  BY <1>1, <1>2, <2>1, <2>2, <2>3 DEF StopInv, Deleting
<1>11. GoneInv'  BY <1>1, <1>2 DEF IInv, GoneInv, Of, Deleting
<1> QED  BY <1>4, <1>5, <1>6, <1>7, <1>8, <1>9, <1>10, <1>11 DEF IInv

LEMMA WaitForStopStep == ASSUME IInv, WaitForStop PROVE IInv'
<1>0. PICK here \in Stages, v \in Threads : here = registered[cur] /\ v = Visited
  BY VisitedThread DEF WaitForStop, Stopping
<1>1. /\ mpc = "join" /\ pc[v] = "exited" /\ Advance("drain")
      /\ stopped' = [stopped EXCEPT ![here] = TRUE]
      /\ handle' = [handle EXCEPT ![v] = FALSE]
      /\ UNCHANGED <<mgrLock, registered, gone, status, stop, pc, emit, at, queue>>
  BY <1>0 DEF WaitForStop
<1>2. /\ mpc' \in {"join", "drain"} /\ idx' \in Nat /\ cur' \in 1 .. Len(registered)
      /\ idx' \in 1 .. NumThreads[registered[cur']]
      /\ \/ mpc' = "join" /\ cur' = cur /\ idx' = idx + 1
         \/ mpc' = "join" /\ cur' = cur + 1 /\ idx' = 1 /\ idx = NumThreads[here]
         \/ mpc' = "drain" /\ cur' = 1 /\ idx' = 1 /\ idx = NumThreads[here]
            /\ cur = Len(registered)
  BY <1>0, <1>1, Advances
<1>3. /\ cur \in 1 .. Len(registered) /\ Len(registered) \in Nat /\ cur \in Nat
      /\ here \in Stages /\ idx \in Nat /\ NumThreads[here] \in Nat
      /\ v \in Threads /\ v = <<here, idx>>
  BY <1>0, <1>1, VisitedThread DEF Stopping, Visited
<1>4. Len(registered) <= Len(NumThreads) /\ Len(NumThreads) \in Nat
  BY Shape DEF IInv, MainInv
<1>5. stopped \in [Stages -> BOOLEAN] /\ handle \in [Threads -> BOOLEAN]
  BY DEF IInv, TypeOK
<1>6. /\ \A t \in Threads : Left(t) => Left(t)'
      /\ Left(v)' /\ stopped'[here]
  <2>1. \A t \in Threads : handle'[t] = IF t = v THEN FALSE ELSE handle[t]
    BY <1>1, <1>5
  <2>2. stopped'[here]  BY <1>1, <1>3, <1>5
  <2> QED  BY <1>1, <2>1, <2>2 DEF Left
<1>7. \A s \in Stages : stopped[s] => stopped'[s]  BY <1>1, <1>3, <1>5
<1>8. TypeOK'
  <2>1. stopped' \in [Stages -> BOOLEAN]  BY <1>1, <1>5
  <2>2. handle' \in [Threads -> BOOLEAN]  BY <1>1, <1>5
  <2>3. cur' \in 1 .. Len(NumThreads) + 1  BY <1>2, <1>3, <1>4
  <2> QED  BY <1>1, <1>2, <2>1, <2>2, <2>3 DEF IInv, TypeOK, MainPCs
<1>9. MainInv'
  <2>1. mpc' = "drain" => cur' = 1  BY <1>2
  <2> QED  BY <1>1, <1>2, <1>4, <2>1 DEF MainInv, Creating, Stopping, Deleting
<1>10. DropInv'  BY <1>2 DEF DropInv
<1>11. CreationInv'  BY <1>1, <1>2, CreationDone DEF Creating
<1>12. RegisteredInv'  BY <1>1, <1>2 DEF IInv, RegisteredInv, Creating
<1>13. \A i \in 1 .. Len(registered) : registered[i] \in Stages
  BY DEF IInv, TypeOK
<1>14. \A i \in 1 .. cur - 1 : Joined(registered[i])'
  <2> SUFFICES ASSUME NEW i \in 1 .. cur - 1 PROVE Joined(registered[i])'  OBVIOUS
  <2>1. Joined(registered[i])  BY <1>1 DEF IInv, StopInv
  <2>2. registered[i] \in Stages  BY <1>3, <1>13
  <2> QED  BY <1>1, <1>6, <1>7, <2>1, <2>2, OfStage DEF Joined, Of
<1>15. \A t \in Threads : t[1] = here /\ t[2] < idx + 1 => Left(t)'
  <2> SUFFICES ASSUME NEW t \in Threads, t[1] = here, t[2] < idx + 1 PROVE Left(t)'
    OBVIOUS
  <2>1. t = <<here, t[2]>> /\ t[2] \in Nat  BY <1>3, ThreadShape, Shape
  <2>2. t[2] < idx => Left(t)  BY <1>0, <1>1 DEF IInv, StopInv, Of
  <2>3. CASE t[2] < idx  BY <1>1, <2>2, <2>3, <1>6 DEF Left
  <2>4. CASE t[2] = idx
    <3>1. t = v  BY <1>3, <2>1, <2>4
    <3> QED  BY <1>6, <3>1
  <2> QED  BY <1>3, <2>1, <2>3, <2>4
<1>16. idx = NumThreads[here] => Joined(here)'
  <2> SUFFICES ASSUME idx = NumThreads[here], NEW t \in Threads, t[1] = here PROVE Left(t)'
    BY <1>6 DEF Joined, Of
  <2>1. t[2] < idx + 1  BY <1>3, ThreadShape, Shape
  <2> QED  BY <1>15, <2>1
<1>17. StopInv'
  <2>1. CASE mpc' = "join" /\ cur' = cur /\ idx' = idx + 1
    <3>1. registered'[cur'] = here  BY <1>0, <1>1, <2>1
    <3>4. /\ \A i \in 1 .. cur' - 1 : Joined(registered[i])'
          /\ stopped'[registered'[cur']]
      BY <1>6, <1>14, <2>1, <3>1
    <3>5. \A t \in Of(registered[cur])' : t[2] < idx' => Left(t)'
      BY <1>15, <2>1, <3>1 DEF Of
    <3> QED  BY <2>1, <3>4, <3>5 DEF StopInv, Deleting
  <2>2. CASE mpc' = "join" /\ cur' = cur + 1 /\ idx' = 1 /\ idx = NumThreads[here]
    <3>1. \A i \in 1 .. cur' - 1 : Joined(registered[i])'
      <4> SUFFICES ASSUME NEW i \in 1 .. cur' - 1 PROVE Joined(registered[i])'  OBVIOUS
      <4>1. i \in 1 .. cur - 1 \/ i = cur  BY <1>3, <2>2
      <4>2. CASE i = cur  BY <1>0, <1>1, <1>16, <2>2, <4>2 DEF Joined, Of, Left
      <4> QED  BY <1>14, <4>1, <4>2
    <3>2. \A t \in Threads : ~(t[2] < idx')  BY <2>2, ThreadShape, Shape
    <3> QED  BY <2>2, <3>1, <3>2 DEF StopInv, Deleting, Of
  <2>3. CASE mpc' = "drain" /\ cur' = 1 /\ idx' = 1 /\ idx = NumThreads[here]
             /\ cur = Len(registered)
    <3>1. \A i \in 1 .. Len(registered) : Joined(registered[i])'
      <4> SUFFICES ASSUME NEW i \in 1 .. Len(registered) PROVE Joined(registered[i])'
        OBVIOUS
      <4>1. i \in 1 .. cur - 1 \/ i = cur  BY <1>3, <2>3
      <4>2. CASE i = cur  BY <1>0, <1>1, <1>16, <2>3, <4>2 DEF Joined, Of, Left
      <4> QED  BY <1>14, <4>1, <4>2
    <3>2. \A t \in Threads : status[t] = "ok" => pc[t] = "exited"
      <4> SUFFICES ASSUME NEW t \in Threads, status[t] = "ok" PROVE pc[t] = "exited"
        OBVIOUS
      <4>1. PICK i \in 1 .. Len(registered) : registered[i] = t[1]
        BY <1>1 DEF IInv, RegisteredInv
      <4>2. Joined(registered[i])'  BY <3>1
      <4> QED  BY <1>1, <4>1, <4>2 DEF Joined, Of, Left
    <3> QED  BY <1>1, <2>3, <3>1, <3>2 DEF StopInv, Deleting
  <2> QED  BY <1>2, <2>1, <2>2, <2>3
<1>18. GoneInv'
  <2> SUFFICES ASSUME NEW s \in gone
               PROVE  /\ stopped'[s]
                      /\ \A t \in Threads : t[1] = s =>
                            ~handle'[t] /\ pc[t] \in {"none", "exited"}
                      /\ \A t \in Threads : status[t] = "ok" => t[1] < s
    BY <1>1 DEF GoneInv, Of
  <2>1. s \in Stages /\ stopped[s]  BY DEF IInv, TypeOK, GoneInv
  <2>2. \A t \in Threads : t[1] = s => ~handle[t] /\ pc[t] \in {"none", "exited"}
    BY DEF IInv, GoneInv, Of
  <2>3. \A t \in Threads : status[t] = "ok" => t[1] < s
    BY <1>1 DEF IInv, GoneInv, Deleting
  <2>4. \A t \in Threads : ~handle[t] => ~handle'[t]  BY <1>1, <1>5
  <2> QED  BY <1>7, <2>1, <2>2, <2>3, <2>4
<1>19. ThreadInv' /\ QueueInv'  BY <1>1, Undisturbed DEF Deleting
<1> QED  BY <1>8, <1>9, <1>10, <1>11, <1>12, <1>17, <1>18, <1>19 DEF IInv

(* The rest of what holds while stages are deleted.                        *)
LEMMA DeletingKept ==
  ASSUME IInv, mpc \in Deleting, mpc' \in Deleting,
         UNCHANGED <<registered, gone, stopped, status, handle, pc>>
  PROVE  CreationInv' /\ RegisteredInv' /\ StopInv' /\ GoneInv'
<1>1. CreationInv'  BY CreationDone DEF Creating, Deleting
<1>2. RegisteredInv'  BY DEF RegisteredInv, Creating, Deleting
<1>3. \A s : Joined(s) => Joined(s)'  BY DEF Joined, Of, Left
<1>4. StopInv'  BY <1>3 DEF IInv, StopInv, Deleting
<1>5. GoneInv'  BY DEF IInv, GoneInv, Of, Deleting
<1> QED  BY <1>1, <1>2, <1>4, <1>5

LEMMA DrainStep == ASSUME IInv, Drain PROVE IInv'
<1> DEFINE n == NumThreads[registered[cur]]
<1>1. /\ mpc = "drain" /\ mpc \in Deleting /\ mpc \in Stopping
      /\ UNCHANGED <<cur, mgr, ctl, pc, emit, at, queue>>
  BY DEF Drain, Deleting, Stopping
<1>2. /\ idx \in 1 .. n /\ idx \in Nat /\ n \in Nat /\ cur \in 1 .. Len(registered) /\ cur = 1
  BY <1>1, VisitedThread DEF IInv, MainInv
<1>3. \/ mpc' = "drop" /\ idx' = idx /\ queue[Visited] # <<>> /\ Head(queue[Visited]).committed
      \/ mpc' = "drain" /\ idx' = idx + 1 /\ idx < n
      \/ mpc' = "delete" /\ idx' = 1
  BY <1>1 DEF Drain
<1> HIDE DEF n
<1>4. mpc' \in Deleting /\ idx' \in 1 .. n /\ idx' \in Nat  BY <1>2, <1>3 DEF Deleting
<1> USE DEF mgr, ctl
<1>5. TypeOK'  BY <1>1, <1>4 DEF IInv, TypeOK, MainPCs, Deleting
<1>6. MainInv'
  BY <1>1, <1>2, <1>3, <1>4 DEF IInv, MainInv, Creating, Stopping, Deleting, n
<1>7. DropInv'  BY <1>1, <1>3 DEF DropInv, Visited
<1>8. ThreadInv' /\ QueueInv'  BY <1>1, <1>4, Undisturbed
<1>9. CreationInv' /\ RegisteredInv' /\ StopInv' /\ GoneInv'  BY <1>1, <1>4, DeletingKept
<1> QED  BY <1>5, <1>6, <1>7, <1>8, <1>9 DEF IInv

LEMMA DropStep == ASSUME IInv, Drop PROVE IInv'
<1>1. /\ mpc = "drop" /\ mpc' = "drain" /\ mpc \in Deleting /\ mpc' \in Deleting
      /\ mpc \in Stopping
      /\ queue' = [queue EXCEPT ![Visited] = Tail(@)]
      /\ UNCHANGED <<cur, idx, mgr, ctl, pc, emit, at>>
  BY DEF Drop, Deleting, Stopping
<1>2. Visited \in Threads /\ queue[Visited] # <<>> /\ queue \in [Threads -> Seq(Event)]
  BY <1>1, VisitedThread DEF IInv, DropInv, TypeOK
<1> USE DEF mgr, ctl
<1>3. TypeOK'
  <2>1. Tail(queue[Visited]) \in Seq(Event)  BY <1>2
  <2>2. queue' \in [Threads -> Seq(Event)]  BY <1>1, <1>2, <2>1
  <2> QED  BY <1>1, <2>2 DEF IInv, TypeOK, MainPCs
<1>4. MainInv'  BY <1>1 DEF IInv, MainInv, Creating, Stopping, Deleting
<1>5. DropInv'  BY <1>1 DEF DropInv
<1>6. ThreadInv'  BY <1>1 DEF IInv, ThreadInv, Running, Of
<1>7. QueueInv'
  <2> SUFFICES ASSUME NEW t \in Threads PROVE QueuePart(t)'  BY DEF QueueInv
  <2>1. QueuePart(t)  BY DEF IInv, QueueInv
  <2>2. ~Handling(t)
    BY <1>1 DEF IInv, ThreadInv, StopInv, Running, Handling
  <2>3. t # Visited => queue'[t] = queue[t]  BY <1>1, <1>2
  <2>4. status[Visited] = "ok"  BY <1>2 DEF IInv, QueueInv, QueuePart
  <2> QED  BY <1>1, <2>1, <2>2, <2>3, <2>4 DEF QueuePart, Handling
<1>8. CreationInv' /\ RegisteredInv' /\ StopInv' /\ GoneInv'  BY <1>1, DeletingKept
<1> QED  BY <1>3, <1>4, <1>5, <1>6, <1>7, <1>8 DEF IInv

LEMMA DeleteStageStep == ASSUME IInv, DeleteStage PROVE IInv'
<1>1. /\ mpc = "delete" /\ mpc \in Deleting /\ mpc \in Stopping
      /\ gone' = gone \cup {Head(registered)} /\ registered' = Tail(registered)
      /\ \/ Len(registered) > 1 /\ mpc' = "drain" /\ UNCHANGED mgrLock
         \/ mpc' = "done" /\ mgrLock' = FALSE
      /\ UNCHANGED <<cur, idx, stopped, ctl, pc, emit, at, queue>>
  BY DEF DeleteStage, Deleting, Stopping
<1>2. /\ registered \in Seq(Stages) /\ Len(registered) \in Nat /\ Len(registered) >= 1
      /\ cur = 1
  BY <1>1, VisitedThread DEF IInv, TypeOK, MainInv
<1>3. /\ registered # <<>> /\ Head(registered) = registered[1] /\ registered[1] \in Stages
      /\ registered' \in Seq(Stages) /\ Len(registered') = Len(registered) - 1
      /\ \A i \in 1 .. Len(registered) - 1 : registered'[i] = registered[i + 1]
  BY <1>1, <1>2
<1>4. mpc' \in {"drain", "done"} /\ mgrLock' \in BOOLEAN  BY <1>1 DEF IInv, TypeOK
<1> USE DEF ctl
<1>5. TypeOK'
  <2>1. gone' \subseteq Stages  BY <1>1, <1>3 DEF IInv, TypeOK
  <2> QED  BY <1>1, <1>3, <1>4, <2>1 DEF IInv, TypeOK, MainPCs
<1>6. MainInv'
  <2>1. Len(registered') <= Len(NumThreads)
    BY <1>2, <1>3, Shape DEF IInv, MainInv
  <2>2. mpc' = "drain" => 1 \in 1 .. Len(registered')  BY <1>1, <1>2, <1>3
  <2>3. mpc' = "drain" => idx \in 1 .. NumThreads[registered'[1]]
    <3>1. idx = 1  BY <1>1 DEF IInv, MainInv
    <3>2. mpc' = "drain" => registered'[1] \in Stages  BY <1>3, <2>2
    <3> QED  BY <3>1, <3>2, Shape
  <2> QED  BY <1>1, <1>2, <1>4, <2>1, <2>2, <2>3 DEF MainInv, Creating, Stopping, Deleting
<1>7. DropInv'  BY <1>4 DEF DropInv
<1>8. ThreadInv' /\ QueueInv'  BY <1>1, <1>4, Undisturbed DEF Deleting
<1>9. CreationInv'  BY <1>1, <1>4, CreationDone DEF Creating
<1>10. RegisteredInv'  BY <1>4 DEF RegisteredInv, Creating
<1>11. \A i \in 1 .. Len(registered) : Joined(registered[i])  BY <1>1 DEF IInv, StopInv
<1>12. \A s : Joined(s) => Joined(s)'  BY <1>1 DEF Joined, Of, Left
<1>13. StopInv'
  <2>1. \A i \in 1 .. Len(registered') : Joined(registered'[i])
    <3> SUFFICES ASSUME NEW i \in 1 .. Len(registered') PROVE Joined(registered'[i])
      OBVIOUS
    <3>1. i \in 1 .. Len(registered) - 1 /\ i + 1 \in 1 .. Len(registered)  BY <1>2, <1>3
    <3> QED  BY <1>3, <1>11, <3>1
  <2>2. \A t \in Threads : status[t] = "ok" => pc[t] = "exited"  BY <1>1 DEF IInv, StopInv
  <2>3. \A i \in 1 .. Len(registered') : stopped[registered'[i]]
          /\ \A t \in Of(registered'[i]) : ~handle[t] /\ pc[t] = "exited"
    BY <2>1 DEF Joined, Left
  <2> QED  BY <1>1, <1>4, <2>2, <2>3 DEF StopInv, Deleting, Joined, Of, Left
<1>14. GoneInv'
  <2>1. Joined(Head(registered))  BY <1>2, <1>3, <1>11
  <2>2. \A s \in gone' : stopped[s] /\ \A t \in Of(s) : ~handle[t] /\ pc[t] \in {"none", "exited"}
    BY <1>1, <2>1 DEF IInv, GoneInv, Joined, Left
  <2> QED  BY <1>1, <1>4, <2>2 DEF GoneInv, Of, Deleting
<1> QED  BY <1>5, <1>6, <1>7, <1>8, <1>9, <1>10, <1>13, <1>14 DEF IInv

-----------------------------------------------------------------------------
(* The theorems *)

LEMMA NextInv == ASSUME IInv, [Next]_vars PROVE IInv'
<1>1. CASE \E t \in Threads : StageThread(t)  BY <1>1, ThreadStep
<1>2. CASE Create
  BY <1>2, CreateHandlersStep, StartThreadStep, FailStartStep, UnwindThread, UnwindEnds,
     JoinFailedStep, ReleaseThreadStep, RegisterStep DEF Create
<1>3. CASE StopAll  BY <1>3, StopAllStep
<1>4. CASE Stop
  BY <1>4, SignalStopStep, WaitForStopStep, DrainStep, DropStep, DeleteStageStep DEF Stop
<1>5. CASE UNCHANGED vars
  <2> USE <1>5 DEF vars
  <2>1. TypeOK' /\ MainInv' /\ DropInv' /\ RegisteredInv'
    BY DEF IInv, TypeOK, MainInv, DropInv, RegisteredInv, Visited
  <2>2. ThreadInv' /\ QueueInv'  BY Undisturbed
  <2>3. ThreadFrame
    BY DEF ThreadFrame, main, mgr, ctl, IInv, ThreadInv, Running
  <2>4. CreationInv' /\ StopInv' /\ GoneInv'  BY <2>3, FrameInv
  <2> QED  BY <2>1, <2>2, <2>4 DEF IInv
<1> QED  BY <1>1, <1>2, <1>3, <1>4, <1>5 DEF Next

(* The invariant holds of every behaviour.                                 *)
THEOREM Invariant == Spec => []IInv
<1>1. Init => IInv  BY InitInv
<1>2. IInv /\ [Next]_vars => IInv'  BY NextInv
<1> QED  BY <1>1, <1>2, PTL DEF Spec

(* The types of all variables: among them, that the queues hold events     *)
(* only and that no destroy_event or pop_event of ~thread_obj meets an     *)
(* empty queue (stage.h:38, :88), whatever the shape of the stages.       *)
THEOREM TypeCorrect == Spec => []TypeOK
<1>1. IInv => TypeOK  BY DEF IInv
<1> QED  BY <1>1, Invariant, PTL

(* A handler only runs when every thread of its stage has been started,    *)
(* and never in a stage that the failure path of create_stage is about to  *)
(* delete (stage.h:280-310), for any number of stages and threads.         *)
THEOREM WholeStages == Spec => []RunsInWholeStage
<1>1. ASSUME IInv PROVE RunsInWholeStage
  <2> SUFFICES ASSUME NEW t \in Threads, Running(t)
               PROVE  /\ \A u \in Of(t[1]) : pc[u] # "none"
                      /\ mpc \in {"unwind", "unjoin"} => cur # t[1]
    BY DEF RunsInWholeStage
  <2>1. status[t] = "ok"  BY <1>1 DEF IInv, ThreadInv
  <2>2. \A u \in Of(t[1]) : pc[u] # "none"  BY <1>1, <2>1 DEF IInv, CreationInv, Of
  <2>3. ASSUME mpc \in {"unwind", "unjoin"} PROVE cur # t[1]
    <3>1. t[1] < cur  BY <1>1, <2>1, <2>3, Earlier
    <3> QED  BY <3>1, ThreadShape, Shape
  <2> QED  BY <2>2, <2>3
<1> QED  BY <1>1, Invariant, PTL

(* A stage is deleted, by the failure path or by stop_all, only when its   *)
(* threads have exited and have been joined, and when no thread that sends *)
(* to it runs any more: what ~stage and ~thread_obj assert and rely on.    *)
THEOREM QuietDeleted == Spec => []DeletesOnlyTheQuiet
<1>1. ASSUME IInv PROVE DeletesOnlyTheQuiet
  <2>1. ASSUME NEW s \in gone
        PROVE  /\ stopped[s]
               /\ \A t \in Of(s) : ~handle[t] /\ ~Running(t)
               /\ \A t \in Threads : Running(t) => Dest[t[1]] # s
    <3>1. stopped[s] /\ \A t \in Of(s) : ~handle[t] /\ ~Running(t)
      BY <1>1, <2>1 DEF IInv, GoneInv, Running
    <3>2. ASSUME NEW t \in Threads, Running(t) PROVE Dest[t[1]] # s
      <4>1. status[t] = "ok" /\ pc[t] # "exited"
        BY <1>1, <3>2 DEF IInv, ThreadInv, Running
      <4>2. t[1] < s  BY <1>1, <2>1, <4>1 DEF IInv, GoneInv, StopInv
      <4>3. s \in Stages  BY <1>1, <2>1 DEF IInv, TypeOK
      <4>4. s \in Nat /\ t[1] \in Stages /\ t[1] \in Nat  BY <4>3, ThreadShape, Shape
      <4>5. Dest[t[1]] \in Nat /\ Dest[t[1]] < t[1]  BY <4>4, Shape
      <4> QED  BY <4>2, <4>4, <4>5
    <3> QED  BY <3>1, <3>2
  <2>2. ASSUME mpc \in {"drain", "drop", "delete"}
        PROVE  /\ stopped[Head(registered)]
               /\ \A t \in Of(Head(registered)) : ~handle[t] /\ ~Running(t)
               /\ \A t \in Threads : Running(t) => Dest[t[1]] # Head(registered)
    <3>1. mpc \in Stopping /\ mpc \in Deleting  BY <2>2 DEF Stopping, Deleting
    <3>2. /\ registered \in Seq(Stages) /\ Len(registered) \in Nat /\ Len(registered) >= 1
      BY <1>1, <3>1, VisitedThread DEF IInv, TypeOK
    <3>3. Head(registered) = registered[1] /\ 1 \in 1 .. Len(registered)  BY <3>2
    <3>4. Joined(Head(registered))  BY <1>1, <3>1, <3>3 DEF IInv, StopInv
    <3>5. \A t \in Threads : ~Running(t)
      BY <1>1, <3>1 DEF IInv, ThreadInv, StopInv, Running
    <3> QED  BY <3>4, <3>5 DEF Joined, Left, Running
  <2> QED  BY <2>1, <2>2 DEF DeletesOnlyTheQuiet
<1> QED  BY <1>1, Invariant, PTL

(* A thread leaves a committed event behind only if it was committed after *)
(* the thread last looked at its queue (stage.h:35-41), for any queues   *)
(* and any number of senders.                                              *)
THEOREM LeftBehindOnlyLate == Spec => []LeftBehindCameLate
<1>1. IInv => LeftBehindCameLate
  BY DEF IInv, QueueInv, QueuePart, NothingInTime, LeftBehindCameLate, Deleting
<1> QED  BY <1>1, Invariant, PTL

-----------------------------------------------------------------------------
(* The queues as channels.  Every queue of every stage is used as          *)
(* EventChannel allows: events are committed one at a time, by the thread  *)
(* that allocated them; they are taken by the queue's own thread, or by    *)
(* ~thread_obj after that has been joined, and given back before the next  *)
(* is taken.                                                               *)

(* The events of a queue that a thread has allocated and not committed.    *)
Owes(q, t) == {i \in DOMAIN q : q[i].from = t /\ ~q[i].committed}

(* A thread owes an event exactly while it is about to commit it.          *)
OwesInv ==
  /\ \A t, o \in Threads : Owes(queue[o], t) # {} => pc[t] = "push" /\ at[t] = o
  /\ \A t \in Threads : pc[t] = "push" => \E i : Owes(queue[at[t]], t) = {i}

-----------------------------------------------------------------------------
(* Queues *)

LEMMA OwesAppended ==
  ASSUME NEW q \in Seq(Event), NEW t \in Threads, NEW u \in Threads
  PROVE  Owes(Append(q, NewEvent(t)), u) =
           IF u = t THEN Owes(q, u) \cup {Len(q) + 1} ELSE Owes(q, u)
<1> DEFINE r == Append(q, NewEvent(t))
<1>1. NewEvent(t) \in Event  BY DEF NewEvent, Event
<1>2. /\ DOMAIN r = 1 .. Len(q) + 1 /\ DOMAIN q = 1 .. Len(q) /\ Len(q) \in Nat
      /\ r[Len(q) + 1] = NewEvent(t) /\ \A i \in 1 .. Len(q) : r[i] = q[i]
  BY <1>1
<1> HIDE DEF r
<1>3. NewEvent(t).from = t /\ ~NewEvent(t).committed  BY DEF NewEvent
<1>4. DOMAIN r = DOMAIN q \cup {Len(q) + 1} /\ Len(q) + 1 \notin DOMAIN q  BY <1>2
<1>5. \A i \in DOMAIN q : r[i] = q[i]  BY <1>2
<1>6. Owes(r, u) = IF u = t THEN Owes(q, u) \cup {Len(q) + 1} ELSE Owes(q, u)
  BY <1>2, <1>3, <1>4, <1>5 DEF Owes
<1> QED  BY <1>6 DEF r

LEMMA OwesPushed ==
  ASSUME NEW q \in Seq(Event), NEW t \in Threads, NEW u \in Threads, NEW when \in BOOLEAN
  PROVE  Owes(Pushed(q, t, when), u) = IF u = t THEN {} ELSE Owes(q, u)
<1> DEFINE r == Pushed(q, t, when)
<1>1. DOMAIN r = DOMAIN q  BY DEF Pushed
<1>2. \A i \in DOMAIN q : q[i] \in Event  OBVIOUS
<1>3. \A i \in DOMAIN q : IF q[i].from = t /\ ~q[i].committed
                          THEN r[i].from = t /\ r[i].committed
                          ELSE r[i] = q[i]
  <2> SUFFICES ASSUME NEW i \in DOMAIN q
               PROVE  IF q[i].from = t /\ ~q[i].committed
                      THEN r[i].from = t /\ r[i].committed
                      ELSE r[i] = q[i]
    OBVIOUS
  <2>1. q[i] \in Event  BY <1>2
  <2>2. r[i] = IF q[i].from = t /\ ~q[i].committed
               THEN [q[i] EXCEPT !.committed = TRUE, !.late = when] ELSE q[i]
    BY DEF Pushed
  <2> QED  BY <2>1, <2>2 DEF Event
<1> HIDE DEF r
<1>4. Owes(r, u) = IF u = t THEN {} ELSE Owes(q, u)  BY <1>1, <1>3 DEF Owes
<1> QED  BY <1>4 DEF r

LEMMA OwesTail ==
  ASSUME NEW q \in Seq(Event), q # <<>>, Head(q).committed, NEW u \in Threads
  PROVE  /\ Owes(Tail(q), u) # {} => Owes(q, u) # {}
         /\ \A i : Owes(q, u) = {i} => \E j : Owes(Tail(q), u) = {j}
<1>1. /\ DOMAIN q = 1 .. Len(q) /\ Len(q) \in Nat /\ Len(q) >= 1
      /\ DOMAIN Tail(q) = 1 .. Len(q) - 1
      /\ \A i \in 1 .. Len(q) - 1 : Tail(q)[i] = q[i + 1]
  OBVIOUS
<1>2. q[1].committed  BY <1>1
<1>3. \A i \in 1 .. Len(q) - 1 : i \in Owes(Tail(q), u) <=> i + 1 \in Owes(q, u)
  BY <1>1 DEF Owes
<1>4. Owes(Tail(q), u) \subseteq 1 .. Len(q) - 1  BY <1>1 DEF Owes
<1>5. Owes(q, u) \subseteq 2 .. Len(q)
  <2> SUFFICES ASSUME NEW i \in Owes(q, u) PROVE i \in 2 .. Len(q)  OBVIOUS
  <2>1. i \in 1 .. Len(q) /\ i # 1  BY <1>1, <1>2 DEF Owes
  <2> QED  BY <1>1, <2>1
<1>6. ASSUME NEW i, Owes(q, u) = {i} PROVE Owes(Tail(q), u) = {i - 1}
  <2>1. i \in 2 .. Len(q) /\ i \in Nat /\ i - 1 \in 1 .. Len(q) - 1 /\ (i - 1) + 1 = i
    BY <1>1, <1>5, <1>6
  <2>2. i - 1 \in Owes(Tail(q), u)  BY <1>3, <1>6, <2>1
  <2>3. ASSUME NEW j \in Owes(Tail(q), u) PROVE j = i - 1
    <3>1. j \in 1 .. Len(q) - 1 /\ j + 1 \in Owes(q, u)  BY <1>3, <1>4, <2>3
    <3>2. j + 1 = i  BY <1>6, <3>1
    <3> QED  BY <1>1, <3>1, <3>2
  <2> QED  BY <2>2, <2>3
<1>7. Owes(Tail(q), u) # {} => Owes(q, u) # {}  BY <1>3, <1>4
<1> QED  BY <1>6, <1>7

-----------------------------------------------------------------------------
(* Events are committed by who allocated them, one at a time. *)

LEMMA InitOwes == Init => OwesInv
<1> SUFFICES ASSUME Init PROVE OwesInv  OBVIOUS
<1>1. \A t, o \in Threads : Owes(queue[o], t) = {}  BY DEF Init, Owes
<1> QED  BY <1>1 DEF Init, OwesInv

(* Steps that do not allocate, commit or destroy an event.                 *)
LEMMA OwesKept ==
  ASSUME OwesInv, UNCHANGED queue,
         \A t \in Threads : pc'[t] = "push" <=> pc[t] = "push",
         \A t \in Threads : pc[t] = "push" => at'[t] = at[t]
  PROVE  OwesInv'
<1>1. \A t, o \in Threads : Owes(queue[o], t) # {} => pc'[t] = "push" /\ at'[t] = o
  BY DEF OwesInv
<1>2. \A t \in Threads : pc'[t] = "push" => \E i : Owes(queue[at'[t]], t) = {i}
  BY DEF OwesInv
<1> QED  BY <1>1, <1>2 DEF OwesInv, Owes

LEMMA AllocateOwes ==
  ASSUME IInv, OwesInv, NEW t \in Threads, AllocateEvent(t)
  PROVE  OwesInv'
<1>1. PICK o \in Threads : o = at[t]  BY AllocatedQueue
<1>2. queue' = [queue EXCEPT ![o] = Append(@, NewEvent(t))]  BY <1>1, AllocatedQueue
<1>3. queue \in [Threads -> Seq(Event)] /\ pc \in [Threads -> PCs]  BY DEF IInv, TypeOK
<1>4. pc[t] = "waiting" /\ pc' = [pc EXCEPT ![t] = "push"] /\ at' = at
  BY DEF AllocateEvent
<1>5. pc'[t] = "push" /\ \A u \in Threads : u # t => pc'[u] = pc[u]  BY <1>3, <1>4
<1>6. queue'[o] = Append(queue[o], NewEvent(t)) /\ queue[o] \in Seq(Event)  BY <1>2, <1>3
<1>7. \A u \in Threads : u # o => queue'[u] = queue[u]  BY <1>2, <1>3
<1>8. \A r \in Threads : Owes(queue[r], t) = {}  BY <1>4 DEF OwesInv
<1>9. Owes(queue'[o], t) = {Len(queue[o]) + 1}
  <2>1. Owes(queue'[o], t) = Owes(queue[o], t) \cup {Len(queue[o]) + 1}
    BY <1>6, OwesAppended
  <2> QED  BY <1>8, <2>1
<1>10. \A u \in Threads : u # t => Owes(queue'[o], u) = Owes(queue[o], u)
  BY <1>6, OwesAppended
<1>11. ASSUME NEW u \in Threads, NEW r \in Threads, Owes(queue'[r], u) # {}
       PROVE  pc'[u] = "push" /\ at'[u] = r
  <2>1. CASE u = t  BY <1>1, <1>4, <1>5, <1>7, <1>8, <1>11, <2>1
  <2>2. CASE u # t
    <3>1. Owes(queue[r], u) # {}  BY <1>7, <1>10, <1>11, <2>2
    <3> QED  BY <1>4, <1>5, <2>2, <3>1 DEF OwesInv
  <2> QED  BY <2>1, <2>2
<1>12. ASSUME NEW u \in Threads, pc'[u] = "push"
       PROVE  \E i : Owes(queue'[at'[u]], u) = {i}
  <2>1. CASE u = t  BY <1>1, <1>4, <1>9, <2>1
  <2>2. CASE u # t
    <3>1. pc[u] = "push" /\ at[u] \in Threads  BY <1>5, <1>12, <2>2, Receiver
    <3>2. Owes(queue'[at[u]], u) = Owes(queue[at[u]], u)  BY <1>7, <1>10, <2>2, <3>1
    <3> QED  BY <1>4, <3>1, <3>2 DEF OwesInv
  <2> QED  BY <2>1, <2>2
<1> HIDE DEF Owes
<1> QED  BY <1>11, <1>12 DEF OwesInv, Owes

LEMMA PushOwes ==
  ASSUME IInv, OwesInv, NEW t \in Threads, PushEvent(t)
  PROVE  OwesInv'
<1>1. PICK o \in Threads, when \in BOOLEAN :
        /\ o = at[t] /\ queue[o] \in Seq(Event)
        /\ queue' = [queue EXCEPT ![o] = Pushed(queue[o], t, when)]
  <2> DEFINE when == pc[at[t]] \in {"check", "on_finish", "exited"}
  <2>1. /\ at[t] \in Threads /\ queue[at[t]] \in Seq(Event) /\ when \in BOOLEAN
        /\ queue' = [queue EXCEPT ![at[t]] = Pushed(queue[at[t]], t, when)]
    BY PushedQueues
  <2> HIDE DEF when
  <2> QED  BY <2>1
<1>2. queue \in [Threads -> Seq(Event)] /\ pc \in [Threads -> PCs]
      /\ at \in [Threads -> Threads \cup {NoThread}]
  BY DEF IInv, TypeOK
<1>3. pc[t] = "push" /\ at' = [at EXCEPT ![t] = NoThread]
      /\ pc' = [pc EXCEPT ![t] = IF emit[t] > 0 THEN "on_start" ELSE "destroy"]
  BY DEF PushEvent
<1>4. pc'[t] # "push" /\ \A u \in Threads : u # t => pc'[u] = pc[u] /\ at'[u] = at[u]
  BY <1>2, <1>3
<1>5. queue'[o] = Pushed(queue[o], t, when)  BY <1>1, <1>2
<1>6. \A u \in Threads : u # o => queue'[u] = queue[u]  BY <1>1, <1>2
<1>7. Owes(queue'[o], t) = {} /\ \A u \in Threads : u # t => Owes(queue'[o], u) = Owes(queue[o], u)
  BY <1>1, <1>5, OwesPushed
<1>8. ASSUME NEW u \in Threads, NEW r \in Threads, Owes(queue'[r], u) # {}
      PROVE  pc'[u] = "push" /\ at'[u] = r
  <2>1. u # t  BY <1>1, <1>6, <1>7, <1>8 DEF OwesInv
  <2>2. Owes(queue[r], u) # {}  BY <1>6, <1>7, <1>8, <2>1
  <2> QED  BY <1>4, <2>1, <2>2 DEF OwesInv
<1>9. ASSUME NEW u \in Threads, pc'[u] = "push"
      PROVE  \E i : Owes(queue'[at'[u]], u) = {i}
  <2>1. u # t /\ pc[u] = "push" /\ at'[u] = at[u] /\ at[u] \in Threads
    BY <1>4, <1>9, Receiver
  <2>2. Owes(queue'[at[u]], u) = Owes(queue[at[u]], u)  BY <1>6, <1>7, <2>1
  <2> QED  BY <2>1, <2>2 DEF OwesInv
<1> QED  BY <1>8, <1>9 DEF OwesInv, Owes

(* The oldest event, which is committed, is given back.                    *)
LEMMA TailOwes ==
  ASSUME IInv, OwesInv, NEW o \in Threads, queue[o] # <<>>, Head(queue[o]).committed,
         queue' = [queue EXCEPT ![o] = Tail(@)], UNCHANGED at,
         \A t \in Threads : pc'[t] = "push" <=> pc[t] = "push"
  PROVE  OwesInv'
<1>1. queue \in [Threads -> Seq(Event)]  BY DEF IInv, TypeOK
<1>2. queue'[o] = Tail(queue[o]) /\ queue[o] \in Seq(Event)  BY <1>1
<1>3. \A u \in Threads : u # o => queue'[u] = queue[u]  BY <1>1
<1>4. \A u \in Threads : /\ Owes(queue'[o], u) # {} => Owes(queue[o], u) # {}
                         /\ \A i : Owes(queue[o], u) = {i} => \E j : Owes(queue'[o], u) = {j}
  BY <1>2, OwesTail
<1>5. ASSUME NEW u \in Threads, NEW r \in Threads, Owes(queue'[r], u) # {}
      PROVE  pc'[u] = "push" /\ at'[u] = r
  <2>1. Owes(queue[r], u) # {}  BY <1>3, <1>4, <1>5
  <2> QED  BY <2>1 DEF OwesInv
<1>6. ASSUME NEW u \in Threads, pc'[u] = "push"
      PROVE  \E i : Owes(queue'[at'[u]], u) = {i}
  <2>1. pc[u] = "push" /\ at[u] \in Threads  BY <1>6, Receiver
  <2>2. PICK i : Owes(queue[at[u]], u) = {i}  BY <2>1 DEF OwesInv
  <2>3. CASE at[u] = o  BY <1>4, <2>2, <2>3
  <2>4. CASE at[u] # o  BY <1>3, <2>1, <2>2, <2>4
  <2> QED  BY <2>3, <2>4
<1> QED  BY <1>5, <1>6 DEF OwesInv, Owes

(* Every step keeps both invariants.                                       *)
LEMMA NextOwes == ASSUME IInv, OwesInv, [Next]_vars PROVE OwesInv'
<1>1. ASSUME NEW t \in Threads, StageThread(t) PROVE OwesInv'
  <2>1. CASE AllocateEvent(t)  BY <2>1, AllocateOwes
  <2>2. CASE PushEvent(t)  BY <2>2, PushOwes
  <2>3. CASE DestroyEvent(t)
    <3>1. queue[t] # <<>> /\ Head(queue[t]).committed /\ queue' = [queue EXCEPT ![t] = Tail(@)]
      BY <2>3 DEF IInv, QueueInv, QueuePart, Handling, DestroyEvent, Go
    <3>2. UNCHANGED at /\ \A u \in Threads : pc'[u] = "push" <=> pc[u] = "push"
      BY <2>3 DEF DestroyEvent, Go, IInv, TypeOK
    <3> QED  BY <3>1, <3>2, TailOwes
  <2>4. CASE ~AllocateEvent(t) /\ ~PushEvent(t) /\ ~DestroyEvent(t)
    <3>1. UNCHANGED queue  BY <1>1, <2>4, StepQueues
    <3>2. /\ \A u \in Threads : pc'[u] = "push" <=> pc[u] = "push"
          /\ \A u \in Threads : pc[u] = "push" => at'[u] = at[u]
      <4>1. pc \in [Threads -> PCs] /\ at \in [Threads -> Threads \cup {NoThread}]
        BY DEF IInv, TypeOK
      <4> QED
        BY <1>1, <2>4, <4>1
        DEF StageThread, Released, Started, PopEvent, CheckStop, GetStageByName, Dispatch,
            Consume, Finish, Go
    <3> QED  BY <3>1, <3>2, OwesKept
  <2> QED  BY <2>1, <2>2, <2>3, <2>4
<1>2. CASE StartThread
  <2>1. mpc = "start" /\ mpc \in Creating  BY <1>2 DEF StartThread, Creating
  <2>2. cur \in Stages /\ idx \in 1 .. NumThreads[cur]
    BY <2>1, Current DEF IInv, MainInv
  <2>3. PICK t \in Threads : t = <<cur, idx>>  BY <2>2, ThreadShape
  <2>4. pc[t] # "push"
    <3>1. status[t] # "ok"
      BY <2>1, <2>2, <2>3, Earlier, ThreadShape, Shape
    <3> QED  BY <3>1 DEF IInv, ThreadInv, Running
  <2>5. UNCHANGED <<queue, at>> /\ pc' = [pc EXCEPT ![t] = "born"]
    BY <1>2, <2>3 DEF StartThread
  <2>6. \A u \in Threads : pc'[u] = "push" <=> pc[u] = "push"
    BY <2>4, <2>5 DEF IInv, TypeOK
  <2> QED  BY <2>5, <2>6, OwesKept
<1>3. CASE Drop
  <2>1. mpc = "drop" /\ mpc \in Stopping  BY <1>3 DEF Drop, Stopping, Deleting
  <2>2. PICK o \in Threads : o = Visited  BY <2>1, VisitedThread
  <2>3. queue[o] # <<>> /\ Head(queue[o]).committed  BY <2>1, <2>2 DEF IInv, DropInv
  <2>4. queue' = [queue EXCEPT ![o] = Tail(@)] /\ UNCHANGED <<at, pc>>
    BY <1>3, <2>2 DEF Drop
  <2> QED  BY <2>3, <2>4, TailOwes
<1>4. CASE (Create /\ ~StartThread) \/ StopAll \/ (Stop /\ ~Drop) \/ UNCHANGED vars
  <2>1. UNCHANGED <<queue, at, pc>>
    BY <1>4
    DEF Create, CreateHandlers, FailStart, Unwind, JoinFailed, ReleaseThread, Register,
        StopAll, Stop, SignalStop, WaitForStop, Drain, DeleteStage, vars
  <2> QED  BY <2>1, OwesKept
<1> QED  BY <1>1, <1>2, <1>3, <1>4 DEF Next, Create, Stop

LEMMA InvariantOwes == Spec => [](IInv /\ OwesInv)
<1>1. Init => IInv /\ OwesInv  BY InitInv, InitOwes
<1>2. IInv /\ OwesInv /\ [Next]_vars => (IInv /\ OwesInv)'  BY NextInv, NextOwes
<1> QED  BY <1>1, <1>2, PTL DEF Spec

-----------------------------------------------------------------------------
(* The refinement *)

(* The variables of the channel.                                           *)
SlotOf(e) == [owner |-> e.from, len |-> 1, committed |-> e.committed]
SlotsOf(q) == [i \in DOMAIN q |-> SlotOf(q[i])]
Taken(t) == Handling(t) \/ (mpc = "drop" /\ Visited = t)

LEMMA SlotsSeq ==
  ASSUME NEW q \in Seq(Event)
  PROVE  /\ DOMAIN SlotsOf(q) = 1 .. Len(q) /\ Len(q) \in Nat
         /\ DOMAIN q = 1 .. Len(q) /\ Len(SlotsOf(q)) = Len(q)
         /\ SlotsOf(q) \in Seq({SlotOf(e) : e \in Event})
<1>1. DOMAIN q = 1 .. Len(q) /\ Len(q) \in Nat /\ \A i \in 1 .. Len(q) : q[i] \in Event
  OBVIOUS
<1>2. SlotsOf(q) \in [1 .. Len(q) -> {SlotOf(e) : e \in Event}]  BY <1>1 DEF SlotsOf
<1>3. SlotsOf(q) \in Seq({SlotOf(e) : e \in Event})  BY <1>1, <1>2, SeqDef
<1> QED  BY <1>1, <1>2, <1>3

LEMMA SlotsAppended ==
  ASSUME NEW q \in Seq(Event), NEW t \in Threads
  PROVE  SlotsOf(Append(q, NewEvent(t))) =
           Append(SlotsOf(q), [owner |-> t, len |-> 1, committed |-> FALSE])
<1> DEFINE r == Append(q, NewEvent(t))
           s == [owner |-> t, len |-> 1, committed |-> FALSE]
<1>1. NewEvent(t) \in Event /\ SlotOf(NewEvent(t)) = s  BY DEF NewEvent, Event, SlotOf
<1>2. /\ r \in Seq(Event) /\ DOMAIN r = 1 .. Len(q) + 1 /\ Len(q) \in Nat
      /\ r[Len(q) + 1] = NewEvent(t) /\ \A i \in 1 .. Len(q) : r[i] = q[i]
  BY <1>1
<1>3. SlotsOf(r) = [i \in 1 .. Len(q) + 1 |-> SlotOf(r[i])]  BY <1>2 DEF SlotsOf
<1>4. \A i \in 1 .. Len(q) : SlotsOf(q)[i] = SlotOf(q[i])  BY SlotsSeq DEF SlotsOf
<1>5. /\ DOMAIN Append(SlotsOf(q), s) = 1 .. Len(q) + 1
      /\ Append(SlotsOf(q), s)[Len(q) + 1] = s
      /\ \A i \in 1 .. Len(q) : Append(SlotsOf(q), s)[i] = SlotsOf(q)[i]
      /\ Append(SlotsOf(q), s) = [i \in 1 .. Len(q) + 1 |-> Append(SlotsOf(q), s)[i]]
  <2> DEFINE S == {SlotOf(e) : e \in Event}
             a == Append(SlotsOf(q), s)
  <2>1. s \in S  BY <1>1
  <2>2. SlotsOf(q) \in Seq(S) /\ Len(SlotsOf(q)) = Len(q) /\ Len(q) \in Nat  BY SlotsSeq
  <2> HIDE DEF S, s
  <2>3. a \in Seq(S) /\ Len(a) = Len(q) + 1  BY <2>1, <2>2, AppendProperties
  <2>4. a[Len(q) + 1] = s /\ \A i \in 1 .. Len(q) : a[i] = SlotsOf(q)[i]
    BY <2>1, <2>2, AppendProperties
  <2> HIDE DEF a
  <2>5. DOMAIN a = 1 .. Len(q) + 1 /\ a = [i \in 1 .. Len(q) + 1 |-> a[i]]
    BY <2>2, <2>3
  <2> QED  BY <2>4, <2>5 DEF a
<1> HIDE DEF r, s
<1>6. \A i \in 1 .. Len(q) + 1 : SlotOf(r[i]) = IF i = Len(q) + 1 THEN s ELSE SlotsOf(q)[i]
  <2> SUFFICES ASSUME NEW i \in 1 .. Len(q) + 1
               PROVE  SlotOf(r[i]) = IF i = Len(q) + 1 THEN s ELSE SlotsOf(q)[i]
    OBVIOUS
  <2>1. i = Len(q) + 1 \/ i \in 1 .. Len(q)  BY <1>2
  <2> QED  BY <1>1, <1>2, <1>4, <2>1
<1>7. \A i \in 1 .. Len(q) + 1 : SlotOf(r[i]) = Append(SlotsOf(q), s)[i]
  <2> SUFFICES ASSUME NEW i \in 1 .. Len(q) + 1
               PROVE  SlotOf(r[i]) = Append(SlotsOf(q), s)[i]
    OBVIOUS
  <2>1. i = Len(q) + 1 \/ i \in 1 .. Len(q)  BY <1>2
  <2>2. i \in 1 .. Len(q) => i # Len(q) + 1  BY <1>2
  <2> QED  BY <1>5, <1>6, <2>1, <2>2
<1>8. SlotsOf(r) = Append(SlotsOf(q), s)
  <2> DEFINE a == Append(SlotsOf(q), s)
  <2>1. a = [i \in 1 .. Len(q) + 1 |-> a[i]] /\ \A i \in 1 .. Len(q) + 1 : SlotOf(r[i]) = a[i]
    BY <1>5, <1>7
  <2> HIDE DEF a
  <2>2. SlotsOf(r) = a  BY <1>3, <2>1
  <2> QED  BY <2>2 DEF a
<1> QED  BY <1>8 DEF r, s

LEMMA SlotsTail ==
  ASSUME NEW q \in Seq(Event), q # <<>>
  PROVE  /\ SlotsOf(Tail(q)) = Tail(SlotsOf(q))
         /\ SlotsOf(q) # <<>> /\ Head(SlotsOf(q)).committed = Head(q).committed
<1>1. /\ DOMAIN q = 1 .. Len(q) /\ Len(q) \in Nat /\ Len(q) >= 1
      /\ Tail(q) \in Seq(Event) /\ DOMAIN Tail(q) = 1 .. Len(q) - 1
      /\ \A i \in 1 .. Len(q) - 1 : Tail(q)[i] = q[i + 1]
  OBVIOUS
<1>2. /\ SlotsOf(q) \in Seq({SlotOf(e) : e \in Event}) /\ Len(SlotsOf(q)) = Len(q)
      /\ \A i \in 1 .. Len(q) : SlotsOf(q)[i] = SlotOf(q[i])
  BY <1>1, SlotsSeq DEF SlotsOf
<1>3. SlotsOf(q) # <<>> /\ Head(SlotsOf(q)) = SlotOf(q[1]) /\ Head(q) = q[1]
  BY <1>1, <1>2
<1>4. /\ DOMAIN Tail(SlotsOf(q)) = 1 .. Len(q) - 1
      /\ \A i \in 1 .. Len(q) - 1 : Tail(SlotsOf(q))[i] = SlotsOf(q)[i + 1]
  BY <1>1, <1>2, <1>3
<1>5. Tail(SlotsOf(q)) = [i \in 1 .. Len(q) - 1 |-> SlotsOf(q)[i + 1]]
  <2> DEFINE a == SlotsOf(q)
  <2>1. PICK S : a \in Seq(S)  BY <1>2
  <2>2. a # <<>> /\ Len(a) = Len(q)  BY <1>2, <1>3
  <2> HIDE DEF a
  <2>3. Tail(a) \in Seq(S) /\ Len(Tail(a)) = Len(q) - 1
        /\ \A i \in 1 .. Len(q) - 1 : Tail(a)[i] = a[i + 1]
    BY <1>1, <2>1, <2>2
  <2>4. Tail(a) = [i \in 1 .. Len(q) - 1 |-> Tail(a)[i]]
    <3> DEFINE b == Tail(a)
    <3>1. b \in Seq(S) /\ Len(b) = Len(q) - 1 /\ Len(q) - 1 \in Nat  BY <1>1, <2>3
    <3> HIDE DEF b
    <3>2. b = [i \in 1 .. Len(q) - 1 |-> b[i]]  BY <3>1
    <3> QED  BY <3>2 DEF b
  <2>5. Tail(a) = [i \in 1 .. Len(q) - 1 |-> a[i + 1]]  BY <2>3, <2>4
  <2> QED  BY <2>5 DEF a
<1>6. SlotsOf(Tail(q)) = [i \in 1 .. Len(q) - 1 |-> SlotOf(q[i + 1])]
  BY <1>1 DEF SlotsOf
<1>7. \A i \in 1 .. Len(q) - 1 : SlotsOf(q)[i + 1] = SlotOf(q[i + 1])
  BY <1>1, <1>2
<1>8. SlotsOf(Tail(q)) = Tail(SlotsOf(q))  BY <1>5, <1>6, <1>7
<1>9. Head(SlotsOf(q)).committed = Head(q).committed  BY <1>3 DEF SlotOf
<1> QED  BY <1>3, <1>8, <1>9

LEMMA SlotCommitted ==
  ASSUME NEW e \in Event
  PROVE  [SlotOf(e) EXCEPT !.committed = TRUE]
           = [owner |-> e.from, len |-> 1, committed |-> TRUE]
<1> DEFINE S == [owner : Threads, len : {1}, committed : BOOLEAN]
           r == SlotOf(e)
           x == [r EXCEPT !.committed = TRUE]
           y == [owner |-> e.from, len |-> 1, committed |-> TRUE]
<1>1. r \in S /\ r.owner = e.from /\ r.len = 1  BY DEF Event, SlotOf
<1>2. y \in S /\ y.owner = e.from /\ y.len = 1 /\ y.committed = TRUE  BY DEF Event
<1> HIDE DEF r
<1>3. x \in S /\ x.owner = r.owner /\ x.len = r.len /\ x.committed = TRUE  BY <1>1
<1> HIDE DEF x, y
<1>4. x = y  BY <1>1, <1>2, <1>3
<1> QED  BY <1>4 DEF x, y, r

(* Place i is committed. *)
Commits(before, after, i) ==
  /\ i \in DOMAIN before /\ ~before[i].committed
  /\ after = [before EXCEPT ![i].committed = TRUE]

LEMMA SlotsPushed ==
  ASSUME NEW q \in Seq(Event), NEW t \in Threads, NEW when \in BOOLEAN,
         NEW i, Owes(q, t) = {i}
  PROVE  Commits(SlotsOf(q), SlotsOf(Pushed(q, t, when)), i)
<1>1. i \in DOMAIN q /\ q[i].from = t /\ ~q[i].committed  BY DEF Owes
<1>2. \A j \in DOMAIN q : j # i => ~(q[j].from = t /\ ~q[j].committed)  BY DEF Owes
<1>3. \A j \in DOMAIN q : q[j] \in Event  OBVIOUS
<1>4. i \in DOMAIN SlotsOf(q) /\ SlotsOf(q)[i] = SlotOf(q[i])  BY <1>1 DEF SlotsOf
<1>5. ~SlotsOf(q)[i].committed  BY <1>1, <1>4 DEF SlotOf
<1> DEFINE r == Pushed(q, t, when)
<1>6. DOMAIN r = DOMAIN q /\ (\A j \in DOMAIN q : j # i => r[j] = q[j])
      /\ r[i] = [q[i] EXCEPT !.committed = TRUE, !.late = when]
  BY <1>1, <1>2 DEF Pushed
<1>7. SlotOf(r[i]) = [SlotOf(q[i]) EXCEPT !.committed = TRUE]
  <2>1. q[i] \in Event  BY <1>1, <1>3
  <2>2. r[i].from = q[i].from /\ r[i].committed = TRUE  BY <1>6, <2>1 DEF Event
  <2>3. SlotOf(r[i]) = [owner |-> q[i].from, len |-> 1, committed |-> TRUE]
    BY <2>2 DEF SlotOf
  <2>4. [SlotOf(q[i]) EXCEPT !.committed = TRUE]
          = [owner |-> q[i].from, len |-> 1, committed |-> TRUE]
    BY <2>1, SlotCommitted
  <2> QED  BY <2>3, <2>4
<1> HIDE DEF r
<1>8. SlotsOf(r) = [j \in DOMAIN q |-> SlotOf(r[j])]  BY <1>6 DEF SlotsOf
<1>9. [SlotsOf(q) EXCEPT ![i].committed = TRUE] =
        [j \in DOMAIN q |-> IF j = i THEN [SlotOf(q[i]) EXCEPT !.committed = TRUE]
                           ELSE SlotOf(q[j])]
  BY <1>1, <1>4 DEF SlotsOf
<1>10. SlotsOf(r) = [SlotsOf(q) EXCEPT ![i].committed = TRUE]
  BY <1>6, <1>7, <1>8, <1>9
<1> QED  BY <1>4, <1>5, <1>10 DEF r, Commits

LEMMA InitChannel ==
  ASSUME Init, NEW o \in Threads
  PROVE  Channel(o)!ChanInit
<1>1. queue[o] = <<>> /\ pc[o] = "none" /\ mpc = "create"  BY DEF Init
<1> QED  BY <1>1 DEF Channel!ChanInit

(* What a step of the system is to the channel of thread o.                *)
Step(o) ==
  \/ UNCHANGED queue[o] /\ (Taken(o)' <=> Taken(o))
  \/ /\ Taken(o)' <=> Taken(o)
     /\ \E t \in Threads : queue'[o] = Append(queue[o], NewEvent(t))
  \/ /\ Taken(o)' <=> Taken(o)
     /\ \E t \in Threads, when \in BOOLEAN : \E i :
           Owes(queue[o], t) = {i} /\ queue'[o] = Pushed(queue[o], t, when)
  \/ /\ ~Taken(o) /\ Taken(o)' /\ UNCHANGED queue[o]
     /\ queue[o] # <<>> /\ Head(queue[o]).committed
  \/ Taken(o) /\ ~Taken(o)' /\ queue[o] # <<>> /\ queue'[o] = Tail(queue[o])

LEMMA StepIsChannelStep ==
  ASSUME NEW o \in Threads, queue \in [Threads -> Seq(Event)],
         DOMAIN queue'[o] = 1 .. Len(queue'[o]), Step(o)
  PROVE  [Channel(o)!ChanNext]_(Channel(o)!chanVars)
<1>1. queue[o] \in Seq(Event)  OBVIOUS
<1> DEFINE mapped == [i \in DOMAIN queue[o] |->
                        [owner |-> queue[o][i].from, len |-> 1,
                         committed |-> queue[o][i].committed]]
           taking == \/ pc[o] \in {"lookup", "on_event", "destroy"}
                     \/ pc[o] \in {"waiting", "push"} /\ emit[o] = 0
                     \/ mpc = "drop" /\ Visited = o
<1>2. mapped = SlotsOf(queue[o]) /\ mapped' = SlotsOf(queue'[o])
  BY DEF SlotsOf, SlotOf
<1>3. (taking <=> Taken(o)) /\ (taking' <=> Taken(o)')  BY DEF Taken, Handling
<1> HIDE DEF mapped, taking
<1>4. taking \in BOOLEAN /\ taking' \in BOOLEAN  BY DEF taking
<1>5. CASE UNCHANGED queue[o] /\ (Taken(o)' <=> Taken(o))
  <2>1. mapped' = mapped /\ taking' = taking  BY <1>2, <1>3, <1>4, <1>5
  <2> QED  BY <2>1 DEF Channel!chanVars, mapped, taking
<1>6. CASE /\ Taken(o)' <=> Taken(o)
           /\ \E t \in Threads : queue'[o] = Append(queue[o], NewEvent(t))
  <2>1. PICK t \in Threads : queue'[o] = Append(queue[o], NewEvent(t))  BY <1>6
  <2>2. mapped' = Append(mapped, [owner |-> t, len |-> 1, committed |-> FALSE])
    BY <1>1, <1>2, <2>1, SlotsAppended
  <2>3. taking' = taking  BY <1>3, <1>4, <1>6
  <2>4. Channel(o)!Reserve(t, 1)  BY <2>2, <2>3 DEF Channel!Reserve, mapped, taking
  <2>5. Channel(o)!ChanNext  BY <2>4 DEF Channel!ChanNext
  <2> QED  BY <2>5
<1>7. CASE /\ Taken(o)' <=> Taken(o)
           /\ \E t \in Threads, when \in BOOLEAN : \E i :
                 Owes(queue[o], t) = {i} /\ queue'[o] = Pushed(queue[o], t, when)
  <2>1. PICK t \in Threads, when \in BOOLEAN :
          \E i : Owes(queue[o], t) = {i} /\ queue'[o] = Pushed(queue[o], t, when)
    BY <1>7
  <2>2. PICK i : Owes(queue[o], t) = {i} /\ queue'[o] = Pushed(queue[o], t, when)
    BY <2>1
  <2>3. /\ i \in DOMAIN mapped /\ ~mapped[i].committed
        /\ mapped' = [mapped EXCEPT ![i].committed = TRUE]
    <3>1. Commits(SlotsOf(queue[o]), SlotsOf(Pushed(queue[o], t, when)), i)
      BY <1>1, <2>2, SlotsPushed
    <3>2. Commits(mapped, mapped', i)  BY <1>2, <2>2, <3>1
    <3> QED  BY <3>2 DEF Commits
  <2>4. taking' = taking  BY <1>3, <1>4, <1>7
  <2>5. Channel(o)!Commit(i)  BY <2>3, <2>4 DEF Channel!Commit, mapped, taking
  <2>6. Channel(o)!ChanNext  BY <2>3, <2>5 DEF Channel!ChanNext, mapped
  <2> QED  BY <2>6
<1>8. CASE /\ ~Taken(o) /\ Taken(o)' /\ UNCHANGED queue[o]
           /\ queue[o] # <<>> /\ Head(queue[o]).committed
  <2>1. mapped # <<>> /\ Head(mapped).committed /\ mapped' = mapped
    BY <1>1, <1>2, <1>8, SlotsTail
  <2>2. ~taking /\ taking' = TRUE  BY <1>3, <1>4, <1>8
  <2>3. Channel(o)!Take  BY <2>1, <2>2 DEF Channel!Take, mapped, taking
  <2>4. Channel(o)!ChanNext  BY <2>3 DEF Channel!ChanNext
  <2> QED  BY <2>4
<1>9. CASE Taken(o) /\ ~Taken(o)' /\ queue[o] # <<>> /\ queue'[o] = Tail(queue[o])
  <2>1. mapped' = Tail(mapped)  BY <1>1, <1>2, <1>9, SlotsTail
  <2>2. taking /\ taking' = FALSE  BY <1>3, <1>4, <1>9
  <2>3. Channel(o)!Release  BY <2>1, <2>2 DEF Channel!Release, mapped, taking
  <2>4. Channel(o)!ChanNext  BY <2>3 DEF Channel!ChanNext
  <2> QED  BY <2>4
<1> QED  BY <1>5, <1>6, <1>7, <1>8, <1>9 DEF Step

-----------------------------------------------------------------------------
(* Every step of the system is one of the channel. *)

(* While threads are deleted, no handler runs.                             *)
LEMMA DropsAlone ==
  ASSUME IInv, NEW o \in Threads, mpc \in Deleting \cup {"done"}
  PROVE  ~Running(o) /\ ~Handling(o)
<1>1. ~Running(o)
  <2>1. status[o] = "ok" => pc[o] = "exited"  BY DEF IInv, StopInv
  <2> QED  BY <2>1 DEF IInv, ThreadInv, Running
<1> QED  BY <1>1 DEF Running, Handling

(* The thread has an event in hand from pop_event to destroy_event.        *)
LEMMA HandlingSteps ==
  ASSUME IInv, NEW t \in Threads, StageThread(t)
  PROVE  /\ \A o \in Threads : o # t => (Handling(o)' <=> Handling(o))
         /\ ~PopEvent(t) /\ ~DestroyEvent(t) => (Handling(t)' <=> Handling(t))
<1>1. /\ pc \in [Threads -> PCs] /\ emit \in [Threads -> Nat]
      /\ pc[t] = "on_event" => emit[t] = 0
  BY DEF IInv, TypeOK, ThreadInv, Looping
<1>2. CASE PushEvent(t)
  <2>1. pc[t] = "push"  BY <1>2 DEF PushEvent
  <2>2. CASE emit[t] > 0
    <3>1. emit[t] # 0  BY <1>1, <2>2
    <3>2. /\ emit' = [emit EXCEPT ![t] = @ - 1]
          /\ pc' = [pc EXCEPT ![t] = "on_start"]
      BY <1>2, <2>2 DEF PushEvent
    <3> QED  BY <1>1, <2>1, <3>1, <3>2 DEF Handling
  <2>3. CASE ~(emit[t] > 0)
    <3>1. emit[t] = 0  BY <1>1, <2>3
    <3>2. emit' = emit /\ pc' = [pc EXCEPT ![t] = "destroy"]
      BY <1>2, <2>3 DEF PushEvent
    <3> QED  BY <1>1, <2>1, <3>1, <3>2 DEF Handling
  <2> QED  BY <2>2, <2>3
<1>3. CASE Dispatch(t)
  <2>1. emit' = emit /\ pc' = [pc EXCEPT ![t] = "waiting"]  BY <1>3 DEF Dispatch
  <2>2. CASE pc[t] = "on_start"
    <3>1. emit[t] > 0  BY <1>3, <2>2 DEF Dispatch
    <3>2. emit[t] # 0  BY <1>1, <3>1
    <3> QED  BY <1>1, <2>1, <2>2, <3>2 DEF Handling
  <2>3. CASE pc[t] = "on_event"
    <3> QED  BY <1>1, <2>1, <2>3 DEF Handling
  <2> QED  BY <1>3, <2>2, <2>3 DEF Dispatch
<1>4. CASE Released(t) \/ Started(t) \/ CheckStop(t) \/ Finish(t)
  <2>1. emit' = emit /\ \E to \in {"on_start", "exited", "pop", "on_finish"} :
          /\ pc[t] \in {"born", "on_start", "check", "on_finish"}
          /\ pc' = [pc EXCEPT ![t] = to]
    BY <1>4 DEF Released, Started, CheckStop, Finish, Go
  <2> QED  BY <1>1, <2>1 DEF Handling
<1>5. CASE GetStageByName(t) \/ Consume(t)
  <2>1. emit' = emit /\ \E to \in {"on_event", "destroy"} :
          pc[t] \in {"lookup", "on_event"} /\ pc' = [pc EXCEPT ![t] = to]
    BY <1>5 DEF GetStageByName, Consume, Go
  <2> QED  BY <1>1, <2>1 DEF Handling
<1>6. CASE AllocateEvent(t)
  <2>1. emit' = emit /\ pc[t] = "waiting" /\ pc' = [pc EXCEPT ![t] = "push"]
    BY <1>6 DEF AllocateEvent
  <2> QED  BY <1>1, <2>1 DEF Handling
<1>7. CASE PopEvent(t) \/ DestroyEvent(t)
  <2>1. emit' = emit /\ \A o \in Threads : o # t => pc'[o] = pc[o]
    BY <1>1, <1>7 DEF PopEvent, DestroyEvent, Go
  <2> QED  BY <1>7, <2>1 DEF Handling
<1> QED  BY <1>2, <1>3, <1>4, <1>5, <1>6, <1>7 DEF StageThread

LEMMA ThreadChannel ==
  ASSUME IInv, OwesInv, NEW t \in Threads, StageThread(t), NEW o \in Threads
  PROVE  Step(o)
<1>1. (mpc = "drop" /\ Visited = o)' <=> (mpc = "drop" /\ Visited = o)
  BY StepFrame DEF ThreadFrame, main, mgr, Visited
<1>2. queue \in [Threads -> Seq(Event)] /\ pc \in [Threads -> PCs]
  BY DEF IInv, TypeOK
<1>3. o # t => (Taken(o)' <=> Taken(o))  BY <1>1, HandlingSteps DEF Taken
<1>4. ~PopEvent(t) /\ ~DestroyEvent(t) => (Taken(o)' <=> Taken(o))
  BY <1>1, HandlingSteps DEF Taken
<1>5. CASE AllocateEvent(t)
  <2>1. ~PopEvent(t) /\ ~DestroyEvent(t)
    BY <1>5 DEF AllocateEvent, PopEvent, DestroyEvent, Go
  <2>2. CASE o = at[t]
    <3>1. queue' = [queue EXCEPT ![o] = Append(@, NewEvent(t))]
      BY <1>5, <2>2, AllocatedQueue
    <3>2. queue'[o] = Append(queue[o], NewEvent(t))  BY <1>2, <3>1
    <3> QED  BY <1>4, <2>1, <3>2 DEF Step
  <2>3. CASE o # at[t]
    <3>1. UNCHANGED queue[o]  BY <1>2, <1>5, <2>3 DEF AllocateEvent
    <3> QED  BY <1>4, <2>1, <3>1 DEF Step
  <2> QED  BY <2>2, <2>3
<1>6. CASE PushEvent(t)
  <2>1. ~PopEvent(t) /\ ~DestroyEvent(t)
    BY <1>6 DEF PushEvent, PopEvent, DestroyEvent, Go
  <2>2. CASE o = at[t]
    <3> DEFINE late == pc[at[t]] \in {"check", "on_finish", "exited"}
    <3>1. late \in BOOLEAN /\ queue'[o] = Pushed(queue[o], t, late)
      BY <1>6, <2>2, PushedQueues
    <3> HIDE DEF late
    <3>2. PICK i : Owes(queue[o], t) = {i}  BY <1>6, <2>2 DEF PushEvent, OwesInv
    <3>3. \E u \in Threads, when \in BOOLEAN : \E j :
            Owes(queue[o], u) = {j} /\ queue'[o] = Pushed(queue[o], u, when)
      BY <3>1, <3>2
    <3> QED  BY <1>4, <2>1, <3>3 DEF Step
  <2>3. CASE o # at[t]
    <3>1. queue' = [queue EXCEPT ![at[t]] = Pushed(queue[at[t]], t,
                      pc[at[t]] \in {"check", "on_finish", "exited"})]
      BY <1>6, PushedQueues
    <3>2. UNCHANGED queue[o]  BY <1>2, <2>3, <3>1
    <3> QED  BY <1>4, <2>1, <3>2 DEF Step
  <2> QED  BY <2>2, <2>3
<1>7. CASE DestroyEvent(t)
  <2>1. /\ pc[t] = "destroy" /\ pc' = [pc EXCEPT ![t] = "pop"]
        /\ queue' = [queue EXCEPT ![t] = Tail(@)] /\ UNCHANGED mpc
    BY <1>7 DEF DestroyEvent, Go, main
  <2>2. CASE o = t
    <3>1. Handling(t) /\ ~Handling(t)'  BY <1>2, <2>1 DEF Handling
    <3>2. mpc # "drop"  BY <3>1, DropsAlone DEF Deleting
    <3>3. Taken(o) /\ ~Taken(o)'  BY <2>1, <2>2, <3>1, <3>2 DEF Taken
    <3>4. queue[o] # <<>>  BY <1>7, <2>2, DestroyedQueue
    <3>5. queue'[o] = Tail(queue[o])  BY <1>2, <2>1, <2>2
    <3> QED  BY <3>3, <3>4, <3>5 DEF Step
  <2>3. CASE o # t
    <3>1. UNCHANGED queue[o]  BY <1>2, <2>1, <2>3
    <3> QED  BY <1>3, <2>3, <3>1 DEF Step
  <2> QED  BY <2>2, <2>3
<1>8. CASE PopEvent(t)
  <2>1. /\ pc[t] = "pop" /\ UNCHANGED <<queue, emit, mpc>>
        /\ \/ pc' = [pc EXCEPT ![t] = "check"]
           \/ /\ pc' \in {[pc EXCEPT ![t] = "lookup"], [pc EXCEPT ![t] = "on_event"]}
              /\ queue[t] # <<>> /\ Head(queue[t]).committed
    BY <1>8 DEF PopEvent, Go, main
  <2>2. CASE o = t
    <3>1. mpc # "drop"
      <4>1. Running(t)  BY <2>1 DEF Running
      <4> QED  BY <4>1, DropsAlone DEF Deleting
    <3>2. ~Taken(o)  BY <2>1, <2>2, <3>1 DEF Taken, Handling
    <3>3. CASE pc' = [pc EXCEPT ![t] = "check"]
      <4>1. ~Taken(o)'  BY <1>2, <2>1, <2>2, <3>1, <3>3 DEF Taken, Handling
      <4> QED  BY <2>1, <3>2, <4>1 DEF Step
    <3>4. CASE pc' # [pc EXCEPT ![t] = "check"]
      <4>1. Taken(o)'  BY <1>2, <2>1, <2>2, <3>4 DEF Taken, Handling
      <4> QED  BY <2>1, <2>2, <3>2, <3>4, <4>1 DEF Step
    <3> QED  BY <3>3, <3>4
  <2>3. CASE o # t
    <3> QED  BY <1>3, <2>1, <2>3 DEF Step
  <2> QED  BY <2>2, <2>3
<1>9. CASE ~AllocateEvent(t) /\ ~PushEvent(t) /\ ~DestroyEvent(t) /\ ~PopEvent(t)
  <2>1. UNCHANGED queue  BY <1>9, StepQueues
  <2> QED  BY <1>4, <1>9, <2>1 DEF Step
<1> QED  BY <1>5, <1>6, <1>7, <1>8, <1>9

(* ~thread_obj takes and gives back what is left.                          *)
LEMMA MainChannel ==
  ASSUME IInv, Create \/ StopAll \/ Stop \/ UNCHANGED vars, NEW o \in Threads
  PROVE  Step(o)
<1>1. queue \in [Threads -> Seq(Event)] /\ pc \in [Threads -> PCs]
  BY DEF IInv, TypeOK
<1>2. CASE Drain
  <2>1. mpc = "drain" /\ UNCHANGED <<pc, emit, queue, cur, registered>>
    BY <1>2 DEF Drain, mgr
  <2>2. ~Taken(o)  BY <2>1, DropsAlone DEF Taken, Deleting
  <2>3. ~Handling(o)'  BY <2>1, DropsAlone DEF Handling, Deleting
  <2>4. CASE queue[Visited] # <<>> /\ Head(queue[Visited]).committed
    <3>1. mpc' = "drop" /\ Visited' = Visited  BY <1>2, <2>1, <2>4 DEF Drain, Visited
    <3>2. CASE o = Visited  BY <2>1, <2>2, <2>4, <3>1, <3>2 DEF Step, Taken
    <3>3. CASE o # Visited
      <4>1. ~Taken(o)'  BY <2>3, <3>1, <3>3 DEF Taken
      <4> QED  BY <2>1, <2>2, <4>1 DEF Step
    <3> QED  BY <3>2, <3>3
  <2>5. CASE ~(queue[Visited] # <<>> /\ Head(queue[Visited]).committed)
    <3>1. mpc' # "drop"  BY <1>2, <2>1, <2>5 DEF Drain
    <3>2. ~Taken(o)'  BY <2>3, <3>1 DEF Taken
    <3> QED  BY <2>1, <2>2, <3>2 DEF Step
  <2> QED  BY <2>4, <2>5
<1>3. CASE Drop
  <2>1. /\ mpc = "drop" /\ mpc' = "drain" /\ UNCHANGED <<pc, emit>>
        /\ queue' = [queue EXCEPT ![Visited] = Tail(@)]
    BY <1>3 DEF Drop
  <2>2. ~Handling(o)  BY <2>1, DropsAlone DEF Deleting
  <2>3. ~Taken(o)'  BY <2>1, <2>2 DEF Taken, Handling
  <2>4. CASE o = Visited
    <3>1. Taken(o) /\ queue[o] # <<>>  BY <2>1, <2>4 DEF Taken, IInv, DropInv
    <3>2. queue'[o] = Tail(queue[o])  BY <1>1, <2>1, <2>4
    <3> QED  BY <2>3, <3>1, <3>2 DEF Step
  <2>5. CASE o # Visited
    <3>1. ~Taken(o) /\ UNCHANGED queue[o]  BY <1>1, <2>1, <2>2, <2>5 DEF Taken
    <3> QED  BY <2>3, <3>1 DEF Step
  <2> QED  BY <2>4, <2>5
<1>4. CASE StartThread
  <2>1. mpc = "start" /\ mpc' # "drop" /\ UNCHANGED <<queue, emit>>
    BY <1>4 DEF StartThread
  <2>2. mpc \in Creating  BY <2>1 DEF Creating
  <2>3. cur \in Stages /\ idx \in 1 .. NumThreads[cur]
    BY <2>1, <2>2, Current DEF IInv, MainInv
  <2>4. PICK t \in Threads : t = <<cur, idx>>  BY <2>3, ThreadShape
  <2>5. ~Handling(t)
    <3>1. status[t] # "ok"  BY <2>1, <2>3, <2>4, Earlier, ThreadShape, Shape
    <3> QED  BY <3>1 DEF IInv, ThreadInv, Running, Handling
  <2>6. pc' = [pc EXCEPT ![t] = "born"]  BY <1>4, <2>4 DEF StartThread
  <2>7. Handling(o)' <=> Handling(o)  BY <1>1, <2>1, <2>5, <2>6 DEF Handling
  <2> QED  BY <2>1, <2>7 DEF Step, Taken
<1>5. CASE (Create /\ ~StartThread) \/ StopAll \/ (Stop /\ ~Drop /\ ~Drain)
  <2>1. mpc # "drop" /\ mpc' # "drop" /\ UNCHANGED <<queue, pc, emit>>
    BY <1>5
    DEF Create, CreateHandlers, FailStart, Unwind, JoinFailed, ReleaseThread, Register,
        StopAll, Stop, SignalStop, WaitForStop, Advance, DeleteStage
  <2> QED  BY <2>1 DEF Step, Taken, Handling
<1>6. CASE UNCHANGED vars
  BY <1>6 DEF vars, Step, Taken, Handling, Visited
<1> QED  BY <1>2, <1>3, <1>4, <1>5, <1>6 DEF Stop

LEMMA NextChannel ==
  ASSUME IInv, IInv', OwesInv, [Next]_vars
  PROVE  [\A t \in Threads : [Channel(t)!ChanNext]_(Channel(t)!chanVars)]_vars
<1>1. queue \in [Threads -> Seq(Event)] /\ queue' \in [Threads -> Seq(Event)]
  BY DEF IInv, TypeOK
<1>2. ASSUME NEW o \in Threads
      PROVE  [Channel(o)!ChanNext]_(Channel(o)!chanVars)
  <2>1. Step(o)  BY ThreadChannel, MainChannel DEF Next
  <2>2. DOMAIN queue'[o] = 1 .. Len(queue'[o])
    <3>1. queue'[o] \in Seq(Event)  BY <1>1
    <3> QED  BY <3>1
  <2> QED  BY <1>1, <2>1, <2>2, StepIsChannelStep
<1> QED  BY <1>2

(* Every queue of every stage, whoever uses it, is used as EventChannel    *)
(* allows: by its thread, and by ~thread_obj (stage.h:79) afterwards.      *)
THEOREM QueuesImplementChannels == Spec => QueuesAreChannels
<1>1. Init => \A t \in Threads : Channel(t)!ChanInit  BY InitChannel
<1>2. /\ IInv /\ OwesInv /\ (IInv /\ OwesInv)' /\ [Next]_vars
      => [\A t \in Threads : [Channel(t)!ChanNext]_(Channel(t)!chanVars)]_vars
  BY NextChannel
<1> QED  BY <1>1, <1>2, InvariantOwes, PTL DEF Spec, QueuesAreChannels

-----------------------------------------------------------------------------
(* The timer stage.  Between the polls nothing is due; the ticks that a    *)
(* poll has done and those it has still to do add up to what the clock has *)
(* gone on since the one before.                                           *)

PollInv ==
  /\ left \in [Requests -> Nat \cup {-1}] /\ due \in [Requests -> Int]
  /\ behind \in Nat /\ ahead \in 0 .. behind /\ ticks \in 0 .. ahead
  /\ inTick \in BOOLEAN /\ (inTick => ticks > 0)
  /\ ahead > 0 => Timer!Polls
  /\ ~inTick => \A t \in Requests : left[t] # 0

AskedInv ==
  /\ requests \in Seq([timer : Requests, delay : Delays])
  /\ timeouts \in Seq(Requests) /\ busy \in Requests \cup {NoTimer}
  /\ bpc \in {"on_event", "ask"} => timeouts # <<>>
  /\ tpc = "on_event" => requests # <<>>

TimesInv == PollInv /\ AskedInv /\ WheelKeepsTime

LEMMA InitTimes == Timer!Init => TimesInv
<1> SUFFICES ASSUME Timer!Init PROVE TimesInv  OBVIOUS
<1>1. /\ left = [t \in Requests |-> -1] /\ due = [t \in Requests |-> 0]
      /\ inTick = FALSE /\ busy = NoTimer /\ behind = 0 /\ ticks = 0 /\ ahead = 0
      /\ requests = <<>> /\ timeouts = <<>> /\ bpc = "pop" /\ tpc = "top"
  BY DEF Timer!Init, Timer!ServiceInit, Timer!Off
<1>2. left \in [Requests -> Nat \cup {-1}] /\ due \in [Requests -> Int]  BY <1>1
<1>3. PollInv
  <2>1. \A t \in Requests : left[t] # 0  BY <1>1
  <2>2. inTick \in BOOLEAN /\ ~inTick  BY <1>1
  <2>3. behind \in Nat /\ ahead \in 0 .. behind /\ ticks \in 0 .. ahead /\ ~(ahead > 0)
    BY <1>1
  <2> QED  BY <1>2, <2>1, <2>2, <2>3 DEF PollInv
<1>4. AskedInv  BY <1>1 DEF AskedInv
<1>5. WheelKeepsTime  BY <1>1 DEF WheelKeepsTime, Timer!WheelKeepsTime, Timer!Off
<1> QED  BY <1>3, <1>4, <1>5 DEF TimesInv

(* The steps of the thread outside of polls.  A timer that is started has  *)
(* its delay left as of the last poll.                                     *)
LEMMA TimesOutside ==
  ASSUME TimesInv, Timer!Top \/ Timer!OnEvent \/ Timer!Bottom
  PROVE  TimesInv'
<1> USE DEF TimesInv
<1>1. ahead = 0 /\ ticks = 0 /\ inTick = FALSE
  BY DEF PollInv, Timer!Polls, Timer!Top, Timer!OnEvent, Timer!Bottom
<1>2. CASE Timer!Top \/ Timer!Bottom
  <2>1. UNCHANGED <<left, inTick, busy, behind, requests, timeouts, bpc, ticks, ahead, due>>
    BY <1>2 DEF Timer!Top, Timer!Bottom, Timer!serviceVars, Timer!asker, Timer!poll
  <2>2. tpc' = "on_event" => requests # <<>>
    BY <1>2 DEF Timer!Top, Timer!Bottom
  <2>3. PollInv'  BY <1>1, <2>1 DEF PollInv
  <2>4. AskedInv'  BY <2>1, <2>2 DEF AskedInv
  <2>5. WheelKeepsTime'  BY <2>1 DEF WheelKeepsTime, Timer!WheelKeepsTime
  <2> QED  BY <2>3, <2>4, <2>5
<1>3. CASE Timer!OnEvent
  <2> DEFINE t == Head(requests).timer
             d == Head(requests).delay
             wait == IF d = 0 THEN Lap ELSE d
  <2>1. /\ Timer!Start(t, d)
        /\ due' = [due EXCEPT ![t] = left'[t] - behind]
        /\ requests' = Tail(requests) /\ tpc = "on_event" /\ tpc' = "bottom"
        /\ UNCHANGED <<behind, bpc, timeouts, ticks, ahead>>
    BY <1>3 DEF Timer!OnEvent, Timer!asker, Timer!poll
  <2>2. left' = [left EXCEPT ![t] = wait] /\ UNCHANGED <<inTick, busy>>
    BY <1>1, <2>1 DEF Timer!Start
  <2>3. requests # <<>>  BY <2>1 DEF AskedInv
  <2>4. Head(requests) \in [timer : Requests, delay : Delays]
        /\ requests' \in Seq([timer : Requests, delay : Delays])
    BY <2>1, <2>3, HeadTailProperties DEF AskedInv
  <2>5. t \in Requests /\ wait \in Nat \ {0}
    BY <2>4, TimerAssumption DEF Timer!StimerAssumption
  <2> HIDE DEF t, d, wait
  <2>6. /\ left' \in [Requests -> Nat \cup {-1}]
        /\ \A u \in Requests : left'[u] = IF u = t THEN wait ELSE left[u]
    BY <2>2, <2>5 DEF PollInv
  <2>7. /\ due' \in [Requests -> Int]
        /\ \A u \in Requests : due'[u] = IF u = t THEN wait - behind ELSE due[u]
    BY <2>1, <2>5, <2>6 DEF PollInv
  <2>8. inTick' = FALSE /\ ahead' = 0 /\ ticks' = 0 /\ behind' = behind
    BY <1>1, <2>1, <2>2
  <2>9. PollInv'
    <3>1. \A u \in Requests : left'[u] # 0  BY <1>1, <2>5, <2>6 DEF PollInv
    <3>2. behind' \in Nat /\ ahead' \in 0 .. behind' /\ ticks' \in 0 .. ahead' /\ ~(ahead' > 0)
      BY <1>1, <2>8 DEF PollInv
    <3>3. inTick' \in BOOLEAN /\ ~inTick'  BY <2>8
    <3> QED  BY <2>6, <2>7, <3>1, <3>2, <3>3 DEF PollInv
  <2>10. AskedInv'  BY <2>1, <2>2, <2>4 DEF AskedInv
  <2>11. WheelKeepsTime'
    BY <1>1, <2>5, <2>6, <2>7, <2>8 DEF PollInv, WheelKeepsTime, Timer!WheelKeepsTime, Timer!Off
  <2> QED  BY <2>9, <2>10, <2>11
<1> QED  BY <1>2, <1>3

(* A poll counts off the time that it read: a tick is taken off every      *)
(* timer as it begins, and off the ticks to do as it ends.                 *)
LEMMA TimesPolling ==
  ASSUME TimesInv, Timer!PollTimer \/ Timer!PollTick \/ Timer!PollEndTick \/ Timer!PollEnd
  PROVE  TimesInv'
<1> USE DEF TimesInv
<1>1. UNCHANGED <<requests, timeouts, busy, bpc, due>>
      /\ (tpc' = tpc \/ tpc' \in {"bottom", "top"})
  BY DEF Timer!PollTimer, Timer!PollTick, Timer!PollEndTick, Timer!PollEnd, Timer!serviceVars,
         Timer!asker, Timer!loop, Timer!Tick, Timer!EndTick, Timer!After
<1>2. AskedInv'  BY <1>1 DEF AskedInv
<1>3. CASE Timer!PollTimer
  <2>1. /\ UNCHANGED <<left, inTick, behind>> /\ ticks = 0 /\ ahead = 0 /\ ~inTick
        /\ ticks' = ahead' /\ ahead' \in 0 .. behind
        /\ ahead' > 0 => Timer!Polls'
    BY <1>3 DEF Timer!PollTimer, Timer!serviceVars, Timer!poll, Timer!Polls, PollInv
  <2>2. PollInv'
    <3>1. behind' \in Nat /\ ahead' \in 0 .. behind' /\ ticks' \in 0 .. ahead'
      BY <2>1 DEF PollInv
    <3> QED  BY <1>1, <2>1, <3>1 DEF PollInv
  <2>3. WheelKeepsTime'
    BY <1>1, <2>1 DEF PollInv, WheelKeepsTime, Timer!WheelKeepsTime, Timer!Off
  <2> QED  BY <1>2, <2>2, <2>3
<1>4. CASE Timer!PollTick
  <2>1. /\ UNCHANGED <<behind, ticks, ahead, tpc>> /\ ticks > 0 /\ inTick = FALSE /\ inTick' = TRUE
        /\ left' = [t \in Requests |-> IF left[t] = -1 THEN -1 ELSE left[t] - 1]
    BY <1>4 DEF Timer!PollTick, Timer!Tick, Timer!poll, Timer!loop, Timer!Off
  <2>2. \A t \in Requests : left[t] \in Nat \cup {-1} /\ left[t] # 0  BY <2>1 DEF PollInv
  <2>3. PollInv'
    <3>1. left' \in [Requests -> Nat \cup {-1}]  BY <2>1, <2>2
    <3>2. ahead' > 0 => Timer!Polls'  BY <2>1 DEF PollInv, Timer!Polls
    <3>3. due' \in [Requests -> Int] /\ inTick' \in BOOLEAN /\ inTick' /\ ticks' > 0
      BY <1>1, <2>1 DEF PollInv
    <3>4. behind' \in Nat /\ ahead' \in 0 .. behind' /\ ticks' \in 0 .. ahead'
      BY <2>1 DEF PollInv
    <3> QED  BY <3>1, <3>2, <3>3, <3>4 DEF PollInv
  <2>4. WheelKeepsTime'
    BY <1>1, <2>1, <2>2 DEF PollInv, WheelKeepsTime, Timer!WheelKeepsTime, Timer!Off
  <2> QED  BY <1>2, <2>3, <2>4
<1>5. CASE Timer!PollEndTick
  <2>1. /\ UNCHANGED <<left, behind, ahead, tpc>> /\ ticks' = ticks - 1
        /\ inTick = TRUE /\ inTick' = FALSE /\ \A t \in Requests : left[t] # 0
    BY <1>5 DEF Timer!PollEndTick, Timer!EndTick, Timer!loop, PollInv
  <2>2. PollInv'
    <3>1. ahead' > 0 => Timer!Polls'  BY <2>1 DEF PollInv, Timer!Polls
    <3>2. behind' \in Nat /\ ahead' \in 0 .. behind' /\ ticks' \in 0 .. ahead'
      BY <2>1 DEF PollInv
    <3>3. left' \in [Requests -> Nat \cup {-1}] /\ due' \in [Requests -> Int]
      BY <1>1, <2>1 DEF PollInv
    <3> QED  BY <2>1, <3>1, <3>2, <3>3 DEF PollInv
  <2>3. WheelKeepsTime'
    BY <1>1, <2>1 DEF PollInv, WheelKeepsTime, Timer!WheelKeepsTime, Timer!Off
  <2> QED  BY <1>2, <2>2, <2>3
<1>6. CASE Timer!PollEnd
  <2>1. /\ UNCHANGED <<left, inTick, ticks>> /\ ticks = 0 /\ inTick = FALSE
        /\ behind' = behind - ahead /\ ahead' = 0
    BY <1>6 DEF Timer!PollEnd, Timer!serviceVars, PollInv
  <2>2. PollInv'
    <3>1. behind' \in Nat /\ ahead' \in 0 .. behind' /\ ticks' \in 0 .. ahead' /\ ~(ahead' > 0)
      BY <2>1 DEF PollInv
    <3>2. left' \in [Requests -> Nat \cup {-1}] /\ due' \in [Requests -> Int]
      BY <1>1, <2>1 DEF PollInv
    <3>3. inTick' \in BOOLEAN /\ ~inTick' /\ \A t \in Requests : left'[t] # 0
      BY <2>1 DEF PollInv
    <3> QED  BY <3>1, <3>2, <3>3 DEF PollInv
  <2>3. WheelKeepsTime'
    BY <1>1, <2>1 DEF PollInv, WheelKeepsTime, Timer!WheelKeepsTime, Timer!Off
  <2> QED  BY <1>2, <2>2, <2>3
<1> QED  BY <1>3, <1>4, <1>5, <1>6

(* The callbacks of a poll. *)
LEMMA TimesCallback ==
  ASSUME TimesInv, Timer!PollFire \/ Timer!TimerProc
  PROVE  TimesInv'
<1> USE DEF TimesInv
<1>1. CASE Timer!PollFire
  <2>1. PICK h \in Requests : Timer!Fire(h) /\ due' = [due EXCEPT ![h] = 0]
    BY <1>1 DEF Timer!PollFire
  <2>2. /\ UNCHANGED <<inTick, behind, ticks, ahead, tpc, requests, timeouts, bpc>>
        /\ inTick = TRUE /\ left' = [left EXCEPT ![h] = -1] /\ busy' = h
    BY <1>1, <2>1
    DEF Timer!PollFire, Timer!Fire, Timer!Off, Timer!asker, Timer!loop, Timer!poll, PollInv
  <2>3. left' \in [Requests -> Nat \cup {-1}] /\ due' \in [Requests -> Int]
    BY <2>1, <2>2 DEF PollInv
  <2>4. ahead' > 0 => Timer!Polls'  BY <2>2 DEF PollInv, Timer!Polls
  <2>5. PollInv'  BY <2>2, <2>3, <2>4 DEF PollInv
  <2>6. AskedInv'  BY <2>2 DEF AskedInv
  <2>7. WheelKeepsTime'
    BY <2>1, <2>2 DEF PollInv, WheelKeepsTime, Timer!WheelKeepsTime, Timer!Off
  <2> QED  BY <2>5, <2>6, <2>7
<1>2. CASE Timer!TimerProc
  <2>1. /\ UNCHANGED <<left, inTick, behind, ticks, ahead, tpc, requests, bpc, due>>
        /\ busy # NoTimer /\ busy' = NoTimer /\ timeouts' = Append(timeouts, busy)
    BY <1>2 DEF Timer!TimerProc, Timer!Return, Timer!loop, Timer!poll
  <2>2. timeouts' \in Seq(Requests) /\ timeouts' # <<>>
    BY <2>1, AppendProperties DEF AskedInv
  <2>3. PollInv'  BY <2>1 DEF PollInv, Timer!Polls
  <2>4. AskedInv'  BY <2>1, <2>2 DEF AskedInv
  <2>5. WheelKeepsTime'  BY <2>1 DEF WheelKeepsTime, Timer!WheelKeepsTime
  <2> QED  BY <2>3, <2>4, <2>5
<1> QED  BY <1>1, <1>2

(* Those who ask, and who tell the threads to stop, touch no timer. *)
LEMMA TimesAsking ==
  ASSUME TimesInv,
         \/ Timer!AskerThread
         \/ \E t \in Requests, d \in Delays : Timer!Request(t, d)
         \/ \E who \in {"timer", "asker"} : Timer!SignalStop(who)
  PROVE  TimesInv'
<1> USE DEF TimesInv
<1>1. UNCHANGED <<left, inTick, busy, behind, ticks, ahead, tpc, due>>
  BY DEF Timer!AskerThread, Timer!Pop, Timer!AskAgain, Timer!HandlerReturns, Timer!Request,
         Timer!SignalStop, Timer!serviceVars, Timer!loop, Timer!poll
<1>2. PollInv' /\ WheelKeepsTime'
  BY <1>1 DEF PollInv, Timer!Polls, WheelKeepsTime, Timer!WheelKeepsTime
<1>3. CASE \/ \E t \in Requests, d \in Delays : Timer!Request(t, d)
           \/ Timer!AskAgain
  <2>1. PICK t \in Requests, d \in Delays : Timer!Ask(t, d)
    <3>1. CASE Timer!AskAgain
      <4>1. Head(timeouts) \in Requests
        BY <3>1, HeadTailProperties DEF Timer!AskAgain, AskedInv
      <4> QED  BY <3>1, <4>1 DEF Timer!AskAgain
    <3> QED  BY <1>3, <3>1 DEF Timer!Request
  <2>2. requests' = Append(requests, [timer |-> t, delay |-> d])  BY <2>1 DEF Timer!Ask
  <2>3. requests' \in Seq([timer : Requests, delay : Delays]) /\ requests' # <<>>
    BY <2>2, AppendProperties DEF AskedInv
  <2>4. timeouts' = timeouts /\ (bpc' \in {"on_event", "ask"} => bpc \in {"on_event", "ask"})
    BY <1>3 DEF Timer!Request, Timer!AskAgain, Timer!asker
  <2> QED  BY <1>1, <1>2, <2>3, <2>4 DEF AskedInv
<1>4. CASE Timer!Pop \/ Timer!HandlerReturns \/ \E who \in {"timer", "asker"} : Timer!SignalStop(who)
  <2>1. requests' = requests
    BY <1>4 DEF Timer!Pop, Timer!HandlerReturns, Timer!SignalStop
  <2>2. timeouts' \in Seq(Requests)
    BY <1>4, HeadTailProperties
    DEF Timer!Pop, Timer!HandlerReturns, Timer!SignalStop, Timer!asker, AskedInv
  <2>3. bpc' \in {"on_event", "ask"} => timeouts' # <<>>
    BY <1>4 DEF Timer!Pop, Timer!HandlerReturns, Timer!SignalStop, Timer!asker, AskedInv
  <2> QED  BY <1>1, <1>2, <2>1, <2>2, <2>3 DEF AskedInv
<1> QED  BY <1>3, <1>4 DEF Timer!AskerThread

(* A millisecond goes by; none of a pending timer's is forgotten, for no   *)
(* timer is behind by as much as MaxBehind.                                *)
LEMMA TimesClock ==
  ASSUME TimesInv, Timer!Clock
  PROVE  TimesInv'
<1> USE DEF TimesInv
<1>1. /\ UNCHANGED <<left, inTick, busy, ticks, ahead, tpc, requests, timeouts, bpc>>
      /\ behind < MaxBehind /\ behind' = behind + 1
      /\ due' = [t \in Requests |->
                    IF left[t] = -1 \/ due[t] <= - MaxBehind THEN due[t] ELSE due[t] - 1]
  BY DEF Timer!Clock, Timer!serviceVars, Timer!asker, Timer!loop, Timer!poll, Timer!Off
<1>2. MaxBehind \in Nat  BY TimerAssumption DEF Timer!StimerAssumption
<1>3. \A t \in Requests : left[t] \in Nat \cup {-1} /\ due[t] \in Int  BY DEF PollInv
<1>4. PollInv'
  <2>1. due' \in [Requests -> Int]  BY <1>1, <1>3
  <2>2. behind' \in Nat /\ ahead' \in 0 .. behind' /\ ticks' \in 0 .. ahead'
    BY <1>1 DEF PollInv
  <2>3. ahead' > 0 => Timer!Polls'  BY <1>1 DEF PollInv, Timer!Polls
  <2> QED  BY <1>1, <2>1, <2>2, <2>3 DEF PollInv
<1>5. AskedInv'  BY <1>1 DEF AskedInv
<1>6. WheelKeepsTime'
  <2>1. SUFFICES ASSUME NEW t \in Requests, left[t] # -1
                 PROVE  left[t] = due'[t] + behind' - (ahead - ticks) - (IF inTick THEN 1 ELSE 0)
    BY <1>1 DEF WheelKeepsTime, Timer!WheelKeepsTime, Timer!Off
  <2>2. left[t] = due[t] + behind - (ahead - ticks) - (IF inTick THEN 1 ELSE 0)
    BY <2>1 DEF WheelKeepsTime, Timer!WheelKeepsTime, Timer!Off
  <2>3. behind \in Nat /\ ahead \in Nat /\ ticks \in Nat /\ ticks <= ahead  BY DEF PollInv
  <2>4. ~(due[t] <= - MaxBehind)  BY <1>1, <1>2, <1>3, <2>1, <2>2, <2>3
  <2>5. due'[t] = due[t] - 1  BY <1>1, <2>1, <2>4
  <2> QED  BY <1>1, <1>3, <2>2, <2>3, <2>5
<1> QED  BY <1>4, <1>5, <1>6

(* Every millisecond of the clock is counted off every pending timer once: *)
(* by the poll under way or by one to come.                                *)
THEOREM TimerStageKeepsTime == MCSpec => []WheelKeepsTime
<1>1. MCInit => TimesInv  BY InitTimes DEF MCInit
<1>2. TimesInv /\ [MCNext]_<<part, vars, timer>> => TimesInv'
  <2> SUFFICES ASSUME TimesInv, [MCNext]_<<part, vars, timer>> PROVE TimesInv'
    OBVIOUS
  <2>1. CASE Timer!Next
    BY <2>1, TimesOutside, TimesPolling, TimesCallback, TimesAsking, TimesClock
    DEF Timer!Next, Timer!TimerThread
  <2>2. CASE UNCHANGED timer
    BY <2>2 DEF timer, TimesInv, PollInv, AskedInv, Timer!Polls, WheelKeepsTime,
                Timer!WheelKeepsTime
  <2> QED  BY <2>1, <2>2 DEF MCNext
<1>3. TimesInv => WheelKeepsTime  BY DEF TimesInv
<1> QED  BY <1>1, <1>2, <1>3, PTL DEF MCSpec
=============================================================================

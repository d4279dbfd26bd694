-------------------------------- MODULE Stage --------------------------------
(***************************************************************************)
(* sax::stage, sax::thread_obj, stage_creator and stage_mgr                *)
(* (sax/stage/stage.h, stage_mgr.cpp): stages of worker threads, each with *)
(* its own event queue, created one after the other, forwarding events to  *)
(* a stage created before, and all stopped by stage_mgr::stop_all.         *)
(*                                                                         *)
(* A queue is the channel of EventChannel, bounded to QueueCap events; the *)
(* ring that implements it is EventQueue.  The handlers are those of the   *)
(* pipeline in test/t_stage.cpp: on_start sends Emits[s] events, on_event  *)
(* forwards one event to Dest[s], if there is such a stage.                *)
(***************************************************************************)
EXTENDS Naturals, Sequences, FiniteSets

CONSTANTS NumThreads,  \* <<n1, n2, ...>>: the threads of each stage
          Dest,        \* where a stage's handlers send: an earlier stage, or 0
          Emits,       \* the events on_start sends, for each stage
          LooksUp,     \* the stages whose on_event calls get_stage_by_name
          QueueCap,    \* the events one queue has room for
          CanFail      \* whether init and g_thread_start may fail

Stages == DOMAIN NumThreads
Threads == UNION {{<<s, i>> : i \in 1 .. NumThreads[s]} : s \in Stages}
Of(s) == {t \in Threads : t[1] = s}
NoThread == <<0, 0>>

ASSUME ShapeAssumption ==
  /\ NumThreads \in Seq(Nat \ {0}) /\ NumThreads # <<>>
  /\ Dest \in [Stages -> Nat] /\ \A s \in Stages : Dest[s] < s
  /\ Emits \in [Stages -> Nat]
  /\ \A s \in Stages : Dest[s] = 0 => Emits[s] = 0
  /\ LooksUp \subseteq Stages
  /\ QueueCap \in Nat \ {0}
  /\ CanFail \in BOOLEAN

VARIABLES
  mpc, cur, idx,  \* the main thread: where it is, at which stage and thread
  mgrLock,        \* stage_mgr::_lock is held
  registered,     \* stage_mgr::_stages, in order
  gone,           \* the stages deleted
  stopped,        \* stage::_stopped
  status,         \* thread_obj::_create_status
  handle,         \* TRUE while thread_obj::_thread is not NULL
  stop,           \* thread_obj::_stop
  pc,             \* where each stage thread is
  emit,           \* the events its on_start has still to send
  at,             \* the queue it has been dispatched to, or NoThread
  queue           \* the events of its queue, oldest first

main == <<mpc, cur, idx>>
mgr == <<mgrLock, registered, gone, stopped>>
ctl == <<status, handle, stop>>
vars == <<mpc, cur, idx, mgrLock, registered, gone, stopped, status, handle,
          stop, pc, emit, at, queue>>

MainPCs == {"create", "start", "unwind", "unjoin", "ok", "register", "up",
            "signal", "join", "drain", "drop", "delete", "done"}
PCs == {"none", "born", "on_start", "pop", "check", "lookup", "on_event",
        "waiting", "push", "destroy", "on_finish", "exited"}
Statuses == {"creating", "ok", "failed"}

(* An event: its sender, whether it is committed, and, for the properties, *)
(* whether that came after its queue's thread last looked.                 *)
Event == [from : Threads, committed : BOOLEAN, late : BOOLEAN]

TypeOK ==
  /\ mpc \in MainPCs
  /\ cur \in 1 .. Len(NumThreads) + 1
  /\ idx \in Nat
  /\ mgrLock \in BOOLEAN
  /\ registered \in Seq(Stages)
  /\ gone \subseteq Stages
  /\ stopped \in [Stages -> BOOLEAN]
  /\ status \in [Threads -> Statuses]
  /\ handle \in [Threads -> BOOLEAN]
  /\ stop \in [Threads -> BOOLEAN]
  /\ pc \in [Threads -> PCs]
  /\ emit \in [Threads -> Nat]
  /\ at \in [Threads -> Threads \cup {NoThread}]
  /\ queue \in [Threads -> Seq(Event)]

Init ==
  /\ mpc = "create" /\ cur = 1 /\ idx = 1
  /\ mgrLock = FALSE
  /\ registered = <<>>
  /\ gone = {}
  /\ stopped = [s \in Stages |-> TRUE]
  /\ status = [t \in Threads |-> "creating"]
  /\ handle = [t \in Threads |-> FALSE]
  /\ stop = [t \in Threads |-> FALSE]
  /\ pc = [t \in Threads |-> "none"]
  /\ emit = [t \in Threads |-> Emits[t[1]]]
  /\ at = [t \in Threads |-> NoThread]
  /\ queue = [t \in Threads |-> <<>>]

-----------------------------------------------------------------------------
(* The stage threads: _thread_proc and run.                                *)

Go(t, from, to) == pc[t] = from /\ pc' = [pc EXCEPT ![t] = to]

(* wait_for_stage_creator has seen a decision. *)
Released(t) ==
  /\ status[t] # "creating"
  /\ Go(t, "born", IF status[t] = "ok" THEN "on_start" ELSE "exited")
  /\ UNCHANGED <<main, mgr, ctl, emit, at, queue>>

Started(t) ==
  /\ emit[t] = 0
  /\ Go(t, "on_start", "pop")
  /\ UNCHANGED <<main, mgr, ctl, emit, at, queue>>

(* A slip: _stop is looked at before the queue. *)
PopUnlessStopped(t) ==
  /\ Go(t, "pop", IF stop[t] THEN "on_finish"
                  ELSE IF queue[t] = <<>> \/ ~Head(queue[t]).committed THEN "check"
                  ELSE IF t[1] \in LooksUp THEN "lookup" ELSE "on_event")
  /\ UNCHANGED <<main, mgr, ctl, emit, at, queue>>

PopEvent(t) ==
  /\ Go(t, "pop", IF queue[t] = <<>> \/ ~Head(queue[t]).committed THEN "check"
                  ELSE IF t[1] \in LooksUp THEN "lookup" ELSE "on_event")
  /\ UNCHANGED <<main, mgr, ctl, emit, at, queue>>

(* Nothing to handle: _stop is read, and the loop left or run again (its   *)
(* sleeps are stuttering steps).                                           *)
CheckStop(t) ==
  /\ Go(t, "check", IF stop[t] THEN "on_finish" ELSE "pop")
  /\ UNCHANGED <<main, mgr, ctl, emit, at, queue>>

(* The handler calls get_stage_by_name, which takes the manager's lock. *)
GetStageByName(t) ==
  /\ ~mgrLock
  /\ Go(t, "lookup", "on_event")
  /\ UNCHANGED <<main, mgr, ctl, emit, at, queue>>

(* stage::allocate_event.  Racing callers of default_dispatcher may make   *)
(* it return any queue of the stage; single_dispatcher serves one queue.   *)
Dispatch(t) ==
  /\ Dest[t[1]] # 0
  /\ \/ pc[t] = "on_start" /\ emit[t] > 0
     \/ pc[t] = "on_event"
  /\ \E q \in Of(Dest[t[1]]) : at' = [at EXCEPT ![t] = q]
  /\ pc' = [pc EXCEPT ![t] = "waiting"]
  /\ UNCHANGED <<main, mgr, ctl, emit, queue>>

(* A slip: the event is committed as it is allocated. *)
AllocateCommitted(t) ==
  /\ pc[t] = "waiting"
  /\ Len(queue[at[t]]) < QueueCap
  /\ queue' = [queue EXCEPT ![at[t]] =
                 Append(@, [from |-> t, committed |-> TRUE, late |-> FALSE])]
  /\ pc' = [pc EXCEPT ![t] = "push"]
  /\ UNCHANGED <<main, mgr, ctl, emit, at>>

(* event_queue::allocate_event(wait = true) finds room. *)
AllocateEvent(t) ==
  /\ pc[t] = "waiting"
  /\ Len(queue[at[t]]) < QueueCap
  /\ queue' = [queue EXCEPT ![at[t]] =
                 Append(@, [from |-> t, committed |-> FALSE, late |-> FALSE])]
  /\ pc' = [pc EXCEPT ![t] = "push"]
  /\ UNCHANGED <<main, mgr, ctl, emit, at>>

(* A slip: forwarded events counted as events of on_start. *)
PushAndCount(t) ==
  /\ pc[t] = "push"
  /\ emit' = [emit EXCEPT ![t] = @ - 1]
  /\ at' = [at EXCEPT ![t] = NoThread]
  /\ pc' = [pc EXCEPT ![t] = IF emit[t] > 0 THEN "on_start" ELSE "destroy"]
  /\ queue' = [queue EXCEPT ![at[t]] =
                 [i \in DOMAIN @ |-> [@[i] EXCEPT !.committed = TRUE]]]
  /\ UNCHANGED <<main, mgr, ctl>>

(* stage::push_event commits the event; the handler goes on. *)
PushEvent(t) ==
  /\ pc[t] = "push"
  /\ queue' = [queue EXCEPT ![at[t]] =
       [i \in DOMAIN @ |->
          IF @[i].from = t /\ ~@[i].committed
          THEN [@[i] EXCEPT !.committed = TRUE,
                            !.late = pc[at[t]] \in {"check", "on_finish", "exited"}]
          ELSE @[i]]]
  /\ at' = [at EXCEPT ![t] = NoThread]
  /\ IF emit[t] > 0
     THEN /\ emit' = [emit EXCEPT ![t] = @ - 1]
          /\ pc' = [pc EXCEPT ![t] = "on_start"]
     ELSE /\ pc' = [pc EXCEPT ![t] = "destroy"]
          /\ UNCHANGED emit
  /\ UNCHANGED <<main, mgr, ctl>>

(* on_event of a stage that sends nothing on. *)
Consume(t) ==
  /\ Dest[t[1]] = 0
  /\ Go(t, "on_event", "destroy")
  /\ UNCHANGED <<main, mgr, ctl, emit, at, queue>>

(* A slip: the event is not given back to the queue. *)
DestroyKeepsBlock(t) ==
  /\ Go(t, "destroy", "pop")
  /\ UNCHANGED <<main, mgr, ctl, emit, at, queue>>

DestroyEvent(t) ==
  /\ Go(t, "destroy", "pop")
  /\ queue' = [queue EXCEPT ![t] = Tail(@)]
  /\ UNCHANGED <<main, mgr, ctl, emit, at>>

Finish(t) ==
  /\ Go(t, "on_finish", "exited")
  /\ UNCHANGED <<main, mgr, ctl, emit, at, queue>>

StageThread(t) ==
  \/ Released(t) \/ Started(t) \/ PopEvent(t) \/ CheckStop(t)
  \/ GetStageByName(t) \/ Dispatch(t) \/ AllocateEvent(t) \/ PushEvent(t)
  \/ Consume(t) \/ DestroyEvent(t) \/ Finish(t)

-----------------------------------------------------------------------------
(* The main thread: create_stage for each stage, then stop_all.            *)

(* The handlers and queues of the next stage; a handler's init may fail.   *)
(* After any failure the main thread creates no other stage.               *)
CreateHandlers ==
  /\ mpc = "create"
  /\ \/ mpc' = "start" /\ UNCHANGED gone
     \/ CanFail /\ mpc' = "up" /\ gone' = gone \cup {cur}
  /\ idx' = 1
  /\ UNCHANGED <<cur, mgrLock, registered, stopped, ctl, pc, emit, at, queue>>

(* A slip: each thread let go as soon as it has started. *)
StartReleased ==
  LET t == <<cur, idx>> IN
  /\ mpc = "start"
  /\ pc' = [pc EXCEPT ![t] = "born"]
  /\ handle' = [handle EXCEPT ![t] = TRUE]
  /\ status' = [status EXCEPT ![t] = "ok"]
  /\ IF idx < NumThreads[cur] THEN mpc' = mpc /\ idx' = idx + 1
                              ELSE mpc' = "ok" /\ idx' = 1
  /\ UNCHANGED <<cur, mgr, stop, emit, at, queue>>

StartThread ==
  LET t == <<cur, idx>> IN
  /\ mpc = "start"
  /\ pc' = [pc EXCEPT ![t] = "born"]
  /\ handle' = [handle EXCEPT ![t] = TRUE]
  /\ IF idx < NumThreads[cur] THEN mpc' = mpc /\ idx' = idx + 1
                              ELSE mpc' = "ok" /\ idx' = 1
  /\ UNCHANGED <<cur, mgr, status, stop, emit, at, queue>>

FailStart ==
  /\ mpc = "start" /\ CanFail
  /\ mpc' = "unwind" /\ idx' = 1
  /\ UNCHANGED <<cur, mgr, ctl, pc, emit, at, queue>>

(* A slip: the threads are joined without being told to give up. *)
UnwindUntold ==
  LET t == <<cur, idx>> IN
  /\ mpc = "unwind"
  /\ IF t \in Threads /\ handle[t] THEN mpc' = "unjoin" /\ UNCHANGED gone
                                   ELSE mpc' = "up" /\ gone' = gone \cup {cur}
  /\ UNCHANGED <<cur, idx, mgrLock, registered, stopped, ctl,
                 pc, emit, at, queue>>

(* create_stage_failed: each thread that was started is told to give up,   *)
(* joined and deleted.                                                     *)
Unwind ==
  LET t == <<cur, idx>> IN
  /\ mpc = "unwind"
  /\ IF t \in Threads /\ handle[t]
     THEN /\ status' = [status EXCEPT ![t] = "failed"]
          /\ mpc' = "unjoin"
          /\ UNCHANGED gone
     ELSE /\ mpc' = "up"
          /\ gone' = gone \cup {cur}
          /\ UNCHANGED status
  /\ UNCHANGED <<cur, idx, mgrLock, registered, stopped, handle, stop,
                 pc, emit, at, queue>>

JoinFailed ==
  LET t == <<cur, idx>> IN
  /\ mpc = "unjoin"
  /\ pc[t] = "exited"
  /\ handle' = [handle EXCEPT ![t] = FALSE]
  /\ mpc' = "unwind" /\ idx' = idx + 1
  /\ UNCHANGED <<cur, mgr, status, stop, pc, emit, at, queue>>

ReleaseThread ==
  /\ mpc = "ok"
  /\ status' = [status EXCEPT ![<<cur, idx>>] = "ok"]
  /\ IF idx < NumThreads[cur] THEN mpc' = mpc /\ idx' = idx + 1
                              ELSE mpc' = "register" /\ idx' = 1
  /\ UNCHANGED <<cur, mgr, handle, stop, pc, emit, at, queue>>

(* stage::start and stage_mgr::register_stage. *)
Register ==
  /\ mpc = "register"
  /\ ~mgrLock
  /\ stopped' = [stopped EXCEPT ![cur] = FALSE]
  /\ registered' = Append(registered, cur)
  /\ cur' = cur + 1
  /\ mpc' = IF cur = Len(NumThreads) THEN "up" ELSE "create"
  /\ UNCHANGED <<idx, mgrLock, gone, ctl, pc, emit, at, queue>>

StopAll ==
  /\ mpc = "up"
  /\ ~mgrLock
  /\ cur' = 1 /\ idx' = 1
  /\ IF registered = <<>> THEN mpc' = "done" /\ UNCHANGED mgrLock
                          ELSE mpc' = "signal" /\ mgrLock' = TRUE
  /\ UNCHANGED <<registered, gone, stopped, ctl, pc, emit, at, queue>>

(* The loops of stop_all over the threads of the registered stages. *)
Visited == <<registered[cur], idx>>
Advance(phase) ==
  IF idx < NumThreads[registered[cur]] THEN mpc' = mpc /\ cur' = cur /\ idx' = idx + 1
  ELSE /\ idx' = 1
       /\ IF cur < Len(registered) THEN mpc' = mpc /\ cur' = cur + 1
                                   ELSE mpc' = phase /\ cur' = 1

(* A slip: only the first stage of the list is signalled. *)
SignalHeadOnly ==
  /\ mpc = "signal"
  /\ stop' = [stop EXCEPT ![Visited] = cur = 1]
  /\ Advance("join")
  /\ UNCHANGED <<mgr, status, handle, pc, emit, at, queue>>

SignalStop ==
  /\ mpc = "signal"
  /\ stop' = [stop EXCEPT ![Visited] = TRUE]
  /\ Advance("join")
  /\ UNCHANGED <<mgr, status, handle, pc, emit, at, queue>>

(* A slip: the thread is let go of without waiting for it. *)
ForgetThread ==
  /\ mpc = "join"
  /\ stopped' = [stopped EXCEPT ![registered[cur]] = TRUE]
  /\ handle' = [handle EXCEPT ![Visited] = FALSE]
  /\ Advance("drain")
  /\ UNCHANGED <<mgrLock, registered, gone, status, stop, pc, emit, at, queue>>

WaitForStop ==
  /\ mpc = "join"
  /\ pc[Visited] = "exited"
  /\ stopped' = [stopped EXCEPT ![registered[cur]] = TRUE]
  /\ handle' = [handle EXCEPT ![Visited] = FALSE]
  /\ Advance("drain")
  /\ UNCHANGED <<mgrLock, registered, gone, status, stop, pc, emit, at, queue>>

(* delete node: ~stage deletes its threads, and ~thread_obj pops what is   *)
(* left in the queue and destroys it, until nothing committed comes first. *)
Drain ==
  LET q == queue[Visited] IN
  /\ mpc = "drain"
  /\ IF q # <<>> /\ Head(q).committed
     THEN mpc' = "drop" /\ UNCHANGED idx
     ELSE IF idx < NumThreads[registered[cur]] THEN idx' = idx + 1 /\ UNCHANGED mpc
                                               ELSE idx' = 1 /\ mpc' = "delete"
  /\ UNCHANGED <<cur, mgr, ctl, pc, emit, at, queue>>

Drop ==
  /\ mpc = "drop"
  /\ queue' = [queue EXCEPT ![Visited] = Tail(@)]
  /\ mpc' = "drain"
  /\ UNCHANGED <<cur, idx, mgr, ctl, pc, emit, at>>

(* The rest of ~stage; the list is at its end when no stage is left. *)
DeleteStage ==
  /\ mpc = "delete"
  /\ gone' = gone \cup {Head(registered)}
  /\ registered' = Tail(registered)
  /\ IF Len(registered) > 1 THEN mpc' = "drain" /\ UNCHANGED mgrLock
                            ELSE mpc' = "done" /\ mgrLock' = FALSE
  /\ UNCHANGED <<cur, idx, stopped, ctl, pc, emit, at, queue>>

Create == \/ CreateHandlers \/ StartThread \/ FailStart \/ Unwind
          \/ JoinFailed \/ ReleaseThread \/ Register
Stop == SignalStop \/ WaitForStop \/ Drain \/ Drop \/ DeleteStage

Next == \/ \E t \in Threads : StageThread(t)
        \/ Create \/ StopAll \/ Stop

Spec == Init /\ [][Next]_vars

(* Every thread that can run does; nothing obliges the program to stop. *)
Fairness == /\ \A t \in Threads : WF_vars(StageThread(t))
            /\ WF_vars(Create \/ Stop)

FairSpec == Spec /\ Fairness

-----------------------------------------------------------------------------
(* Properties *)

Running(t) == pc[t] \notin {"none", "born", "exited"}

(* A handler only runs in a stage that is complete: every thread started,  *)
(* so that the failure path never meets a thread inside a handler.         *)
RunsInWholeStage ==
  \A t \in Threads : Running(t) =>
    /\ \A u \in Of(t[1]) : pc[u] # "none"
    /\ mpc \in {"unwind", "unjoin"} => cur # t[1]

(* What ~stage and ~thread_obj assert (stage.h:163, :84), and what they    *)
(* rely on: the threads of a stage under deletion, and every thread that   *)
(* could still send to it, have exited.                                    *)
DeletesOnlyTheQuiet ==
  \A s \in gone \cup (IF mpc \in {"drain", "drop", "delete"}
                      THEN {Head(registered)} ELSE {}) :
    /\ stopped[s]
    /\ \A t \in Of(s) : ~handle[t] /\ ~Running(t)
    /\ \A t \in Threads : Running(t) => Dest[t[1]] # s

(* The loop of thread_obj::run looks at the queue before it looks at       *)
(* _stop, so a thread leaves behind a committed event only if it was       *)
(* committed after that last look, or stands behind one that is not        *)
(* committed.                                                              *)
LeftBehindCameLate ==
  \A t \in Threads :
    pc[t] \in {"on_finish", "exited"} /\ queue[t] # <<>>
      /\ mpc \notin {"drain", "drop", "delete", "done"}
    => ~Head(queue[t]).committed \/ Head(queue[t]).late

(* Every queue is used as EventChannel allows: by its thread, and by       *)
(* ~thread_obj once that has been joined, but never by both.               *)
Channel(t) == INSTANCE EventChannel WITH
  Producers <- Threads,
  Lens <- {1},
  slots <- [i \in DOMAIN queue[t] |-> [owner |-> queue[t][i].from, len |-> 1,
                                       committed |-> queue[t][i].committed]],
  handling <- \/ pc[t] \in {"lookup", "on_event", "destroy"}
              \/ pc[t] \in {"waiting", "push"} /\ emit[t] = 0
              \/ mpc = "drop" /\ Visited = t

QueuesAreChannels ==
  /\ \A t \in Threads : Channel(t)!ChanInit
  /\ [][\A t \in Threads : [Channel(t)!ChanNext]_(Channel(t)!chanVars)]_vars

(* create_stage returns, whether it succeeds or not. *)
CreateReturns == mpc = "create" ~> mpc \in {"up", "signal"}

(* Committed events are handled as long as nobody stops the thread. *)
EventsAreHandled ==
  \A t \in Threads : queue[t] # <<>> ~> queue[t] = <<>> \/ stop[t]

(* stop_all returns, unless a handler waits for room in a queue whose      *)
(* thread has already exited, or for the lock stop_all itself holds.       *)
Abandoned(t) ==
  \/ pc[t] = "waiting" /\ pc[at[t]] = "exited" /\ Len(queue[at[t]]) = QueueCap
  \/ pc[t] = "lookup" /\ mgrLock
StopReturns ==
  mpc = "signal" ~> mpc = "done" \/ \E t \in Threads : Abandoned(t)
=============================================================================

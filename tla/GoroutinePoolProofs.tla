------------------------ MODULE GoroutinePoolProofs ------------------------
(***************************************************************************)
(* Proofs about GoroutinePool, for every number of tasks, workers, closers *)
(* and slots, every policy and every retry count.                          *)
(***************************************************************************)
EXTENDS GoroutinePool, SequenceTheorems, FiniteSetTheorems, TLAPS

(* The steps of the pool, one disjunct each: the case split of the proofs. *)
LEMMA NextCases ==
  ASSUME Next
  PROVE  \/ Start
         \/ \E t \in Tasks : \/ SubmitCheck(t) \/ SendPanics(t) \/ Enqueue(t) \/ Reject(t)
                             \/ Block(t) \/ EnsureWorkers(t) \/ AddWorker(t)
         \/ \E w \in WorkerIds : \/ Receive(w) \/ Exit(w) \/ Activate(w) \/ RunSucceeds(w)
                                 \/ RunFails(w) \/ GiveUp(w) \/ MarkDone(w) \/ Deactivate(w)
         \/ \E c \in Closers : \/ ShutdownRefused(c) \/ Shutdown(c) \/ ShutdownPanics(c)
                               \/ WaitGroupZero(c) \/ ShutdownDone(c) \/ ShutdownTimeout(c)
  BY DEF Next, Submit, WorkerStep, ShutdownStep

(* Every initial state, started or not, has the declared types. *)
LEMMA ConstructedTyped ==
  ASSUME Constructed, isStarted \in BOOLEAN, workerCount \in 0 .. MaxWorkers,
         worker \in [WorkerIds -> WorkerState]
  PROVE  TypeOK
<1> USE OptionsAssumption DEF Constructed
<1>1. queue \in Seq(Tasks) /\ Len(queue) <= QueueSize /\ sendq \in Seq(Tasks)
  OBVIOUS
<1>2. /\ held \in [WorkerIds -> Tasks \cup {NoTask}]
      /\ submitter \in [Tasks -> SubmitterState]
      /\ taskErr \in [Tasks -> TaskErr]
      /\ retries \in [Tasks -> Nat]
      /\ done \in [Tasks -> BOOLEAN]
  BY DEF SubmitterState, TaskErr
<1>3. /\ closer \in [Closers -> CloserState]
      /\ helper \in [Closers -> HelperState]
  BY DEF CloserState, HelperState
<1>4. activeCount \in Int /\ completedCount \in Nat /\ failedCount \in Nat /\ rejectedCount \in Nat
  OBVIOUS
<1>5. isStarted \in BOOLEAN
  OBVIOUS
<1>6. isShutdown \in BOOLEAN /\ chanClosed \in BOOLEAN
  OBVIOUS
<1>7. worker \in [WorkerIds -> WorkerState] /\ workerCount \in 0 .. MaxWorkers
  OBVIOUS
<1>8. QED
  BY <1>1, <1>2, <1>3, <1>4, <1>5, <1>6, <1>7 DEF TypeOK

LEMMA InitTyped == Init => TypeOK
<1> SUFFICES ASSUME Init PROVE TypeOK
  OBVIOUS
<1>1. workerCount \in 0 .. MaxWorkers
  BY OptionsAssumption DEF Init
<1>2. worker \in [WorkerIds -> WorkerState]
  BY DEF Init, WorkerState
<1>3. QED
  BY <1>1, <1>2, ConstructedTyped DEF Init

LEMMA InitStartedTyped == InitStarted => TypeOK
<1> SUFFICES ASSUME InitStarted PROVE TypeOK
  OBVIOUS
<1>1. workerCount \in 0 .. MaxWorkers
  BY OptionsAssumption DEF InitStarted
<1>2. worker \in [WorkerIds -> WorkerState]
  BY DEF InitStarted, WorkerState
<1>3. QED
  BY <1>1, <1>2, ConstructedTyped DEF InitStarted

LEMMA AddWorkersTyped ==
  ASSUME TypeOK, NEW n \in Nat, AddWorkers(n)
  PROVE  workerCount' \in 0 .. MaxWorkers /\ worker' \in [WorkerIds -> WorkerState]
<1>1. workerCount' \in 0 .. MaxWorkers
  BY OptionsAssumption DEF TypeOK, AddWorkers, CountAfterAdding
<1>2. worker' \in [WorkerIds -> WorkerState]
  BY DEF TypeOK, AddWorkers, WorkerState
<1>3. QED
  BY <1>1, <1>2

(* No step leaves the types: in particular no step adds a worker beyond    *)
(* MaxWorkers or a task beyond QueueSize.                                  *)
LEMMA StepTyped == TypeOK /\ [Next]_vars => TypeOK'
<1> SUFFICES ASSUME TypeOK, [Next]_vars PROVE TypeOK'
  OBVIOUS
<1> USE OptionsAssumption, TasksAssumption
        DEF TypeOK, WorkerIds, WorkerState, SubmitterState, TaskErr, CloserState, HelperState,
            poolVars, chanVars, workerVars, taskVars, countVars, closeVars
<1>1. CASE Start
  <2>1. workerCount' \in 0 .. MaxWorkers /\ worker' \in [WorkerIds -> WorkerState]
    BY <1>1, AddWorkersTyped DEF Start
  <2>2. QED
    BY <2>1, <1>1 DEF Start, AddWorkers
<1>2. ASSUME NEW t \in Tasks, SubmitCheck(t) PROVE TypeOK'
  BY <1>2 DEF SubmitCheck, Settle
<1>3. ASSUME NEW t \in Tasks, SendPanics(t) PROVE TypeOK'
  BY <1>3 DEF SendPanics
<1>4. ASSUME NEW t \in Tasks, Enqueue(t) PROVE TypeOK'
  BY <1>4 DEF Enqueue
<1>5. ASSUME NEW t \in Tasks, Reject(t) PROVE TypeOK'
  BY <1>5 DEF Reject, Settle
<1>6. ASSUME NEW t \in Tasks, Block(t) PROVE TypeOK'
  BY <1>6 DEF Block
<1>7. ASSUME NEW t \in Tasks, EnsureWorkers(t) PROVE TypeOK'
  BY <1>7 DEF EnsureWorkers
<1>8. ASSUME NEW t \in Tasks, AddWorker(t) PROVE TypeOK'
  <2>1. workerCount' \in 0 .. MaxWorkers /\ worker' \in [WorkerIds -> WorkerState]
    BY <1>8, AddWorkersTyped DEF AddWorker
  <2>2. QED
    BY <2>1, <1>8 DEF AddWorker, AddWorkers
<1>9. ASSUME NEW w \in WorkerIds, Receive(w) PROVE TypeOK'
  <2>1. queue' \in Seq(Tasks) /\ Len(queue') <= QueueSize /\ sendq' \in Seq(Tasks)
    <3>1. queue # <<>>
      BY <1>9 DEF Receive
    <3>2. Tail(queue) \in Seq(Tasks) /\ Len(Tail(queue)) = Len(queue) - 1
      BY <3>1, HeadTailProperties
    <3>3. CASE sendq = <<>>
      <4>1. queue' = Tail(queue) /\ sendq' = sendq
        BY <3>3, <1>9 DEF Receive
      <4>2. QED
        BY <3>2, <4>1
    <3>4. CASE sendq # <<>>
      <4>1. queue' = Append(Tail(queue), Head(sendq)) /\ sendq' = Tail(sendq)
        BY <3>4, <1>9 DEF Receive
      <4>2. Head(sendq) \in Tasks /\ Tail(sendq) \in Seq(Tasks)
        BY <3>4, HeadTailProperties
      <4>3. QED
        BY <3>2, <4>1, <4>2
    <3>5. QED
      BY <3>3, <3>4
  <2>2. held' \in [WorkerIds -> Tasks \cup {NoTask}]
    BY <1>9 DEF Receive
  <2>3. submitter' \in [Tasks -> SubmitterState]
    BY <1>9 DEF Receive
  <2>4. worker' \in [WorkerIds -> WorkerState]
    BY <1>9 DEF Receive, Goto
  <2>5. QED
    BY <2>1, <2>2, <2>3, <2>4, <1>9 DEF Receive, Goto
<1>10. ASSUME NEW w \in WorkerIds, Exit(w) PROVE TypeOK'
  BY <1>10 DEF Exit, Goto
<1>11. ASSUME NEW w \in WorkerIds, Activate(w) PROVE TypeOK'
  BY <1>11 DEF Activate, Goto
<1>12. ASSUME NEW w \in WorkerIds, RunSucceeds(w) PROVE TypeOK'
  <2>1. taskErr' \in [Tasks -> TaskErr]
    BY <1>12 DEF RunSucceeds
  <2>2. completedCount' \in Nat
    BY <1>12 DEF RunSucceeds
  <2>3. worker' \in [WorkerIds -> WorkerState]
    BY <1>12 DEF RunSucceeds, Goto
  <2>4. QED
    BY <2>1, <2>2, <2>3, <1>12 DEF RunSucceeds, Goto
<1>13. ASSUME NEW w \in WorkerIds, RunFails(w) PROVE TypeOK'
  <2>1. retries' \in [Tasks -> Nat]
    <3>1. CASE held[w] \in Tasks
      <4>1. retries[held[w]] + 1 \in Nat
        BY <3>1
      <4>2. QED
        BY <4>1, <1>13 DEF RunFails
    <3>2. CASE held[w] \notin Tasks
      BY <3>2, <1>13 DEF RunFails
    <3>3. QED
      BY <3>1, <3>2
  <2>2. taskErr' \in [Tasks -> TaskErr]
    BY <1>13 DEF RunFails
  <2>3. QED
    BY <2>1, <2>2, <1>13 DEF RunFails
<1>14. ASSUME NEW w \in WorkerIds, GiveUp(w) PROVE TypeOK'
  BY <1>14 DEF GiveUp, Goto
<1>15. ASSUME NEW w \in WorkerIds, MarkDone(w) PROVE TypeOK'
  BY <1>15 DEF MarkDone, Goto
<1>16. ASSUME NEW w \in WorkerIds, Deactivate(w) PROVE TypeOK'
  BY <1>16 DEF Deactivate, Goto
<1>17. ASSUME NEW c \in Closers, ShutdownRefused(c) PROVE TypeOK'
  BY <1>17 DEF ShutdownRefused
<1>18. ASSUME NEW c \in Closers, Shutdown(c) PROVE TypeOK'
  BY <1>18 DEF Shutdown
<1>19. ASSUME NEW c \in Closers, ShutdownPanics(c) PROVE TypeOK'
  BY <1>19 DEF ShutdownPanics
<1>20. ASSUME NEW c \in Closers, WaitGroupZero(c) PROVE TypeOK'
  BY <1>20 DEF WaitGroupZero
<1>21. ASSUME NEW c \in Closers, ShutdownDone(c) PROVE TypeOK'
  BY <1>21 DEF ShutdownDone
<1>22. ASSUME NEW c \in Closers, ShutdownTimeout(c) PROVE TypeOK'
  BY <1>22 DEF ShutdownTimeout
<1>23. CASE UNCHANGED vars
  BY <1>23 DEF vars
<1>24. QED
  BY <1>1, <1>2, <1>3, <1>4, <1>5, <1>6, <1>7, <1>8, <1>9, <1>10, <1>11, <1>12, <1>13,
     <1>14, <1>15, <1>16, <1>17, <1>18, <1>19, <1>20, <1>21, <1>22, <1>23, NextCases

(* The pool never has more than MaxWorkers workers or QueueSize buffered   *)
(* tasks, and its state keeps the declared types, whether Start comes      *)
(* first, late or never.                                                   *)
THEOREM TypeCorrect == Spec => []TypeOK
<1>1. QED
  BY InitTyped, StepTyped, PTL DEF Spec

THEOREM TypeCorrectStarted == StartedSpec => []TypeOK
<1>1. QED
  BY InitStartedTyped, StepTyped, PTL DEF StartedSpec
-----------------------------------------------------------------------------
(* Facts about the buffers. *)

LEMMA AppendWithin ==
  ASSUME NEW S, NEW s \in Seq(S), NEW e \in S
  PROVE  \A x : Within(x, Append(s, e)) <=> (Within(x, s) \/ x = e)
<1>1. /\ DOMAIN Append(s, e) = 1 .. Len(s) + 1
      /\ \A i \in 1 .. Len(s) : Append(s, e)[i] = s[i]
      /\ Append(s, e)[Len(s) + 1] = e
      /\ DOMAIN s = 1 .. Len(s) /\ Len(s) \in Nat
  BY AppendProperties, LenProperties
<1>2. QED
  BY <1>1 DEF Within

LEMMA AppendOnce ==
  ASSUME NEW S, NEW s \in Seq(S), NEW e \in S, OnlyOnce(s), ~Within(e, s)
  PROVE  OnlyOnce(Append(s, e))
<1>1. /\ DOMAIN Append(s, e) = 1 .. Len(s) + 1
      /\ \A i \in 1 .. Len(s) : Append(s, e)[i] = s[i]
      /\ Append(s, e)[Len(s) + 1] = e
      /\ DOMAIN s = 1 .. Len(s) /\ Len(s) \in Nat
  BY AppendProperties, LenProperties
<1>2. QED
  BY <1>1 DEF Within, OnlyOnce

LEMMA TailOnce ==
  ASSUME NEW S, NEW s \in Seq(S), s # <<>>, OnlyOnce(s)
  PROVE  /\ OnlyOnce(Tail(s))
         /\ Within(Head(s), s) /\ ~Within(Head(s), Tail(s))
         /\ \A x : Within(x, Tail(s)) <=> (Within(x, s) /\ x # Head(s))
<1>1. /\ Tail(s) \in Seq(S) /\ Len(Tail(s)) = Len(s) - 1
      /\ \A i \in 1 .. Len(s) - 1 : Tail(s)[i] = s[i + 1]
      /\ Head(s) = s[1] /\ Len(s) \in Nat /\ Len(s) >= 1
      /\ DOMAIN s = 1 .. Len(s)
  BY HeadTailProperties, LenProperties, EmptySeq
<1>2. DOMAIN Tail(s) = 1 .. Len(s) - 1
  BY <1>1, LenProperties
<1>3. \A i \in 1 .. Len(s) : \A j \in 1 .. Len(s) : s[i] = s[j] => i = j
  BY <1>1 DEF OnlyOnce
<1>4. OnlyOnce(Tail(s))
  BY <1>1, <1>2, <1>3 DEF OnlyOnce
<1>5. Within(Head(s), s)
  BY <1>1 DEF Within
<1>6. ASSUME NEW x PROVE Within(x, Tail(s)) <=> (Within(x, s) /\ x # Head(s))
  <2>1. ASSUME Within(x, Tail(s)) PROVE Within(x, s) /\ x # Head(s)
    <3>1. PICK i \in 1 .. Len(s) - 1 : s[i + 1] = x
      BY <2>1, <1>1, <1>2 DEF Within
    <3>2. i + 1 \in 1 .. Len(s) /\ i + 1 # 1 /\ 1 \in 1 .. Len(s)
      BY <1>1
    <3>3. QED
      BY <3>1, <3>2, <1>1, <1>3 DEF Within
  <2>2. ASSUME Within(x, s), x # Head(s) PROVE Within(x, Tail(s))
    <3>1. PICK i \in 1 .. Len(s) : s[i] = x
      BY <2>2, <1>1 DEF Within
    <3>2. i - 1 \in 1 .. Len(s) - 1 /\ (i - 1) + 1 = i
      BY <3>1, <2>2, <1>1
    <3>3. Tail(s)[i - 1] = x
      BY <3>1, <3>2, <1>1
    <3>4. QED
      BY <3>2, <3>3, <1>2 DEF Within
  <2>3. QED
    BY <2>1, <2>2
<1>7. QED
  BY <1>4, <1>5, <1>6
-----------------------------------------------------------------------------
(* Where tasks are: LifeInv is inductive. *)

LEMMA ConstructedLife ==
  ASSUME Constructed,
         \A w \in WorkerIds : worker[w] \in {"absent", "idle", "exited"}
  PROVE  LifeInv
<1>1. \A t : ~Within(t, <<>>)
  BY DEF Within
<1>2. OnlyOnce(<<>>)
  BY DEF OnlyOnce
<1>3. \A t \in Tasks : ~InHand(t)
  BY TasksAssumption DEF Constructed, InHand
<1>4. QueueInv
  BY <1>1, <1>2 DEF Constructed, QueueInv
<1>5. PlaceInv
  BY <1>1, <1>3 DEF Constructed, PlaceInv, InPool
<1>6. HandInv
  BY DEF Constructed, HandInv
<1>7. QED
  BY <1>4, <1>5, <1>6 DEF LifeInv

LEMMA InitLife == Init => LifeInv
<1> SUFFICES ASSUME Init PROVE LifeInv
  OBVIOUS
<1>2. \A w \in WorkerIds : worker[w] \in {"absent", "idle", "exited"}
  BY DEF Init
<1>3. QED
  BY <1>2, ConstructedLife DEF Init

LEMMA InitStartedLife == InitStarted => LifeInv
<1> SUFFICES ASSUME InitStarted PROVE LifeInv
  OBVIOUS
<1>2. \A w \in WorkerIds : worker[w] \in {"absent", "idle", "exited"}
  BY DEF InitStarted
<1>3. QED
  BY <1>2, ConstructedLife DEF InitStarted

(* A step that moves no task and releases nobody. *)
LEMMA LifeFrame ==
  ASSUME LifeInv, UNCHANGED <<queue, sendq, held, done, submitter>>,
         \A w \in WorkerIds : \/ worker'[w] = worker[w]
                              \/ {worker[w], worker'[w]} \subseteq {"idle", "exited"}
                              \/ {worker[w], worker'[w]} \subseteq {"received", "running", "counted"}
  PROVE  LifeInv'
<1> \A t \in Tasks : InHand(t)' <=> InHand(t)
  BY DEF InHand
<1>1. QueueInv'
  BY DEF LifeInv, QueueInv
<1>2. PlaceInv'
  BY DEF LifeInv, PlaceInv
<1>3. HandInv'
  BY DEF LifeInv, HandInv
<1>4. QED
  BY <1>1, <1>2, <1>3 DEF LifeInv

(* A step that only moves submitters outside the channel, or inside it. *)
LEMMA LifeSubmitterFrame ==
  ASSUME LifeInv, UNCHANGED <<queue, sendq, held, done, worker>>,
         \A t \in Tasks : submitter'[t] # submitter[t] =>
            /\ submitter'[t] \in InPool <=> submitter[t] \in InPool
            /\ submitter[t] = "blocked" => submitter'[t] = "panicked"
            /\ submitter[t] # "panicked"
  PROVE  LifeInv'
<1> \A t \in Tasks : InHand(t)' <=> InHand(t)
  BY DEF InHand
<1>1. QueueInv'
  BY DEF LifeInv, QueueInv
<1>2. PlaceInv'
  BY DEF LifeInv, PlaceInv
<1>3. HandInv'
  BY DEF LifeInv, HandInv
<1>4. QED
  BY <1>1, <1>2, <1>3 DEF LifeInv

(* A submission that is answered at once, refused or rejected. *)
LEMMA LifeSettle ==
  ASSUME TypeOK, LifeInv, NEW t \in Tasks, NEW err, Settle(t, err),
         submitter[t] \in {"idle", "checked"},
         submitter' = [submitter EXCEPT ![t] = "returned"],
         UNCHANGED <<queue, sendq, held, worker>>
  PROVE  LifeInv'
<1>1. /\ submitter[t] \notin InPool /\ ~Within(t, queue) /\ ~InHand(t) /\ ~done[t]
      /\ ~Within(t, sendq)
  BY DEF LifeInv, PlaceInv, QueueInv, InPool
<1>2. \A u \in Tasks : InHand(u)' <=> InHand(u)
  BY DEF InHand
<1>3. \A u \in Tasks : u # t => done'[u] = done[u] /\ submitter'[u] = submitter[u]
  BY DEF Settle, TypeOK
<1>4. done'[t] = TRUE /\ submitter'[t] = "returned"
  BY DEF Settle, TypeOK
<1>5. QueueInv'
  BY <1>1, <1>2, <1>3 DEF LifeInv, QueueInv
<1>6. PlaceInv'
  BY <1>2, <1>3, <1>4 DEF LifeInv, PlaceInv, InPool
<1>7. HandInv'
  <2>1. \A w \in WorkerIds : held[w] # t
    BY <1>1 DEF InHand
  <2>2. \A w \in WorkerIds : held[w] # NoTask => done'[held[w]] = done[held[w]]
    BY <2>1, <1>3 DEF TypeOK
  <2>3. QED
    BY <2>2 DEF LifeInv, HandInv
<1>8. QED
  BY <1>5, <1>6, <1>7 DEF LifeInv

LEMMA LifeEnqueue ==
  ASSUME TypeOK, LifeInv, NEW t \in Tasks, Enqueue(t)
  PROVE  LifeInv'
<1>1. /\ submitter[t] = "checked" /\ queue' = Append(queue, t)
      /\ submitter' = [submitter EXCEPT ![t] = "sent"]
      /\ UNCHANGED <<sendq, held, worker, done>>
  BY DEF Enqueue, workerVars, taskVars
<1>2. ~Within(t, queue) /\ ~InHand(t) /\ ~done[t] /\ ~Within(t, sendq)
  BY <1>1 DEF LifeInv, PlaceInv, QueueInv, InPool
<1>3. /\ OnlyOnce(queue')
      /\ \A u \in Tasks : Within(u, queue') <=> (Within(u, queue) \/ u = t)
  BY <1>1, <1>2, AppendOnce, AppendWithin DEF TypeOK, LifeInv, QueueInv
<1>4. \A u \in Tasks : InHand(u)' <=> InHand(u)
  BY <1>1 DEF InHand
<1>5. \A u \in Tasks : u # t => submitter'[u] = submitter[u]
  BY <1>1 DEF TypeOK
<1>6. submitter'[t] = "sent"
  BY <1>1 DEF TypeOK
<1>7. QueueInv'
  BY <1>1, <1>2, <1>3, <1>4, <1>5 DEF LifeInv, QueueInv
<1>8. PlaceInv'
  BY <1>1, <1>3, <1>4, <1>5, <1>6 DEF LifeInv, PlaceInv, InPool
<1>9. HandInv'
  BY <1>1 DEF LifeInv, HandInv
<1>10. QED
  BY <1>7, <1>8, <1>9 DEF LifeInv

LEMMA LifeBlock ==
  ASSUME TypeOK, LifeInv, NEW t \in Tasks, Block(t)
  PROVE  LifeInv'
<1>1. /\ submitter[t] = "checked" /\ sendq' = Append(sendq, t)
      /\ submitter' = [submitter EXCEPT ![t] = "blocked"]
      /\ UNCHANGED <<queue, held, worker, done>>
  BY DEF Block, QueueFull, workerVars, taskVars
<1>2. ~Within(t, queue) /\ ~InHand(t) /\ ~done[t] /\ ~Within(t, sendq)
  BY <1>1 DEF LifeInv, PlaceInv, QueueInv, InPool
<1>3. /\ OnlyOnce(sendq')
      /\ \A u \in Tasks : Within(u, sendq') <=> (Within(u, sendq) \/ u = t)
  BY <1>1, <1>2, AppendOnce, AppendWithin DEF TypeOK, LifeInv, QueueInv
<1>4. \A u \in Tasks : InHand(u)' <=> InHand(u)
  BY <1>1 DEF InHand
<1>5. \A u \in Tasks : u # t => submitter'[u] = submitter[u]
  BY <1>1 DEF TypeOK
<1>6. submitter'[t] = "blocked"
  BY <1>1 DEF TypeOK
<1>7. QueueInv'
  BY <1>1, <1>3, <1>4, <1>5, <1>6 DEF LifeInv, QueueInv
<1>8. PlaceInv'
  BY <1>1, <1>2, <1>4, <1>5, <1>6 DEF LifeInv, PlaceInv, InPool
<1>9. HandInv'
  BY <1>1 DEF LifeInv, HandInv
<1>10. QED
  BY <1>7, <1>8, <1>9 DEF LifeInv

(* The receive: the head of the buffer passes to the worker and the oldest *)
(* parked sender's task, if any, into the buffer.                          *)
LEMMA LifeReceive ==
  ASSUME TypeOK, LifeInv, ~Crashed, NEW w \in WorkerIds, Receive(w)
  PROVE  LifeInv'
<1> DEFINE h == Head(queue)
<1>1. /\ worker[w] = "idle" /\ queue # <<>>
      /\ worker' = [worker EXCEPT ![w] = "received"]
      /\ held' = [held EXCEPT ![w] = h]
      /\ done' = done
  BY DEF Receive, Goto, taskVars
<1>2. /\ OnlyOnce(Tail(queue)) /\ Within(h, queue) /\ h \in Tasks
      /\ \A u \in Tasks : Within(u, Tail(queue)) <=> (Within(u, queue) /\ u # h)
      /\ Tail(queue) \in Seq(Tasks)
  BY <1>1, TailOnce, HeadTailProperties DEF TypeOK, LifeInv, QueueInv
<1>3. ~InHand(h) /\ ~done[h] /\ h # NoTask
  BY <1>2, TasksAssumption DEF LifeInv, QueueInv
<1>4. \A u \in Tasks : InHand(u)' <=> (InHand(u) \/ u = h)
  <2>1. held[w] = NoTask
    BY <1>1 DEF LifeInv, HandInv
  <2>2. held'[w] = h /\ \A v \in WorkerIds : v # w => held'[v] = held[v]
    BY <1>1 DEF TypeOK
  <2>3. QED
    BY <2>1, <2>2, TasksAssumption DEF InHand
<1>5. HandInv'
  <2>1. held'[w] = h /\ \A v \in WorkerIds : v # w => held'[v] = held[v]
    BY <1>1 DEF TypeOK
  <2>2. worker'[w] = "received" /\ \A v \in WorkerIds : v # w => worker'[v] = worker[v]
    BY <1>1 DEF TypeOK
  <2>3. \A v \in WorkerIds : held[v] # h
    BY <1>3 DEF InHand
  <2>4. QED
    BY <1>1, <1>3, <2>1, <2>2, <2>3 DEF LifeInv, HandInv
<1>6. CASE sendq = <<>>
  <2>1. queue' = Tail(queue) /\ sendq' = sendq /\ submitter' = submitter
    BY <1>6 DEF Receive
  <2>2. QueueInv'
    BY <1>1, <1>2, <1>3, <1>4, <2>1 DEF LifeInv, QueueInv
  <2>3. PlaceInv'
    BY <1>1, <1>2, <1>4, <2>1 DEF LifeInv, PlaceInv
  <2>4. QED
    BY <1>5, <2>2, <2>3 DEF LifeInv
<1>7. CASE sendq # <<>>
  <2> DEFINE s == Head(sendq)
  <2>1. /\ queue' = Append(Tail(queue), s) /\ sendq' = Tail(sendq)
        /\ submitter' = [submitter EXCEPT ![s] = "returned"]
    BY <1>7 DEF Receive
  <2>2. /\ OnlyOnce(Tail(sendq)) /\ Within(s, sendq) /\ ~Within(s, Tail(sendq)) /\ s \in Tasks
        /\ \A u \in Tasks : Within(u, Tail(sendq)) <=> (Within(u, sendq) /\ u # s)
    BY <1>7, TailOnce, HeadTailProperties DEF TypeOK, LifeInv, QueueInv
  <2>3. submitter[s] = "blocked"
    BY <2>2 DEF LifeInv, QueueInv, Crashed
  <2>4. ~Within(s, queue) /\ ~InHand(s) /\ ~done[s]
    BY <2>2, <2>3 DEF LifeInv, PlaceInv, InPool
  <2>5. ~Within(s, Tail(queue)) /\ s # h
    BY <1>2, <2>2, <2>4
  <2>6. /\ OnlyOnce(queue')
        /\ \A u \in Tasks : Within(u, queue') <=> ((Within(u, queue) /\ u # h) \/ u = s)
    BY <1>2, <2>1, <2>2, <2>5, AppendOnce, AppendWithin
  <2>7. submitter'[s] = "returned" /\ \A u \in Tasks : u # s => submitter'[u] = submitter[u]
    BY <2>1, <2>2 DEF TypeOK
  <2>8. QueueInv'
    BY <1>1, <1>3, <1>4, <2>1, <2>2, <2>4, <2>5, <2>6, <2>7 DEF LifeInv, QueueInv
  <2>9. PlaceInv'
    BY <1>1, <1>2, <1>4, <2>2, <2>6, <2>7 DEF LifeInv, PlaceInv, InPool
  <2>10. QED
    BY <1>5, <2>8, <2>9 DEF LifeInv
<1>8. QED
  BY <1>6, <1>7

LEMMA LifeMarkDone ==
  ASSUME TypeOK, LifeInv, NEW w \in WorkerIds, MarkDone(w)
  PROVE  LifeInv'
<1> DEFINE t == held[w]
<1>1. /\ worker[w] = "counted"
      /\ worker' = [worker EXCEPT ![w] = "settled"]
      /\ done' = [done EXCEPT ![t] = TRUE]
      /\ UNCHANGED <<queue, sendq, held, submitter>>
  BY DEF MarkDone, Goto, chanVars
<1>2. t # NoTask /\ t \in Tasks /\ InHand(t)
  BY <1>1 DEF LifeInv, HandInv, TypeOK, InHand
<1>3. \A u \in Tasks : InHand(u)' <=> InHand(u)
  BY <1>1 DEF InHand
<1>4. done'[t] = TRUE /\ \A u \in Tasks : u # t => done'[u] = done[u]
  BY <1>1, <1>2 DEF TypeOK
<1>5. QueueInv'
  BY <1>1, <1>2, <1>3, <1>4 DEF LifeInv, QueueInv
<1>6. PlaceInv'
  BY <1>1, <1>2, <1>3, <1>4 DEF LifeInv, PlaceInv
<1>7. HandInv'
  <2>1. worker'[w] = "settled" /\ \A v \in WorkerIds : v # w => worker'[v] = worker[v]
    BY <1>1 DEF TypeOK
  <2>2. \A v \in WorkerIds : v # w => held[v] # t
    BY <1>2 DEF LifeInv, HandInv
  <2>3. \A v \in WorkerIds : v # w /\ held[v] # NoTask => done'[held[v]] = done[held[v]]
    BY <1>4, <2>2 DEF TypeOK
  <2>4. QED
    BY <1>1, <1>2, <1>4, <2>1, <2>3 DEF LifeInv, HandInv
<1>8. QED
  BY <1>5, <1>6, <1>7 DEF LifeInv

LEMMA LifeDeactivate ==
  ASSUME TypeOK, LifeInv, NEW w \in WorkerIds, Deactivate(w)
  PROVE  LifeInv'
<1> DEFINE t == held[w]
<1>1. /\ worker[w] = "settled"
      /\ worker' = [worker EXCEPT ![w] = "idle"]
      /\ held' = [held EXCEPT ![w] = NoTask]
      /\ UNCHANGED <<queue, sendq, done, submitter>>
  BY DEF Deactivate, Goto, chanVars, taskVars
<1>2. t # NoTask /\ t \in Tasks /\ InHand(t) /\ done[t]
  BY <1>1 DEF LifeInv, HandInv, TypeOK, InHand
<1>3. held'[w] = NoTask /\ \A v \in WorkerIds : v # w => held'[v] = held[v]
  BY <1>1 DEF TypeOK
<1>4. worker'[w] = "idle" /\ \A v \in WorkerIds : v # w => worker'[v] = worker[v]
  BY <1>1 DEF TypeOK
<1>5. \A u \in Tasks : u # t => (InHand(u)' <=> InHand(u))
  BY <1>3, TasksAssumption DEF InHand
<1>6. \A u \in Tasks : InHand(u)' => InHand(u)
  BY <1>3, TasksAssumption DEF InHand
<1>7. QueueInv'
  BY <1>1, <1>6 DEF LifeInv, QueueInv
<1>8. PlaceInv'
  BY <1>1, <1>2, <1>5 DEF LifeInv, PlaceInv
<1>9. HandInv'
  BY <1>1, <1>3, <1>4 DEF LifeInv, HandInv
<1>10. QED
  BY <1>7, <1>8, <1>9 DEF LifeInv

LEMMA InitTable == Init \/ InitStarted => TableInv
  BY OptionsAssumption DEF Init, InitStarted, TableInv, WorkerIds

LEMMA AddWorkersTable ==
  ASSUME TypeOK, TableInv, NEW n \in Nat, AddWorkers(n)
  PROVE  TableInv'
<1>1. workerCount \in Nat /\ CountAfterAdding(n) \in Nat /\ CountAfterAdding(n) >= workerCount
  BY OptionsAssumption DEF TypeOK, CountAfterAdding
<1>2. SUFFICES ASSUME NEW w \in WorkerIds PROVE (worker'[w] = "absent") <=> w >= workerCount'
  BY DEF TableInv
<1>3. worker'[w] = IF workerCount <= w /\ w < CountAfterAdding(n) THEN "idle" ELSE worker[w]
  BY DEF AddWorkers
<1>4. w \in Int
  BY OptionsAssumption DEF WorkerIds
<1>5. workerCount' = CountAfterAdding(n)
  BY DEF AddWorkers
<1>6. worker[w] = "absent" <=> w >= workerCount
  BY DEF TableInv
<1>7. QED
  BY <1>1, <1>3, <1>4, <1>5, <1>6

LEMMA StepTable == TypeOK /\ TableInv /\ [Next]_vars => TableInv'
<1> SUFFICES ASSUME TypeOK, TableInv, [Next]_vars PROVE TableInv'
  OBVIOUS
<1>1. CASE Start
  BY <1>1, AddWorkersTable, OptionsAssumption DEF Start
<1>2. ASSUME NEW t \in Tasks, AddWorker(t) PROVE TableInv'
  BY <1>2, AddWorkersTable DEF AddWorker
<1>3. ASSUME NEW w \in WorkerIds, NEW from, NEW to, Goto(w, from, to), from # "absent", to # "absent"
      PROVE  TableInv'
  BY <1>3 DEF Goto, TableInv, TypeOK
<1>4. ASSUME NEW w \in WorkerIds, WorkerStep(w), ~RunFails(w) PROVE TableInv'
  BY <1>3, <1>4
     DEF WorkerStep, Receive, Exit, Activate, RunSucceeds, GiveUp, MarkDone, Deactivate
<1>5. ASSUME UNCHANGED workerVars PROVE TableInv'
  BY <1>5 DEF workerVars, TableInv
<1>6. ASSUME NEW w \in WorkerIds, RunFails(w) PROVE TableInv'
  BY <1>5, <1>6 DEF RunFails
<1>7. ASSUME NEW t \in Tasks, Submit(t), ~AddWorker(t) PROVE TableInv'
  BY <1>5, <1>7 DEF Submit, SubmitCheck, SendPanics, Enqueue, Reject, Block, EnsureWorkers
<1>8. ASSUME NEW c \in Closers, ShutdownStep(c) PROVE TableInv'
  BY <1>5, <1>8 DEF ShutdownStep, ShutdownRefused, Shutdown, ShutdownPanics, WaitGroupZero,
                    ShutdownDone, ShutdownTimeout
<1>9. CASE UNCHANGED vars
  BY <1>5, <1>9 DEF vars
<1>10. QED
  BY <1>1, <1>2, <1>4, <1>6, <1>7, <1>8, <1>9 DEF Next

(* New workers come without a task. *)
LEMMA LifeAddWorkers ==
  ASSUME TypeOK, LifeInv, TableInv, NEW n \in Nat, AddWorkers(n),
         UNCHANGED <<queue, sendq, held, done>>,
         \A t \in Tasks : submitter'[t] # submitter[t] =>
            submitter[t] = "adding" /\ submitter'[t] = "returned"
  PROVE  LifeInv'
<1> \A t \in Tasks : InHand(t)' <=> InHand(t)
  BY DEF InHand
<1>1. QueueInv'
  BY DEF LifeInv, QueueInv
<1>2. PlaceInv'
  BY DEF LifeInv, PlaceInv, InPool
<1>3. \A w \in WorkerIds : \/ worker'[w] = worker[w]
                           \/ worker[w] = "absent" /\ worker'[w] = "idle"
  <2>1. SUFFICES ASSUME NEW w \in WorkerIds, worker'[w] # worker[w]
                 PROVE  worker[w] = "absent" /\ worker'[w] = "idle"
    OBVIOUS
  <2>2. w >= workerCount /\ worker'[w] = "idle"
    BY <2>1, OptionsAssumption DEF AddWorkers, WorkerIds, TypeOK
  <2>3. QED
    BY <2>1, <2>2 DEF TableInv
<1>4. HandInv'
  BY <1>3 DEF LifeInv, HandInv
<1>5. QED
  BY <1>1, <1>2, <1>4 DEF LifeInv

LEMMA StepLife == TypeOK /\ LifeInv /\ TableInv /\ [Next]_vars => LifeInv'
<1> SUFFICES ASSUME TypeOK, LifeInv, TableInv, [Next]_vars PROVE LifeInv'
  OBVIOUS
<1> USE DEF chanVars, taskVars, workerVars
<1>1. CASE UNCHANGED vars
  BY <1>1, LifeFrame DEF vars
<1>2. ASSUME Next PROVE LifeInv'
  <2>0. ~Crashed
    BY <1>2 DEF Next
  <2>1. CASE Start
    BY <2>1, LifeAddWorkers, OptionsAssumption DEF Start, AddWorkers
  <2>2. ASSUME NEW t \in Tasks, SubmitCheck(t) PROVE LifeInv'
    <3>1. CASE isShutdown
      BY <2>2, <3>1, LifeSettle DEF SubmitCheck
    <3>2. CASE ~isShutdown
      BY <2>2, <3>2, LifeSubmitterFrame DEF SubmitCheck, TypeOK, InPool
    <3>3. QED
      BY <3>1, <3>2
  <2>3. ASSUME NEW t \in Tasks, SendPanics(t) PROVE LifeInv'
    BY <2>3, LifeSubmitterFrame DEF SendPanics, TypeOK, InPool
  <2>4. ASSUME NEW t \in Tasks, Reject(t) PROVE LifeInv'
    <3>1. PICK err : Settle(t, err)
      BY <2>4 DEF Reject
    <3>2. QED
      BY <2>4, <3>1, LifeSettle DEF Reject, QueueFull
  <2>5. ASSUME NEW t \in Tasks, EnsureWorkers(t) PROVE LifeInv'
    BY <2>5, LifeSubmitterFrame DEF EnsureWorkers, TypeOK, InPool
  <2>6. ASSUME NEW t \in Tasks, AddWorker(t) PROVE LifeInv'
    BY <2>6, LifeAddWorkers DEF AddWorker, AddWorkers, TypeOK
  <2>7. ASSUME NEW w \in WorkerIds, Exit(w) PROVE LifeInv'
    BY <2>7, LifeFrame DEF Exit, Goto, TypeOK
  <2>8. ASSUME NEW w \in WorkerIds, Activate(w) PROVE LifeInv'
    BY <2>8, LifeFrame DEF Activate, Goto, TypeOK
  <2>9. ASSUME NEW w \in WorkerIds, RunSucceeds(w) PROVE LifeInv'
    BY <2>9, LifeFrame DEF RunSucceeds, Goto, TypeOK
  <2>10. ASSUME NEW w \in WorkerIds, RunFails(w) PROVE LifeInv'
    BY <2>10, LifeFrame DEF RunFails
  <2>11. ASSUME NEW w \in WorkerIds, GiveUp(w) PROVE LifeInv'
    BY <2>11, LifeFrame DEF GiveUp, Goto, TypeOK
  <2>12. ASSUME NEW c \in Closers, \/ ShutdownRefused(c) \/ ShutdownPanics(c) \/ WaitGroupZero(c)
                                   \/ ShutdownDone(c) \/ ShutdownTimeout(c)
         PROVE  LifeInv'
    BY <2>12, LifeFrame
       DEF ShutdownRefused, ShutdownPanics, WaitGroupZero, ShutdownDone, ShutdownTimeout
  <2>13. ASSUME NEW c \in Closers, Shutdown(c) PROVE LifeInv'
    BY <2>13, LifeSubmitterFrame DEF Shutdown, TypeOK, InPool
  <2>14. QED
    BY <1>2, <2>0, <2>1, <2>2, <2>3, <2>4, <2>5, <2>6, <2>7, <2>8, <2>9, <2>10, <2>11, <2>12,
       <2>13, NextCases, LifeEnqueue, LifeBlock, LifeReceive, LifeMarkDone, LifeDeactivate
<1>3. QED
  BY <1>1, <1>2

(* LifeInv holds of the pool however it is started and closed. *)
LEMMA LifeCorrect == Spec => [](TypeOK /\ LifeInv)
<1>1. Init => TypeOK /\ LifeInv /\ TableInv
  BY InitTyped, InitLife, InitTable
<1>2. (TypeOK /\ LifeInv /\ TableInv) /\ [Next]_vars => (TypeOK /\ LifeInv /\ TableInv)'
  BY StepTyped, StepLife, StepTable
<1>3. QED
  BY <1>1, <1>2, PTL DEF Spec

LEMMA LifeCorrectStarted == StartedSpec => [](TypeOK /\ LifeInv /\ TableInv)
<1>1. InitStarted => TypeOK /\ LifeInv /\ TableInv
  BY InitStartedTyped, InitStartedLife, InitTable
<1>2. (TypeOK /\ LifeInv /\ TableInv) /\ [Next]_vars => (TypeOK /\ LifeInv /\ TableInv)'
  BY StepTyped, StepLife, StepTable
<1>3. QED
  BY <1>1, <1>2, PTL DEF StartedSpec

LEMMA LifeGivesPlaces == LifeInv => NoTaskTwice /\ NoTaskLost
<1> SUFFICES ASSUME LifeInv PROVE NoTaskTwice /\ NoTaskLost
  OBVIOUS
<1>1. \A t \in Tasks : ~(Within(t, sendq) /\ (InHand(t) \/ done[t] \/ Within(t, queue)))
  BY DEF LifeInv, QueueInv, PlaceInv, InPool
<1>2. NoTaskTwice
  BY <1>1 DEF NoTaskTwice, LifeInv, QueueInv, HandInv
<1>3. NoTaskLost
  BY DEF NoTaskLost, LifeInv, PlaceInv, InPool
<1>4. QED
  BY <1>2, <1>3

(* No interleaving of submissions, receives, hand-offs, retries, Start and *)
(* Shutdown puts a task in two places or hands it to two workers.          *)
THEOREM NeverTwice == Spec => []NoTaskTwice
  BY LifeCorrect, LifeGivesPlaces, PTL

(* A task that Submit got into the channel is done, buffered or with a     *)
(* worker, also after the channel is closed.                               *)
THEOREM NeverLost == Spec => []NoTaskLost
  BY LifeCorrect, LifeGivesPlaces, PTL

-----------------------------------------------------------------------------
(* A settled task never changes. *)

StableStep == \A t \in Tasks : done[t] =>
                 done'[t] /\ taskErr'[t] = taskErr[t] /\ retries'[t] = retries[t]

LEMMA StepStable == TypeOK /\ LifeInv /\ [Next]_vars => StableStep
<1> SUFFICES ASSUME TypeOK, LifeInv, [Next]_vars, NEW t \in Tasks, done[t]
             PROVE  done'[t] /\ taskErr'[t] = taskErr[t] /\ retries'[t] = retries[t]
  BY DEF StableStep
<1>1. submitter[t] \in InPool
  BY DEF LifeInv, PlaceInv
<1>2. CASE UNCHANGED taskVars
  BY <1>2 DEF taskVars
<1>3. ASSUME NEW u \in Tasks, SubmitCheck(u) PROVE t # u \/ UNCHANGED taskVars
  BY <1>1, <1>3 DEF SubmitCheck, InPool
<1>4. ASSUME NEW u \in Tasks, NEW err, Settle(u, err), t # u
      PROVE  done'[t] /\ taskErr'[t] = taskErr[t] /\ retries'[t] = retries[t]
  BY <1>4 DEF Settle, TypeOK
<1>5. ASSUME NEW w \in WorkerIds, worker[w] \in {"running", "counted"}
      PROVE  held[w] # t
  BY <1>5, TasksAssumption DEF LifeInv, HandInv
<1>6. CASE Start
  BY <1>2, <1>6 DEF Start
<1>7. ASSUME NEW u \in Tasks, Submit(u)
      PROVE  done'[t] /\ taskErr'[t] = taskErr[t] /\ retries'[t] = retries[t]
  <2>1. CASE SubmitCheck(u)
    BY <1>2, <1>3, <1>4, <2>1 DEF SubmitCheck
  <2>2. CASE Reject(u)
    <3>1. t # u
      BY <1>1, <2>2 DEF Reject, QueueFull, InPool
    <3>2. QED
      BY <1>4, <2>2, <3>1 DEF Reject
  <2>3. CASE ~SubmitCheck(u) /\ ~Reject(u)
    BY <1>2, <1>7, <2>3 DEF Submit, SendPanics, Enqueue, Block, EnsureWorkers, AddWorker
  <2>4. QED
    BY <2>1, <2>2, <2>3
<1>8. ASSUME NEW w \in WorkerIds, WorkerStep(w)
      PROVE  done'[t] /\ taskErr'[t] = taskErr[t] /\ retries'[t] = retries[t]
  <2>1. CASE RunSucceeds(w)
    BY <1>5, <2>1 DEF RunSucceeds, Goto, TypeOK
  <2>2. CASE RunFails(w)
    BY <1>5, <2>2 DEF RunFails, TypeOK
  <2>3. CASE MarkDone(w)
    BY <1>5, <2>3 DEF MarkDone, Goto, TypeOK
  <2>4. CASE ~RunSucceeds(w) /\ ~RunFails(w) /\ ~MarkDone(w)
    BY <1>2, <1>8, <2>4 DEF WorkerStep, Receive, Exit, Activate, GiveUp, Deactivate
  <2>5. QED
    BY <2>1, <2>2, <2>3, <2>4
<1>9. ASSUME NEW c \in Closers, ShutdownStep(c) PROVE UNCHANGED taskVars
  BY <1>9 DEF ShutdownStep, ShutdownRefused, Shutdown, ShutdownPanics, WaitGroupZero,
              ShutdownDone, ShutdownTimeout
<1>10. CASE UNCHANGED vars
  BY <1>2, <1>10 DEF vars
<1>11. QED
  BY <1>2, <1>6, <1>7, <1>8, <1>9, <1>10 DEF Next

(* After markDone no step of a worker, a retry or a shutdown changes what  *)
(* Await returned.                                                         *)
THEOREM ResultNeverChanges == Spec => ResultStable
<1>1. TypeOK /\ LifeInv /\ [Next]_vars => [StableStep]_vars
  BY StepStable
<1>2. Spec => [][StableStep]_vars
  BY <1>1, LifeCorrect, PTL DEF Spec
<1>3. QED
  BY <1>2 DEF ResultStable, StableStep

-----------------------------------------------------------------------------
(* A pool started with at least one worker drains before Shutdown returns. *)

LEMMA InitStartedInv == InitStarted => StartedInv
  BY OptionsAssumption DEF InitStarted, Constructed, StartedInv

LEMMA StepStarted ==
  ASSUME TypeOK, LifeInv, TableInv, StartedInv, [Next]_vars
  PROVE  StartedInv'
<1>1. ASSUME UNCHANGED <<poolVars, workerCount, worker, queue, closeVars>>,
             \A t \in Tasks : submitter'[t] # "adding"
      PROVE  StartedInv'
  BY <1>1 DEF StartedInv, poolVars, closeVars, NoLiveWorker
<1>2. CASE Start
  BY <1>2 DEF Start, StartedInv
<1>3. ASSUME NEW t \in Tasks, Submit(t) PROVE StartedInv'
  <2>1. ~AddWorker(t)
    BY DEF AddWorker, StartedInv
  <2>2. \A u \in Tasks : submitter'[u] # "adding"
    BY <1>3, <2>1, OptionsAssumption
       DEF Submit, SubmitCheck, SendPanics, Enqueue, Reject, Block, EnsureWorkers, StartedInv, TypeOK
  <2>3. CASE Enqueue(t)
    <3>1. ~chanClosed
      BY <2>3 DEF Enqueue
    <3>2. QED
      BY <2>2, <2>3, <3>1 DEF Enqueue, StartedInv, poolVars, workerVars, closeVars, NoLiveWorker
  <2>4. CASE ~Enqueue(t)
    BY <1>1, <1>3, <2>1, <2>2, <2>4
       DEF Submit, SubmitCheck, SendPanics, Reject, Block, EnsureWorkers, workerVars, chanVars
  <2>5. QED
    BY <2>3, <2>4
<1>4. ASSUME NEW w \in WorkerIds, WorkerStep(w) PROVE StartedInv'
  <2>1. /\ UNCHANGED <<poolVars, closeVars, workerCount>>
        /\ \A t \in Tasks : submitter'[t] # "adding"
    BY <1>4 DEF WorkerStep, Receive, Exit, Activate, RunSucceeds, RunFails, GiveUp, MarkDone,
                Deactivate, Goto, workerVars, StartedInv, TypeOK
  <2>2. CASE RunFails(w)
    BY <1>1, <2>1, <2>2 DEF RunFails, workerVars, chanVars
  <2>3. CASE Exit(w)
    <3>1. worker' = [worker EXCEPT ![w] = "exited"] /\ queue' = queue /\ chanClosed /\ queue = <<>>
      BY <2>3 DEF Exit, Goto, chanVars
    <3>2. NoLiveWorker => NoLiveWorker'
      BY <3>1 DEF NoLiveWorker, TypeOK
    <3>3. QED
      BY <2>1, <3>1, <3>2 DEF StartedInv, poolVars, closeVars, TypeOK
  <2>4. CASE ~RunFails(w) /\ ~Exit(w)
    <3>1. worker[w] \notin {"absent", "exited"} /\ ~NoLiveWorker
      BY <1>4, <2>4 DEF WorkerStep, Receive, Activate, RunSucceeds, GiveUp, MarkDone, Deactivate,
                        Goto, NoLiveWorker
    <3>2. \A v \in WorkerIds : worker'[v] = "exited" => worker[v] = "exited"
      BY <1>4, <2>4 DEF WorkerStep, Receive, Activate, RunSucceeds, GiveUp, MarkDone, Deactivate,
                        Goto, TypeOK
    <3>3. queue = <<>> => queue' = <<>>
      BY <1>4, <2>4 DEF WorkerStep, Receive, Activate, RunSucceeds, GiveUp, MarkDone, Deactivate,
                        chanVars
    <3>4. QED
      BY <2>1, <3>1, <3>2, <3>3 DEF StartedInv, poolVars, closeVars
  <2>5. QED
    BY <2>2, <2>3, <2>4
<1>5. ASSUME NEW c \in Closers, ShutdownStep(c) PROVE StartedInv'
  <2>1. /\ UNCHANGED <<isStarted, queue, workerCount, worker>>
        /\ \A t \in Tasks : submitter'[t] # "adding"
    BY <1>5 DEF ShutdownStep, ShutdownRefused, Shutdown, ShutdownPanics, WaitGroupZero,
                ShutdownDone, ShutdownTimeout, poolVars, workerVars, chanVars, StartedInv, TypeOK
  <2>2. ~ShutdownPanics(c)
    BY DEF ShutdownPanics, StartedInv
  <2>3. CASE Shutdown(c)
    <3>1. /\ isShutdown' = TRUE /\ chanClosed' = TRUE /\ ~chanClosed
          /\ closer' = [closer EXCEPT ![c] = "waiting"]
          /\ helper' = [helper EXCEPT ![c] = "waiting"]
      BY <2>3 DEF Shutdown
    <3>2. \A d \in Closers : helper[d] = "none" /\ closer[d] # "ok"
      BY <3>1 DEF StartedInv
    <3>3. \A d \in Closers : helper'[d] \notin {"sending", "gone"} /\ closer'[d] # "ok"
      BY <3>1, <3>2 DEF TypeOK
    <3>4. QED
      BY <2>1, <3>1, <3>3 DEF StartedInv
  <2>4. ASSUME ShutdownRefused(c) \/ WaitGroupZero(c) \/ ShutdownDone(c) \/ ShutdownTimeout(c)
        PROVE  StartedInv'
    <3>1. UNCHANGED poolVars
      BY <2>4 DEF ShutdownRefused, WaitGroupZero, ShutdownDone, ShutdownTimeout
    <3>2. NoLiveWorker' <=> NoLiveWorker
      BY <2>1 DEF NoLiveWorker
    <3>3. ASSUME NEW d \in Closers
          PROVE  /\ helper'[d] # "none" => chanClosed
                 /\ helper'[d] \in {"sending", "gone"} => NoLiveWorker
                 /\ closer'[d] = "ok" => helper'[d] = "gone"
      <4>1. /\ helper[d] # "none" => chanClosed
            /\ helper[d] \in {"sending", "gone"} => NoLiveWorker
            /\ closer[d] = "ok" => helper[d] = "gone"
        BY DEF StartedInv
      <4>2. CASE ShutdownRefused(c) \/ ShutdownTimeout(c)
        BY <4>1, <4>2 DEF ShutdownRefused, ShutdownTimeout, TypeOK
      <4>3. CASE WaitGroupZero(c)
        BY <4>1, <4>3 DEF WaitGroupZero, TypeOK
      <4>4. CASE ShutdownDone(c)
        BY <4>1, <4>4 DEF ShutdownDone, TypeOK
      <4>5. QED
        BY <2>4, <4>2, <4>3, <4>4
    <3>4. QED
      BY <2>1, <3>1, <3>2, <3>3 DEF StartedInv, poolVars
  <2>5. QED
    BY <1>5, <2>2, <2>3, <2>4 DEF ShutdownStep
<1>6. CASE UNCHANGED vars
  BY <1>1, <1>6 DEF vars, workerVars, chanVars, StartedInv
<1>7. QED
  BY <1>2, <1>3, <1>4, <1>5, <1>6 DEF Next

(* For a pool started with a worker: when Shutdown returns nil, every task *)
(* whose Submit got it into the channel is settled.                        *)
THEOREM GracefulShutdown ==
  ASSUME MinWorkers >= 1
  PROVE  StartedSpec => []ShutdownDrains
<1>1. TypeOK /\ LifeInv /\ TableInv /\ StartedInv => ShutdownDrains
  <2> SUFFICES ASSUME TypeOK, LifeInv, TableInv, StartedInv, NEW c \in Closers, closer[c] = "ok",
                      NEW t \in Tasks, submitter[t] \in InPool
               PROVE  done[t]
    BY DEF ShutdownDrains, InPool
  <2>1. NoLiveWorker
    BY DEF StartedInv
  <2>2. 0 \in WorkerIds /\ 0 < workerCount
    BY OptionsAssumption DEF WorkerIds, StartedInv, TypeOK
  <2>3. worker[0] = "exited"
    BY <2>1, <2>2, OptionsAssumption DEF NoLiveWorker, TableInv, TypeOK
  <2>4. queue = <<>>
    BY <2>2, <2>3 DEF StartedInv
  <2>5. ~Within(t, queue)
    BY <2>4 DEF Within
  <2>6. ~InHand(t)
    BY <2>1, TasksAssumption DEF NoLiveWorker, InHand, LifeInv, HandInv
  <2>7. QED
    BY <2>5, <2>6 DEF LifeInv, PlaceInv
<1>2. (TypeOK /\ LifeInv /\ TableInv) /\ StartedInv /\ [Next]_vars => StartedInv'
  BY StepStarted
<1>3. QED
  BY <1>1, <1>2, InitStartedInv, LifeCorrectStarted, PTL DEF StartedSpec

-----------------------------------------------------------------------------
(* Verdicts: what a step does to the answer of a task and to the totals.   *)

OthersCounted(t) == \A u \in Tasks \ {t} : Counted(u)' <=> Counted(u)

NoVerdict ==
  /\ \A u \in Tasks : Counted(u)' <=> Counted(u)
  /\ UNCHANGED <<taskErr, retries, completedCount, failedCount, rejectedCount>>

RefusedAtOnce(t, err) ==
  /\ ~Counted(t) /\ Counted(t)' /\ OthersCounted(t) /\ done'[t]
  /\ taskErr' = [taskErr EXCEPT ![t] = err]
  /\ rejectedCount' = rejectedCount + (IF err = "shutdown" THEN 0 ELSE 1)
  /\ UNCHANGED <<retries, completedCount, failedCount>>

AttemptFails(t) ==
  /\ ~Counted(t) /\ \A u \in Tasks : Counted(u)' <=> Counted(u)
  /\ retries[t] <= MaxRetries[t]
  /\ taskErr' = [taskErr EXCEPT ![t] = "failed"]
  /\ retries' = [retries EXCEPT ![t] = @ + 1]
  /\ UNCHANGED <<completedCount, failedCount, rejectedCount>>

AttemptSucceeds(t) ==
  /\ ~Counted(t) /\ Counted(t)' /\ OthersCounted(t)
  /\ retries[t] <= MaxRetries[t]
  /\ taskErr' = [taskErr EXCEPT ![t] = "nil"]
  /\ completedCount' = completedCount + 1
  /\ UNCHANGED <<retries, failedCount, rejectedCount>>

AttemptsEnd(t) ==
  /\ ~Counted(t) /\ Counted(t)' /\ OthersCounted(t)
  /\ retries[t] > MaxRetries[t]
  /\ failedCount' = failedCount + 1
  /\ UNCHANGED <<taskErr, retries, completedCount, rejectedCount>>

Refusals == {"shutdown", "full", "discarded"}

VerdictCases ==
  \/ NoVerdict
  \/ \E t \in Tasks : \/ \E err \in Refusals : RefusedAtOnce(t, err)
                      \/ AttemptFails(t) \/ AttemptSucceeds(t) \/ AttemptsEnd(t)

(* A worker and its task while they are in one of the later states.        *)
LEMMA CountedFrame ==
  ASSUME UNCHANGED <<held, done>>,
         \A w \in WorkerIds :
           worker'[w] \in {"counted", "settled"} <=> worker[w] \in {"counted", "settled"}
  PROVE  \A t \in Tasks : Counted(t)' <=> Counted(t)
BY DEF Counted

(* A task in hand that is not counted, and why nobody else counts it.      *)
LEMMA RunningUncounted ==
  ASSUME TypeOK, LifeInv, NEW w \in WorkerIds, worker[w] = "running"
  PROVE  \E t \in Tasks : /\ held[w] = t /\ ~Counted(t)
                          /\ \A v \in WorkerIds : v # w => held[v] # t
<1>1. held[w] # NoTask /\ ~done[held[w]]
  BY DEF LifeInv, HandInv
<1>2. \A v \in WorkerIds : v # w => held[v] # held[w]
  BY <1>1 DEF LifeInv, HandInv
<1>3. QED
  BY <1>1, <1>2 DEF TypeOK, Counted

(* A running worker that passes its task to a total.                       *)
LEMMA CountsOne ==
  ASSUME TypeOK, LifeInv, NEW w \in WorkerIds, Goto(w, "running", "counted"),
         UNCHANGED <<held, done>>
  PROVE  \E t \in Tasks : held[w] = t /\ ~Counted(t) /\ Counted(t)' /\ OthersCounted(t)
<1>1. worker[w] = "running" /\ worker' = [worker EXCEPT ![w] = "counted"]
  BY DEF Goto
<1>2. PICK t \in Tasks : held[w] = t /\ ~Counted(t) /\ \A v \in WorkerIds : v # w => held[v] # t
  BY <1>1, RunningUncounted
<1>3. worker'[w] = "counted" /\ \A v \in WorkerIds : v # w => worker'[v] = worker[v]
  BY <1>1 DEF TypeOK
<1>4. Counted(t)' /\ OthersCounted(t)
  BY <1>2, <1>3 DEF Counted, OthersCounted
<1>5. QED
  BY <1>2, <1>4

LEMMA RefusalsCount ==
  ASSUME TypeOK, LifeInv, NEW t \in Tasks, NEW err, Settle(t, err),
         submitter[t] \in {"idle", "checked"}, UNCHANGED <<held, worker>>
  PROVE  ~Counted(t) /\ Counted(t)' /\ OthersCounted(t) /\ done'[t]
<1>1. ~InHand(t) /\ ~done[t]
  BY DEF LifeInv, PlaceInv, InPool
<1>2. done'[t] /\ \A u \in Tasks : u # t => done'[u] = done[u]
  BY DEF Settle, TypeOK
<1>3. QED
  BY <1>1, <1>2 DEF Counted, OthersCounted, InHand

LEMMA StepVerdict == TypeOK /\ LifeInv /\ TableInv /\ [Next]_vars => VerdictCases
<1> SUFFICES ASSUME TypeOK, LifeInv, TableInv, [Next]_vars PROVE VerdictCases
  OBVIOUS
<1> USE DEF taskVars, countVars, workerVars
<1>1. ASSUME UNCHANGED <<taskVars, workerVars, completedCount, failedCount, rejectedCount>>
      PROVE  VerdictCases
  BY <1>1, CountedFrame DEF VerdictCases, NoVerdict
<1>2. ASSUME NEW n \in Nat, AddWorkers(n), UNCHANGED <<taskVars, countVars>> PROVE VerdictCases
  <2>1. \A w \in WorkerIds : \/ worker'[w] = worker[w]
                             \/ worker[w] = "absent" /\ worker'[w] = "idle"
    <3>1. SUFFICES ASSUME NEW w \in WorkerIds, worker'[w] # worker[w]
                   PROVE  worker[w] = "absent" /\ worker'[w] = "idle"
      OBVIOUS
    <3>2. w >= workerCount /\ worker'[w] = "idle"
      BY <1>2, <3>1, OptionsAssumption DEF AddWorkers, WorkerIds, TypeOK
    <3>3. QED
      BY <3>1, <3>2 DEF TableInv
  <2>2. QED
    BY <1>2, <2>1, CountedFrame DEF AddWorkers, VerdictCases, NoVerdict
<1>3. CASE Start
  BY <1>2, <1>3, OptionsAssumption DEF Start
<1>4. ASSUME NEW t \in Tasks, Submit(t) PROVE VerdictCases
  <2>1. CASE SubmitCheck(t)
    <3>1. CASE isShutdown
      <4>1. Settle(t, "shutdown") /\ submitter[t] = "idle" /\ UNCHANGED <<held, worker, countVars>>
        BY <2>1, <3>1 DEF SubmitCheck
      <4>2. RefusedAtOnce(t, "shutdown")
        <5>1. ~Counted(t) /\ Counted(t)' /\ OthersCounted(t) /\ done'[t]
          BY <4>1, RefusalsCount
        <5>2. rejectedCount' = rejectedCount + 0
          BY <4>1 DEF TypeOK
        <5>3. QED
          BY <4>1, <5>1, <5>2 DEF Settle, RefusedAtOnce
      <4>3. QED
        BY <4>2 DEF VerdictCases, Refusals
    <3>2. CASE ~isShutdown
      BY <1>1, <2>1, <3>2 DEF SubmitCheck
    <3>3. QED
      BY <3>1, <3>2
  <2>2. CASE Reject(t)
    <3>1. PICK err \in {"full", "discarded"} : Settle(t, err)
      BY <2>2 DEF Reject
    <3>2. RefusedAtOnce(t, err)
      BY <2>2, <3>1, RefusalsCount DEF Reject, QueueFull, Settle, RefusedAtOnce
    <3>3. QED
      BY <3>2 DEF VerdictCases, Refusals
  <2>3. CASE AddWorker(t)
    BY <1>2, <2>3 DEF AddWorker
  <2>4. CASE SendPanics(t) \/ Enqueue(t) \/ Block(t) \/ EnsureWorkers(t)
    BY <1>1, <2>4 DEF SendPanics, Enqueue, Block, EnsureWorkers
  <2>5. QED
    BY <1>4, <2>1, <2>2, <2>3, <2>4 DEF Submit
<1>5. ASSUME NEW w \in WorkerIds, WorkerStep(w) PROVE VerdictCases
  <2>1. CASE Receive(w)
    <3>1. /\ worker[w] = "idle" /\ worker' = [worker EXCEPT ![w] = "received"]
          /\ held' = [held EXCEPT ![w] = Head(queue)]
          /\ UNCHANGED <<taskVars, countVars>>
      BY <2>1 DEF Receive, Goto
    <3>2. \A u \in Tasks : Counted(u)' <=> Counted(u)
      BY <3>1 DEF Counted, TypeOK
    <3>3. QED
      BY <3>1, <3>2 DEF VerdictCases, NoVerdict
  <2>2. CASE Exit(w) \/ Activate(w)
    <3>1. \A v \in WorkerIds :
            worker'[v] \in {"counted", "settled"} <=> worker[v] \in {"counted", "settled"}
      BY <2>2 DEF Exit, Activate, Goto, TypeOK
    <3>2. UNCHANGED <<held, taskVars, completedCount, failedCount, rejectedCount>>
      BY <2>2 DEF Exit, Activate
    <3>3. QED
      BY <3>1, <3>2, CountedFrame DEF VerdictCases, NoVerdict
  <2>3. CASE RunSucceeds(w)
    <3>1. PICK t \in Tasks : held[w] = t /\ ~Counted(t) /\ Counted(t)' /\ OthersCounted(t)
      BY <2>3, CountsOne DEF RunSucceeds
    <3>2. AttemptSucceeds(t)
      BY <2>3, <3>1 DEF RunSucceeds, AttemptSucceeds
    <3>3. QED
      BY <3>2 DEF VerdictCases
  <2>4. CASE RunFails(w)
    <3>1. PICK t \in Tasks : held[w] = t /\ ~Counted(t)
      BY <2>4, RunningUncounted DEF RunFails
    <3>2. \A u \in Tasks : Counted(u)' <=> Counted(u)
      BY <2>4, CountedFrame DEF RunFails
    <3>3. AttemptFails(t)
      BY <2>4, <3>1, <3>2 DEF RunFails, AttemptFails
    <3>4. QED
      BY <3>3 DEF VerdictCases
  <2>5. CASE GiveUp(w)
    <3>1. PICK t \in Tasks : held[w] = t /\ ~Counted(t) /\ Counted(t)' /\ OthersCounted(t)
      BY <2>5, CountsOne DEF GiveUp
    <3>2. AttemptsEnd(t)
      BY <2>5, <3>1 DEF GiveUp, AttemptsEnd
    <3>3. QED
      BY <3>2 DEF VerdictCases
  <2>6. CASE MarkDone(w)
    <3>1. /\ worker[w] = "counted" /\ worker' = [worker EXCEPT ![w] = "settled"]
          /\ done' = [done EXCEPT ![held[w]] = TRUE]
          /\ UNCHANGED <<held, taskErr, retries, countVars>>
      BY <2>6 DEF MarkDone, Goto
    <3>2. \A u \in Tasks : u # held[w] => done'[u] = done[u]
      BY <3>1 DEF TypeOK
    <3>3. \A v \in WorkerIds : worker'[v] \in {"counted", "settled"} <=> worker[v] \in {"counted", "settled"}
      BY <3>1 DEF TypeOK
    <3>4. \A u \in Tasks : Counted(u)' <=> Counted(u)
      BY <3>1, <3>2, <3>3 DEF Counted
    <3>5. QED
      BY <3>1, <3>4 DEF VerdictCases, NoVerdict
  <2>7. CASE Deactivate(w)
    <3>1. /\ worker[w] = "settled" /\ worker' = [worker EXCEPT ![w] = "idle"]
          /\ held' = [held EXCEPT ![w] = NoTask]
          /\ UNCHANGED <<taskVars, completedCount, failedCount, rejectedCount>>
      BY <2>7 DEF Deactivate, Goto
    <3>2. PICK t \in Tasks : held[w] = t /\ done[t]
      BY <3>1 DEF LifeInv, HandInv, TypeOK
    <3>3. \A v \in WorkerIds : v # w => worker'[v] = worker[v] /\ held'[v] = held[v]
      BY <3>1 DEF TypeOK
    <3>4. ASSUME NEW u \in Tasks, u # t PROVE Counted(u)' <=> Counted(u)
      <4>1. held'[w] # u /\ held[w] # u
        BY <3>1, <3>2, <3>4, TasksAssumption DEF TypeOK
      <4>2. QED
        BY <3>1, <3>3, <4>1 DEF Counted
    <3>5. Counted(t)' /\ Counted(t)
      BY <3>1, <3>2 DEF Counted
    <3>6. QED
      BY <3>1, <3>4, <3>5 DEF VerdictCases, NoVerdict
  <2>8. QED
    BY <1>5, <2>1, <2>2, <2>3, <2>4, <2>5, <2>6, <2>7 DEF WorkerStep
<1>6. ASSUME NEW c \in Closers, ShutdownStep(c) PROVE VerdictCases
  BY <1>1, <1>6 DEF ShutdownStep, ShutdownRefused, Shutdown, ShutdownPanics, WaitGroupZero,
                    ShutdownDone, ShutdownTimeout
<1>7. CASE UNCHANGED vars
  BY <1>1, <1>7 DEF vars
<1>8. QED
  BY <1>3, <1>4, <1>5, <1>6, <1>7 DEF Next

-----------------------------------------------------------------------------
(* The budget of a task: BudgetInv and VerdictInv are inductive.           *)

LEMMA ConstructedVerdicts ==
  ASSUME Constructed, \A w \in WorkerIds : worker[w] \in {"absent", "idle", "exited"}
  PROVE  BudgetInv /\ VerdictInv
BY DEF Constructed, BudgetInv, WithinBudget, VerdictInv, Counted, Refused

LEMMA StepBudget ==
  ASSUME TypeOK, BudgetInv, VerdictInv, VerdictCases
  PROVE  BudgetInv'
<1>1. SUFFICES ASSUME NEW u \in Tasks PROVE WithinBudget(u)'
  BY DEF BudgetInv
<1>2. WithinBudget(u) /\ (taskErr[u] = "nil" => Counted(u))
  BY DEF BudgetInv, VerdictInv
<1>3. ASSUME Counted(u)' <=> Counted(u), taskErr'[u] = taskErr[u], retries'[u] = retries[u]
      PROVE  WithinBudget(u)'
  BY <1>2, <1>3 DEF WithinBudget
<1>4. CASE NoVerdict
  BY <1>3, <1>4 DEF NoVerdict
<1>5. ASSUME NEW t \in Tasks, NEW err \in Refusals, RefusedAtOnce(t, err) PROVE WithinBudget(u)'
  <2>1. CASE u = t
    BY <1>5, <2>1 DEF WithinBudget, RefusedAtOnce, Refusals, TypeOK
  <2>2. CASE u # t
    BY <1>3, <1>5, <2>2 DEF RefusedAtOnce, OthersCounted, TypeOK
  <2>3. QED
    BY <2>1, <2>2
<1>6. ASSUME NEW t \in Tasks, AttemptFails(t) PROVE WithinBudget(u)'
  <2>1. CASE u = t
    <3>1. taskErr'[u] = "failed" /\ retries'[u] = retries[u] + 1
      BY <1>6, <2>1 DEF AttemptFails, TypeOK
    <3>2. ~Counted(u)' /\ retries[u] <= MaxRetries[u]
      BY <1>6, <2>1, Zenon DEF AttemptFails
    <3>3. QED
      BY <3>1, <3>2, TasksAssumption DEF WithinBudget, TypeOK
  <2>2. CASE u # t
    BY <1>3, <1>6, <2>2 DEF AttemptFails, TypeOK
  <2>3. QED
    BY <2>1, <2>2
<1>7. ASSUME NEW t \in Tasks, AttemptSucceeds(t) PROVE WithinBudget(u)'
  <2>1. CASE u = t
    BY <1>7, <2>1 DEF WithinBudget, AttemptSucceeds, TypeOK
  <2>2. CASE u # t
    BY <1>3, <1>7, <2>2 DEF AttemptSucceeds, OthersCounted, TypeOK
  <2>3. QED
    BY <2>1, <2>2
<1>8. ASSUME NEW t \in Tasks, AttemptsEnd(t) PROVE WithinBudget(u)'
  <2>1. CASE u = t
    BY <1>2, <1>8, <2>1, TasksAssumption DEF WithinBudget, AttemptsEnd, TypeOK
  <2>2. CASE u # t
    BY <1>3, <1>8, <2>2 DEF AttemptsEnd, OthersCounted, TypeOK
  <2>3. QED
    BY <2>1, <2>2
<1>9. QED
  BY <1>4, <1>5, <1>6, <1>7, <1>8 DEF VerdictCases

LEMMA StepVerdictInv ==
  ASSUME TypeOK, VerdictInv, VerdictCases, StableStep
  PROVE  VerdictInv'
<1>1. SUFFICES ASSUME NEW u \in Tasks
               PROVE  (taskErr'[u] = "nil" => Counted(u)') /\ (Refused(u)' => done'[u])
  BY DEF VerdictInv
<1>2. /\ taskErr[u] = "nil" => Counted(u)
      /\ Refused(u) => done[u]
      /\ done[u] => done'[u]
  BY DEF VerdictInv, StableStep
<1>3. CASE NoVerdict
  BY <1>2, <1>3 DEF NoVerdict, Refused
<1>4. ASSUME NEW t \in Tasks, NEW err \in Refusals, RefusedAtOnce(t, err)
      PROVE  (taskErr'[u] = "nil" => Counted(u)') /\ (Refused(u)' => done'[u])
  <2>1. CASE u = t
    BY <1>4, <2>1 DEF RefusedAtOnce
  <2>2. CASE u # t
    BY <1>2, <1>4, <2>2 DEF RefusedAtOnce, OthersCounted, TypeOK, Refused
  <2>3. QED
    BY <2>1, <2>2
<1>5. ASSUME NEW t \in Tasks, AttemptFails(t)
      PROVE  (taskErr'[u] = "nil" => Counted(u)') /\ (Refused(u)' => done'[u])
  <2>1. CASE u = t
    BY <1>5, <2>1 DEF AttemptFails, TypeOK, Refused
  <2>2. CASE u # t
    BY <1>2, <1>5, <2>2 DEF AttemptFails, TypeOK, Refused
  <2>3. QED
    BY <2>1, <2>2
<1>6. ASSUME NEW t \in Tasks, AttemptSucceeds(t)
      PROVE  (taskErr'[u] = "nil" => Counted(u)') /\ (Refused(u)' => done'[u])
  <2>1. CASE u = t
    BY <1>6, <2>1 DEF AttemptSucceeds, TypeOK, Refused
  <2>2. CASE u # t
    BY <1>2, <1>6, <2>2 DEF AttemptSucceeds, OthersCounted, TypeOK, Refused
  <2>3. QED
    BY <2>1, <2>2
<1>7. ASSUME NEW t \in Tasks, AttemptsEnd(t)
      PROVE  (taskErr'[u] = "nil" => Counted(u)') /\ (Refused(u)' => done'[u])
  BY <1>2, <1>7 DEF AttemptsEnd, OthersCounted, Refused
<1>8. QED
  BY <1>3, <1>4, <1>5, <1>6, <1>7 DEF VerdictCases

-----------------------------------------------------------------------------
(* The totals: CountersExact is inductive.                                 *)

Succeeded == {t \in Tasks : Counted(t) /\ taskErr[t] = "nil"}
Failed == {t \in Tasks : Counted(t) /\ taskErr[t] \in {"unset", "failed"}}
Rejected == {t \in Tasks : done[t] /\ taskErr[t] \in {"full", "discarded"}}

LEMMA OneMore ==
  ASSUME NEW S, IsFiniteSet(S), NEW x, x \notin S
  PROVE  IsFiniteSet(S \cup {x}) /\ Cardinality(S \cup {x}) = Cardinality(S) + 1
BY FS_AddElement

LEMMA TotalsFinite ==
  IsFiniteSet(Succeeded) /\ IsFiniteSet(Failed) /\ IsFiniteSet(Rejected)
<1>1. Succeeded \subseteq Tasks /\ Failed \subseteq Tasks /\ Rejected \subseteq Tasks
  BY DEF Succeeded, Failed, Rejected
<1>2. QED
  BY <1>1, FS_Subset, TasksAssumption

LEMMA StepCounters ==
  ASSUME TypeOK, VerdictInv, VerdictInv', CountersExact, VerdictCases
  PROVE  CountersExact'
<1>1. /\ completedCount = Cardinality(Succeeded)
      /\ failedCount = Cardinality(Failed)
      /\ rejectedCount = Cardinality(Rejected)
  BY DEF CountersExact, Succeeded, Failed, Rejected
<1>2. SUFFICES /\ completedCount' = Cardinality(Succeeded')
               /\ failedCount' = Cardinality(Failed')
               /\ rejectedCount' = Cardinality(Rejected')
  BY DEF CountersExact, Succeeded, Failed, Rejected
<1>3. /\ Rejected = {u \in Tasks : taskErr[u] \in {"full", "discarded"}}
      /\ Rejected' = {u \in Tasks : taskErr'[u] \in {"full", "discarded"}}
  BY DEF Rejected, VerdictInv, Refused
<1>4. CASE NoVerdict
  <2>1. Succeeded' = Succeeded /\ Failed' = Failed /\ Rejected' = Rejected
    BY <1>3, <1>4 DEF NoVerdict, Succeeded, Failed
  <2>2. QED
    BY <1>1, <1>4, <2>1 DEF NoVerdict
<1>5. ASSUME NEW t \in Tasks, NEW err \in Refusals, RefusedAtOnce(t, err)
      PROVE  /\ completedCount' = Cardinality(Succeeded')
             /\ failedCount' = Cardinality(Failed')
             /\ rejectedCount' = Cardinality(Rejected')
  <2>1. /\ ~Counted(t) /\ taskErr'[t] = err
        /\ \A u \in Tasks \ {t} : (Counted(u)' <=> Counted(u)) /\ taskErr'[u] = taskErr[u]
    BY <1>5 DEF RefusedAtOnce, OthersCounted, TypeOK
  <2>2. Succeeded' = Succeeded /\ Failed' = Failed
    BY <2>1 DEF Succeeded, Failed, Refusals
  <2>3. t \notin Rejected
    BY <2>1 DEF Rejected, Counted
  <2>4. CASE err = "shutdown"
    <3>1. Rejected' = Rejected
      BY <1>3, <2>1, <2>3, <2>4
    <3>2. QED
      BY <1>1, <1>5, <2>2, <2>4, <3>1 DEF RefusedAtOnce, TypeOK
  <2>5. CASE err # "shutdown"
    <3>1. Rejected' = Rejected \cup {t}
      BY <1>3, <2>1, <2>3, <2>5 DEF Refusals
    <3>2. Cardinality(Rejected') = Cardinality(Rejected) + 1
      BY <2>3, <3>1, OneMore, TotalsFinite
    <3>3. QED
      BY <1>1, <1>5, <2>2, <2>5, <3>2 DEF RefusedAtOnce
  <2>6. QED
    BY <2>4, <2>5
<1>6. ASSUME NEW t \in Tasks, AttemptFails(t)
      PROVE  /\ completedCount' = Cardinality(Succeeded')
             /\ failedCount' = Cardinality(Failed')
             /\ rejectedCount' = Cardinality(Rejected')
  <2>1. /\ ~Counted(t) /\ taskErr'[t] = "failed"
        /\ \A u \in Tasks : Counted(u)' <=> Counted(u)
        /\ \A u \in Tasks \ {t} : taskErr'[u] = taskErr[u]
    BY <1>6 DEF AttemptFails, TypeOK
  <2>2. Succeeded' = Succeeded /\ Failed' = Failed
    BY <2>1 DEF Succeeded, Failed
  <2>3. t \notin Rejected
    BY <2>1 DEF Rejected, Counted
  <2>4. Rejected' = Rejected
    BY <1>3, <2>1, <2>3
  <2>5. QED
    BY <1>1, <1>6, <2>2, <2>4 DEF AttemptFails
<1>7. ASSUME NEW t \in Tasks, AttemptSucceeds(t)
      PROVE  /\ completedCount' = Cardinality(Succeeded')
             /\ failedCount' = Cardinality(Failed')
             /\ rejectedCount' = Cardinality(Rejected')
  <2>1. /\ ~Counted(t) /\ Counted(t)' /\ taskErr'[t] = "nil"
        /\ \A u \in Tasks \ {t} : (Counted(u)' <=> Counted(u)) /\ taskErr'[u] = taskErr[u]
    BY <1>7 DEF AttemptSucceeds, OthersCounted, TypeOK
  <2>2. Failed' = Failed /\ t \notin Succeeded /\ Succeeded' = Succeeded \cup {t}
    BY <2>1 DEF Succeeded, Failed
  <2>3. t \notin Rejected
    BY <2>1 DEF Rejected, Counted
  <2>4. Rejected' = Rejected
    BY <1>3, <2>1, <2>3
  <2>5. Cardinality(Succeeded') = Cardinality(Succeeded) + 1
    BY <2>2, OneMore, TotalsFinite
  <2>6. QED
    BY <1>1, <1>7, <2>2, <2>4, <2>5 DEF AttemptSucceeds
<1>8. ASSUME NEW t \in Tasks, AttemptsEnd(t)
      PROVE  /\ completedCount' = Cardinality(Succeeded')
             /\ failedCount' = Cardinality(Failed')
             /\ rejectedCount' = Cardinality(Rejected')
  <2>1. /\ ~Counted(t) /\ Counted(t)' /\ UNCHANGED taskErr
        /\ \A u \in Tasks \ {t} : Counted(u)' <=> Counted(u)
    BY <1>8 DEF AttemptsEnd, OthersCounted
  <2>2. taskErr[t] \in {"unset", "failed"}
    BY <2>1 DEF VerdictInv, Refused, Counted, TypeOK, TaskErr
  <2>3. Succeeded' = Succeeded
    BY <2>1, <2>2 DEF Succeeded
  <2>4. t \notin Failed /\ Failed' = Failed \cup {t}
    BY <2>1, <2>2 DEF Failed
  <2>5. Rejected' = Rejected
    BY <1>3, <2>1
  <2>6. Cardinality(Failed') = Cardinality(Failed) + 1
    BY <2>4, OneMore, TotalsFinite
  <2>7. QED
    BY <1>1, <1>8, <2>3, <2>5, <2>6 DEF AttemptsEnd
<1>9. QED
  BY <1>4, <1>5, <1>6, <1>7, <1>8 DEF VerdictCases

-----------------------------------------------------------------------------
(* What the workers do: activeCount is exact.                              *)

BusyState == {"running", "counted", "settled"}
Busy == {w \in WorkerIds : worker[w] \in BusyState}

BusyInv == activeCount = Cardinality(Busy)

LEMMA BusyFinite == IsFiniteSet(Busy)
<1>1. IsFiniteSet(WorkerIds)
  BY FS_Interval, OptionsAssumption DEF WorkerIds
<1>2. QED
  BY <1>1, FS_Subset DEF Busy

LEMMA BusyFrame ==
  ASSUME BusyInv, activeCount' = activeCount,
         \A w \in WorkerIds : worker'[w] \in BusyState <=> worker[w] \in BusyState
  PROVE  BusyInv'
BY DEF BusyInv, Busy

LEMMA BusyAddWorkers ==
  ASSUME TypeOK, TableInv, BusyInv, NEW n \in Nat, AddWorkers(n), UNCHANGED activeCount
  PROVE  BusyInv'
<1>1. \A w \in WorkerIds : \/ worker'[w] = worker[w]
                           \/ worker[w] = "absent" /\ worker'[w] = "idle"
  <2>1. SUFFICES ASSUME NEW w \in WorkerIds, worker'[w] # worker[w]
                 PROVE  worker[w] = "absent" /\ worker'[w] = "idle"
    OBVIOUS
  <2>2. w >= workerCount /\ worker'[w] = "idle"
    BY <2>1, OptionsAssumption DEF AddWorkers, WorkerIds, TypeOK
  <2>3. QED
    BY <2>1, <2>2 DEF TableInv
<1>2. QED
  BY <1>1, BusyFrame DEF BusyState

LEMMA StepBusy == TypeOK /\ TableInv /\ BusyInv /\ [Next]_vars => BusyInv'
<1> SUFFICES ASSUME TypeOK, TableInv, BusyInv, [Next]_vars PROVE BusyInv'
  OBVIOUS
<1> USE DEF countVars, workerVars
<1>1. ASSUME UNCHANGED <<worker, activeCount>> PROVE BusyInv'
  BY <1>1, BusyFrame
<1>2. CASE Start
  BY <1>2, BusyAddWorkers, OptionsAssumption DEF Start
<1>3. ASSUME NEW t \in Tasks, Submit(t) PROVE BusyInv'
  <2>1. CASE AddWorker(t)
    BY <2>1, BusyAddWorkers DEF AddWorker
  <2>2. CASE ~AddWorker(t)
    BY <1>1, <1>3, <2>2
       DEF Submit, SubmitCheck, SendPanics, Enqueue, Reject, Block, EnsureWorkers
  <2>3. QED
    BY <2>1, <2>2
<1>4. ASSUME NEW w \in WorkerIds, WorkerStep(w) PROVE BusyInv'
  <2>1. CASE Activate(w)
    <3>1. worker[w] = "received" /\ worker' = [worker EXCEPT ![w] = "running"]
      BY <2>1 DEF Activate, Goto
    <3>2. w \notin Busy /\ Busy' = Busy \cup {w}
      BY <3>1 DEF Busy, BusyState, TypeOK
    <3>3. Cardinality(Busy') = Cardinality(Busy) + 1
      BY <3>2, OneMore, BusyFinite
    <3>4. QED
      BY <2>1, <3>3 DEF Activate, BusyInv
  <2>2. CASE Deactivate(w)
    <3>1. worker[w] = "settled" /\ worker' = [worker EXCEPT ![w] = "idle"]
      BY <2>2 DEF Deactivate, Goto
    <3>2. w \in Busy /\ Busy' = Busy \ {w}
      BY <3>1 DEF Busy, BusyState, TypeOK
    <3>3. Cardinality(Busy') = Cardinality(Busy) - 1
      BY <3>2, FS_RemoveElement, BusyFinite
    <3>4. QED
      BY <2>2, <3>3 DEF Deactivate, BusyInv
  <2>3. CASE Receive(w) \/ Exit(w) \/ RunSucceeds(w) \/ GiveUp(w) \/ MarkDone(w)
    <3>1. \A v \in WorkerIds : worker'[v] \in BusyState <=> worker[v] \in BusyState
      BY <2>3 DEF Receive, Exit, RunSucceeds, GiveUp, MarkDone, Goto, BusyState, TypeOK
    <3>2. activeCount' = activeCount
      BY <2>3 DEF Receive, Exit, RunSucceeds, GiveUp, MarkDone
    <3>3. QED
      BY <3>1, <3>2, BusyFrame
  <2>4. CASE RunFails(w)
    BY <1>1, <2>4 DEF RunFails
  <2>5. QED
    BY <1>4, <2>1, <2>2, <2>3, <2>4 DEF WorkerStep
<1>5. ASSUME NEW c \in Closers, ShutdownStep(c) PROVE BusyInv'
  BY <1>1, <1>5 DEF ShutdownStep, ShutdownRefused, Shutdown, ShutdownPanics, WaitGroupZero,
                    ShutdownDone, ShutdownTimeout
<1>6. CASE UNCHANGED vars
  BY <1>1, <1>6 DEF vars
<1>7. QED
  BY <1>2, <1>3, <1>4, <1>5, <1>6 DEF Next

(* The percentage of GetStats. *)
LEMMA LoadBounded ==
  ASSUME NEW n \in Nat, NEW m \in Nat, n <= m, m > 0
  PROVE  (n * 100) \div m \in 0 .. 100
<1>1. n * 100 \in Nat /\ n * 100 <= 100 * m
  OBVIOUS
<1>2. QED
  BY <1>1

LEMMA BusyGivesStats == TypeOK /\ TableInv /\ BusyInv => StatsSane
<1> SUFFICES ASSUME TypeOK, TableInv, BusyInv PROVE StatsSane
  OBVIOUS
<1>1. Busy \subseteq 0 .. workerCount - 1
  BY DEF Busy, BusyState, TableInv, WorkerIds, TypeOK
<1>2. IsFiniteSet(0 .. workerCount - 1) /\ Cardinality(0 .. workerCount - 1) = workerCount
  BY FS_Interval DEF TypeOK
<1>3. Cardinality(Busy) \in Nat /\ Cardinality(Busy) <= workerCount
  BY <1>1, <1>2, FS_Subset, FS_CardinalityType, BusyFinite
<1>4. activeCount \in Nat /\ activeCount <= workerCount /\ workerCount \in Nat
      /\ workerCount <= MaxWorkers
  BY <1>3 DEF BusyInv, TypeOK
<1>5. GetStats.idleWorkers = workerCount - activeCount
  BY DEF GetStats
<1>6. GetStats.currentLoad = IF MaxWorkers > 0 THEN (activeCount * 100) \div MaxWorkers ELSE 0
  BY DEF GetStats
<1>7. GetStats.currentLoad \in 0 .. 100
  BY <1>4, <1>6, LoadBounded, OptionsAssumption
<1>8. QED
  BY <1>4, <1>5, <1>7 DEF StatsSane, BusyInv, Busy, BusyState

-----------------------------------------------------------------------------
StatsInv == BudgetInv /\ VerdictInv /\ CountersExact /\ BusyInv

LEMMA InitStats == Init => StatsInv
<1> SUFFICES ASSUME Init PROVE StatsInv
  OBVIOUS
<1>1. \A w \in WorkerIds : worker[w] = "absent"
  BY DEF Init
<1>2. BudgetInv /\ VerdictInv
  BY <1>1, ConstructedVerdicts DEF Init
<1>3. \A t \in Tasks : ~Counted(t) /\ ~done[t]
  BY <1>1 DEF Counted, Init, Constructed
<1>4. CountersExact
  <2>1. /\ {t \in Tasks : Counted(t) /\ taskErr[t] = "nil"} = {}
        /\ {t \in Tasks : Counted(t) /\ taskErr[t] \in {"unset", "failed"}} = {}
        /\ {t \in Tasks : done[t] /\ taskErr[t] \in {"full", "discarded"}} = {}
    BY <1>3
  <2>2. QED
    BY <2>1, FS_EmptySet DEF CountersExact, Init, Constructed
<1>5. BusyInv
  <2>1. Busy = {}
    BY <1>1 DEF Busy, BusyState
  <2>2. QED
    BY <2>1, FS_EmptySet DEF BusyInv, Init, Constructed
<1>6. QED
  BY <1>2, <1>4, <1>5 DEF StatsInv

LEMMA StepStats == TypeOK /\ LifeInv /\ TableInv /\ StatsInv /\ [Next]_vars => StatsInv'
<1> SUFFICES ASSUME TypeOK, LifeInv, TableInv, StatsInv, [Next]_vars PROVE StatsInv'
  OBVIOUS
<1>1. VerdictCases /\ StableStep
  BY StepVerdict, StepStable
<1>2. BudgetInv' /\ VerdictInv'
  BY <1>1, StepBudget, StepVerdictInv DEF StatsInv
<1>3. CountersExact'
  BY <1>1, <1>2, StepCounters DEF StatsInv
<1>4. BusyInv'
  BY StepBusy DEF StatsInv
<1>5. QED
  BY <1>2, <1>3, <1>4 DEF StatsInv

LEMMA StatsCorrect == Spec => [](TypeOK /\ LifeInv /\ TableInv /\ StatsInv)
<1>1. Init => TypeOK /\ LifeInv /\ TableInv /\ StatsInv
  BY InitTyped, InitLife, InitTable, InitStats
<1>2. /\ TypeOK /\ LifeInv /\ TableInv /\ StatsInv
      /\ [Next]_vars
      => (TypeOK /\ LifeInv /\ TableInv /\ StatsInv)'
  BY StepTyped, StepLife, StepTable, StepStats
<1>3. QED
  BY <1>1, <1>2, PTL DEF Spec

(* A settled task has had its attempts: one that failed had maxRetries + 1 *)
(* of them, one that succeeded no more, and "no error" of a function that  *)
(* was not called needs a negative maxRetries.                             *)
THEOREM RetriesExact == Spec => []RetryBudget
<1>1. StatsInv => RetryBudget
  BY DEF StatsInv, BudgetInv, WithinBudget, RetryBudget, Counted
<1>2. QED
  BY <1>1, StatsCorrect, PTL

(* GetStats: every answered task is in exactly one total, the active count *)
(* is the number of workers with a task, idleWorkers is never negative and *)
(* the load never above 100, at any moment of any interleaving.            *)
THEOREM StatisticsExact == Spec => []StatsExact
<1>1. TypeOK /\ TableInv /\ StatsInv => StatsExact
  BY BusyGivesStats DEF StatsInv, StatsExact
<1>2. QED
  BY <1>1, StatsCorrect, PTL

-----------------------------------------------------------------------------
(* A started pool with at least one worker implements TaskExecutor: every  *)
(* initial state of the pool maps to an initial state of the executor and  *)
(* every step to a step or a stutter, whatever the interleaving.           *)
LEMMA InitRefuse == InitStarted => RefuseInv
  BY DEF InitStarted, Constructed, RefuseInv, Refused

LEMMA StepRefuse ==
  ASSUME TypeOK, LifeInv, RefuseInv, [Next]_vars
  PROVE  RefuseInv'
<1>1. ASSUME UNCHANGED <<chanClosed, taskErr, done>>,
             \A t \in Tasks : submitter'[t] = "blocked" => submitter[t] = "blocked" \/ ~chanClosed
      PROVE  RefuseInv'
  <2>1. \A t \in Tasks : Refused(t)' <=> Refused(t)
    BY <1>1 DEF Refused
  <2>2. (chanClosed' <=> chanClosed) /\ \A t \in Tasks : done'[t] <=> done[t]
    BY <1>1
  <2>3. QED
    BY <1>1, <2>1, <2>2 DEF RefuseInv
<1>2. ASSUME NEW t \in Tasks, NEW err, Settle(t, err), UNCHANGED chanClosed,
             submitter' = [submitter EXCEPT ![t] = "returned"]
      PROVE  RefuseInv'
  <2>1. /\ done'[t] /\ submitter'[t] = "returned"
        /\ \A u \in Tasks : u # t => /\ done'[u] = done[u] /\ taskErr'[u] = taskErr[u]
                                     /\ submitter'[u] = submitter[u]
    BY <1>2 DEF Settle, TypeOK
  <2>2. QED
    BY <1>2, <2>1 DEF RefuseInv, Refused
<1>3. CASE Start
  BY <1>1, <1>3 DEF Start, taskVars
<1>4. ASSUME NEW t \in Tasks, Submit(t) PROVE RefuseInv'
  <2>1. CASE SubmitCheck(t)
    BY <1>1, <1>2, <2>1 DEF SubmitCheck, poolVars, taskVars, TypeOK
  <2>2. CASE Reject(t)
    BY <1>2, <2>2 DEF Reject, poolVars
  <2>3. CASE ~SubmitCheck(t) /\ ~Reject(t)
    <3>1. UNCHANGED <<chanClosed, taskErr, done>>
      BY <1>4, <2>3 DEF Submit, SendPanics, Enqueue, Block, EnsureWorkers, AddWorker, poolVars, taskVars
    <3>2. \A u \in Tasks : submitter'[u] = "blocked" => submitter[u] = "blocked" \/ ~chanClosed
      BY <1>4, <2>3 DEF Submit, SendPanics, Enqueue, Block, QueueFull, EnsureWorkers, AddWorker, TypeOK
    <3>3. QED
      BY <1>1, <3>1, <3>2
  <2>4. QED
    BY <2>1, <2>2, <2>3
<1>5. ASSUME NEW w \in WorkerIds, WorkerStep(w) PROVE RefuseInv'
  <2>1. /\ UNCHANGED chanClosed
        /\ \A t \in Tasks : submitter'[t] = "blocked" => submitter[t] = "blocked"
    BY <1>5 DEF WorkerStep, Receive, Exit, Activate, RunSucceeds, RunFails, GiveUp, MarkDone,
                Deactivate, poolVars, TypeOK
  <2>2. ASSUME NEW t \in Tasks, Refused(t)' PROVE Refused(t) /\ taskErr'[t] = taskErr[t]
    <3>1. CASE RunSucceeds(w)
      BY <2>2, <3>1 DEF RunSucceeds, Refused, TypeOK
    <3>2. CASE RunFails(w)
      BY <2>2, <3>2 DEF RunFails, Refused, TypeOK
    <3>3. CASE ~RunSucceeds(w) /\ ~RunFails(w)
      <4>1. taskErr' = taskErr
        BY <1>5, <3>3 DEF WorkerStep, Receive, Exit, Activate, GiveUp, MarkDone, Deactivate, taskVars
      <4>2. QED
        BY <2>2, <4>1 DEF Refused
    <3>4. QED
      BY <3>1, <3>2, <3>3
  <2>3. \A t \in Tasks : done[t] => done'[t]
    BY StepStable DEF StableStep
  <2>4. ASSUME NEW t \in Tasks
        PROVE  (chanClosed' => submitter'[t] # "blocked") /\ (Refused(t)' => done'[t])
    <3>1. (chanClosed => submitter[t] # "blocked") /\ (Refused(t) => done[t])
      BY DEF RefuseInv
    <3>2. chanClosed' => submitter'[t] # "blocked"
      <4>1. chanClosed' <=> chanClosed
        BY <2>1
      <4>2. QED
        BY <2>1, <3>1, <4>1
    <3>3. Refused(t)' => done'[t]
      BY <2>2, <2>3, <3>1
    <3>4. QED
      BY <3>2, <3>3
  <2>5. QED
    BY <2>4 DEF RefuseInv
<1>6. ASSUME NEW c \in Closers, ShutdownStep(c) PROVE RefuseInv'
  <2>1. CASE Shutdown(c)
    <3>1. \A t \in Tasks : submitter'[t] # "blocked"
      BY <2>1 DEF Shutdown
    <3>2. QED
      BY <2>1, <3>1 DEF Shutdown, taskVars, RefuseInv, Refused
  <2>2. CASE ~Shutdown(c)
    BY <1>1, <1>6, <2>2 DEF ShutdownStep, ShutdownRefused, ShutdownPanics, WaitGroupZero,
                            ShutdownDone, ShutdownTimeout, poolVars, taskVars
  <2>3. QED
    BY <2>1, <2>2
<1>7. CASE UNCHANGED vars
  BY <1>1, <1>7 DEF vars, poolVars, taskVars
<1>8. QED
  BY <1>3, <1>4, <1>5, <1>6, <1>7 DEF Next

-----------------------------------------------------------------------------
(* The refinement mapping, step by step. *)

PoolInv == TypeOK /\ LifeInv /\ TableInv /\ StartedInv /\ RefuseInv

StatusMap == [t \in Tasks |-> StatusOf(t)]

(* StatusOf without its CASE. *)
LEMMA StatusFacts ==
  ASSUME NEW t \in Tasks, TypeOK
  PROVE  /\ done[t] /\ Refused(t) => StatusOf(t) = "refused"
         /\ done[t] /\ ~Refused(t) => StatusOf(t) = "settled"
         /\ ~done[t] /\ (Within(t, queue) \/ InHand(t)) => StatusOf(t) = "accepted"
         /\ ~done[t] /\ ~(Within(t, queue) \/ InHand(t)) => StatusOf(t) = "new"
<1>1. done[t] \in BOOLEAN
  BY DEF TypeOK
<1>2. QED
  BY <1>1 DEF StatusOf

LEMMA InitMaps == InitStarted => Executor!Init
<1> SUFFICES ASSUME InitStarted PROVE Executor!Init
  OBVIOUS
<1>1. PhaseOf = "open"
  BY DEF InitStarted, Constructed, PhaseOf
<1>2. ASSUME NEW t \in Tasks PROVE StatusOf(t) = "new"
  <2>1. ~done[t] /\ ~InHand(t) /\ ~Within(t, queue)
    BY TasksAssumption DEF InitStarted, Constructed, InHand, Within
  <2>2. QED
    BY <2>1, InitStartedTyped, StatusFacts
<1>3. QED
  BY <1>1, <1>2 DEF Executor!Init

(* A step that leaves buffer, hands and done flags alone leaves the status *)
(* of every task alone, since the error of a refused task is final.        *)
LEMMA StatusFrame ==
  ASSUME TypeOK, TypeOK', RefuseInv, RefuseInv',
         NEW t \in Tasks, done'[t] = done[t],
         done[t] => taskErr'[t] = taskErr[t],
         ~done[t] => ((Within(t, queue) \/ InHand(t))' <=> (Within(t, queue) \/ InHand(t)))
  PROVE  StatusOf(t)' = StatusOf(t)
<1>1. done[t] => (Refused(t)' <=> Refused(t))
  BY DEF Refused
<1>2. /\ done'[t] /\ Refused(t)' => StatusOf(t)' = "refused"
      /\ done'[t] /\ ~Refused(t)' => StatusOf(t)' = "settled"
      /\ ~done'[t] /\ (Within(t, queue) \/ InHand(t))' => StatusOf(t)' = "accepted"
      /\ ~done'[t] /\ ~(Within(t, queue) \/ InHand(t))' => StatusOf(t)' = "new"
  BY DEF StatusOf, TypeOK
<1>3. done[t] \in BOOLEAN
  BY DEF TypeOK
<1>4. QED
  BY <1>1, <1>2, <1>3, StatusFacts

(* Steps under which the executor stutters. *)
LEMMA StatusStutter ==
  ASSUME PoolInv, PoolInv', NEW F, F = StatusMap',
         \A t \in Tasks : /\ done'[t] = done[t]
                          /\ done[t] => taskErr'[t] = taskErr[t]
                          /\ ~done[t] => ((Within(t, queue) \/ InHand(t))' <=> (Within(t, queue) \/ InHand(t)))
  PROVE  F = StatusMap
<1>1. \A t \in Tasks : StatusOf(t)' = StatusOf(t)
  BY StatusFrame DEF PoolInv
<1>2. QED
  BY <1>1 DEF StatusMap

(* One task changes status, the others keep theirs. *)
LEMMA StatusOne ==
  ASSUME PoolInv, PoolInv', NEW t \in Tasks, NEW v, StatusOf(t)' = v,
         \A u \in Tasks : u # t =>
            /\ done'[u] = done[u]
            /\ done[u] => taskErr'[u] = taskErr[u]
            /\ ~done[u] => ((Within(u, queue) \/ InHand(u))' <=> (Within(u, queue) \/ InHand(u)))
  PROVE  StatusMap' = [StatusMap EXCEPT ![t] = v]
<1>1. \A u \in Tasks : u # t => StatusOf(u)' = StatusOf(u)
  BY StatusFrame DEF PoolInv
<1>2. QED
  BY <1>1 DEF StatusMap

LEMMA PhaseFrame ==
  ASSUME chanClosed' = chanClosed, helper' = helper
  PROVE  PhaseOf' = PhaseOf
  BY DEF PhaseOf

(* While the channel is open so is the executor. *)
LEMMA OpenPhase ==
  ASSUME PoolInv, ~chanClosed
  PROVE  PhaseOf = "open"
  BY DEF PoolInv, StartedInv, PhaseOf

LEMMA StepMaps ==
  ASSUME MinWorkers >= 1, PoolInv, PoolInv', ~Crashed, [Next]_vars
  PROVE  [Executor!Next]_(Executor!vars)
<1>1. ASSUME PhaseOf' = PhaseOf, StatusMap' = StatusMap PROVE UNCHANGED Executor!vars
  BY <1>1 DEF Executor!vars, StatusMap
<1>2. ASSUME PhaseOf' = PhaseOf,
             \A t \in Tasks : /\ done'[t] = done[t]
                              /\ done[t] => taskErr'[t] = taskErr[t]
                              /\ ~done[t] => ((Within(t, queue) \/ InHand(t))' <=> (Within(t, queue) \/ InHand(t)))
      PROVE  UNCHANGED Executor!vars
  BY <1>1, <1>2, StatusStutter
<1>3. ASSUME UNCHANGED <<queue, held, done, chanClosed, helper>>,
             \A t \in Tasks : done[t] => taskErr'[t] = taskErr[t]
      PROVE  UNCHANGED Executor!vars
  <2>1. \A t \in Tasks : (Within(t, queue) \/ InHand(t))' <=> (Within(t, queue) \/ InHand(t))
    BY <1>3 DEF InHand
  <2>2. QED
    BY <1>2, <1>3, <2>1, PhaseFrame
<1>4. ASSUME NEW t \in Tasks, NEW v, StatusOf(t)' = v,
             UNCHANGED <<queue, held, chanClosed, helper>>,
             \A u \in Tasks : u # t => done'[u] = done[u] /\ taskErr'[u] = taskErr[u]
      PROVE  PhaseOf' = PhaseOf /\ StatusMap' = [StatusMap EXCEPT ![t] = v]
  <2>1. \A u \in Tasks : (Within(u, queue) \/ InHand(u))' <=> (Within(u, queue) \/ InHand(u))
    BY <1>4 DEF InHand
  <2>2. QED
    BY <1>4, <2>1, StatusOne, PhaseFrame
<1>5. ASSUME NEW t \in Tasks, submitter[t] \notin InPool PROVE StatusOf(t) = "new"
  BY <1>5, StatusFacts DEF PoolInv, LifeInv, PlaceInv
<1>6. ASSUME NEW t \in Tasks, submitter[t] \notin InPool, NEW err, Settle(t, err),
             err \in {"shutdown", "full", "discarded"},
             UNCHANGED <<queue, held, chanClosed, helper>>
      PROVE  Executor!Next
  <2>1. done'[t] /\ Refused(t)'
    BY <1>6 DEF Settle, Refused, PoolInv, TypeOK
  <2>2. StatusOf(t)' = "refused"
    BY <2>1 DEF StatusOf
  <2>3. \A u \in Tasks : u # t => done'[u] = done[u] /\ taskErr'[u] = taskErr[u]
    BY <1>6 DEF Settle, PoolInv, TypeOK
  <2>4. PhaseOf' = PhaseOf /\ StatusMap' = [StatusMap EXCEPT ![t] = "refused"]
    BY <1>4, <1>6, <2>2, <2>3
  <2>5. Executor!Refuse(t)
    BY <1>5, <1>6, <2>4 DEF Executor!Refuse, StatusMap
  <2>6. QED
    BY <2>5 DEF Executor!Next
<1>7. CASE UNCHANGED vars
  BY <1>3, <1>7 DEF vars, chanVars, workerVars, taskVars, closeVars, poolVars
<1>8. CASE Start
  BY <1>8 DEF Start, PoolInv, StartedInv
<1>9. ASSUME NEW t \in Tasks, Submit(t) PROVE [Executor!Next]_(Executor!vars)
  <2>1. CASE SubmitCheck(t) /\ isShutdown
    BY <1>6, <2>1 DEF SubmitCheck, chanVars, workerVars, poolVars, closeVars, InPool
  <2>2. CASE Reject(t)
    BY <1>6, <2>2 DEF Reject, QueueFull, chanVars, workerVars, poolVars, closeVars, InPool
  <2>3. CASE Enqueue(t)
    <3>1. /\ submitter[t] = "checked" /\ ~chanClosed /\ queue' = Append(queue, t)
          /\ UNCHANGED <<held, taskErr, done, chanClosed, helper>>
      BY <2>3 DEF Enqueue, workerVars, taskVars, poolVars, closeVars
    <3>2. \A u \in Tasks : Within(u, queue') <=> (Within(u, queue) \/ u = t)
      BY <3>1, AppendWithin DEF PoolInv, TypeOK
    <3>3. \A u \in Tasks : InHand(u)' <=> InHand(u)
      BY <3>1 DEF InHand
    <3>4. ~done'[t] /\ (Within(t, queue) \/ InHand(t))'
      BY <3>1, <3>2 DEF PoolInv, LifeInv, PlaceInv, InPool
    <3>5. StatusOf(t)' = "accepted"
      BY <3>4 DEF StatusOf, PoolInv, TypeOK
    <3>6. StatusMap' = [StatusMap EXCEPT ![t] = "accepted"]
      BY <3>1, <3>2, <3>3, <3>5, StatusOne
    <3>7. PhaseOf' = PhaseOf /\ PhaseOf = "open"
      BY <3>1, PhaseFrame, OpenPhase
    <3>8. StatusOf(t) = "new"
      BY <1>5, <3>1 DEF InPool
    <3>9. Executor!Accept(t)
      BY <3>6, <3>7, <3>8 DEF Executor!Accept, StatusMap
    <3>10. QED
      BY <3>9 DEF Executor!Next
  <2>4. CASE ~(SubmitCheck(t) /\ isShutdown) /\ ~Reject(t) /\ ~Enqueue(t)
    <3>1. ~AddWorker(t)
      BY DEF AddWorker, PoolInv, StartedInv
    <3>2. UNCHANGED <<queue, held, done, chanClosed, helper, taskErr>>
      BY <1>9, <2>4, <3>1 DEF Submit, SubmitCheck, SendPanics, Block, EnsureWorkers,
                              chanVars, workerVars, taskVars, closeVars, poolVars
    <3>3. QED
      BY <1>3, <3>2
  <2>5. QED
    BY <2>1, <2>2, <2>3, <2>4
<1>10. ASSUME NEW w \in WorkerIds, WorkerStep(w) PROVE [Executor!Next]_(Executor!vars)
  <2>1. UNCHANGED <<chanClosed, helper>> /\ PhaseOf' = PhaseOf
    BY <1>10, PhaseFrame DEF WorkerStep, Receive, Exit, Activate, RunSucceeds, RunFails, GiveUp,
                             MarkDone, Deactivate, poolVars, closeVars
  <2>2. \A t \in Tasks : done[t] => taskErr'[t] = taskErr[t]
    BY StepStable DEF StableStep, PoolInv
  <2>3. CASE MarkDone(w)
    <3>0. PICK t : t = held[w]
      OBVIOUS
    <3>1. /\ worker[w] = "counted" /\ done' = [done EXCEPT ![t] = TRUE]
          /\ UNCHANGED <<queue, held, taskErr>>
      BY <3>0, <2>3 DEF MarkDone, Goto, chanVars
    <3>2. t \in Tasks /\ InHand(t) /\ ~done[t]
      BY <3>0, <3>1 DEF PoolInv, LifeInv, HandInv, TypeOK, InHand
    <3>3. StatusOf(t) = "accepted"
      BY <3>2, StatusFacts DEF PoolInv
    <3>4. done'[t] /\ ~Refused(t)'
      BY <3>1, <3>2 DEF PoolInv, TypeOK, RefuseInv, Refused
    <3>5. StatusOf(t)' = "settled"
      BY <3>4 DEF StatusOf, PoolInv, TypeOK
    <3>6. \A u \in Tasks : u # t => done'[u] = done[u] /\ taskErr'[u] = taskErr[u]
      BY <3>1 DEF PoolInv, TypeOK
    <3>7. StatusMap' = [StatusMap EXCEPT ![t] = "settled"]
      BY <1>4, <2>1, <3>1, <3>2, <3>5, <3>6
    <3>8. PhaseOf # "terminated"
      BY <3>1 DEF PhaseOf, PoolInv, StartedInv, NoLiveWorker
    <3>9. Executor!SettleTask(t)
      BY <2>1, <3>3, <3>7, <3>8, <3>2 DEF Executor!SettleTask, StatusMap
    <3>10. QED
      BY <3>2, <3>9 DEF Executor!Next
  <2>4. CASE Receive(w)
    <3> DEFINE h == Head(queue)
    <3>1. /\ worker[w] = "idle" /\ queue # <<>>
          /\ held' = [held EXCEPT ![w] = h]
          /\ UNCHANGED <<done, taskErr>>
      BY <2>4 DEF Receive, Goto, taskVars
    <3>2. /\ Within(h, queue) /\ h \in Tasks /\ Tail(queue) \in Seq(Tasks)
          /\ \A u \in Tasks : Within(u, Tail(queue)) <=> (Within(u, queue) /\ u # h)
      BY <3>1, TailOnce, HeadTailProperties DEF PoolInv, TypeOK, LifeInv, QueueInv
    <3>3. held[w] = NoTask
      BY <3>1 DEF PoolInv, LifeInv, HandInv
    <3>4. held'[w] = h /\ \A v \in WorkerIds : v # w => held'[v] = held[v]
      BY <3>1 DEF PoolInv, TypeOK
    <3>5. \A u \in Tasks : InHand(u)' <=> (InHand(u) \/ u = h)
      BY <3>3, <3>4, TasksAssumption DEF InHand
    <3>6. CASE sendq = <<>>
      <4>1. queue' = Tail(queue)
        BY <3>6, <2>4 DEF Receive
      <4>2. \A u \in Tasks : (Within(u, queue) \/ InHand(u))' <=> (Within(u, queue) \/ InHand(u))
        BY <3>2, <3>5, <4>1
      <4>3. QED
        BY <1>2, <2>1, <2>2, <3>1, <4>2
    <3>7. CASE sendq # <<>>
      <4>0. PICK s : s = Head(sendq)
        OBVIOUS
      <4>1. queue' = Append(Tail(queue), s)
        BY <4>0, <3>7, <2>4 DEF Receive
      <4>2. s \in Tasks /\ Within(s, sendq)
        BY <4>0, <3>7, TailOnce, HeadTailProperties DEF PoolInv, TypeOK, LifeInv, QueueInv
      <4>3. submitter[s] = "blocked"
        BY <4>2 DEF PoolInv, LifeInv, QueueInv, Crashed
      <4>4. ~chanClosed /\ StatusOf(s) = "new" /\ ~done[s]
        BY <1>5, <4>2, <4>3 DEF PoolInv, RefuseInv, LifeInv, PlaceInv, InPool
      <4>5. \A u \in Tasks : Within(u, queue') <=> (Within(u, Tail(queue)) \/ u = s)
        BY <3>2, <4>1, <4>2, AppendWithin
      <4>6. \A u \in Tasks : u # s =>
              ((Within(u, queue) \/ InHand(u))' <=> (Within(u, queue) \/ InHand(u)))
        BY <3>2, <3>5, <4>5
      <4>7. ~done'[s] /\ (Within(s, queue) \/ InHand(s))'
        BY <3>1, <4>2, <4>4, <4>5
      <4>8. StatusOf(s)' = "accepted"
        BY <4>7 DEF StatusOf, PoolInv, TypeOK
      <4>9. StatusMap' = [StatusMap EXCEPT ![s] = "accepted"]
        BY <3>1, <4>2, <4>6, <4>8, StatusOne
      <4>10. Executor!Accept(s)
        BY <2>1, <4>2, <4>4, <4>9, OpenPhase DEF Executor!Accept, StatusMap
      <4>11. QED
        BY <4>2, <4>10 DEF Executor!Next
    <3>8. QED
      BY <3>6, <3>7
  <2>5. CASE Deactivate(w)
    <3> DEFINE t == held[w]
    <3>1. /\ worker[w] = "settled" /\ held' = [held EXCEPT ![w] = NoTask]
          /\ UNCHANGED <<queue, done>>
      BY <2>5 DEF Deactivate, Goto, chanVars, taskVars
    <3>2. done[t]
      BY <3>1 DEF PoolInv, LifeInv, HandInv
    <3>3. held'[w] = NoTask /\ \A v \in WorkerIds : v # w => held'[v] = held[v]
      BY <3>1 DEF PoolInv, TypeOK
    <3>4. \A u \in Tasks : u # t => (InHand(u)' <=> InHand(u))
      BY <3>3, TasksAssumption DEF InHand
    <3>5. \A u \in Tasks :
            ~done[u] => ((Within(u, queue) \/ InHand(u))' <=> (Within(u, queue) \/ InHand(u)))
      BY <3>1, <3>2, <3>4
    <3>6. QED
      BY <1>2, <2>1, <2>2, <3>1, <3>5
  <2>6. CASE ~MarkDone(w) /\ ~Receive(w) /\ ~Deactivate(w)
    <3>1. UNCHANGED <<queue, held, done>>
      BY <1>10, <2>6 DEF WorkerStep, Exit, Activate, RunSucceeds, RunFails, GiveUp, Goto,
                         chanVars, workerVars, taskVars
    <3>2. QED
      BY <1>3, <2>1, <2>2, <3>1
  <2>7. QED
    BY <2>3, <2>4, <2>5, <2>6
<1>11. ASSUME NEW c \in Closers, ShutdownStep(c) PROVE [Executor!Next]_(Executor!vars)
  <2>1. UNCHANGED <<queue, held, done, taskErr>>
    BY <1>11 DEF ShutdownStep, ShutdownRefused, Shutdown, ShutdownPanics, WaitGroupZero,
                 ShutdownDone, ShutdownTimeout, chanVars, workerVars, taskVars
  <2>2. StatusMap' = StatusMap
    <3>1. \A t \in Tasks : (Within(t, queue) \/ InHand(t))' <=> (Within(t, queue) \/ InHand(t))
      BY <2>1 DEF InHand
    <3>2. QED
      BY <2>1, <3>1, StatusStutter
  <2>3. CASE Shutdown(c)
    <3>1. /\ ~chanClosed /\ chanClosed' = TRUE /\ helper' = [helper EXCEPT ![c] = "waiting"]
      BY <2>3 DEF Shutdown
    <3>2. \A d \in Closers : helper'[d] \notin {"sending", "gone"}
      BY <3>1 DEF PoolInv, StartedInv, TypeOK
    <3>3. PhaseOf = "open" /\ PhaseOf' = "closed"
      BY <3>1, <3>2, OpenPhase DEF PhaseOf
    <3>4. QED
      BY <2>2, <3>3 DEF Executor!Close, Executor!Next, StatusMap
  <2>4. CASE WaitGroupZero(c)
    <3>1. /\ helper[c] = "waiting" /\ NoLiveWorker /\ chanClosed' = chanClosed
          /\ helper' = [helper EXCEPT ![c] = "sending"]
      BY <2>4 DEF WaitGroupZero, poolVars
    <3>2. PhaseOf' = "terminated"
      BY <3>1 DEF PhaseOf, PoolInv, TypeOK
    <3>3. CASE PhaseOf = "terminated"
      BY <1>1, <2>2, <3>2, <3>3
    <3>4. CASE PhaseOf # "terminated"
      <4>1. PhaseOf = "closed"
        BY <3>1, <3>4 DEF PhaseOf, PoolInv, StartedInv
      <4>2. 0 \in WorkerIds /\ worker[0] = "exited"
        BY <3>1, OptionsAssumption
           DEF PoolInv, StartedInv, TableInv, TypeOK, WorkerIds, NoLiveWorker
      <4>3. \A t \in Tasks : ~Within(t, queue)
        BY <4>2 DEF PoolInv, StartedInv, Within
      <4>4. \A t \in Tasks : ~InHand(t)
        BY <3>1, TasksAssumption DEF NoLiveWorker, InHand, PoolInv, LifeInv, HandInv
      <4>5. \A t \in Tasks : StatusOf(t) # "accepted"
        BY <4>3, <4>4 DEF StatusOf
      <4>6. Executor!Terminate
        BY <2>2, <3>2, <4>1, <4>5 DEF Executor!Terminate, StatusMap
      <4>7. QED
        BY <4>6 DEF Executor!Next
    <3>5. QED
      BY <3>3, <3>4
  <2>5. CASE ShutdownDone(c)
    <3>1. /\ helper[c] = "sending" /\ helper' = [helper EXCEPT ![c] = "gone"]
          /\ chanClosed' = chanClosed
      BY <2>5 DEF ShutdownDone, poolVars
    <3>2. PhaseOf = "terminated" /\ PhaseOf' = "terminated"
      BY <3>1 DEF PhaseOf, PoolInv, TypeOK
    <3>3. QED
      BY <1>1, <2>2, <3>2
  <2>6. CASE ShutdownRefused(c) \/ ShutdownTimeout(c)
    BY <1>1, <2>2, <2>6, PhaseFrame DEF ShutdownRefused, ShutdownTimeout, poolVars
  <2>7. CASE ShutdownPanics(c)
    BY <2>7 DEF ShutdownPanics, PoolInv, StartedInv
  <2>8. QED
    BY <1>11, <2>3, <2>4, <2>5, <2>6, <2>7 DEF ShutdownStep
<1>12. QED
  BY <1>7, <1>8, <1>9, <1>10, <1>11 DEF Next

(* A stutter of the pool, crashed or not, is a stutter of the executor. *)
LEMMA StutterMaps ==
  ASSUME PoolInv, PoolInv', UNCHANGED vars
  PROVE  UNCHANGED Executor!vars
<1>1. UNCHANGED <<queue, held, done, chanClosed, helper, taskErr>>
  BY DEF vars, chanVars, workerVars, taskVars, closeVars, poolVars
<1>2. \A t \in Tasks : (Within(t, queue) \/ InHand(t))' <=> (Within(t, queue) \/ InHand(t))
  BY <1>1 DEF InHand
<1>3. StatusMap' = StatusMap
  BY <1>1, <1>2, StatusStutter
<1>4. QED
  BY <1>1, <1>3, PhaseFrame DEF Executor!vars, StatusMap

(* A pool started with at least one worker implements TaskExecutor: tasks  *)
(* are accepted or refused once, settled once, refused after the close,    *)
(* and the pool is down only when everything it accepted is settled.       *)
THEOREM PoolImplementsExecutor ==
  ASSUME MinWorkers >= 1
  PROVE  StartedSpec => RefinesExecutor
<1>1. PoolInv /\ PoolInv' /\ [Next]_vars => [Executor!Next]_(Executor!vars)
  <2> SUFFICES ASSUME PoolInv, PoolInv', [Next]_vars PROVE [Executor!Next]_(Executor!vars)
    OBVIOUS
  <2>1. CASE UNCHANGED vars
    BY <2>1, StutterMaps
  <2>2. CASE Next
    BY <2>2, StepMaps DEF Next
  <2>3. QED
    BY <2>1, <2>2
<1>2. TypeOK /\ LifeInv /\ TableInv /\ StartedInv /\ [Next]_vars => StartedInv'
  BY StepStarted
<1>3. TypeOK /\ LifeInv /\ RefuseInv /\ [Next]_vars => RefuseInv'
  BY StepRefuse
<1>4. StartedSpec => []PoolInv
  BY <1>2, <1>3, InitStartedInv, InitRefuse, LifeCorrectStarted, PTL DEF StartedSpec, PoolInv
<1>5. QED
  BY <1>1, <1>4, InitMaps, PTL DEF StartedSpec, RefinesExecutor, Executor!Spec
=============================================================================

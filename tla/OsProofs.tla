----------------------------- MODULE OsProofs ------------------------------
(***************************************************************************)
(* Proofs about two parts of the os layer that run on one loop and share   *)
(* no state: handlers, with the modules that own them, and the queue.      *)
(*                                                                         *)
(* Modules start after and stop before what they depend on, nothing of a   *)
(* module runs once it stops, and no thread writes the event of a deleted  *)
(* handler: for any modules, dependencies without cycles, and threads.     *)
(*                                                                         *)
(* The buffer, the queue, the semaphores and the loop agree, and the queue *)
(* implements a FIFO channel: for any capacity and any number of items.    *)
(***************************************************************************)
EXTENDS ModuleRegistry, Queue, FiniteSetTheorems, SequenceTheorems, TLAPS

(* A numbering of the modules that the dependencies descend. *)
IsRank(rank) ==
  /\ rank \in [Module -> 1..Cardinality(Module)]
  /\ \A m \in Module : \A d \in Deps[m] : rank[d] < rank[m]

Rank == CHOOSE rank \in [Module -> 1..Cardinality(Module)] : IsRank(rank)

(* Clear goes with cleared, and has unregistered at its end. *)
HandlerInv ==
  /\ \A h \in Handle : clearing[h] = "no" <=> h \notin cleared
  /\ \A h \in cleared : tasks[h] = <<>>
  /\ \A h \in Handle : clearing[h] = "unregistered" => h \notin registered

(* What the states of the modules are in each phase. *)
PhaseInv ==
  /\ phase \in {"starting", "up"} =>
       \A m \in Module : clearing[m] = "no" /\ state[m] \in {"none", "constructed", "started"}
  /\ phase # "starting" => starting = <<>>
  /\ phase = "stopping" =>
       /\ \A i \in 1..stopping : state[order[i]] = "started"
       /\ \A m \in Module : \/ state[m] \in {"none", "stopped"}
                            \/ \E i \in 1..stopping : order[i] = m
  /\ phase = "down" => \A m \in Module : state[m] \in {"none", "deleted"}
  /\ \A m \in Module : state[m] = "none" =>
       m \notin registered /\ entered # m /\ running # m /\ tasks[m] = <<>>
  /\ \A m \in Module : state[m] \in {"stopped", "deleted"} => Quiet(m)

(* The recursion of Start descends the dependencies, and start_order_ has  *)
(* every module once, after its dependencies.                              *)
StartInv ==
  /\ phase \in {"starting", "up"} =>
       /\ \A i \in DOMAIN starting : state[starting[i]] = "constructed"
       /\ \A m \in Module : state[m] = "constructed" => \E i \in DOMAIN starting : starting[i] = m
       /\ \A i \in DOMAIN order : state[order[i]] = "started"
       /\ \A m \in Module : state[m] = "started" => \E i \in DOMAIN order : order[i] = m
  /\ \A i, j \in DOMAIN starting : i < j => Rank[starting[i]] < Rank[starting[j]]
  /\ \A i, j \in DOMAIN order : order[i] = order[j] => i = j
  /\ \A i \in DOMAIN order : \A d \in Deps[order[i]] :
       \E j \in DOMAIN order : j < i /\ order[j] = d

(* Who is in the middle of a Post is still at work. *)
PosterInv ==
  /\ notifying[StackThread] # Nobody => running # Nobody
  /\ notifying[Management] # Nobody => InStart \/ InStop
  /\ \A m \in Module \cap Poster : notifying[m] # Nobody => state[m] = "started"
  /\ \A p \in Poster : notifying[p] # Nobody => phase # "down"

(* Whatever runs or may run finds its dependencies. *)
DepsInv ==
  \A m \in Module :
    state[m] = "started" \/ running = m \/ tasks[m] # <<>> \/ (InStart /\ m = Head(starting))
      => \A d \in Deps[m] : state[d] = "started"

IInv == TypeOK /\ HandlerInv /\ PhaseInv /\ StartInv /\ PosterInv /\ DepsInv

(* The dependencies have no cycle, so Rank is one of their numberings. *)
LEMMA RankIsRank == IsRank(Rank)
  <1>1. \E rank \in [Module -> 1..Cardinality(Module)] : IsRank(rank)
    BY RegistryAssumption DEF IsRank
  <1> QED BY <1>1 DEF Rank

(* What the steps below use of the assumptions. *)
LEMMA Facts ==
  /\ MaxPosts \in Nat /\ Nobody \notin Module /\ Nobody \notin Poster /\ Handle = Module
  /\ Roots \subseteq Module /\ \A m \in Module : Deps[m] \subseteq Module
  /\ StackThread \in Poster /\ Management \in Poster /\ StackThread # Management
  /\ StackThread \notin Module /\ Management \notin Module
  /\ \A p \in Poster : p \in Module \/ p = StackThread \/ p = Management
  BY HandlerAssumption, RegistryAssumption DEF Module

(* Ranks compare as integers. *)
LEMMA RankFacts ==
  /\ \A m \in Module : Rank[m] \in Int
  /\ \A m \in Module : \A d \in Deps[m] : Rank[d] < Rank[m]
  <1>1. Cardinality(Module) \in Nat
    BY HandlerAssumption, FS_CardinalityType DEF Module
  <1> QED BY <1>1, RankIsRank DEF IsRank

(* What Head and Tail of a sequence are. *)
LEMMA HeadTail ==
  ASSUME NEW S, NEW s \in Seq(S), s # <<>>
  PROVE  /\ Len(s) \in Nat \ {0} /\ DOMAIN s = 1..Len(s)
         /\ Head(s) = s[1] /\ Head(s) \in S
         /\ Tail(s) \in Seq(S) /\ DOMAIN Tail(s) = 1..(Len(s) - 1)
         /\ \A i \in DOMAIN Tail(s) : i + 1 \in DOMAIN s /\ Tail(s)[i] = s[i + 1]
  OBVIOUS

(* What appending an element does. *)
LEMMA AppendLast ==
  ASSUME NEW S, NEW s \in Seq(S), NEW e \in S
  PROVE  /\ Append(s, e) \in Seq(S) /\ Append(s, e) # <<>>
         /\ Len(s) \in Nat /\ DOMAIN s = 1..Len(s)
         /\ Len(Append(s, e)) = Len(s) + 1
         /\ DOMAIN Append(s, e) = 1..(Len(s) + 1)
         /\ \A i \in DOMAIN s : Append(s, e)[i] = s[i]
         /\ Append(s, e)[Len(s) + 1] = e
  OBVIOUS

(* What putting an element in front does. *)
LEMMA ConsFirst ==
  ASSUME NEW S, NEW s \in Seq(S), NEW e \in S
  PROVE  /\ <<e>> \o s \in Seq(S) /\ <<e>> \o s # <<>>
         /\ Len(s) \in Nat /\ DOMAIN s = 1..Len(s)
         /\ DOMAIN (<<e>> \o s) = 1..(Len(s) + 1)
         /\ Head(<<e>> \o s) = e /\ (<<e>> \o s)[1] = e
         /\ \A i \in DOMAIN s : (<<e>> \o s)[i + 1] = s[i]
  OBVIOUS

(***************************************************************************)
(* Posts.                                                                  *)
(***************************************************************************)

(* What a module reaches is up, and so are the dependencies of that. *)
LEMMA ReachesUp ==
  ASSUME IInv, NEW m \in Module, state[m] # "none",
         \A d \in Deps[m] : state[d] = "started", NEW h \in Reaches(m)
  PROVE  h \in Module /\ state[h] # "none" /\ \A d \in Deps[h] : state[d] = "started"
  BY Facts DEF IInv, DepsInv, Reaches

(* A thread at work posts to a module that is up. *)
LEMMA PostStep ==
  ASSUME IInv, NEW p \in Poster, NEW h \in Module, Post(p, h), UNCHANGED rvars,
         state[h] # "none", phase # "down", \A d \in Deps[h] : state[d] = "started",
         p = StackThread => running # Nobody,
         p = Management => InStart \/ InStop,
         p \in Module => state[p] = "started"
  PROVE  IInv'
  <1> USE Facts DEF IInv, rvars, Module
  <1>1. posts' \in 1..MaxPosts /\ posts' = posts + 1
    BY DEF Post, TypeOK, HandlerTypeOK
  <1>2. /\ tasks' \in [Module -> Seq(1..MaxPosts)]
        /\ \A g \in Module : g # h \/ h \in cleared => tasks'[g] = tasks[g]
    <2>1. CASE h \in cleared
      BY <2>1 DEF Post, TypeOK, HandlerTypeOK
    <2>2. CASE h \notin cleared
      <3>1. tasks' = [tasks EXCEPT ![h] = Append(@, posts')]
        BY <2>2 DEF Post
      <3>2. Append(tasks[h], posts') \in Seq(1..MaxPosts)
        BY <1>1, AppendLast DEF TypeOK, HandlerTypeOK
      <3> QED BY <2>2, <3>1, <3>2 DEF TypeOK, HandlerTypeOK
    <2> QED BY <2>1, <2>2
  <1>3. /\ notifying' \in [Poster -> Module \cup {Nobody}]
        /\ \A q \in Poster : q # p => notifying'[q] = notifying[q]
    <2>1. notifying' = notifying \/ notifying' = [notifying EXCEPT ![p] = h]
      BY DEF Post
    <2>2. notifying \in [Poster -> Module \cup {Nobody}]
      BY DEF TypeOK, HandlerTypeOK
    <2> QED BY <2>1, <2>2
  <1>4. UNCHANGED <<cleared, event, registered, entered, running, clearing, ran, rvars>>
    BY DEF Post
  <1>5. TypeOK'
    BY <1>1, <1>2, <1>3, <1>4 DEF TypeOK, HandlerTypeOK
  <1>6. HandlerInv'
    BY <1>2, <1>4 DEF HandlerInv, TypeOK, HandlerTypeOK
  <1>7. PhaseInv'
    BY <1>2, <1>4 DEF PhaseInv, Quiet
  <1>8. StartInv'
    BY <1>4 DEF StartInv
  <1>9. (InStart <=> InStart') /\ (InStop <=> InStop')
    BY <1>4 DEF InStart, InStop, Missing, Wanted, may_stop, Stopping, Quiet
  <1>10. PosterInv'
    BY <1>3, <1>4, <1>9 DEF PosterInv
  <1>11. DepsInv'
    BY <1>2, <1>4, <1>9 DEF DepsInv
  <1> QED BY <1>5, <1>6, <1>7, <1>8, <1>10, <1>11

(* A task posts to modules that are up. *)
LEMMA TaskPostsStep == IInv /\ TaskPosts => IInv'
  <1> SUFFICES ASSUME IInv, TaskPosts PROVE IInv'
    OBVIOUS
  <1>1. running \in Module /\ state[running] # "none" /\ phase # "down"
    BY Facts DEF IInv, TypeOK, HandlerTypeOK, TaskPosts, PhaseInv, Quiet
  <1>2. \A d \in Deps[running] : state[d] = "started"
    BY <1>1 DEF IInv, DepsInv
  <1>3. PICK h \in Reaches(running) : Post(StackThread, h)
    BY DEF TaskPosts
  <1>4. h \in Module /\ state[h] # "none" /\ \A d \in Deps[h] : state[d] = "started"
    BY <1>1, <1>2, ReachesUp
  <1> QED BY <1>1, <1>3, <1>4, PostStep, Facts DEF TaskPosts

(* A module's own thread posts only while the module is started. *)
LEMMA OwnThreadPostsStep ==
  ASSUME IInv, NEW n \in Module, OwnThreadPosts(n)
  PROVE  IInv'
  <1>1. n \in Poster /\ state[n] = "started" /\ phase # "down"
    BY DEF IInv, OwnThreadPosts, PhaseInv
  <1>2. \A d \in Deps[n] : state[d] = "started"
    BY <1>1 DEF IInv, DepsInv
  <1>3. PICK h \in Reaches(n) : Post(n, h)
    BY DEF OwnThreadPosts
  <1>4. h \in Module /\ state[h] # "none" /\ \A d \in Deps[h] : state[d] = "started"
    BY <1>1, <1>2, ReachesUp
  <1> QED BY <1>1, <1>3, <1>4, PostStep, Facts DEF OwnThreadPosts

(* Start() posts when all its dependencies have started. *)
LEMMA StartPostsStep == IInv /\ StartPosts => IInv'
  <1> SUFFICES ASSUME IInv, StartPosts PROVE IInv'
    OBVIOUS
  <1> DEFINE n == Head(starting)
  <1>1. /\ InStart /\ n \in Module /\ phase = "starting"
        /\ n = starting[1] /\ 1 \in DOMAIN starting
    BY HeadTail DEF IInv, TypeOK, StartPosts, InStart
  <1>2. state[n] # "none"
    BY <1>1 DEF IInv, StartInv
  <1>3. \A d \in Deps[n] : state[d] = "started"
    BY <1>1 DEF IInv, DepsInv
  <1>4. PICK h \in Reaches(n) : Post(Management, h)
    BY DEF StartPosts
  <1>5. h \in Module /\ state[h] # "none" /\ \A d \in Deps[h] : state[d] = "started"
    BY <1>1, <1>2, <1>3, ReachesUp
  <1> QED BY <1>1, <1>4, <1>5, PostStep, Facts DEF StartPosts

(* While modules stop, the next one to stop is started. *)
LEMMA StoppingFacts ==
  ASSUME IInv, phase = "stopping", stopping > 0
  PROVE  /\ Stopping \in Module /\ state[Stopping] = "started"
         /\ stopping \in DOMAIN order /\ Stopping = order[stopping]
         /\ stopping \in Nat /\ DOMAIN order = 1..Len(order) /\ stopping <= Len(order)
         /\ Len(order) \in Nat
  <1>1. stopping \in 1..Len(order) /\ Len(order) \in Nat /\ DOMAIN order = 1..Len(order)
    BY DEF IInv, TypeOK
  <1>2. stopping \in 1..stopping
    BY <1>1
  <1>3. Stopping \in Module
    BY <1>1 DEF IInv, TypeOK, Stopping
  <1>4. state[Stopping] = "started"
    BY <1>2 DEF IInv, PhaseInv, Stopping
  <1> QED BY <1>1, <1>3, <1>4 DEF Stopping

(* Stop() posts while the module still counts as started. *)
LEMMA StopPostsStep == IInv /\ StopPosts => IInv'
  <1> SUFFICES ASSUME IInv, StopPosts PROVE IInv'
    OBVIOUS
  <1>1. InStop /\ phase = "stopping" /\ Stopping \in Module /\ state[Stopping] = "started"
    BY StoppingFacts DEF StopPosts, InStop
  <1>2. \A d \in Deps[Stopping] : state[d] = "started"
    BY <1>1 DEF IInv, DepsInv
  <1>3. PICK h \in Reaches(Stopping) : Post(Management, h)
    BY DEF StopPosts
  <1>4. h \in Module /\ state[h] # "none" /\ \A d \in Deps[h] : state[d] = "started"
    BY <1>1, <1>2, ReachesUp
  <1> QED BY <1>1, <1>3, <1>4, PostStep, Facts DEF StopPosts

(* Writing an event ends a Post. *)
LEMMA NotifyStep ==
  ASSUME IInv, NEW p \in Poster, Notify(p), UNCHANGED rvars
  PROVE  IInv'
  <1> USE Facts DEF IInv, Notify, rvars
  <1>1. /\ event' \in [Module -> Nat]
        /\ notifying' \in [Poster -> Module \cup {Nobody}]
        /\ \A q \in Poster : notifying'[q] # Nobody => notifying[q] # Nobody
    BY DEF TypeOK, HandlerTypeOK
  <1>2. TypeOK'
    BY <1>1 DEF TypeOK, HandlerTypeOK
  <1>3. HandlerInv' /\ PhaseInv' /\ StartInv'
    BY DEF HandlerInv, PhaseInv, StartInv, Quiet
  <1>4. (InStart <=> InStart') /\ (InStop <=> InStop')
    BY DEF InStart, InStop, Missing, Wanted, may_stop, Stopping, Quiet
  <1>5. PosterInv'
    BY <1>1, <1>4 DEF PosterInv
  <1>6. DepsInv'
    BY <1>4 DEF DepsInv
  <1> QED BY <1>2, <1>3, <1>5, <1>6

(***************************************************************************)
(* The stack thread.                                                       *)
(***************************************************************************)

(* A callback begins for a registered handler, which is not stopped. *)
LEMMA CallbackBeginsStep ==
  ASSUME IInv, NEW h \in Handle, callback_begins(h), UNCHANGED rvars
  PROVE  IInv'
  <1> USE Facts DEF IInv, callback_begins, rvars, Module
  <1>1. TypeOK'
    BY DEF TypeOK, HandlerTypeOK
  <1>2. HandlerInv' /\ StartInv'
    BY DEF HandlerInv, StartInv
  <1>3. PhaseInv'
    BY DEF PhaseInv, HandlerInv, Quiet
  <1>4. (InStart <=> InStart') /\ (InStop => InStop')
    BY StoppingFacts DEF InStart, InStop, Missing, Wanted, may_stop, Stopping, Quiet, HandlerInv
  <1>5. PosterInv'
    BY <1>4 DEF PosterInv
  <1>6. DepsInv'
    BY <1>4 DEF DepsInv
  <1> QED BY <1>1, <1>2, <1>3, <1>5, <1>6

(* A task that runs was queued, so its dependencies are up. *)
LEMMA HandleNextEventStep ==
  ASSUME IInv, handle_next_event, UNCHANGED rvars
  PROVE  IInv'
  <1> USE Facts DEF IInv, rvars, Module
  <1> DEFINE h == entered
  <1>1. h \in Module /\ entered' = Nobody
    BY DEF handle_next_event, TypeOK, HandlerTypeOK
  <1>2. event' \in [Handle -> Nat]
    <2>1. event' = [event EXCEPT ![h] = consume(@)] /\ event[h] \in Nat
      BY <1>1 DEF handle_next_event, TypeOK, HandlerTypeOK
    <2>2. consume(event[h]) \in Nat
      BY <2>1 DEF consume
    <2> QED BY <2>1, <2>2 DEF TypeOK, HandlerTypeOK
  <1>3. UNCHANGED <<cleared, notifying, registered, clearing, posts, rvars>>
    BY DEF handle_next_event
  <1>4. /\ tasks' \in [Handle -> Seq(1..MaxPosts)] /\ ran' \subseteq 1..MaxPosts
        /\ running' \in Handle \cup {Nobody}
        /\ running' = running \/ (running' = h /\ tasks[h] # <<>> /\ h \notin cleared)
        /\ \A g \in Module : tasks'[g] # <<>> => tasks[g] # <<>>
    <2>1. CASE h \in cleared
      BY <1>1, <2>1 DEF handle_next_event, TypeOK, HandlerTypeOK
    <2>2. CASE h \notin cleared
      <3>1. /\ tasks[h] # <<>> /\ running' = h /\ ran' = ran \cup {Head(tasks[h])}
            /\ tasks' = [tasks EXCEPT ![h] = Tail(@)]
        BY <1>1, <2>2 DEF handle_next_event
      <3>2. tasks[h] \in Seq(1..MaxPosts)
        BY <1>1 DEF TypeOK, HandlerTypeOK
      <3>3. Head(tasks[h]) \in 1..MaxPosts /\ Tail(tasks[h]) \in Seq(1..MaxPosts)
        BY <3>1, <3>2, HeadTail
      <3> QED BY <1>1, <2>2, <3>1, <3>3 DEF TypeOK, HandlerTypeOK
    <2> QED BY <2>1, <2>2
  <1>5. TypeOK'
    BY <1>1, <1>2, <1>3, <1>4 DEF TypeOK, HandlerTypeOK
  <1>6. HandlerInv' /\ StartInv'
    BY <1>3, <1>4 DEF HandlerInv, StartInv, TypeOK, HandlerTypeOK
  <1>7. PhaseInv'
    <2>1. \A m \in Module : state[m] = "none" =>
            m \notin registered' /\ entered' # m /\ running' # m /\ tasks'[m] = <<>>
      BY <1>1, <1>3, <1>4 DEF PhaseInv
    <2>2. \A m \in Module : Quiet(m) => Quiet(m)'
      BY <1>1, <1>3, <1>4 DEF Quiet
    <2> QED BY <1>3, <2>1, <2>2 DEF PhaseInv
  <1>8. (InStart <=> InStart') /\ (InStop => InStop')
    BY <1>1, <1>3, <1>4, StoppingFacts DEF InStart, InStop, Missing, Wanted, may_stop, Stopping, Quiet
  <1>9. PosterInv'
    BY <1>1, <1>3, <1>4, <1>8 DEF PosterInv
  <1>10. DepsInv'
    BY <1>1, <1>3, <1>4, <1>8 DEF DepsInv
  <1> QED BY <1>5, <1>6, <1>7, <1>9, <1>10

(* A task that returns leaves no Post behind. *)
LEMMA ClosureReturnsStep ==
  ASSUME IInv, closure_returns(StackThread), UNCHANGED rvars
  PROVE  IInv'
  <1> USE Facts DEF IInv, closure_returns, rvars, Module
  <1>1. TypeOK'
    BY DEF TypeOK, HandlerTypeOK
  <1>2. HandlerInv' /\ StartInv'
    BY DEF HandlerInv, StartInv
  <1>3. PhaseInv'
    BY DEF PhaseInv, Quiet
  <1>4. (InStart <=> InStart') /\ (InStop => InStop')
    BY StoppingFacts DEF InStart, InStop, Missing, Wanted, may_stop, Stopping, Quiet
  <1>5. PosterInv'
    BY <1>4 DEF PosterInv
  <1>6. DepsInv'
    BY <1>4 DEF DepsInv
  <1> QED BY <1>1, <1>2, <1>3, <1>5, <1>6

(***************************************************************************)
(* StopAll.                                                                *)
(***************************************************************************)

(* Clear acts on a module that has not stopped. *)
LEMMA ClearStep ==
  ASSUME IInv, StopClears
  PROVE  IInv'
  <1> USE Facts DEF IInv, rvars, Module
  <1> DEFINE s == Stopping
  <1>1. s \in Module /\ state[s] = "started" /\ phase = "stopping"
    BY StoppingFacts DEF StopClears
  <1>2. UNCHANGED <<notifying, entered, running, posts, ran, rvars>> /\ clearing[s] # "unregistered"
    BY DEF StopClears, ClearSwaps, ClearDrains, ClearUnregisters
  <1>3. /\ clearing' \in [Handle -> {"no", "swapped", "drained", "unregistered"}]
        /\ tasks' \in [Handle -> Seq(1..MaxPosts)] /\ event' \in [Handle -> Nat]
        /\ cleared' \subseteq Handle /\ registered' \subseteq registered
        /\ \A g \in Module : tasks'[g] # <<>> => tasks[g] # <<>>
        /\ \A g \in Module : g # s => clearing'[g] = clearing[g]
        /\ HandlerInv'
    <2>1. CASE ClearSwaps(s)
      BY <1>1, <2>1 DEF ClearSwaps, TypeOK, HandlerTypeOK, HandlerInv
    <2>2. CASE ClearDrains(s)
      BY <1>1, <2>2 DEF ClearDrains, TypeOK, HandlerTypeOK, HandlerInv
    <2>3. CASE ClearUnregisters(s)
      BY <1>1, <2>3 DEF ClearUnregisters, TypeOK, HandlerTypeOK, HandlerInv
    <2> QED BY <2>1, <2>2, <2>3 DEF StopClears
  <1>4. TypeOK'
    BY <1>2, <1>3 DEF TypeOK, HandlerTypeOK
  <1>5. StartInv'
    BY <1>2 DEF StartInv
  <1>6. PhaseInv'
    BY <1>1, <1>2, <1>3 DEF PhaseInv, Quiet
  <1>7. (InStart <=> InStart') /\ ~InStop
    BY <1>2 DEF InStart, InStop, Missing, Wanted, may_stop, Quiet
  <1>8. PosterInv'
    BY <1>2, <1>7 DEF PosterInv
  <1>9. DepsInv'
    BY <1>2, <1>3, <1>7 DEF DepsInv
  <1> QED BY <1>3, <1>4, <1>5, <1>6, <1>8, <1>9

(* StopAll begins with every module of the order started. *)
LEMMA StopAllBeginsStep ==
  ASSUME IInv, StopAllBegins
  PROVE  IInv'
  <1> USE Facts DEF IInv, StopAllBegins, hvars, Module
  <1>1. TypeOK'
    BY DEF TypeOK, HandlerTypeOK
  <1>2. HandlerInv'
    BY DEF HandlerInv
  <1>3. starting = <<>> /\ DOMAIN starting = {} /\ DOMAIN order = 1..Len(order)
    BY DEF PhaseInv, TypeOK
  <1>4. \A m \in Module : state[m] \in {"none", "started"}
    BY <1>3 DEF PhaseInv, StartInv
  <1>5. PhaseInv'
    BY <1>3, <1>4 DEF PhaseInv, StartInv, Quiet
  <1>6. StartInv'
    BY DEF StartInv
  <1>7. ~InStart /\ ~InStart' /\ ~InStop
    BY DEF InStart, InStop
  <1>8. PosterInv'
    BY <1>7 DEF PosterInv
  <1>9. DepsInv'
    BY <1>7 DEF DepsInv
  <1> QED BY <1>1, <1>2, <1>5, <1>6, <1>8, <1>9

(* The module that stops is nobody's dependency any more: those that need  *)
(* it come later in start_order_ and have stopped.                         *)
LEMMA StopFinishesStep ==
  ASSUME IInv, StopFinishes
  PROVE  IInv'
  <1> USE Facts DEF IInv, hvars, Module
  <1> DEFINE s == Stopping
  <1>1. /\ phase = "stopping" /\ stopping > 0 /\ Quiet(s)
        /\ notifying[Management] = Nobody /\ (s \in Poster => notifying[s] = Nobody)
        /\ state' = [state EXCEPT ![s] = "stopped"] /\ stopping' = stopping - 1
        /\ UNCHANGED <<hvars, starting, order, phase>>
    BY DEF StopFinishes, InStop, may_stop, AtRest, after_stop
  <1>2. /\ s \in Module /\ state[s] = "started" /\ s = order[stopping]
        /\ stopping \in DOMAIN order /\ DOMAIN order = 1..Len(order)
        /\ stopping \in Nat /\ Len(order) \in Nat /\ stopping <= Len(order)
    BY <1>1, StoppingFacts
  <1>3. TypeOK'
    <2>1. stopping' \in 0..Len(order)
      BY <1>1, <1>2
    <2>2. state' \in [Module -> {"none", "constructed", "started", "stopped", "deleted"}]
      BY <1>1 DEF TypeOK
    <2> QED BY <1>1, <2>1, <2>2 DEF TypeOK, HandlerTypeOK
  <1>4. HandlerInv'
    BY <1>1 DEF HandlerInv
  <1>5. \A i \in 1..stopping' : i \in 1..stopping /\ i \in DOMAIN order /\ order[i] # s /\ order[i] \in Module
    BY <1>1, <1>2 DEF StartInv, TypeOK
  <1>6. \A m \in Module : m # s => state'[m] = state[m]
    BY <1>1 DEF TypeOK
  <1>7. state'[s] = "stopped"
    BY <1>1, <1>2 DEF TypeOK
  <1>8. PhaseInv'
    <2>1. \A i \in 1..stopping' : state'[order[i]] = "started"
      BY <1>1, <1>5, <1>6 DEF PhaseInv
    <2>2. ASSUME NEW m \in Module
          PROVE  state'[m] \in {"none", "stopped"} \/ \E i \in 1..stopping' : order[i] = m
      <3>1. CASE m = s
        BY <1>7, <3>1
      <3>2. CASE m # s /\ state[m] \notin {"none", "stopped"}
        <4>1. PICK i \in 1..stopping : order[i] = m
          BY <1>1, <3>2 DEF PhaseInv
        <4>2. i # stopping
          BY <1>2, <3>2, <4>1
        <4>3. i \in 1..stopping'
          BY <1>1, <1>2, <4>1, <4>2
        <4> QED BY <4>1, <4>3
      <3> QED BY <1>6, <3>1, <3>2
    <2>3. \A m \in Module : state'[m] \in {"stopped", "deleted"} => Quiet(m)'
      BY <1>1, <1>6 DEF PhaseInv, Quiet
    <2>4. \A m \in Module : state'[m] = "none" => state[m] = "none"
      BY <1>6, <1>7
    <2> QED BY <1>1, <2>1, <2>2, <2>3, <2>4 DEF PhaseInv
  <1>9. StartInv'
    BY <1>1 DEF StartInv
  <1>10. PosterInv'
    BY <1>1, <1>6 DEF PosterInv
  <1>11. ASSUME NEW m \in Module, state'[m] = "started" \/ running' = m \/ tasks'[m] # <<>>,
                NEW d \in Deps[m]
         PROVE  state'[d] = "started"
    <2>1. m \notin cleared \/ running = m \/ state[m] = "started"
      BY <1>1, <1>6, <1>7, <1>11 DEF HandlerInv
    <2>2. state[m] = "started" /\ m # s
      <3>1. m # s
        BY <1>1, <1>7, <1>11 DEF Quiet, HandlerInv
      <3>2. state[m] # "none" /\ state[m] # "stopped"
        BY <1>1, <1>6, <3>1, <1>11 DEF PhaseInv, Quiet, HandlerInv
      <3> QED BY <1>1, <3>1, <3>2 DEF PhaseInv
    <2>3. PICK i \in 1..stopping : order[i] = m
      BY <1>1, <2>2 DEF PhaseInv
    <2>4. i \in DOMAIN order
      BY <1>2, <2>3
    <2>5. PICK j \in DOMAIN order : j < i /\ order[j] = d
      BY <2>3, <2>4 DEF StartInv
    <2>6. d # s
      BY <1>2, <2>3, <2>4, <2>5 DEF StartInv
    <2>7. state[d] = "started" /\ d \in Module
      BY <2>2 DEF DepsInv
    <2> QED BY <1>6, <2>6, <2>7
  <1>12. DepsInv'
    BY <1>1, <1>11 DEF DepsInv, InStart
  <1> QED BY <1>3, <1>4, <1>8, <1>9, <1>10, <1>12

(* Nothing runs and nobody posts when the handlers are deleted. *)
LEMMA DeleteAllStep ==
  ASSUME IInv, DeleteAll
  PROVE  IInv'
  <1> USE Facts DEF IInv, hvars, Module
  <1>1. /\ phase = "stopping" /\ stopping = 0 /\ phase' = "down" /\ order' = <<>>
        /\ state' = [m \in Module |-> IF state[m] = "none" THEN "none" ELSE "deleted"]
        /\ UNCHANGED <<hvars, starting, stopping>>
    BY DEF DeleteAll
  <1>2. \A m \in Module : state[m] \in {"none", "stopped"}
    BY <1>1 DEF PhaseInv
  <1>3. \A m \in Module : running # m /\ tasks[m] = <<>>
    BY <1>2 DEF PhaseInv, Quiet, HandlerInv
  <1>4. running = Nobody
    BY <1>3 DEF TypeOK, HandlerTypeOK
  <1>5. ~InStart /\ ~InStop /\ ~InStart'
    BY <1>1 DEF InStart, InStop
  <1>6. \A p \in Poster : notifying[p] = Nobody
    BY <1>2, <1>4, <1>5 DEF PosterInv
  <1>7. TypeOK'
    BY <1>1 DEF TypeOK, HandlerTypeOK
  <1>8. HandlerInv'
    BY <1>1 DEF HandlerInv
  <1>9. PhaseInv'
    BY <1>1, <1>2 DEF PhaseInv, Quiet
  <1>10. StartInv'
    BY <1>1 DEF StartInv
  <1>11. PosterInv'
    BY <1>1, <1>6 DEF PosterInv
  <1>12. DepsInv'
    BY <1>1, <1>3, <1>5 DEF DepsInv
  <1> QED BY <1>7, <1>8, <1>9, <1>10, <1>11, <1>12

(***************************************************************************)
(* Start.                                                                  *)
(***************************************************************************)

(* The module constructed next ranks below those being started, so it is   *)
(* none of them.                                                           *)
LEMMA StartConstructsStep ==
  ASSUME IInv, NEW n \in Module, StartConstructs(n)
  PROVE  IInv'
  <1> USE Facts DEF IInv, Module
  <1>1. /\ phase = "starting" /\ state[n] # "started" /\ n \in Wanted
        /\ starting' = <<n>> \o starting
        /\ state' = [state EXCEPT ![n] = "constructed"]
        /\ registered' = registered \cup {n}
        /\ UNCHANGED <<tasks, cleared, event, notifying, entered, running, clearing,
                       posts, ran, order, stopping, phase>>
    BY DEF StartConstructs, Construct, Missing
  <1>2. /\ starting \in Seq(Module) /\ DOMAIN starting = 1..Len(starting) /\ Len(starting) \in Nat
        /\ starting' \in Seq(Module) /\ starting' # <<>> /\ Head(starting') = n
        /\ DOMAIN starting' = 1..(Len(starting) + 1) /\ starting'[1] = n
        /\ \A i \in DOMAIN starting : starting'[i + 1] = starting[i] /\ starting[i] \in Module
    BY <1>1, ConsFirst DEF TypeOK
  <1>3. \A i \in DOMAIN starting : Rank[n] < Rank[starting[i]]
    <2> SUFFICES ASSUME NEW i \in DOMAIN starting PROVE Rank[n] < Rank[starting[i]]
      OBVIOUS
    <2>1. starting # <<>> /\ 1 \in DOMAIN starting /\ Head(starting) = starting[1]
      BY <1>2, HeadTail
    <2>2. n \in Deps[starting[1]] /\ starting[1] \in Module
      BY <1>1, <1>2, <2>1 DEF Wanted
    <2>3. Rank[n] < Rank[starting[1]]
      BY <2>2, RankFacts
    <2>4. i = 1 \/ Rank[starting[1]] < Rank[starting[i]]
      BY <1>2, <2>1 DEF StartInv
    <2> QED BY <1>2, <2>2, <2>3, <2>4, RankFacts
  <1>4. \A i \in DOMAIN starting : starting[i] # n
    BY <1>3, RankFacts
  <1>5. state[n] = "none"
    BY <1>1, <1>4 DEF PhaseInv, StartInv
  <1>6. \A m \in Module : state'[m] = IF m = n THEN "constructed" ELSE state[m]
    BY <1>1 DEF TypeOK
  <1>7. TypeOK'
    BY <1>1, <1>2 DEF TypeOK, HandlerTypeOK
  <1>8. HandlerInv'
    BY <1>1 DEF HandlerInv, PhaseInv
  <1>9. PhaseInv'
    BY <1>1, <1>5, <1>6 DEF PhaseInv, Quiet
  <1>10. StartInv'
    <2>1. \A i \in DOMAIN starting' : i = 1 \/ (i - 1 \in DOMAIN starting /\ starting'[i] = starting[i - 1])
      BY <1>2
    <2>2. \A i \in DOMAIN starting' : state'[starting'[i]] = "constructed"
      BY <1>1, <1>2, <1>6, <2>1 DEF StartInv
    <2>3. ASSUME NEW m \in Module, state'[m] = "constructed"
          PROVE  \E i \in DOMAIN starting' : starting'[i] = m
      <3>1. CASE m = n
        <4>1. 1 \in DOMAIN starting'
          BY <1>2
        <4> QED BY <1>2, <3>1, <4>1
      <3>2. CASE m # n
        <4>1. PICK i \in DOMAIN starting : starting[i] = m
          BY <1>1, <1>6, <2>3, <3>2 DEF StartInv
        <4>2. i + 1 \in DOMAIN starting' /\ starting'[i + 1] = m
          BY <1>2, <4>1
        <4> QED BY <4>2
      <3> QED BY <3>1, <3>2
    <2>4. \A i \in DOMAIN order : state'[order[i]] = "started"
      BY <1>1, <1>5, <1>6 DEF StartInv, TypeOK
    <2>5. \A m \in Module : state'[m] = "started" => \E i \in DOMAIN order : order[i] = m
      BY <1>1, <1>6 DEF StartInv
    <2>6. ASSUME NEW i \in DOMAIN starting', NEW j \in DOMAIN starting', i < j
          PROVE  Rank[starting'[i]] < Rank[starting'[j]]
      <3>1. CASE i = 1
        BY <1>2, <1>3, <2>1, <2>6, <3>1
      <3>2. CASE i # 1
        <4>1. i \in Int /\ j \in Int /\ j # 1 /\ i - 1 < j - 1
          BY <1>2, <2>6, <3>2
        <4>2. /\ i - 1 \in DOMAIN starting /\ starting'[i] = starting[i - 1]
              /\ j - 1 \in DOMAIN starting /\ starting'[j] = starting[j - 1]
          BY <2>1, <3>2, <4>1
        <4> QED BY <4>1, <4>2 DEF StartInv
      <3> QED BY <3>1, <3>2
    <2> QED BY <1>1, <2>2, <2>3, <2>4, <2>5, <2>6 DEF StartInv
  <1>11. PosterInv'
    <2>1. notifying[Management] = Nobody
      <3>1. ~InStart
        BY DEF InStart, StartConstructs
      <3> QED BY <1>1, <3>1 DEF PosterInv, InStop
    <2> QED BY <1>1, <1>6, <2>1 DEF PosterInv
  <1>12. DepsInv'
    <2>1. ASSUME NEW m \in Module, state'[m] = "started" \/ running' = m \/ tasks'[m] # <<>>
          PROVE  \A d \in Deps[m] : state'[d] = "started"
      BY <1>1, <1>6, <2>1 DEF DepsInv
    <2>2. InStart' => \A d \in Deps[Head(starting')] : state'[d] = "started"
      BY <1>2 DEF InStart, Missing, Wanted
    <2> QED BY <2>1, <2>2 DEF DepsInv
  <1> QED BY <1>7, <1>8, <1>9, <1>10, <1>11, <1>12

(* A module starts after its dependencies, which are in start_order_. *)
LEMMA StartFinishesStep ==
  ASSUME IInv, StartFinishes
  PROVE  IInv'
  <1> USE Facts DEF IInv, hvars, Module
  <1> DEFINE n == Head(starting)
  <1>1. /\ InStart /\ phase = "starting" /\ starting # <<>> /\ notifying[Management] = Nobody
        /\ state' = [state EXCEPT ![n] = "started"]
        /\ order' = Append(order, n) /\ starting' = Tail(starting)
        /\ UNCHANGED <<hvars, stopping, phase>>
    BY DEF StartFinishes, InStart, AtRest
  <1>2. /\ n \in Module /\ n = starting[1] /\ 1 \in DOMAIN starting
        /\ DOMAIN starting = 1..Len(starting) /\ Len(starting) \in Nat
        /\ starting' \in Seq(Module) /\ DOMAIN starting' = 1..(Len(starting) - 1)
        /\ \A i \in DOMAIN starting' : i + 1 \in DOMAIN starting /\ starting'[i] = starting[i + 1]
        /\ \A i \in DOMAIN starting : starting[i] \in Module
    BY <1>1, HeadTail DEF TypeOK
  <1>3. /\ order' \in Seq(Module) /\ Len(order) \in Nat /\ Len(order') = Len(order) + 1
        /\ DOMAIN order = 1..Len(order) /\ DOMAIN order' = 1..(Len(order) + 1)
        /\ \A i \in DOMAIN order : order'[i] = order[i] /\ order[i] \in Module
        /\ order'[Len(order) + 1] = n
    BY <1>1, <1>2, AppendLast DEF TypeOK
  <1>4. state[n] = "constructed" /\ \A i \in DOMAIN order : order[i] # n
    BY <1>1, <1>2 DEF StartInv
  <1>5. \A m \in Module : state'[m] = IF m = n THEN "started" ELSE state[m]
    BY <1>1 DEF TypeOK
  <1>6. \A i \in DOMAIN starting' : starting'[i] # n
    <2> SUFFICES ASSUME NEW i \in DOMAIN starting' PROVE starting'[i] # n
      OBVIOUS
    <2>1. i + 1 \in DOMAIN starting /\ 1 < i + 1 /\ starting'[i] = starting[i + 1]
      BY <1>2
    <2>2. Rank[starting[1]] < Rank[starting[i + 1]]
      BY <1>2, <2>1 DEF StartInv
    <2> QED BY <1>2, <2>1, <2>2, RankFacts
  <1>7. \A d \in Deps[n] : state[d] = "started" /\ d \in Module
    BY <1>1, <1>2 DEF DepsInv
  <1>8. TypeOK'
    <2>1. stopping' \in 0..Len(order')
      BY <1>1, <1>3 DEF TypeOK
    <2>2. state' \in [Module -> {"none", "constructed", "started", "stopped", "deleted"}]
      BY <1>1 DEF TypeOK
    <2> QED BY <1>1, <1>2, <1>3, <2>1, <2>2 DEF TypeOK, HandlerTypeOK
  <1>9. HandlerInv'
    BY <1>1 DEF HandlerInv
  <1>10. PhaseInv'
    BY <1>1, <1>5 DEF PhaseInv, Quiet
  <1>11. StartInv'
    <2>1. \A i \in DOMAIN starting' : state'[starting'[i]] = "constructed"
      BY <1>1, <1>2, <1>5, <1>6 DEF StartInv
    <2>2. ASSUME NEW m \in Module, state'[m] = "constructed"
          PROVE  \E i \in DOMAIN starting' : starting'[i] = m
      <3>1. m # n /\ state[m] = "constructed"
        BY <1>5, <2>2
      <3>2. PICK i \in DOMAIN starting : starting[i] = m
        BY <1>1, <3>1 DEF StartInv
      <3>3. i # 1
        BY <1>2, <3>1, <3>2
      <3>4. i - 1 \in DOMAIN starting' /\ starting'[i - 1] = starting[i]
        BY <1>2, <3>2, <3>3
      <3> QED BY <3>2, <3>4
    <2>3. \A i \in DOMAIN order' : i \in DOMAIN order \/ i = Len(order) + 1
      BY <1>3
    <2>4. \A i \in DOMAIN order' : state'[order'[i]] = "started"
      BY <1>1, <1>2, <1>3, <1>5, <2>3 DEF StartInv
    <2>5. \A m \in Module : state'[m] = "started" => \E i \in DOMAIN order' : order'[i] = m
      BY <1>1, <1>3, <1>5 DEF StartInv
    <2>6. \A i, j \in DOMAIN starting' : i < j => Rank[starting'[i]] < Rank[starting'[j]]
      BY <1>2 DEF StartInv
    <2>7. \A i, j \in DOMAIN order' : order'[i] = order'[j] => i = j
      BY <1>3, <1>4, <2>3 DEF StartInv
    <2>8. ASSUME NEW i \in DOMAIN order', NEW d \in Deps[order'[i]]
          PROVE  \E j \in DOMAIN order' : j < i /\ order'[j] = d
      <3>1. CASE i = Len(order) + 1
        <4>1. state[d] = "started" /\ d \in Module
          BY <1>3, <1>7, <2>8, <3>1
        <4>2. PICK j \in DOMAIN order : order[j] = d
          BY <1>1, <4>1 DEF StartInv
        <4> QED BY <1>3, <3>1, <4>2
      <3>2. CASE i \in DOMAIN order
        <4>1. PICK j \in DOMAIN order : j < i /\ order[j] = d
          BY <1>3, <2>8, <3>2 DEF StartInv
        <4> QED BY <1>3, <4>1
      <3> QED BY <2>3, <3>1, <3>2
    <2> QED BY <2>1, <2>2, <2>4, <2>5, <2>6, <2>7, <2>8 DEF StartInv
  <1>12. PosterInv'
    BY <1>1, <1>5 DEF PosterInv
  <1>13. DepsInv'
    <2>1. ASSUME NEW m \in Module, state'[m] = "started" \/ running' = m \/ tasks'[m] # <<>>
          PROVE  \A d \in Deps[m] : state'[d] = "started"
      BY <1>1, <1>5, <1>7, <2>1 DEF DepsInv
    <2>2. InStart' => \A d \in Deps[Head(starting')] : state'[d] = "started"
      <3> SUFFICES ASSUME InStart' PROVE \A d \in Deps[Head(starting')] : state'[d] = "started"
        OBVIOUS
      <3>1. starting' # <<>> /\ Wanted' = Deps[Head(starting')] /\ Missing' = {}
        BY DEF InStart, Wanted
      <3>2. Head(starting') \in Module
        BY <1>2, <3>1, HeadTail
      <3> QED BY <3>1, <3>2 DEF Missing
    <2> QED BY <2>1, <2>2 DEF DepsInv
  <1> QED BY <1>8, <1>9, <1>10, <1>11, <1>12, <1>13

(* Nothing is half started when Start returns. *)
LEMMA StartReturnsStep ==
  ASSUME IInv, StartReturns
  PROVE  IInv'
  <1> USE Facts DEF IInv, StartReturns, hvars, Module
  <1>1. TypeOK'
    BY DEF TypeOK, HandlerTypeOK
  <1>2. HandlerInv' /\ PhaseInv' /\ StartInv'
    BY DEF HandlerInv, PhaseInv, StartInv, Quiet
  <1>3. ~InStart /\ ~InStart' /\ ~InStop
    BY DEF InStart, InStop
  <1>4. PosterInv'
    BY <1>3 DEF PosterInv
  <1>5. DepsInv'
    BY <1>3 DEF DepsInv
  <1> QED BY <1>1, <1>2, <1>4, <1>5

(***************************************************************************)
(* The theorems.                                                           *)
(***************************************************************************)

(* Every step preserves the invariant. *)
LEMMA InvariantStep == IInv /\ [Next]_vars => IInv'
  <1> SUFFICES ASSUME IInv, [Next]_vars PROVE IInv'
    OBVIOUS
  <1>1. ASSUME NEW m \in Module, StartConstructs(m) PROVE IInv'
    BY <1>1, StartConstructsStep
  <1>2. ASSUME NEW m \in Module, OwnThreadPosts(m) PROVE IInv'
    BY <1>2, OwnThreadPostsStep
  <1>3. CASE StartFinishes \/ StartReturns
    BY <1>3, StartFinishesStep, StartReturnsStep
  <1>4. CASE StopAllBegins \/ StopClears \/ StopFinishes \/ DeleteAll
    BY <1>4, StopAllBeginsStep, ClearStep, StopFinishesStep, DeleteAllStep
  <1>5. CASE TaskPosts \/ StartPosts \/ StopPosts
    BY <1>5, TaskPostsStep, StartPostsStep, StopPostsStep
  <1>6. CASE ThreadRuns
    BY <1>6, NotifyStep, CallbackBeginsStep, HandleNextEventStep, ClosureReturnsStep DEF ThreadRuns
  <1>7. CASE UNCHANGED vars
    <2>1. UNCHANGED hvars /\ UNCHANGED rvars
      BY <1>7 DEF vars
    <2>2. TypeOK'
      BY <2>1 DEF IInv, hvars, rvars, TypeOK, HandlerTypeOK
    <2>3. HandlerInv' /\ PhaseInv' /\ StartInv'
      BY <2>1 DEF IInv, hvars, rvars, HandlerInv, PhaseInv, StartInv, Quiet
    <2>4. (InStart <=> InStart') /\ (InStop <=> InStop')
      BY <2>1 DEF hvars, rvars, InStart, InStop, Missing, Wanted, may_stop, Stopping, Quiet
    <2>5. PosterInv' /\ DepsInv'
      BY <2>1, <2>4 DEF IInv, hvars, rvars, PosterInv, DepsInv
    <2> QED BY <2>2, <2>3, <2>5 DEF IInv
  <1> QED BY <1>1, <1>2, <1>3, <1>4, <1>5, <1>6, <1>7 DEF Next

(* The inductive invariant of module.cc and handler.cc. *)
THEOREM InvariantHolds == Spec => []IInv
  <1>1. Init => IInv
    <2> SUFFICES ASSUME Init PROVE IInv
      OBVIOUS
    <2> USE Facts DEF Init, HandlerInit, Module
    <2>1. TypeOK
      BY DEF TypeOK, HandlerTypeOK
    <2>2. HandlerInv /\ PhaseInv
      BY DEF HandlerInv, PhaseInv, Quiet
    <2>3. StartInv
      BY DEF StartInv
    <2>4. PosterInv
      BY DEF PosterInv
    <2>5. DepsInv
      BY DEF DepsInv, InStart
    <2> QED BY <2>1, <2>2, <2>3, <2>4, <2>5 DEF IInv
  <1> QED BY <1>1, InvariantStep, PTL DEF Spec

(* Every reachable state is well typed. *)
THEOREM TypeCorrect == Spec => []TypeOK
  <1>1. IInv => TypeOK
    BY DEF IInv
  <1> QED BY <1>1, InvariantHolds, PTL

(* StopAll stops a module only when none of its tasks runs or will run. *)
THEOREM NothingRuns == Spec => []NothingRunsAfterStop
  <1>1. IInv => NothingRunsAfterStop
    BY DEF IInv, PhaseInv, NothingRunsAfterStop, InStop, may_stop, Quiet
  <1> QED BY <1>1, InvariantHolds, PTL

(* Whatever is up or runs finds its dependencies started. *)
THEOREM DependenciesStay == Spec => []DependenciesOutlive
  <1>1. IInv => DependenciesOutlive
    BY DEF IInv, DepsInv, DependenciesOutlive
  <1> QED BY <1>1, InvariantHolds, PTL

(* The order in which modules go down is safe for all that still runs. *)
THEOREM StopOrderIsSafe == Spec => []LifetimesHold
  <1>1. NothingRunsAfterStop /\ DependenciesOutlive => LifetimesHold
    BY DEF LifetimesHold
  <1> QED BY <1>1, NothingRuns, DependenciesStay, PTL

(* Handlers are deleted when no thread is in the middle of a Post. *)
THEOREM PostsAreSafe == Spec => []NotifyFindsHandler
  <1>1. IInv => NotifyFindsHandler
    <2> SUFFICES ASSUME IInv, NEW p \in Poster, notifying[p] # Nobody
                 PROVE  state[notifying[p]] # "deleted"
      BY DEF NotifyFindsHandler
    <2>1. notifying[p] \in Module /\ phase # "down"
      BY DEF IInv, TypeOK, HandlerTypeOK, PosterInv, Module
    <2> QED BY <2>1 DEF IInv, PhaseInv, TypeOK
  <1> QED BY <1>1, InvariantHolds, PTL

(***************************************************************************)
(* Events and tasks.                                                       *)
(***************************************************************************)

(* The threads that are about to write the event of h. *)
Writers(f, h) == {p \in Poster : f[p] = h}

(* They are finitely many. *)
LEMMA WritersFinite ==
  ASSUME NEW f, NEW h
  PROVE  IsFiniteSet(Writers(f, h)) /\ Cardinality(Writers(f, h)) \in Nat
  <1>1. IsFiniteSet(Writers(f, h))
    BY HandlerAssumption, FS_Subset DEF Writers
  <1> QED BY <1>1, FS_CardinalityType

(* The types that counting needs. *)
LEMMA CountTypes ==
  ASSUME IInv
  PROVE  /\ notifying \in [Poster -> Module \cup {Nobody}] /\ event \in [Module -> Nat]
         /\ tasks \in [Module -> Seq(1..MaxPosts)] /\ posts \in 0..MaxPosts
         /\ \A h \in Module : Len(tasks[h]) \in Nat
  BY DEF IInv, TypeOK, HandlerTypeOK, Module

(* A Post adds a task and the thread that will write its event. *)
LEMMA PostCounts ==
  ASSUME IInv, WorkIsThere, NEW p \in Poster, NEW h \in Module, Post(p, h)
  PROVE  WorkIsThere'
  <1> USE Facts, CountTypes DEF Module
  <1> SUFFICES ASSUME NEW g \in Module \ cleared
               PROVE  /\ event[g] + Cardinality(Writers(notifying', g)) = Len(tasks'[g])
                      /\ entered = g => event[g] > 0
    BY DEF Post, WorkIsThere, Writers
  <1>1. /\ event[g] + Cardinality(Writers(notifying, g)) = Len(tasks[g])
        /\ entered = g => event[g] > 0
    BY DEF WorkIsThere, Writers
  <1>2. CASE h \in cleared
    BY <1>1, <1>2 DEF Post
  <1>3. CASE h \notin cleared
    <2>1. /\ notifying' = [notifying EXCEPT ![p] = h] /\ notifying[p] = Nobody
          /\ tasks' = [tasks EXCEPT ![h] = Append(@, posts')] /\ posts' \in 1..MaxPosts
      BY <1>3 DEF Post
    <2>2. Len(tasks'[g]) = IF g = h THEN Len(tasks[g]) + 1 ELSE Len(tasks[g])
      BY <2>1, AppendLast
    <2>3. Cardinality(Writers(notifying', g)) =
            IF g = h THEN Cardinality(Writers(notifying, g)) + 1
                     ELSE Cardinality(Writers(notifying, g))
      <3>1. /\ notifying' \in [Poster -> Module \cup {Nobody}] /\ notifying'[p] = h
            /\ \A q \in Poster : q # p => notifying'[q] = notifying[q]
        BY <2>1
      <3>2. CASE g = h
        <4>1. /\ Writers(notifying', g) = Writers(notifying, g) \cup {p}
              /\ p \notin Writers(notifying, g)
          BY <2>1, <3>1, <3>2 DEF Writers
        <4>2. IsFiniteSet(Writers(notifying, g))
          BY WritersFinite
        <4> QED BY <3>2, <4>1, <4>2, FS_AddElement
      <3>3. CASE g # h
        <4>1. Writers(notifying', g) = Writers(notifying, g)
          BY <2>1, <3>1, <3>3 DEF Writers
        <4> QED BY <3>3, <4>1
      <3> QED BY <3>2, <3>3
    <2>4. Cardinality(Writers(notifying, g)) \in Nat
      BY WritersFinite
    <2> QED BY <1>1, <2>2, <2>3, <2>4
  <1> QED BY <1>2, <1>3

(* Writing the event settles one Post. *)
LEMMA NotifyCounts ==
  ASSUME IInv, WorkIsThere, NEW p \in Poster, Notify(p)
  PROVE  WorkIsThere'
  <1> USE Facts, CountTypes DEF Module
  <1> SUFFICES ASSUME NEW g \in Module \ cleared
               PROVE  /\ event'[g] + Cardinality(Writers(notifying', g)) = Len(tasks[g])
                      /\ entered = g => event'[g] > 0
    BY DEF Notify, WorkIsThere, Writers
  <1>1. /\ event[g] + Cardinality(Writers(notifying, g)) = Len(tasks[g])
        /\ entered = g => event[g] > 0
    BY DEF WorkIsThere, Writers
  <1>2. event'[g] = IF notifying[p] = g THEN event[g] + 1 ELSE event[g]
    BY DEF Notify
  <1>3. Cardinality(Writers(notifying', g)) =
          IF notifying[p] = g THEN Cardinality(Writers(notifying, g)) - 1
                              ELSE Cardinality(Writers(notifying, g))
    <2>1. /\ notifying' \in [Poster -> Module \cup {Nobody}] /\ notifying'[p] = Nobody
          /\ \A q \in Poster : q # p => notifying'[q] = notifying[q]
      BY DEF Notify
    <2>2. CASE notifying[p] = g
      <3>1. /\ Writers(notifying', g) = Writers(notifying, g) \ {p}
            /\ p \in Writers(notifying, g)
        BY <2>1, <2>2 DEF Writers
      <3>2. IsFiniteSet(Writers(notifying, g))
        BY WritersFinite
      <3>3. Cardinality(Writers(notifying, g) \ {p}) = Cardinality(Writers(notifying, g)) - 1
        BY <3>1, <3>2, FS_RemoveElement
      <3> QED BY <2>2, <3>1, <3>3
    <2>3. CASE notifying[p] # g
      <3>1. Writers(notifying', g) = Writers(notifying, g)
        BY <2>1, <2>3 DEF Writers
      <3> QED BY <2>3, <3>1
    <2> QED BY <2>2, <2>3
  <1>4. Cardinality(Writers(notifying, g)) \in Nat
    BY WritersFinite
  <1> QED BY <1>1, <1>2, <1>3, <1>4

(* A callback takes one event and one task. *)
LEMMA HandleCounts ==
  ASSUME IInv, WorkIsThere, handle_next_event
  PROVE  WorkIsThere'
  <1> USE Facts, CountTypes DEF Module
  <1>1. entered \in Module /\ entered' = Nobody /\ UNCHANGED <<cleared, notifying>>
    BY DEF handle_next_event, IInv, TypeOK, HandlerTypeOK
  <1> SUFFICES ASSUME NEW g \in Module \ cleared
               PROVE  event'[g] + Cardinality(Writers(notifying, g)) = Len(tasks'[g])
    BY <1>1 DEF WorkIsThere, Writers
  <1>2. /\ event[g] + Cardinality(Writers(notifying, g)) = Len(tasks[g])
        /\ entered = g => event[g] > 0
    BY DEF WorkIsThere, Writers
  <1>3. Cardinality(Writers(notifying, g)) \in Nat
    BY WritersFinite
  <1>4. CASE entered # g
    <2>1. event'[g] = event[g] /\ tasks'[g] = tasks[g]
      BY <1>1, <1>4 DEF handle_next_event
    <2> QED BY <1>2, <1>3, <2>1
  <1>5. CASE entered = g
    <2>1. event'[g] = event[g] - 1
      BY <1>2, <1>5 DEF handle_next_event, consume
    <2>2. tasks[g] # <<>> /\ tasks'[g] = Tail(tasks[g])
      BY <1>1, <1>5 DEF handle_next_event
    <2>3. Len(Tail(tasks[g])) = Len(tasks[g]) - 1
      BY <2>2
    <2> QED BY <1>2, <1>3, <2>1, <2>2, <2>3
  <1> QED BY <1>4, <1>5

(* Clear changes only the handler it takes the queue from. *)
LEMMA ClearCounts ==
  ASSUME IInv, WorkIsThere, NEW h \in Module,
         ClearSwaps(h) \/ ClearDrains(h) \/ ClearUnregisters(h)
  PROVE  WorkIsThere'
  <1> USE Facts, CountTypes DEF Module
  <1>1. UNCHANGED <<notifying, entered>> /\ h \in cleared' /\ cleared \subseteq cleared'
    BY DEF ClearSwaps, ClearDrains, ClearUnregisters, IInv, HandlerInv
  <1>2. \A g \in Module \ cleared' : tasks'[g] = tasks[g] /\ event'[g] = event[g]
    BY <1>1 DEF ClearSwaps, ClearDrains, ClearUnregisters
  <1> QED BY <1>1, <1>2 DEF WorkIsThere

(* Every step keeps events and tasks in balance. *)
LEMMA CountsStep == IInv /\ WorkIsThere /\ [Next]_vars => WorkIsThere'
  <1> SUFFICES ASSUME IInv, WorkIsThere, [Next]_vars PROVE WorkIsThere'
    OBVIOUS
  <1> USE Facts DEF Module
  <1>1. CASE UNCHANGED <<tasks, cleared, event, notifying, entered>>
    BY <1>1 DEF WorkIsThere
  <1>2. CASE \/ \E m \in Module : StartConstructs(m)
             \/ StartFinishes \/ StartReturns \/ StopAllBegins \/ StopFinishes \/ DeleteAll
             \/ closure_returns(StackThread) \/ UNCHANGED vars
    BY <1>1, <1>2 DEF StartConstructs, Construct, StartFinishes, StartReturns, StopAllBegins,
                      StopFinishes, DeleteAll, closure_returns, vars, hvars
  <1>3. CASE StopClears
    BY <1>3, StoppingFacts, ClearCounts DEF StopClears
  <1>4. ASSUME NEW p \in Poster, NEW h \in Module, Post(p, h)
        PROVE  WorkIsThere'
    BY <1>4, PostCounts
  <1>5. CASE TaskPosts \/ StartPosts \/ StopPosts \/ \E m \in Module : OwnThreadPosts(m)
    <2>1. \A m \in Module : Reaches(m) \subseteq Module
      BY DEF Reaches
    <2>2. CASE TaskPosts
      <3>1. running \in Module
        BY <2>2 DEF TaskPosts, IInv, TypeOK, HandlerTypeOK
      <3> QED BY <1>4, <2>1, <2>2, <3>1 DEF TaskPosts
    <2>3. CASE StartPosts
      <3>1. Head(starting) \in Module
        BY <2>3, HeadTail DEF StartPosts, InStart, IInv, TypeOK
      <3> QED BY <1>4, <2>1, <2>3, <3>1 DEF StartPosts
    <2>4. CASE StopPosts
      <3>1. Stopping \in Module
        BY <2>4, StoppingFacts DEF StopPosts, InStop
      <3> QED BY <1>4, <2>1, <2>4, <3>1 DEF StopPosts
    <2>5. CASE \E m \in Module : OwnThreadPosts(m)
      BY <1>4, <2>1, <2>5 DEF OwnThreadPosts
    <2> QED BY <1>5, <2>2, <2>3, <2>4, <2>5
  <1>6. ASSUME NEW h \in Module, callback_begins(h)
        PROVE  WorkIsThere'
    BY <1>6 DEF callback_begins, WorkIsThere
  <1>7. CASE ThreadRuns
    BY <1>2, <1>6, <1>7, NotifyCounts, HandleCounts DEF ThreadRuns
  <1> QED BY <1>2, <1>3, <1>5, <1>7 DEF Next

(* A callback always finds an event to read and a closure to run. *)
THEOREM CallbacksFindWork == Spec => []WorkIsThere
  <1>1. Init => WorkIsThere
    <2> SUFFICES ASSUME Init, NEW h \in Module
                 PROVE  /\ event[h] + Cardinality({p \in Poster : notifying[p] = h}) = Len(tasks[h])
                        /\ entered = h => event[h] > 0
      BY Facts DEF WorkIsThere, Module
    <2>1. {p \in Poster : notifying[p] = h} = {}
      BY Facts DEF Init, HandlerInit
    <2>2. Len(tasks[h]) = 0 /\ event[h] = 0 /\ entered # h
      BY Facts DEF Init, HandlerInit, Module
    <2> QED BY <2>1, <2>2, FS_EmptySet
  <1> QED BY <1>1, CountsStep, InvariantHolds, PTL DEF Spec

(***************************************************************************)
(* The queue.                                                              *)
(***************************************************************************)

(* The semaphores count what the queue holds, and what it has room for. *)
SemaphoreInv ==
  /\ dequeue_semaphore = Len(queue)
  /\ enqueue_semaphore + Len(queue) = Capacity
  /\ pc = "push" => Len(hand) = 1
  /\ pc # "push" => hand = <<>>

(* The loop dispatches an event once per batch, and only while the event's *)
(* reactable is registered and its semaphore is positive.                  *)
BatchInv ==
  /\ CallbackRuns => "enqueue" \notin batch /\ enqueue_semaphore > 0
  /\ pc = "dequeue" => "dequeue" \notin batch /\ dequeue_semaphore > 0
  /\ "enqueue" \in batch => enqueue /\ enqueue_semaphore > 0
  /\ "dequeue" \in batch => dequeue_semaphore > 0

(* The callback is registered exactly while the buffer holds an item, and  *)
(* neither once a Clear or the destructor has begun.                       *)
BufferInv ==
  /\ enqueue <=> enqueue_registered
  /\ enqueue_registered => manager = "idle"
  /\ manager = "idle" => (buffer # <<>> <=> enqueue_registered)
  /\ pc = "enqueue" => buffer # <<>> \/ timed_out

QueueInv == QueueTypeOK /\ SemaphoreInv /\ BatchInv /\ BufferInv

(* The first item of a queue, and the others. *)
LEMMA FirstOfQueue ==
  ASSUME NEW S, NEW s \in Seq(S), s # <<>>
  PROVE  /\ SubSeq(s, 2, Len(s)) = Tail(s) /\ SubSeq(s, 1, 1) = <<Head(s)>>
         /\ Head(s) \in S /\ Tail(s) \in Seq(S)
         /\ Len(Tail(s)) = Len(s) - 1 /\ Len(s) \in Nat \ {0}
         /\ <<Head(s)>> \in Seq(S)
         /\ <<Head(s)>> \o Tail(s) = s
  <1>1. /\ Len(s) \in Nat \ {0} /\ Head(s) \in S /\ Tail(s) \in Seq(S)
        /\ Len(Tail(s)) = Len(s) - 1
    BY EmptySeq, HeadTailProperties
  <1>2. SubSeq(s, 2, Len(s)) = Tail(s)
    BY TailIsSubSeq
  <1>3. Head(s) = s[1] /\ s \in [1..Len(s) -> S]
    BY <1>1, LenProperties
  <1>4. SubSeq(s, 1, 1) = <<Head(s)>>
    <2>1. SubSeq(s, 1, 1) = <<s[1]>> \o SubSeq(s, 2, 1)
      BY <1>1, SubSeqRecursiveFirst
    <2>2. SubSeq(s, 2, 1) = <<>>
      BY SubSeqEmpty
    <2>3. <<s[1]>> \o <<>> = <<s[1]>>
      BY <1>1, <1>3, ConcatEmptySeq
    <2> QED
      BY <1>3, <2>1, <2>2, <2>3
  <1>5. <<Head(s)>> \in Seq(S) /\ <<Head(s)>> \o Tail(s) = s
    <2>1. SubSeq(s, 1, Len(s)) = <<s[1]>> \o SubSeq(s, 2, Len(s))
      BY <1>1, SubSeqRecursiveFirst
    <2>2. SubSeq(s, 1, Len(s)) = s
      BY SubSeqFull
    <2> QED
      BY <1>1, <1>2, <1>3, <2>1, <2>2
  <1> QED
    BY <1>1, <1>2, <1>4, <1>5

(* An item is put in the buffer, and the callback registered if it was not. *)
LEMMA EnqueueStep ==
  ASSUME QueueInv, Enqueue
  PROVE  QueueInv'
  <1> USE ConstantsAssumption
  <1> USE DEF QueueInv, Enqueue, MutexFree, Alive, Item, endpoints, CallbackRuns
  <1>1. QueueTypeOK'
    BY DEF QueueTypeOK, SemaphoreInv, BatchInv
  <1>2. SemaphoreInv'
    BY DEF QueueTypeOK, SemaphoreInv, BatchInv
  <1>3. BatchInv'
    BY DEF QueueTypeOK, SemaphoreInv, BatchInv, BufferInv
  <1>4. BufferInv'
    <2>1. produced + 1 \in Item
      BY DEF QueueTypeOK
    <2>2. buffer' # <<>>
      <3>1. buffer \in Seq(Item) /\ buffer' = Append(buffer, produced + 1)
        BY DEF QueueTypeOK
      <3> QED
        BY <2>1, <3>1
    <2>3. manager = "idle" /\ enqueue' /\ enqueue_registered'
      BY DEF QueueTypeOK, BufferInv
    <2> QED
      BY <2>2, <2>3 DEF QueueTypeOK, BatchInv, BufferInv
  <1> QED
    BY <1>1, <1>2, <1>3, <1>4

(* Asking for a notification changes nothing else. *)
LEMMA NotifyOnEmptyStep ==
  ASSUME QueueInv, NotifyOnEmpty
  PROVE  QueueInv'
  <1> USE ConstantsAssumption
  <1> USE DEF QueueInv, NotifyOnEmpty, endpoints, CallbackRuns
  <1>1. QueueTypeOK'
    BY DEF QueueTypeOK, SemaphoreInv, BatchInv
  <1>2. SemaphoreInv'
    BY DEF QueueTypeOK, SemaphoreInv, BatchInv
  <1>3. BatchInv'
    BY DEF QueueTypeOK, SemaphoreInv, BatchInv, BufferInv
  <1>4. BufferInv'
    BY DEF QueueTypeOK, BatchInv, BufferInv
  <1> QED
    BY <1>1, <1>2, <1>3, <1>4

(* No callback runs while a task of the loop clears the buffer. *)
LEMMA ClearInTaskStep ==
  ASSUME QueueInv, ClearInTask
  PROVE  QueueInv'
  <1> USE ConstantsAssumption
  <1> USE DEF QueueInv, ClearInTask, MutexFree, Alive, endpoints, CallbackRuns
  <1>1. QueueTypeOK'
    BY DEF QueueTypeOK, SemaphoreInv, BatchInv
  <1>2. SemaphoreInv'
    BY DEF QueueTypeOK, SemaphoreInv, BatchInv
  <1>3. BatchInv'
    BY DEF QueueTypeOK, SemaphoreInv, BatchInv, BufferInv
  <1>4. BufferInv'
    BY DEF QueueTypeOK, BatchInv, BufferInv
  <1> QED
    BY <1>1, <1>2, <1>3, <1>4

(* From here on the loop does not dispatch the callback again. *)
LEMMA QueueClearStep ==
  ASSUME QueueInv, Clear
  PROVE  QueueInv'
  <1> USE ConstantsAssumption
  <1> USE DEF QueueInv, Clear, endpoints, CallbackRuns
  <1>1. QueueTypeOK'
    BY DEF QueueTypeOK, SemaphoreInv, BatchInv
  <1>2. SemaphoreInv'
    BY DEF QueueTypeOK, SemaphoreInv, BatchInv
  <1>3. BatchInv'
    BY DEF QueueTypeOK, SemaphoreInv, BatchInv, BufferInv
  <1>4. BufferInv'
    BY DEF QueueTypeOK, BatchInv, BufferInv
  <1> QED
    BY <1>1, <1>2, <1>3, <1>4

(* The buffer is emptied once the callback is over. *)
LEMMA ClearEndsStep ==
  ASSUME QueueInv, clear_ends
  PROVE  QueueInv'
  <1> USE ConstantsAssumption
  <1> USE DEF QueueInv, clear_ends, endpoints, CallbackRuns
  <1>1. QueueTypeOK'
    BY DEF QueueTypeOK, SemaphoreInv, BatchInv
  <1>2. SemaphoreInv'
    BY DEF QueueTypeOK, SemaphoreInv, BatchInv
  <1>3. BatchInv'
    BY DEF QueueTypeOK, SemaphoreInv, BatchInv, BufferInv
  <1>4. BufferInv'
    BY DEF QueueTypeOK, BatchInv, BufferInv
  <1> QED
    BY <1>1, <1>2, <1>3, <1>4

(* The buffer is emptied under a callback that waits for the lock. *)
LEMMA ClearTimesOutStep ==
  ASSUME QueueInv, clear_times_out
  PROVE  QueueInv'
  <1> USE ConstantsAssumption
  <1> USE DEF QueueInv, clear_times_out, endpoints, CallbackRuns
  <1>1. QueueTypeOK'
    BY DEF QueueTypeOK, SemaphoreInv, BatchInv
  <1>2. SemaphoreInv'
    BY DEF QueueTypeOK, SemaphoreInv, BatchInv
  <1>3. BatchInv'
    BY DEF QueueTypeOK, SemaphoreInv, BatchInv, BufferInv
  <1>4. BufferInv'
    BY DEF QueueTypeOK, BatchInv, BufferInv
  <1> QED
    BY <1>1, <1>2, <1>3, <1>4

(* The destructor unregisters, or has nothing to do. *)
LEMMA DestroyStep ==
  ASSUME QueueInv, Destroy
  PROVE  QueueInv'
  <1> USE ConstantsAssumption
  <1> USE DEF QueueInv, Destroy, endpoints, CallbackRuns
  <1>1. QueueTypeOK'
    <2>1. enqueue' \in BOOLEAN /\ enqueue_registered' \in BOOLEAN
      OBVIOUS
    <2>2. buffer' \in Seq(Item) /\ batch' \subseteq {"enqueue", "dequeue", "task"}
      BY DEF QueueTypeOK
    <2> QED
      BY <2>1, <2>2 DEF QueueTypeOK
  <1>2. SemaphoreInv'
    BY DEF QueueTypeOK, SemaphoreInv, BatchInv
  <1>3. BatchInv'
    BY DEF QueueTypeOK, SemaphoreInv, BatchInv, BufferInv
  <1>4. BufferInv'
    BY DEF QueueTypeOK, BatchInv, BufferInv
  <1> QED
    BY <1>1, <1>2, <1>3, <1>4

(* The buffer goes when the callback is over. *)
LEMMA DestroyEndsStep ==
  ASSUME QueueInv, destroy_ends
  PROVE  QueueInv'
  <1> USE ConstantsAssumption
  <1> USE DEF QueueInv, destroy_ends, endpoints, CallbackRuns
  <1>1. QueueTypeOK'
    BY DEF QueueTypeOK, SemaphoreInv, BatchInv
  <1>2. SemaphoreInv'
    BY DEF QueueTypeOK, SemaphoreInv, BatchInv
  <1>3. BatchInv'
    BY DEF QueueTypeOK, SemaphoreInv, BatchInv, BufferInv
  <1>4. BufferInv'
    BY DEF QueueTypeOK, BatchInv, BufferInv
  <1> QED
    BY <1>1, <1>2, <1>3, <1>4

(* The callback takes the first item, and unregisters with the last. *)
LEMMA EnqueueCallbackStep ==
  ASSUME QueueInv, enqueue_callback
  PROVE  QueueInv'
  <1> USE ConstantsAssumption
  <1> USE DEF QueueInv, enqueue_callback, MutexFree, endpoints, CallbackRuns
  <1>a. buffer # <<>> => /\ Head(buffer) \in Item /\ Tail(buffer) \in Seq(Item)
                         /\ <<Head(buffer)>> \in Seq(Item) /\ Len(<<Head(buffer)>>) = 1
    BY HeadTailProperties DEF QueueTypeOK
  <1>1. QueueTypeOK'
    <2>1. /\ enqueue' \in BOOLEAN /\ enqueue_registered' \in BOOLEAN
          /\ callback_on_empty' \in BOOLEAN
      BY DEF QueueTypeOK
    <2>2. buffer' \in Seq(Item) /\ hand' \in Seq(Item)
      BY <1>a DEF QueueTypeOK
    <2> QED
      BY <2>1, <2>2 DEF QueueTypeOK
  <1>2. SemaphoreInv'
    BY DEF QueueTypeOK, SemaphoreInv, BatchInv
  <1>3. BatchInv'
    BY DEF QueueTypeOK, SemaphoreInv, BatchInv, BufferInv
  <1>4. BufferInv'
    <2>1. CASE buffer = <<>>
      BY <2>1 DEF QueueTypeOK, BatchInv, BufferInv
    <2>2. CASE buffer # <<>>
      <3>1. /\ pc' = "push" /\ UNCHANGED manager
            /\ enqueue' <=> enqueue /\ ~(buffer' = <<>> /\ enqueue_registered)
            /\ enqueue_registered' <=> enqueue_registered /\ ~(buffer' = <<>> /\ enqueue_registered)
        BY <2>2
      <3> QED
        BY <2>2, <3>1 DEF QueueTypeOK, BufferInv
    <2> QED
      BY <2>1, <2>2
  <1> QED
    BY <1>1, <1>2, <1>3, <1>4

(* The item in hand goes to the end of the queue. *)
LEMMA EnqueueCallbackInternalStep ==
  ASSUME QueueInv, EnqueueCallbackInternal
  PROVE  QueueInv'
  <1> USE ConstantsAssumption
  <1> USE DEF QueueInv, EnqueueCallbackInternal, endpoints, CallbackRuns
  <1>1. QueueTypeOK'
    BY DEF QueueTypeOK, SemaphoreInv, BatchInv
  <1>2. SemaphoreInv'
    <2>1. queue \in Seq(Item) /\ hand \in Seq(Item) /\ Len(hand) = 1
      BY DEF QueueTypeOK, SemaphoreInv
    <2>2. Len(queue \o hand) = Len(queue) + 1 /\ Len(queue) \in Nat
      BY <2>1, ConcatProperties, LenProperties
    <2>3. Len(queue') = Len(queue) + 1 /\ hand' = <<>> /\ pc' = "batch"
      BY <2>2
    <2> QED
      BY <2>2, <2>3 DEF QueueTypeOK, SemaphoreInv
  <1>3. BatchInv'
    BY DEF QueueTypeOK, SemaphoreInv, BatchInv, BufferInv
  <1>4. BufferInv'
    BY DEF QueueTypeOK, BatchInv, BufferInv
  <1> QED
    BY <1>1, <1>2, <1>3, <1>4

(* The consumer takes the first item of the queue. *)
LEMMA TryDequeueStep ==
  ASSUME QueueInv, TryDequeue
  PROVE  QueueInv'
  <1> USE ConstantsAssumption
  <1> USE DEF QueueInv, TryDequeue, endpoints, CallbackRuns
  <1>a. queue # <<>>
    BY DEF QueueTypeOK, BatchInv, SemaphoreInv
  <1>b. /\ SubSeq(queue, 2, Len(queue)) = Tail(queue) /\ SubSeq(queue, 1, 1) = <<Head(queue)>>
        /\ Head(queue) \in Item /\ Tail(queue) \in Seq(Item)
        /\ Len(Tail(queue)) = Len(queue) - 1 /\ Len(queue) \in Nat \ {0}
    BY <1>a, FirstOfQueue DEF QueueTypeOK
  <1>c. /\ queue' = Tail(queue)
        /\ received' = received \o <<Head(queue)>>
        /\ dequeue_semaphore' = dequeue_semaphore - 1
        /\ enqueue_semaphore' = enqueue_semaphore + 1
        /\ pc = "dequeue" /\ pc' = "batch"
        /\ UNCHANGED <<buffer, enqueue_registered, callback_on_empty, enqueue, dequeue,
                       batch, hand, manager, produced, timed_out>>
    BY <1>a, <1>b
  <1> HIDE DEF TryDequeue
  <1>1. QueueTypeOK'
    <2>1. queue' \in Seq(Item) /\ received' \in Seq(Item)
      BY <1>b, <1>c, ConcatProperties DEF QueueTypeOK
    <2>2. enqueue_semaphore' \in 0..Capacity /\ dequeue_semaphore' \in 0..Capacity
      BY <1>b, <1>c DEF QueueTypeOK, SemaphoreInv
    <2> QED
      BY <1>c, <2>1, <2>2 DEF QueueTypeOK
  <1>2. SemaphoreInv'
    <2>1. Len(queue') = Len(queue) - 1
      BY <1>b, <1>c
    <2>2. hand' = <<>> /\ pc' = "batch"
      BY <1>c DEF SemaphoreInv
    <2>3. dequeue_semaphore' = Len(queue') /\ enqueue_semaphore' + Len(queue') = Capacity
      <3>1. /\ Len(queue) \in Nat /\ enqueue_semaphore \in Nat
            /\ dequeue_semaphore = Len(queue) /\ enqueue_semaphore + Len(queue) = Capacity
            /\ dequeue_semaphore' = dequeue_semaphore - 1
            /\ enqueue_semaphore' = enqueue_semaphore + 1
        BY <1>b, <1>c DEF QueueTypeOK, SemaphoreInv
      <3> HIDE DEF QueueInv
      <3> QED
        BY <2>1, <3>1
    <2> QED
      BY <2>2, <2>3 DEF SemaphoreInv
  <1>3. BatchInv'
    BY <1>b, <1>c DEF QueueTypeOK, SemaphoreInv, BatchInv, BufferInv
  <1>4. BufferInv'
    BY <1>c DEF QueueTypeOK, BatchInv, BufferInv
  <1> QED
    BY <1>1, <1>2, <1>3, <1>4

(* The consumer asks to be called. *)
LEMMA RegisterDequeueStep ==
  ASSUME QueueInv, RegisterDequeue
  PROVE  QueueInv'
  <1> USE ConstantsAssumption
  <1> USE DEF QueueInv, RegisterDequeue, endpoints, CallbackRuns
  <1>1. QueueTypeOK'
    BY DEF QueueTypeOK, SemaphoreInv, BatchInv
  <1>2. SemaphoreInv'
    BY DEF QueueTypeOK, SemaphoreInv, BatchInv
  <1>3. BatchInv'
    BY DEF QueueTypeOK, SemaphoreInv, BatchInv, BufferInv
  <1>4. BufferInv'
    BY DEF QueueTypeOK, BatchInv, BufferInv
  <1> QED
    BY <1>1, <1>2, <1>3, <1>4

(* The consumer is not called again in this batch. *)
LEMMA UnregisterDequeueStep ==
  ASSUME QueueInv, UnregisterDequeue
  PROVE  QueueInv'
  <1> USE ConstantsAssumption
  <1> USE DEF QueueInv, UnregisterDequeue, endpoints, CallbackRuns
  <1>1. QueueTypeOK'
    BY DEF QueueTypeOK, SemaphoreInv, BatchInv
  <1>2. SemaphoreInv'
    BY DEF QueueTypeOK, SemaphoreInv, BatchInv
  <1>3. BatchInv'
    BY DEF QueueTypeOK, SemaphoreInv, BatchInv, BufferInv
  <1>4. BufferInv'
    BY DEF QueueTypeOK, BatchInv, BufferInv
  <1> QED
    BY <1>1, <1>2, <1>3, <1>4

(* The kernel reports the registered reactables with a positive semaphore. *)
LEMMA EpollWaitStep ==
  ASSUME QueueInv, epoll_wait
  PROVE  QueueInv'
  <1> USE ConstantsAssumption
  <1> USE DEF QueueInv, epoll_wait, Ready, endpoints, CallbackRuns
  <1>1. QueueTypeOK'
    BY DEF QueueTypeOK, SemaphoreInv, BatchInv
  <1>2. SemaphoreInv'
    BY DEF QueueTypeOK, SemaphoreInv, BatchInv
  <1>3. BatchInv'
    BY DEF QueueTypeOK, SemaphoreInv, BatchInv, BufferInv
  <1>4. BufferInv'
    BY DEF QueueTypeOK, BatchInv, BufferInv
  <1> QED
    BY <1>1, <1>2, <1>3, <1>4

(* An event leaves the batch when it is handled. *)
LEMMA DispatchStep ==
  ASSUME QueueInv, NEW e \in {"enqueue", "dequeue", "task"}, dispatch(e)
  PROVE  QueueInv'
  <1> USE ConstantsAssumption
  <1> USE DEF QueueInv, dispatch, endpoints, CallbackRuns
  <1>1. QueueTypeOK'
    BY DEF QueueTypeOK, SemaphoreInv, BatchInv
  <1>2. SemaphoreInv'
    BY DEF QueueTypeOK, SemaphoreInv, BatchInv
  <1>3. BatchInv'
    BY DEF QueueTypeOK, SemaphoreInv, BatchInv, BufferInv
  <1>4. BufferInv'
    BY DEF QueueTypeOK, BatchInv, BufferInv
  <1> QED
    BY <1>1, <1>2, <1>3, <1>4

(* The loop goes on. *)
LEMMA ReturnsStep ==
  ASSUME QueueInv, returns
  PROVE  QueueInv'
  <1> USE ConstantsAssumption
  <1> USE DEF QueueInv, returns, endpoints, CallbackRuns
  <1>1. QueueTypeOK'
    BY DEF QueueTypeOK, SemaphoreInv, BatchInv
  <1>2. SemaphoreInv'
    BY DEF QueueTypeOK, SemaphoreInv, BatchInv
  <1>3. BatchInv'
    BY DEF QueueTypeOK, SemaphoreInv, BatchInv, BufferInv
  <1>4. BufferInv'
    BY DEF QueueTypeOK, BatchInv, BufferInv
  <1> QED
    BY <1>1, <1>2, <1>3, <1>4

(* Every step keeps the invariant. *)
LEMMA QueueStep == QueueInv /\ [QueueNext]_qvars => QueueInv'
  <1> SUFFICES ASSUME QueueInv, [QueueNext]_qvars PROVE QueueInv'
    OBVIOUS
  <1>1. CASE UNCHANGED qvars
    BY <1>1 DEF QueueInv, QueueTypeOK, SemaphoreInv, BatchInv, BufferInv, CallbackRuns, qvars, endpoints
  <1> QED
    BY <1>1, EnqueueStep, NotifyOnEmptyStep, ClearInTaskStep, QueueClearStep, ClearEndsStep,
       ClearTimesOutStep, DestroyStep, DestroyEndsStep, EnqueueCallbackStep,
       EnqueueCallbackInternalStep, TryDequeueStep, RegisterDequeueStep,
       UnregisterDequeueStep, EpollWaitStep, DispatchStep, ReturnsStep
    DEF QueueNext, Loop

(* The inductive invariant holds in every reachable state. *)
THEOREM QueueInvariant == QueueSpec => []QueueInv
  <1>1. QueueInit => QueueInv
    <2> SUFFICES ASSUME QueueInit PROVE QueueInv
      OBVIOUS
    <2> USE ConstantsAssumption DEF QueueInit
    <2>1. QueueTypeOK
      <3>1. <<>> \in Seq(Item)
        BY EmptySeq
      <3>2. Capacity \in 0..Capacity /\ 0 \in 0..Capacity /\ 0 \in 0..MaxItems
        OBVIOUS
      <3> QED
        BY <3>1, <3>2 DEF QueueTypeOK
    <2>2. SemaphoreInv /\ BatchInv /\ BufferInv
      BY DEF SemaphoreInv, BatchInv, BufferInv, CallbackRuns
    <2> QED
      BY <2>1, <2>2 DEF QueueInv
  <1> QED
    BY <1>1, QueueStep, PTL DEF QueueSpec

(* The buffer, the queue, their semaphores and what is registered agree;   *)
(* no item is forgotten and no callback finds its end empty or full.       *)
THEOREM EverythingAgrees == QueueSpec => []Consistent
  <1>1. ASSUME QueueInv PROVE Consistent
    <2>1. NothingForgotten
      BY <1>1 DEF QueueInv, QueueTypeOK, BufferInv, NothingForgotten, MutexFree, Alive
    <2>2. EndsAgree
      BY <1>1, ConstantsAssumption
      DEF QueueInv, QueueTypeOK, SemaphoreInv, BatchInv, EndsAgree, CallbackRuns
    <2> QED
      BY <1>1, <2>1, <2>2 DEF QueueInv, Consistent
  <1> QED
    BY <1>1, QueueInvariant, PTL

(***************************************************************************)
(* The refinement: the queue, the item in hand and the buffer, one behind  *)
(* the other, are what a FIFO channel holds.                               *)
(***************************************************************************)

(* Both ends of a sequence in two parts. *)
LEMMA TwoParts ==
  ASSUME NEW S, NEW s \in Seq(S), NEW t \in Seq(S)
  PROVE  /\ s \o t \in Seq(S)
         /\ \A e \in S : s \o Append(t, e) = Append(s \o t, e)
         /\ s # <<>> => /\ s \o t # <<>>
                        /\ Head(s \o t) = Head(s) /\ Tail(s \o t) = Tail(s) \o t
         /\ t # <<>> => (s \o <<Head(t)>>) \o Tail(t) = s \o t
         /\ Len(s) \in 0..Len(s \o t)
         /\ SubSeq(s \o t, 1, Len(s)) = s
  <1>1. /\ s \o t \in Seq(S) /\ Len(s \o t) = Len(s) + Len(t)
        /\ Len(s) \in Nat /\ Len(t) \in Nat
        /\ \A i \in 1..(Len(s) + Len(t)) :
             (s \o t)[i] = IF i <= Len(s) THEN s[i] ELSE t[i - Len(s)]
    BY ConcatProperties, LenProperties
  <1>2. ASSUME NEW e \in S PROVE s \o Append(t, e) = Append(s \o t, e)
    <2>1. <<e>> \in Seq(S)
      OBVIOUS
    <2>2. Append(t, e) = t \o <<e>> /\ Append(s \o t, e) = (s \o t) \o <<e>>
      BY <1>1, AppendIsConcat
    <2> QED
      BY <2>1, <2>2, ConcatAssociative
  <1>3. ASSUME s # <<>>
        PROVE  s \o t # <<>> /\ Head(s \o t) = Head(s) /\ Tail(s \o t) = Tail(s) \o t
    <2>1. /\ <<Head(s)>> \in Seq(S) /\ Tail(s) \in Seq(S) /\ <<Head(s)>> \o Tail(s) = s
          /\ Head(s) \in S /\ Len(s) \in Nat \ {0} /\ Len(Tail(s)) = Len(s) - 1
      BY <1>3, FirstOfQueue
    <2>2. s \o t # <<>>
      BY <1>1, <2>1, EmptySeq
    <2>3. /\ Head(s \o t) = (s \o t)[1] /\ Head(s) = s[1]
      BY <1>1, <1>3, <2>2
    <2>4. Head(s \o t) = Head(s)
      BY <1>1, <2>1, <2>3
    <2>5. /\ Tail(s \o t) \in Seq(S) /\ Len(Tail(s \o t)) = Len(s) + Len(t) - 1
          /\ \A i \in 1..(Len(s) + Len(t) - 1) : Tail(s \o t)[i] = (s \o t)[i + 1]
      BY <1>1, <2>2, HeadTailProperties
    <2>6. /\ Tail(s) \o t \in Seq(S) /\ Len(Tail(s) \o t) = Len(s) - 1 + Len(t)
          /\ \A i \in 1..(Len(s) - 1 + Len(t)) :
               (Tail(s) \o t)[i] = IF i <= Len(s) - 1 THEN Tail(s)[i] ELSE t[i - (Len(s) - 1)]
      BY <1>1, <2>1, ConcatProperties
    <2>7. \A i \in 1..(Len(s) - 1) : Tail(s)[i] = s[i + 1]
      BY <1>3, <2>1, HeadTailProperties
    <2>8. \A i \in 1..(Len(s) + Len(t) - 1) : Tail(s \o t)[i] = (Tail(s) \o t)[i]
      <3> TAKE i \in 1..(Len(s) + Len(t) - 1)
      <3>1. i + 1 \in 1..(Len(s) + Len(t)) /\ i \in 1..(Len(s) - 1 + Len(t))
        BY <1>1
      <3>2. CASE i <= Len(s) - 1
        BY <1>1, <2>5, <2>6, <2>7, <3>1, <3>2
      <3>3. CASE ~(i <= Len(s) - 1)
        <4>1. i + 1 - Len(s) = i - (Len(s) - 1)
          BY <1>1
        <4> QED
          BY <1>1, <2>5, <2>6, <3>1, <3>3, <4>1
      <3> QED
        BY <3>2, <3>3
    <2>9. Tail(s \o t) = Tail(s) \o t
      <3>1. Len(Tail(s \o t)) = Len(Tail(s) \o t)
        BY <1>1, <2>5, <2>6
      <3>2. \A i \in 1..Len(Tail(s \o t)) : Tail(s \o t)[i] = (Tail(s) \o t)[i]
        BY <2>5, <2>8
      <3> QED
        BY <2>5, <2>6, <3>1, <3>2, SeqEqual
    <2> QED
      BY <2>2, <2>4, <2>9
  <1>4. ASSUME t # <<>> PROVE (s \o <<Head(t)>>) \o Tail(t) = s \o t
    <2>1. /\ <<Head(t)>> \in Seq(S) /\ Tail(t) \in Seq(S) /\ <<Head(t)>> \o Tail(t) = t
      BY <1>4, FirstOfQueue
    <2> QED
      BY <2>1, ConcatAssociative
  <1>5. Len(s) \in 0..Len(s \o t)
    BY <1>1
  <1>6. SubSeq(s \o t, 1, Len(s)) = s
    <2>1. CASE s = <<>>
      BY <2>1, SubSeqEmpty
    <2>2. CASE s # <<>>
      <3>1. Len(s) \in 1..Len(s) /\ 1 \in 1..Len(s)
        BY <1>1, <2>2, EmptySeq
      <3>2. SubSeq(s \o t, 1, Len(s)) = SubSeq(s, 1, Len(s))
        BY <3>1, SubSeqOfConcat1
      <3> QED
        BY <3>2, SubSeqFull
    <2> QED
      BY <2>1, <2>2
  <1> QED
    BY <1>1, <1>2, <1>3, <1>4, <1>5, <1>6

(* A step that empties the buffer drops the latest messages. *)
LEMMA DropStep ==
  ASSUME QueueInv, buffer' = <<>>, UNCHANGED <<queue, hand, received>>
  PROVE  Channel!Next
  <1>1. queue \in Seq(Item) /\ hand \in Seq(Item) /\ buffer \in Seq(Item)
    BY DEF QueueInv, QueueTypeOK
  <1>2. queue \o hand \in Seq(Item)
    BY <1>1, ConcatProperties
  <1>3. InTransit' = queue \o hand
    BY <1>2, ConcatEmptySeq DEF InTransit
  <1>4. /\ Len(queue \o hand) \in 0..Len(InTransit)
        /\ SubSeq(InTransit, 1, Len(queue \o hand)) = queue \o hand
    BY <1>1, <1>2, TwoParts DEF InTransit
  <1>5. Channel!Drop
    BY <1>3, <1>4 DEF Channel!Drop
  <1> QED
    BY <1>5 DEF Channel!Next

(* Every step of the queue is a step of the channel or leaves it unchanged. *)
LEMMA ChannelStep ==
  ASSUME QueueInv, [QueueNext]_qvars
  PROVE  [Channel!Next]_<<InTransit, received>>
  <1>a. queue \in Seq(Item) /\ hand \in Seq(Item) /\ buffer \in Seq(Item)
    BY DEF QueueInv, QueueTypeOK
  <1>b. queue \o hand \in Seq(Item)
    BY <1>a, ConcatProperties
  <1>1. CASE UNCHANGED <<queue, hand, buffer, received>>
    BY <1>1 DEF InTransit
  <1>2. CASE Enqueue
    <2>1. produced + 1 \in Item
      BY <1>2, ConstantsAssumption DEF Enqueue, QueueInv, QueueTypeOK, Item
    <2>2. InTransit' = Append(InTransit, produced + 1) /\ UNCHANGED received
      BY <1>2, <1>a, <1>b, <2>1, TwoParts DEF Enqueue, InTransit
    <2>3. Channel!Send(produced + 1)
      BY <2>2 DEF Channel!Send
    <2> QED
      BY <2>1, <2>3 DEF Channel!Next
  <1>3. CASE enqueue_callback
    <2>1. CASE buffer = <<>>
      BY <1>1, <1>3, <2>1 DEF enqueue_callback
    <2>2. CASE buffer # <<>>
      <3>1. /\ hand' = <<Head(buffer)>> /\ buffer' = Tail(buffer)
            /\ UNCHANGED <<queue, received>> /\ hand = <<>>
        BY <1>3, <2>2 DEF enqueue_callback, QueueInv, SemaphoreInv
      <3>2. queue \o <<>> = queue
        BY <1>a, ConcatEmptySeq
      <3>3. InTransit' = InTransit
        BY <1>a, <2>2, <3>1, <3>2, TwoParts DEF InTransit
      <3> QED
        BY <3>1, <3>3
    <2> QED
      BY <2>1, <2>2
  <1>4. CASE EnqueueCallbackInternal
    <2>1. (queue \o hand) \o <<>> = queue \o hand
      BY <1>b, ConcatEmptySeq
    <2> QED
      BY <1>4, <2>1 DEF EnqueueCallbackInternal, InTransit
  <1>5. CASE TryDequeue
    <2>1. queue # <<>>
      BY <1>5 DEF TryDequeue, QueueInv, QueueTypeOK, BatchInv, SemaphoreInv
    <2>2. /\ SubSeq(queue, 2, Len(queue)) = Tail(queue) /\ SubSeq(queue, 1, 1) = <<Head(queue)>>
          /\ Head(queue) \in Item /\ Tail(queue) \in Seq(Item)
      BY <1>a, <2>1, FirstOfQueue
    <2>3. /\ queue' = Tail(queue) /\ received' = received \o <<Head(queue)>>
          /\ UNCHANGED <<hand, buffer>>
      BY <1>5, <2>1, <2>2 DEF TryDequeue
    <2>4. /\ queue \o hand # <<>> /\ Head(queue \o hand) = Head(queue)
          /\ Tail(queue \o hand) = Tail(queue) \o hand
      BY <1>a, <2>1, TwoParts
    <2>5. /\ InTransit # <<>> /\ Head(InTransit) = Head(queue)
          /\ Tail(InTransit) = (Tail(queue) \o hand) \o buffer
      BY <1>a, <1>b, <2>4, TwoParts DEF InTransit
    <2>6. received \o <<Head(queue)>> = Append(received, Head(queue))
      BY <2>2, AppendIsConcat DEF QueueInv, QueueTypeOK
    <2>7. Channel!Receive
      BY <2>3, <2>5, <2>6 DEF Channel!Receive, InTransit
    <2> QED
      BY <2>7 DEF Channel!Next
  <1>6. CASE ClearInTask \/ clear_ends \/ clear_times_out \/ destroy_ends
    BY <1>6, DropStep DEF ClearInTask, clear_ends, clear_times_out, destroy_ends, endpoints
  <1>7. CASE Destroy
    BY <1>1, <1>7, DropStep DEF Destroy
  <1>8. CASE \/ NotifyOnEmpty \/ Clear \/ RegisterDequeue \/ UnregisterDequeue
             \/ epoll_wait \/ returns \/ (\E e \in {"enqueue", "dequeue", "task"} : dispatch(e))
             \/ UNCHANGED qvars
    BY <1>1, <1>8 DEF NotifyOnEmpty, Clear, RegisterDequeue, UnregisterDequeue,
                      epoll_wait, returns, dispatch, endpoints, qvars
  <1> QED
    BY <1>2, <1>3, <1>4, <1>5, <1>6, <1>7, <1>8 DEF QueueNext, Loop

(* What the consumer receives is what was enqueued, in order, each item    *)
(* once, except what Clear takes back.                                     *)
THEOREM Refinement == QueueSpec => ImplementsChannel
  <1>1. QueueInit => Channel!Init
    BY DEF QueueInit, Channel!Init, InTransit
  <1>2. QueueInv /\ [QueueNext]_qvars => [Channel!Next]_<<InTransit, received>>
    BY ChannelStep
  <1> QED
    BY <1>1, <1>2, QueueInvariant, PTL DEF QueueSpec, ImplementsChannel, Channel!Spec, Channel!fifo_vars
=============================================================================

-------------------------- MODULE SchedRebuildProofs --------------------------
(***************************************************************************)
(* Proofs about clearing and rebuilding one run queue (SchedRebuild), for  *)
(* any number of threads: what becomes of the threads of the tasklist, and *)
(* of the counter, also when the loops over the dying tasks go wrong.      *)
(***************************************************************************)
EXTENDS SchedRebuild, FiniteSetTheorems, TLAPS

Walking == {"dequeue", "enqueue"}

\* Threads that still run are on the tasklist or dying.
ThreadInv ==
  /\ tasklist \subseteq Task /\ dying \subseteq Task /\ mine \subseteq Task
  /\ tasklist \cap dying = {} /\ dying \subseteq on_rq /\ on_rq \subseteq tasklist \cup dying
  /\ version \in Version /\ held \in [Task -> [Version -> Int]]
  /\ next \in [Node -> Node] /\ prev \in [Node -> Node]
  /\ place \in Walking => todo \subseteq tasklist \cup {Stop}

\* What the queues hold of the threads of the tasklist.
HeldInv ==
  \A t \in tasklist :
    /\ place = "run" => held[t] = HeldBy(t, version)
    /\ place = "dequeue" =>
         held[t] = IF t \in mine \ todo THEN Nowhere ELSE HeldBy(t, version)
    /\ place \in {"drain", "cleared"} =>
         held[t] = IF t \in mine THEN Nowhere ELSE HeldBy(t, version)
    /\ place = "enqueue" /\ t \in mine =>
         held[t] = IF t \in todo THEN Nowhere ELSE HeldBy(t, version)
    /\ place = "enqueue_dying" /\ t \in mine => held[t] = HeldBy(t, version)

\* The threads of this CPU that nr_running counts.
Counted ==
  CASE place = "run" -> mine \cap on_rq
    [] place = "dequeue" -> (mine \cap on_rq) \ (tasklist \ todo)
    [] place = "drain" -> (mine \cap on_rq) \cap dying
    [] place = "cleared" -> {}
    [] place = "enqueue" -> (mine \cap on_rq) \cap (tasklist \ todo)
    [] OTHER -> mine \cap on_rq

\* The drain loop has met a dying task: all it has put on the list is Junk.
Strayed == next[Head] = Junk /\ prev[Head] = Junk

RunningInv ==
  /\ place \in {"run", "dequeue", "cleared", "enqueue"} =>
       nr_running = Cardinality(Counted) + 1
  /\ place = "drain" =>
       /\ p = Junk
       /\ \/ /\ next[Head] = Head /\ prev[Head] = Head
             /\ nr_running = Cardinality(Counted) + 1
          \/ Strayed /\ nr_running \in 1 .. MaxRunning
  /\ place \in {"cleared", "enqueue"} =>
       Strayed \/ (next[Head] = Head /\ mine \cap dying = {})
  /\ place = "enqueue_dying" =>
       \/ p = Head /\ mine \cap dying = {} /\ nr_running = Cardinality(Counted) + 1
       \/ p = Junk

IInv == ThreadInv /\ HeldInv /\ RunningInv

-------------------------------------------------------------------------------
\* The counter does not wrap within its width.
LEMMA CountSmall ==
  ASSUME NEW n \in 0 .. MaxRunning
  PROVE  Count(n) = n
BY WidthAssumption DEF Count

\* The number of threads of a set changes by one with a thread that joins or
\* leaves it.
LEMMA ThreadCount ==
  ASSUME NEW S \in SUBSET Task
  PROVE  /\ Cardinality(S) \in Nat /\ Cardinality(S) + 1 <= MaxRunning
         /\ Cardinality(S) = 0 <=> S = {}
         /\ \A t \in Task \ S : Cardinality(S \cup {t}) = Cardinality(S) + 1
         /\ \A t \in S : Cardinality(S \ {t}) = Cardinality(S) - 1
<1>1. IsFiniteSet(S) /\ Cardinality(S) <= Cardinality(Task)
  BY WidthAssumption, FS_Subset
<1>2. Cardinality(S) \in Nat /\ Cardinality(Task) \in Nat
  BY <1>1, WidthAssumption, FS_CardinalityType
<1>3. Cardinality(S) = 0 <=> S = {}
  BY <1>1, FS_EmptySet
<1>4. \A t \in Task \ S : Cardinality(S \cup {t}) = Cardinality(S) + 1
  BY <1>1, FS_AddElement
<1>5. \A t \in S : Cardinality(S \ {t}) = Cardinality(S) - 1
  BY <1>1, FS_RemoveElement
<1> QED
  BY <1>1, <1>2, <1>3, <1>4, <1>5, WidthAssumption

\* What a queue gains and loses with a thread.
LEMMA HeldByValue ==
  ASSUME NEW t, NEW v \in Version
  PROVE  /\ HeldBy(t, v) \in [Version -> Int] /\ Nowhere \in [Version -> Int]
         /\ t \notin on_rq => HeldBy(t, v) = Nowhere
         /\ t \in on_rq => /\ HeldBy(t, v) = [Nowhere EXCEPT ![v] = @ + 1]
                           /\ [HeldBy(t, v) EXCEPT ![v] = @ - 1] = Nowhere
<1>1. Nowhere \in [Version -> Int] /\ Nowhere[v] = 0
  BY DEF Nowhere
<1>2. CASE t \in on_rq
  <2>1. HeldBy(t, v) = [Nowhere EXCEPT ![v] = 1]
    BY <1>2 DEF HeldBy
  <2>2. HeldBy(t, v) \in [Version -> Int]
    BY <1>1, <2>1
  <2>3. [HeldBy(t, v) EXCEPT ![v] = @ - 1] = [Nowhere EXCEPT ![v] = 0]
    BY <1>1, <2>1
  <2> QED
    BY <1>1, <1>2, <2>1, <2>2, <2>3
<1>3. CASE t \notin on_rq
  BY <1>1, <1>3 DEF HeldBy
<1> QED
  BY <1>2, <1>3

LEMMA RebuildInit ==
  ASSUME Init
  PROVE  IInv
<1>1. "orig" \in Version
  BY DEF Version
<1>2. held \in [Task -> [Version -> Int]]
  BY <1>1, HeldByValue DEF Init
<1>3. ThreadInv
  BY <1>1, <1>2 DEF Init, ThreadInv, Walking
<1> QED
  BY <1>3 DEF Init, IInv, ThreadInv, HeldInv, RunningInv, Counted

-------------------------------------------------------------------------------
LEMMA WakeStep ==
  ASSUME IInv, NEW t \in Task, Wake(t)
  PROVE  IInv'
<1> USE DEF IInv, Wake
<1>1. t \in tasklist \ on_rq /\ held[t] = Nowhere /\ version \in Version
  BY HeldByValue DEF ThreadInv, HeldInv
<1>2. held' = [held EXCEPT ![t] = [Nowhere EXCEPT ![version] = @ + 1]]
  BY <1>1 DEF ThreadInv
<1>3. HeldBy(t, version)' = [Nowhere EXCEPT ![version] = @ + 1]
  BY <1>1 DEF HeldBy, Nowhere
<1>4. \A u \in Task \ {t} : HeldBy(u, version)' = HeldBy(u, version)
  BY DEF HeldBy
<1>5. ThreadInv'
  <2>1. [Nowhere EXCEPT ![version] = @ + 1] \in [Version -> Int]
    BY <1>1 DEF Nowhere
  <2> QED
    BY <1>1, <1>2, <2>1 DEF ThreadInv, Walking
<1>6. HeldInv'
  BY <1>1, <1>2, <1>3, <1>4 DEF ThreadInv, HeldInv
<1>7. RunningInv'
  <2>1. mine \cap on_rq \in SUBSET Task
    BY DEF ThreadInv
  <2>2. nr_running = Cardinality(mine \cap on_rq) + 1
    BY DEF RunningInv, Counted
  <2>3. Counted' = mine \cap (on_rq \cup {t})
    BY DEF Counted
  <2>4. CASE t \in mine
    <3>1. Counted' = (mine \cap on_rq) \cup {t} /\ t \notin mine \cap on_rq
      BY <1>1, <2>3, <2>4
    <3>2. Cardinality(Counted') = Cardinality(mine \cap on_rq) + 1
      BY <2>1, <3>1, ThreadCount
    <3>3. Counted' \in SUBSET Task
      BY <2>1, <3>1
    <3>4. nr_running + 1 \in 0 .. MaxRunning
      BY <2>1, <2>2, <3>2, <3>3, ThreadCount, WidthAssumption
    <3> QED
      BY <2>2, <2>4, <3>2, <3>4, CountSmall DEF RunningInv, OnThisRq
  <2>5. CASE t \notin mine
    <3>1. Counted' = mine \cap on_rq
      BY <2>3, <2>5
    <3>2. nr_running + 0 = nr_running /\ nr_running \in 0 .. MaxRunning
      BY <2>1, <2>2, ThreadCount, WidthAssumption
    <3> QED
      BY <2>2, <2>5, <3>1, <3>2, CountSmall DEF RunningInv, OnThisRq
  <2> QED
    BY <2>4, <2>5
<1> QED
  BY <1>5, <1>6, <1>7

LEMMA SleepStep ==
  ASSUME IInv, NEW t \in Task, Sleep(t)
  PROVE  IInv'
<1> USE DEF IInv, Sleep
<1>1. t \in on_rq /\ version \in Version /\ held[t] \in [Version -> Int]
  BY DEF ThreadInv
<1>2. held' = [held EXCEPT ![t] = [held[t] EXCEPT ![version] = @ - 1]]
  BY <1>1 DEF ThreadInv
<1>3. t \in tasklist => [held[t] EXCEPT ![version] = @ - 1] = HeldBy(t, version)'
  <2>1. t \in tasklist => held[t] = HeldBy(t, version)
    BY DEF HeldInv
  <2>2. HeldBy(t, version)' = Nowhere
    BY <1>1 DEF HeldBy, Nowhere
  <2> QED
    BY <1>1, <2>1, <2>2, HeldByValue
<1>4. \A u \in Task \ {t} : HeldBy(u, version)' = HeldBy(u, version)
  BY DEF HeldBy
<1>5. ThreadInv'
  <2>1. [held[t] EXCEPT ![version] = @ - 1] \in [Version -> Int]
    BY <1>1
  <2> QED
    BY <1>1, <1>2, <2>1 DEF ThreadInv, Walking
<1>6. HeldInv'
  BY <1>1, <1>2, <1>3, <1>4 DEF ThreadInv, HeldInv
<1>7. RunningInv'
  <2>1. mine \cap on_rq \in SUBSET Task
    BY DEF ThreadInv
  <2>2. nr_running = Cardinality(mine \cap on_rq) + 1
    BY DEF RunningInv, Counted
  <2>3. Counted' = (mine \cap on_rq) \ {t}
    BY DEF Counted
  <2>4. nr_running \in 1 .. MaxRunning
    BY <2>1, <2>2, ThreadCount, WidthAssumption
  <2>5. CASE t \in mine
    <3>1. Cardinality(Counted') = Cardinality(mine \cap on_rq) - 1
      BY <1>1, <2>1, <2>3, <2>5, ThreadCount
    <3>2. nr_running - 1 \in 0 .. MaxRunning
      BY <2>4, WidthAssumption
    <3> QED
      BY <2>1, <2>2, <2>5, <3>1, <3>2, CountSmall, ThreadCount DEF RunningInv, OnThisRq
  <2>6. CASE t \notin mine
    <3>1. Counted' = mine \cap on_rq
      BY <2>3, <2>6
    <3>2. nr_running - 0 = nr_running /\ nr_running \in 0 .. MaxRunning
      BY <2>4, WidthAssumption
    <3> QED
      BY <2>2, <2>6, <3>1, <3>2, CountSmall DEF RunningInv, OnThisRq
  <2> QED
    BY <2>5, <2>6
<1> QED
  BY <1>5, <1>6, <1>7

LEMMA ReleaseStep ==
  ASSUME IInv, NEW t \in Task, Release(t)
  PROVE  IInv'
<1> USE DEF IInv, Release
<1>1. ThreadInv'
  BY DEF ThreadInv, Walking
<1>2. HeldInv'
  BY DEF HeldInv, HeldBy, Nowhere
<1>3. RunningInv'
  BY DEF RunningInv, Counted
<1> QED
  BY <1>1, <1>2, <1>3

\* HeldBy depends on on_rq only, which stays as it is while the machine is stopped.
LEMMA BeginClearStep ==
  ASSUME IInv, BeginClear
  PROVE  IInv'
<1> USE DEF IInv, BeginClear
<1>1. ThreadInv'
  BY DEF ThreadInv, Walking
<1>2. HeldInv'
  BY DEF HeldInv, HeldBy, Nowhere
<1>3. RunningInv'
  <2>1. Counted' = Counted
    BY DEF Counted
  <2> QED
    BY <2>1 DEF RunningInv
<1> QED
  BY <1>1, <1>2, <1>3

LEMMA DequeueStep ==
  ASSUME IInv, NEW t \in Task \cup {Stop}, DequeueVisit(t)
  PROVE  IInv'
<1> USE DEF IInv, DequeueVisit
<1>1. \A u : HeldBy(u, version)' = HeldBy(u, version)
  BY DEF HeldBy, Nowhere
<1>2. Stop \notin Task /\ version \in Version /\ tasklist \subseteq Task
  BY NodeAssumption DEF ThreadInv
<1>3. CASE Handles(t)
  <2>1. t \in mine \cap on_rq /\ t \in tasklist /\ t \in todo
    BY <1>3 DEF Handles, ThreadInv, Walking
  <2>2. held' = [held EXCEPT ![t] = [held[t] EXCEPT ![version] = @ - 1]]
    BY <1>3, <1>2, <2>1 DEF ThreadInv
  <2>3. [held[t] EXCEPT ![version] = @ - 1] = Nowhere
    BY <1>2, <2>1, HeldByValue DEF HeldInv
  <2>4. ThreadInv'
    BY <1>2, <2>1, <2>2, <2>3, HeldByValue DEF ThreadInv, Walking
  <2>5. HeldInv'
    BY <1>1, <1>2, <2>1, <2>2, <2>3 DEF ThreadInv, HeldInv
  <2>6. RunningInv'
    <3>1. Counted' = Counted \ {t} /\ t \in Counted /\ Counted \in SUBSET Task
      BY <1>2, <2>1 DEF Counted, ThreadInv
    <3>2. nr_running = Cardinality(Counted) + 1
          /\ Cardinality(Counted') = Cardinality(Counted) - 1
      BY <3>1, ThreadCount DEF RunningInv
    <3>3. nr_running - 1 \in 0 .. MaxRunning
      BY <3>1, <3>2, ThreadCount, WidthAssumption
    <3>4. nr_running' = nr_running - 1
      BY <1>3, <3>3, CountSmall
    <3> QED
      BY <3>1, <3>2, <3>4, ThreadCount DEF RunningInv
  <2> QED
    BY <2>4, <2>5, <2>6
<1>4. CASE ~Handles(t)
  <2>1. UNCHANGED <<held, nr_running>>
    BY <1>4
  <2>2. ThreadInv'
    BY <2>1 DEF ThreadInv, Walking
  <2>3. HeldInv'
    <3>1. t \in Task => t \notin mine \/ HeldBy(t, version) = Nowhere
      BY <1>2, <1>4, HeldByValue DEF Handles
    <3> QED
      BY <1>1, <1>2, <2>1, <3>1 DEF HeldInv
  <2>4. Counted' = Counted
    BY <1>2, <1>4 DEF Counted, Handles, ThreadInv
  <2>5. RunningInv'
    BY <2>1, <2>4 DEF RunningInv
  <2> QED
    BY <2>2, <2>3, <2>5
<1> QED
  BY <1>3, <1>4

LEMMA DequeueEndStep ==
  ASSUME IInv, DequeueEnd
  PROVE  IInv'
<1> USE DEF IInv, DequeueEnd
<1>1. next' \in [Node -> Node] /\ prev' \in [Node -> Node]
      /\ next'[Head] = Head /\ prev'[Head] = Head
  BY DEF ThreadInv, Node
<1>2. ThreadInv'
  BY <1>1 DEF ThreadInv, Walking
<1>3. HeldInv'
  BY DEF HeldInv, HeldBy, Nowhere
<1>4. Counted' = Counted
  BY DEF Counted, ThreadInv
<1>5. RunningInv'
  BY <1>1, <1>4 DEF RunningInv
<1> QED
  BY <1>2, <1>3, <1>5

\* The first dying task puts Junk on the list, and Junk stays there.
LEMMA DrainStep ==
  ASSUME IInv, DrainOne
  PROVE  IInv'
<1> USE DEF IInv, DrainOne
<1>1. HeldInv'
  BY DEF HeldInv, HeldBy, Nowhere
<1>2. CASE place' = "oops" /\ UNCHANGED <<nr_running, next, prev>>
  <2>1. ThreadInv' /\ RunningInv'
    BY <1>2 DEF ThreadInv, RunningInv, Walking
  <2> QED
    BY <1>1, <2>1
<1>3. CASE place' = place
  <2>1. p = Junk /\ Junk # Head /\ Junk \in Node /\ Head \in Node
    BY NodeAssumption DEF RunningInv, Node
  <2>2. nr_running \in 2 .. MaxRunning
    <3>1. Counted \in SUBSET Task
      BY DEF Counted, ThreadInv
    <3> QED
      BY <3>1, ThreadCount, WidthAssumption DEF RunningInv
  <2>3. nr_running' = nr_running - 1
    <3>1. nr_running - 1 \in 0 .. MaxRunning
      BY <2>2, WidthAssumption
    <3> QED
      BY <1>3, <3>1, CountSmall
  <2>4. next' = [[next EXCEPT ![Junk] = Head] EXCEPT ![prev[Head]] = Junk]
        /\ prev' = [[prev EXCEPT ![Junk] = prev[Head]] EXCEPT ![Head] = Junk]
    BY <1>3, <2>1
  <2>5. prev[Head] \in {Head, Junk} /\ (prev[Head] = Junk => next[Head] = Junk)
    BY DEF RunningInv, Strayed
  <2>6. next' \in [Node -> Node] /\ prev' \in [Node -> Node]
    BY <2>1, <2>4, <2>5 DEF ThreadInv
  <2>7. Strayed'
    BY <2>1, <2>4, <2>5, <2>6 DEF Strayed, ThreadInv
  <2>8. ThreadInv'
    BY <1>3, <2>6 DEF ThreadInv, Walking
  <2>9. RunningInv'
    BY <1>3, <2>1, <2>2, <2>3, <2>7, WidthAssumption DEF RunningInv
  <2> QED
    BY <1>1, <2>8, <2>9
<1> QED
  BY <1>2, <1>3

LEMMA DrainEndStep ==
  ASSUME IInv, DrainEnd
  PROVE  IInv'
<1> USE DEF IInv, DrainEnd
<1>1. ThreadInv' /\ HeldInv'
  BY DEF ThreadInv, HeldInv, HeldBy, Nowhere, Walking
<1>2. Strayed' <=> Strayed
  BY DEF Strayed
<1>3. RunningInv'
  <2>1. Counted \in SUBSET Task /\ Counted' = {} /\ Cardinality({}) = 0
    BY FS_EmptySet DEF Counted, ThreadInv
  <2>2. Strayed \/ (next[Head] = Head /\ mine \cap dying = {})
    <3>1. CASE next[Head] = Head /\ nr_running = Cardinality(Counted) + 1
      <4>1. Counted = {}
        BY <2>1, <3>1, ThreadCount
      <4> QED
        BY <3>1, <4>1 DEF Counted, ThreadInv
    <3> QED
      BY <3>1 DEF RunningInv
  <2>3. nr_running' = Cardinality(Counted') + 1
    BY <2>1
  <2> QED
    BY <1>2, <2>2, <2>3 DEF RunningInv
<1> QED
  BY <1>1, <1>3

LEMMA BeginRebuildStep ==
  ASSUME IInv, BeginRebuild
  PROVE  IInv'
<1> USE DEF IInv, BeginRebuild
<1>1. version' \in Version
  BY DEF Other, Version, ThreadInv
<1>2. ThreadInv'
  BY <1>1 DEF ThreadInv, Walking
<1>3. HeldInv'
  BY DEF HeldInv
<1>4. Counted = {} /\ Counted' = {}
  BY DEF Counted
<1>5. RunningInv'
  BY <1>4 DEF RunningInv, Strayed
<1> QED
  BY <1>2, <1>3, <1>5

LEMMA EnqueueStep ==
  ASSUME IInv, NEW t \in Task \cup {Stop}, EnqueueVisit(t)
  PROVE  IInv'
<1> USE DEF IInv, EnqueueVisit
<1>1. \A u : HeldBy(u, version)' = HeldBy(u, version)
  BY DEF HeldBy, Nowhere
<1>2. Stop \notin Task /\ version \in Version /\ tasklist \subseteq Task
  BY NodeAssumption DEF ThreadInv
<1>3. Strayed' <=> Strayed
  BY DEF Strayed
<1>4. CASE Handles(t)
  <2>1. t \in mine \cap on_rq /\ t \in tasklist /\ t \in todo
    BY <1>4 DEF Handles, ThreadInv, Walking
  <2>2. held' = [held EXCEPT ![t] = [held[t] EXCEPT ![version] = @ + 1]]
    BY <1>4, <1>2, <2>1 DEF ThreadInv
  <2>3. [held[t] EXCEPT ![version] = @ + 1] = HeldBy(t, version)
    BY <1>2, <2>1, HeldByValue DEF HeldInv
  <2>4. ThreadInv'
    BY <1>2, <2>1, <2>2, <2>3, HeldByValue DEF ThreadInv, Walking
  <2>5. HeldInv'
    BY <1>1, <1>2, <2>1, <2>2, <2>3 DEF ThreadInv, HeldInv
  <2>6. RunningInv'
    <3>1. Counted' = Counted \cup {t} /\ t \in Task \ Counted
          /\ Counted \in SUBSET Task /\ Counted' \in SUBSET Task
      BY <1>2, <2>1 DEF Counted, ThreadInv
    <3>2. nr_running = Cardinality(Counted) + 1
          /\ Cardinality(Counted') = Cardinality(Counted) + 1
      BY <3>1, ThreadCount DEF RunningInv
    <3>3. nr_running + 1 \in 0 .. MaxRunning
      BY <3>1, <3>2, ThreadCount, WidthAssumption
    <3>4. nr_running' = nr_running + 1
      BY <1>4, <3>3, CountSmall
    <3> QED
      BY <1>3, <3>2, <3>4 DEF RunningInv
  <2> QED
    BY <2>4, <2>5, <2>6
<1>5. CASE ~Handles(t)
  <2>1. UNCHANGED <<held, nr_running>>
    BY <1>5
  <2>2. ThreadInv'
    BY <2>1 DEF ThreadInv, Walking
  <2>3. HeldInv'
    <3>1. t \in Task => t \notin mine \/ HeldBy(t, version) = Nowhere
      BY <1>2, <1>5, HeldByValue DEF Handles
    <3> QED
      BY <1>1, <1>2, <2>1, <3>1 DEF HeldInv
  <2>4. Counted' = Counted
    BY <1>2, <1>5 DEF Counted, Handles, ThreadInv
  <2>5. RunningInv'
    BY <1>3, <2>1, <2>4 DEF RunningInv
  <2> QED
    BY <2>2, <2>3, <2>5
<1> QED
  BY <1>4, <1>5

\* No dying task is left behind when the list is empty; otherwise the loop over
\* it stays at Junk.
LEMMA EnqueueEndStep ==
  ASSUME IInv, EnqueueEnd
  PROVE  IInv'
<1> USE DEF IInv, EnqueueEnd
<1>1. ThreadInv' /\ HeldInv'
  BY DEF ThreadInv, HeldInv, HeldBy, Nowhere, Walking
<1>2. RunningInv'
  <2>1. CASE Strayed
    BY <2>1 DEF RunningInv, Strayed
  <2>2. CASE next[Head] = Head /\ mine \cap dying = {}
    <3>1. Counted' = Counted
      BY <2>2 DEF Counted, ThreadInv
    <3> QED
      BY <2>2, <3>1 DEF RunningInv
  <2> QED
    BY <2>1, <2>2 DEF RunningInv
<1> QED
  BY <1>1, <1>2

LEMMA EnqueueDyingStep ==
  ASSUME IInv, EnqueueDying
  PROVE  IInv'
<1> USE DEF IInv, EnqueueDying
<1>1. p = Junk /\ Junk \in Node
  BY DEF RunningInv, Node
<1>2. HeldInv'
  BY DEF HeldInv, HeldBy, Nowhere
<1>3. CASE place' = "oops" /\ UNCHANGED <<nr_running, next, prev, p>>
  <2>1. ThreadInv' /\ RunningInv'
    BY <1>3 DEF ThreadInv, RunningInv, Walking
  <2> QED
    BY <1>2, <2>1
<1>4. CASE place' = place
  <2>1. next' \in [Node -> Node] /\ prev' \in [Node -> Node] /\ next'[Junk] = Junk
    BY <1>1, <1>4 DEF ThreadInv
  <2>2. p' = Junk
    BY <1>1, <1>4, <2>1
  <2>3. ThreadInv' /\ RunningInv'
    BY <1>4, <2>1, <2>2 DEF ThreadInv, RunningInv, Walking
  <2> QED
    BY <1>2, <2>3
<1> QED
  BY <1>3, <1>4

LEMMA RebuildEndStep ==
  ASSUME IInv, RebuildEnd
  PROVE  IInv'
<1> USE DEF IInv, RebuildEnd
<1>1. \A u : HeldBy(u, version)' = HeldBy(u, version)
  BY DEF HeldBy, Nowhere
<1>2. ThreadInv'
  BY HeldByValue DEF ThreadInv, Walking
<1>3. HeldInv'
  BY <1>1 DEF HeldInv, ThreadInv
<1>4. Counted' = Counted
  BY DEF Counted
<1>5. RunningInv'
  BY <1>4, NodeAssumption DEF RunningInv
<1> QED
  BY <1>2, <1>3, <1>5

\* The inductive invariant, for any number of threads and any counter wide enough.
THEOREM RebuildInvariance == Spec => []IInv
<1>1. IInv /\ UNCHANGED vars => IInv'
  BY DEF vars, IInv, ThreadInv, HeldInv, HeldBy, Nowhere, RunningInv, Counted, Strayed,
         Walking
<1>2. IInv /\ [Next]_vars => IInv'
  BY <1>1, WakeStep, SleepStep, ReleaseStep, BeginClearStep, DequeueStep, DequeueEndStep,
     DrainStep, DrainEndStep, BeginRebuildStep, EnqueueStep, EnqueueEndStep,
     EnqueueDyingStep, RebuildEndStep DEF Next, Handler
<1> QED
  BY RebuildInit, <1>2, PTL DEF Spec

\* Every thread of the tasklist is handed over exactly once, whatever happens to
\* the dying ones.
THEOREM LiveSafe == Spec => []LiveHandedOver
<1>1. IInv => LiveHandedOver
  BY DEF IInv, HeldInv, LiveHandedOver
<1> QED
  BY <1>1, RebuildInvariance, PTL

\* nr_running never loses the stopper while the live threads are handed over, so
\* that the drain loop ends at 1, and a handler that ends has restored it.
THEOREM StopperSafe == Spec => []StopperCounted
<1>1. IInv => StopperCounted
  <2> SUFFICES ASSUME IInv PROVE StopperCounted
    OBVIOUS
  <2>1. Counted \in SUBSET Task /\ Cardinality(Counted) \in Nat
    BY ThreadCount DEF Counted, IInv, ThreadInv
  <2>2. place \in {"dequeue", "drain", "enqueue"} => nr_running >= 1
    BY <2>1, WidthAssumption DEF IInv, RunningInv
  <2>3. place = "cleared" => nr_running = 1
    BY FS_EmptySet DEF IInv, RunningInv, Counted
  <2>4. place = "run" => nr_running = Cardinality(mine \cap on_rq) + 1
    BY DEF IInv, RunningInv, Counted
  <2>5. place = "enqueue_dying" /\ p = Head =>
          nr_running = Cardinality(mine \cap on_rq) + 1
    BY NodeAssumption DEF IInv, RunningInv, Counted
  <2> QED
    BY <2>2, <2>3, <2>4, <2>5 DEF StopperCounted
<1> QED
  BY <1>1, RebuildInvariance, PTL
===============================================================================

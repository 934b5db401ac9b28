-------------------------- MODULE WebClientProofs ---------------------------
(***************************************************************************)
(* The page, for any number of handlers under way, runs, candidates and    *)
(* clicks, and whatever the order of the answers.                          *)
(***************************************************************************)
EXTENDS WebClient, SequenceTheorems, TLAPS

\* What a handler awaits is about one of the n runs that exist.
TaskSound(t, n) ==
    /\ t.at = "idle" => t = Idle
    /\ t.at = "asked" => t.kind # "none"
    /\ t.at = "asked" /\ t.kind = "get" => t.run \in 1 .. n
    /\ t.at \in {"asked", "abandoned"} /\ t.kind = "review" =>
        /\ t.run \in 1 .. n
        /\ t.choice \in (1 .. MaxRuns) \X Candidates /\ t.choice[1] = t.run
    /\ t.at = "answered" /\ t.kind = "list" => t.answer.run \in 0 .. n
    /\ t.at = "answered" /\ t.kind # "list" => t.answer.run \in 1 .. n
    /\ t.at = "proving" => t.run \in 1 .. n
    /\ t.at \in {"asked", "answered"} => t.exported = Nothing /\ t.gated = Nothing

\* The page itself: the list of candidates and state.run are of one answer.
Shape ==
    /\ store \in Seq(Seq(Candidates)) /\ Len(store) <= MaxRuns
    /\ panels \in Snapshot /\ panels.run <= Len(store)
    /\ state_run = panels
    /\ audit \in Snapshot /\ gate \in Snapshot
    /\ run_enabled \in BOOLEAN /\ disabled \subseteq Handlers
    /\ notice \in {"none", "done", "error"}
    /\ clicks \in 0 .. MaxClicks /\ hasty \in BOOLEAN

\* The page awaits the answer to a creation: it has not given it up.
Creating(t) == t.kind = "create" /\ t.at # "abandoned"

\* The inductive invariant: besides, one creation at a time is awaited.
PageInv ==
    /\ Shape
    /\ task \in [Handlers -> Task]
    /\ \A h \in Handlers : TaskSound(task[h], Len(store))
    /\ \A h \in Handlers : Creating(task[h]) =>
        /\ ~run_enabled
        /\ \A g \in Handlers : Creating(task[g]) => g = h

\* The page shows the present state of one run.
Current ==
    /\ panels.run # 0
    /\ \A shown \in {state_run, panels, audit, gate} : shown = StateOf(panels.run)

StateIn(runs, n) == [run |-> n, chosen |-> runs[n]]

\* What is true of an answer in hand while nobody else is at work: runs is the
\* database, shown what the panels show, word the last toast.
TaskCurrent(t, runs, shown, word) ==
    /\ t.at = "answered" /\ t.kind = "list" => t.answer.run = Len(runs)
    /\ t.at = "answered" /\ t.kind # "list" => t.answer = StateIn(runs, t.answer.run)
    /\ t.at = "proving" =>
        /\ shown = StateIn(runs, t.run)
        /\ t.exported \in {Nothing, shown} /\ t.gated \in {Nothing, shown}
    /\ t.at = "asked" /\ t.kind = "review" /\ word # "error" =>
        KeyOf[t.choice[2]] \notin Decided(StateIn(runs, t.run))
    /\ t.at = "abandoned" => word = "error"

\* A user who waits has one request under way at a time, and its handler knows
\* the present state of its run, or has given it up with an error.
PatientInv ==
    ~hasty =>
        /\ \A h, g \in Handlers : task[h] # Idle /\ task[g] # Idle => h = g
        /\ \A h \in Handlers : TaskCurrent(task[h], store, panels, notice)
        /\ ~Busy /\ notice # "error" /\ store # <<>> => Current

-----------------------------------------------------------------------------
(* One handler moves on.                                                   *)

LEMMA IdleIsTask == Idle \in Task /\ Nothing \in Snapshot /\ Idle.kind = "none" /\ Idle.at = "idle"
BY PageAssumption DEF Idle, Task, Nothing, Snapshot

LEMMA TaskSoundGrows ==
    ASSUME NEW t, NEW n \in Nat, NEW m \in Nat, n <= m, TaskSound(t, n)
    PROVE  TaskSound(t, m)
<1>1. /\ \A x : x \in 1 .. n => x \in 1 .. m
      /\ \A x : x \in 0 .. n => x \in 0 .. m
  OBVIOUS
<1>2. QED
  BY <1>1 DEF TaskSound

\* The store never shrinks; the button is free only when no creation is awaited.
LEMMA PageStep ==
    ASSUME PageInv, NEW h \in Handlers, NEW t \in Task,
           task' = [task EXCEPT ![h] = t],
           TaskSound(t, Len(store')), Shape', Len(store') >= Len(store),
           Creating(t) => ~run_enabled' /\ (Creating(task[h]) \/ run_enabled),
           run_enabled' => run_enabled \/ Creating(task[h])
    PROVE  PageInv'
<1>1. task' \in [Handlers -> Task]
  BY DEF PageInv
<1>2. task'[h] = t /\ \A g \in Handlers : g # h => task'[g] = task[g]
  BY DEF PageInv
<1>3. Len(store) \in Nat /\ Len(store') \in Nat /\ Len(store) <= Len(store')
  BY DEF PageInv, Shape
<1>4. ASSUME NEW g \in Handlers
      PROVE  TaskSound(task'[g], Len(store'))
  <2>1. CASE g = h
    BY <1>2, <2>1
  <2>2. CASE g # h
    <3>1. TaskSound(task[g], Len(store))
      BY DEF PageInv
    <3>2. QED
      BY <1>2, <1>3, <2>2, <3>1, TaskSoundGrows
  <2>3. QED
    BY <2>1, <2>2
<1>5. ASSUME NEW g \in Handlers, Creating(task'[g])
      PROVE  ~run_enabled' /\ \A f \in Handlers : Creating(task'[f]) => f = g
  <2>1. ASSUME NEW f \in Handlers, f # h, Creating(task[f])
        PROVE  ~run_enabled /\ ~Creating(task[h]) /\ ~run_enabled'
    BY <2>1 DEF PageInv
  <2>2. CASE g = h
    BY <1>2, <1>5, <2>1, <2>2
  <2>3. CASE g # h
    <3>1. Creating(task[g])
      BY <1>2, <1>5, <2>3
    <3>2. ~Creating(task'[h]) /\ ~run_enabled'
      BY <1>2, <2>1, <2>3, <3>1
    <3>3. \A f \in Handlers : Creating(task'[f]) => f = g
      BY <1>2, <2>3, <3>1, <3>2 DEF PageInv
    <3>4. QED
      BY <3>2, <3>3
  <2>4. QED
    BY <2>2, <2>3
<1>6. QED
  BY <1>1, <1>4, <1>5 DEF PageInv

\* If the user waits, nobody else is at work.
LEMMA PatientStep ==
    ASSUME PageInv, PatientInv, NEW h \in Handlers, NEW t \in Task,
           task' = [task EXCEPT ![h] = t],
           ~hasty' => ~hasty /\ \A g \in Handlers : g # h => task[g] = Idle,
           ~hasty' => TaskCurrent(t, store', panels', notice'),
           ~hasty' /\ t = Idle /\ notice' # "error" /\ store' # <<>> => Current'
    PROVE  PatientInv'
<1>1. SUFFICES ASSUME ~hasty' PROVE PatientInv'
  BY DEF PatientInv
<1>2. task'[h] = t /\ \A g \in Handlers : g # h => task'[g] = Idle
  BY <1>1 DEF PageInv
<1>3. \A g, f \in Handlers : task'[g] # Idle /\ task'[f] # Idle => g = f
  BY <1>2
<1>4. ASSUME NEW g \in Handlers
      PROVE  TaskCurrent(task'[g], store', panels', notice')
  <2>1. CASE g = h
    BY <1>1, <1>2, <2>1
  <2>2. CASE g # h
    <3>1. task'[g] = Idle /\ Idle.at = "idle"
      BY <1>2, <2>2, IdleIsTask
    <3>2. QED
      BY <3>1 DEF TaskCurrent
  <2>3. QED
    BY <2>1, <2>2
<1>5. ~Busy' /\ notice' # "error" /\ store' # <<>> => Current'
  BY <1>1, <1>2 DEF Busy
<1>6. Idle' = Idle
  BY DEF Idle, Nothing
<1>7. QED
  BY <1>3, <1>4, <1>5, <1>6 DEF PatientInv

\* Whoever is at work is alone, if the user waits.
LEMMA Alone ==
    ASSUME PatientInv, NEW h \in Handlers, task[h] # Idle, hasty' = hasty
    PROVE  ~hasty' => ~hasty /\ \A g \in Handlers : g # h => task[g] = Idle
BY DEF PatientInv

\* What a request starts with.
LEMMA AskingIs ==
    ASSUME NEW kind \in {"create", "review", "list", "get"}, NEW run \in 0 .. MaxRuns,
           NEW choice \in {<<>>} \cup ((1 .. MaxRuns) \X Candidates)
    PROVE  /\ Asking(kind, run, choice) \in Task
           /\ Asking(kind, run, choice) # Idle
           /\ Asking(kind, run, choice).kind = kind
           /\ Asking(kind, run, choice).at = "asked"
           /\ Asking(kind, run, choice).run = run
           /\ Asking(kind, run, choice).choice = choice
           /\ Asking(kind, run, choice).exported = Nothing
           /\ Asking(kind, run, choice).gated = Nothing
<1>1. Asking(kind, run, choice) =
        [kind |-> kind, at |-> "asked", run |-> run, choice |-> choice,
         answer |-> Nothing, exported |-> Nothing, gated |-> Nothing]
  <2>1. Idle = [kind |-> "none", at |-> "idle", run |-> 0, choice |-> <<>>,
                answer |-> Nothing, exported |-> Nothing, gated |-> Nothing]
    BY DEF Idle
  <2> DEFINE i == [kind |-> "none", at |-> "idle", run |-> 0, choice |-> <<>>,
                   answer |-> Nothing, exported |-> Nothing, gated |-> Nothing]
  <2>2. Asking(kind, run, choice) =
            [i EXCEPT !.kind = kind, !.at = "asked", !.run = run, !.choice = choice]
    BY <2>1 DEF Asking
  <2>3. QED
    BY <2>2
<1>2. Nothing \in Snapshot
  BY IdleIsTask
<1>3. QED
  BY <1>1, <1>2 DEF Task, Idle

\* A free handler has asked for nothing.
LEMMA ClickClicks ==
    ASSUME PageInv, NEW h \in Handlers, MayClick(h), clicks' = clicks + 1,
           hasty' = (hasty \/ Busy)
    PROVE  /\ clicks' \in 0 .. MaxClicks /\ hasty' \in BOOLEAN
           /\ ~hasty' => ~hasty /\ ~Busy /\ \A g \in Handlers : g # h => task[g] = Idle
<1>1. clicks' \in 0 .. MaxClicks
  BY PageAssumption DEF PageInv, Shape, MayClick
<1>2. hasty' \in BOOLEAN
  BY DEF PageInv, Shape, Busy
<1>3. QED
  BY <1>1, <1>2 DEF Busy

LEMMA ClickRunStep ==
    ASSUME PageInv, PatientInv, NEW h \in Handlers, ClickRun(h)
    PROVE  PageInv' /\ PatientInv'
<1> DEFINE t == Asking("create", 0, <<>>)
<1>1. /\ t \in Task /\ t # Idle /\ t.kind = "create" /\ t.at = "asked"
      /\ t.exported = Nothing /\ t.gated = Nothing
  BY PageAssumption, AskingIs
<1>2. /\ MayClick(h) /\ run_enabled
      /\ run_enabled' = FALSE /\ task' = [task EXCEPT ![h] = t]
      /\ clicks' = clicks + 1 /\ hasty' = (hasty \/ Busy)
      /\ UNCHANGED <<store, state_run, panels, audit, gate, disabled, notice>>
  BY DEF ClickRun
<1> HIDE DEF t
<1>3. /\ clicks' \in 0 .. MaxClicks /\ hasty' \in BOOLEAN
      /\ ~hasty' => ~hasty /\ ~Busy /\ \A g \in Handlers : g # h => task[g] = Idle
  BY <1>2, ClickClicks
<1>4. TaskSound(t, Len(store'))
  BY <1>1, <1>2 DEF TaskSound
<1>5. /\ Shape' /\ ~run_enabled'
      /\ Len(store') = Len(store) /\ Len(store') >= Len(store)
      /\ Len(store) \in Nat
  <2>1. Shape' /\ ~run_enabled'
    BY <1>2, <1>3 DEF PageInv, Shape
  <2>2. Len(store') = Len(store) /\ Len(store) \in Nat
    BY <1>2 DEF PageInv, Shape
  <2>3. QED
    BY <2>1, <2>2
<1>6. PageInv'
  BY <1>1, <1>2, <1>4, <1>5, PageStep
<1>7. TaskCurrent(t, store', panels', notice')
  BY <1>1 DEF TaskCurrent
<1>8. PatientInv'
  BY <1>1, <1>2, <1>3, <1>7, PatientStep
<1>9. QED
  BY <1>6, <1>8

LEMMA ClickReviewStep ==
    ASSUME PageInv, PatientInv, NEW h \in Handlers, ClickReview(h)
    PROVE  PageInv' /\ PatientInv'
<1>1. PICK c \in OpenCandidates(panels) :
        task' = [task EXCEPT ![h] = Asking("review", state_run.run, <<panels.run, c>>)]
  BY DEF ClickReview
<1>2. /\ MayClick(h) /\ disabled' = disabled \cup {h}
      /\ clicks' = clicks + 1 /\ hasty' = (hasty \/ Busy)
      /\ UNCHANGED <<store, state_run, panels, audit, gate, run_enabled, notice>>
  BY DEF ClickReview
<1>3. /\ c \in Candidates /\ panels.run # 0 /\ KeyOf[c] \notin Decided(panels)
      /\ state_run = panels /\ panels \in Snapshot /\ panels.run <= Len(store)
      /\ Len(store) \in Nat /\ Len(store) <= MaxRuns
  BY <1>1 DEF OpenCandidates, PageInv, Shape
<1>4. panels.run \in 1 .. Len(store) /\ panels.run \in 1 .. MaxRuns
      /\ panels.run \in 0 .. MaxRuns
  BY <1>3, PageAssumption DEF Snapshot
<1> DEFINE run == panels.run
           choice == <<run, c>>
           t == Asking("review", run, choice)
<1>5. choice \in (1 .. MaxRuns) \X Candidates /\ choice[1] = run /\ choice[2] = c
  BY <1>3, <1>4
<1>6. task' = [task EXCEPT ![h] = t]
  BY <1>1, <1>3
<1> HIDE DEF run, choice
<1>7. /\ t \in Task /\ t # Idle /\ t.kind = "review" /\ t.at = "asked"
      /\ t.run = run /\ t.choice = choice
      /\ t.exported = Nothing /\ t.gated = Nothing
  BY <1>4, <1>5, AskingIs DEF run
<1> HIDE DEF t
<1>8. /\ clicks' \in 0 .. MaxClicks /\ hasty' \in BOOLEAN
      /\ ~hasty' => ~hasty /\ ~Busy /\ \A g \in Handlers : g # h => task[g] = Idle
  BY <1>2, ClickClicks
<1>9. TaskSound(t, Len(store')) /\ ~Creating(t)
  BY <1>2, <1>4, <1>5, <1>7 DEF TaskSound, Creating, run
<1>10. /\ Shape' /\ run_enabled' = run_enabled
       /\ Len(store') = Len(store) /\ Len(store') >= Len(store)
       /\ Len(store) \in Nat
  <2>1. Shape' /\ run_enabled' = run_enabled
    BY <1>2, <1>8 DEF PageInv, Shape
  <2>2. Len(store') = Len(store) /\ Len(store) \in Nat
    BY <1>2 DEF PageInv, Shape
  <2>3. QED
    BY <2>1, <2>2
<1>11. PageInv'
  BY <1>6, <1>7, <1>9, <1>10, PageStep
<1>12. ASSUME ~hasty'
       PROVE  TaskCurrent(t, store', panels', notice')
  <2>1. notice' # "error" => panels = StateIn(store', run)
    <3>1. store # <<>>
      BY <1>4
    <3>2. ~hasty /\ ~Busy
      BY <1>8, <1>12
    <3>3. QED
      BY <1>2, <3>1, <3>2 DEF PatientInv, Current, StateOf, StateIn, run
  <2>2. notice' # "error" => KeyOf[t.choice[2]] \notin Decided(StateIn(store', t.run))
    BY <1>3, <1>5, <1>7, <2>1
  <2>3. QED
    BY <1>7, <2>2 DEF TaskCurrent
<1>13. PatientInv'
  BY <1>6, <1>7, <1>8, <1>12, PatientStep
<1>14. QED
  BY <1>11, <1>13
-----------------------------------------------------------------------------
(* The service answers.                                                    *)

LEMMA AnsweredIs ==
    ASSUME PageInv, NEW h \in Handlers, NEW snapshot \in Snapshot, Answered(h, snapshot)
    PROVE  \E t \in Task :
            /\ task' = [task EXCEPT ![h] = t]
            /\ t.at = "answered" /\ t.answer = snapshot /\ t.kind = task[h].kind
            /\ t.exported = task[h].exported /\ t.gated = task[h].gated
<1> DEFINE t == [task[h] EXCEPT !.at = "answered", !.answer = snapshot]
<1>1. task \in [Handlers -> Task] /\ task[h] \in Task
  BY DEF PageInv
<1>2. task' = [task EXCEPT ![h] = t]
  BY <1>1 DEF Answered
<1>3. /\ t \in Task
      /\ t.at = "answered" /\ t.answer = snapshot /\ t.kind = task[h].kind
      /\ t.exported = task[h].exported /\ t.gated = task[h].gated
  BY <1>1 DEF Task
<1>4. QED
  BY <1>2, <1>3

\* A served request is an answer in hand.
LEMMA AnswerStep ==
    ASSUME PageInv, PatientInv, NEW h \in Handlers, task[h].at = "asked",
           NEW snapshot \in Snapshot, Answered(h, snapshot),
           store' \in Seq(Seq(Candidates)),
           Len(store) <= Len(store'), Len(store') <= MaxRuns,
           IF task[h].kind = "list" THEN snapshot.run = Len(store')
           ELSE snapshot.run \in 1 .. Len(store') /\ snapshot = StateIn(store', snapshot.run),
           UNCHANGED <<state_run, panels, audit, gate, run_enabled, disabled,
                       notice, clicks, hasty>>
    PROVE  PageInv' /\ PatientInv'
<1>1. PICK t \in Task :
            /\ task' = [task EXCEPT ![h] = t]
            /\ t.at = "answered" /\ t.answer = snapshot /\ t.kind = task[h].kind
            /\ t.exported = task[h].exported /\ t.gated = task[h].gated
  BY AnsweredIs
<1>2. /\ TaskSound(task[h], Len(store)) /\ task[h] # Idle
      /\ Len(store) \in Nat /\ Len(store') \in Nat
  BY IdleIsTask DEF PageInv, Shape
<1>3. Shape' /\ run_enabled' = run_enabled
  <2>1. Len(store) <= Len(store')
    BY <1>2
  <2>2. Shape
    BY DEF PageInv
  <2>3. panels'.run <= Len(store')
    BY <1>2, <2>1, <2>2 DEF Shape, Snapshot
  <2>4. /\ panels' \in Snapshot /\ state_run' = panels'
        /\ audit' \in Snapshot /\ gate' \in Snapshot
        /\ run_enabled' \in BOOLEAN /\ disabled' \subseteq Handlers
        /\ notice' \in {"none", "done", "error"}
        /\ clicks' \in 0 .. MaxClicks /\ hasty' \in BOOLEAN
    BY <2>2 DEF Shape
  <2>5. QED
    BY <2>3, <2>4 DEF Shape
<1>4. TaskSound(t, Len(store'))
  BY <1>1, <1>2 DEF TaskSound
<1>5. Creating(t) => ~run_enabled' /\ (Creating(task[h]) \/ run_enabled)
  <2>1. Creating(task[h]) => ~run_enabled
    BY DEF PageInv
  <2>2. QED
    BY <1>1, <1>3, <2>1 DEF Creating
<1>6. PageInv'
  <2>1. /\ task' = [task EXCEPT ![h] = t]
        /\ run_enabled' => run_enabled \/ Creating(task[h])
    BY <1>1, <1>3
  <2>2. Len(store') >= Len(store)
    BY <1>2
  <2>3. PageInv /\ Shape'
    BY <1>3
  <2>4. QED
    BY ONLY <1>4, <1>5, <2>1, <2>2, <2>3, t \in Task, h \in Handlers, PageStep
<1>7. ~hasty' => ~hasty /\ \A g \in Handlers : g # h => task[g] = Idle
  BY <1>2, Alone
<1>8. TaskCurrent(t, store', panels', notice') /\ t # Idle
  BY <1>1, IdleIsTask DEF TaskCurrent
<1>9. PatientInv'
  BY <1>1, <1>7, <1>8, PatientStep
<1>10. QED
  BY <1>6, <1>9

LEMMA ServeStep ==
    ASSUME PageInv, PatientInv, NEW h \in Handlers, Serve(h)
    PROVE  PageInv' /\ PatientInv'
<1> DEFINE n == Len(store)
<1>1. /\ store \in Seq(Seq(Candidates)) /\ n \in Nat /\ n <= MaxRuns
      /\ TaskSound(task[h], n) /\ task[h].at = "asked" /\ MaxRuns \in Nat
      /\ DOMAIN store = 1 .. n
  BY PageAssumption DEF PageInv, Shape, Serve
<1>2. UNCHANGED <<state_run, panels, audit, gate, run_enabled, disabled, notice,
                  clicks, hasty>>
  BY DEF Serve
<1>3. CASE /\ SaveNewRun(h)
           /\ Answered(h, [run |-> n + 1, chosen |-> <<>>])
  <2> DEFINE snapshot == [run |-> n + 1, chosen |-> <<>>]
  <2>1. n < MaxRuns /\ task[h].kind = "create" /\ store' = Append(store, <<>>)
    BY <1>3 DEF SaveNewRun
  <2>2. /\ store' \in Seq(Seq(Candidates)) /\ Len(store') = n + 1
        /\ store'[n + 1] = <<>>
    <3>1. <<>> \in Seq(Candidates)
      OBVIOUS
    <3>2. QED
      BY <1>1, <2>1, <3>1, AppendProperties
  <2>3. /\ snapshot \in Snapshot /\ snapshot.run \in 1 .. Len(store')
        /\ snapshot = StateIn(store', snapshot.run)
    BY <1>1, <2>1, <2>2 DEF Snapshot, StateIn
  <2> HIDE DEF snapshot
  <2>4. Answered(h, snapshot) /\ Len(store') <= MaxRuns /\ task[h].kind # "list"
    BY <1>1, <1>3, <2>1, <2>2 DEF snapshot
  <2>5. Len(store) <= Len(store')
    BY <1>1, <2>2
  <2> HIDE DEF n
  <2>6. QED
    BY <1>1, <1>2, <1>3, <2>2, <2>3, <2>4, <2>5, AnswerStep
<1>4. CASE /\ SaveReview(h)
           /\ Answered(h, [run |-> task[h].run, chosen |-> Resolved(h)])
  <2> DEFINE run == task[h].run
             chosen == Append(store[run], task[h].choice[2])
             snapshot == [run |-> run, chosen |-> chosen]
  <2>1. run \in 1 .. n /\ task[h].choice[2] \in Candidates
    BY <1>1, <1>4 DEF TaskSound, SaveReview
  <2>2. store[run] \in Seq(Candidates)
    BY <1>1, <2>1
  <2>3. chosen \in Seq(Candidates)
    BY <2>1, <2>2, AppendProperties
  <2>4. store' = [store EXCEPT ![run] = chosen] /\ Answered(h, snapshot)
    BY <1>4 DEF SaveReview, Resolved
  <2> HIDE DEF chosen, run
  <2>5. /\ store' \in Seq(Seq(Candidates)) /\ Len(store') = n
        /\ store'[run] = chosen
    BY <1>1, <2>1, <2>3, <2>4
  <2>6. /\ snapshot \in Snapshot /\ snapshot.run \in 1 .. Len(store')
        /\ snapshot = StateIn(store', snapshot.run)
    BY <1>1, <2>1, <2>3, <2>5 DEF Snapshot, StateIn
  <2> HIDE DEF snapshot
  <2>7. /\ task[h].kind # "list" /\ Len(store') <= MaxRuns
        /\ Len(store) <= Len(store')
    BY <1>1, <1>4, <2>5 DEF SaveReview
  <2>8. QED
    BY <1>1, <1>2, <2>4, <2>5, <2>6, <2>7, AnswerStep
<1>5. CASE /\ task[h].kind = "list"
           /\ Answered(h, [run |-> n, chosen |-> <<>>])
           /\ UNCHANGED store
  <2> DEFINE snapshot == [run |-> n, chosen |-> <<>>]
  <2>1. snapshot \in Snapshot /\ snapshot.run = Len(store')
    BY <1>1, <1>5 DEF Snapshot
  <2> HIDE DEF snapshot
  <2>2. /\ Answered(h, snapshot) /\ store' \in Seq(Seq(Candidates))
        /\ Len(store') <= MaxRuns /\ Len(store') = Len(store) /\ task[h].kind = "list"
    BY <1>1, <1>5 DEF snapshot
  <2>3. QED
    BY <1>1, <1>2, <2>1, <2>2, AnswerStep
<1>6. CASE /\ task[h].kind = "get"
           /\ Answered(h, StateOf(task[h].run))
           /\ UNCHANGED store
  <2> DEFINE snapshot == StateOf(task[h].run)
  <2>1. task[h].run \in 1 .. n
    BY <1>1, <1>6 DEF TaskSound
  <2>2. store[task[h].run] \in Seq(Candidates)
    BY <1>1, <2>1
  <2>3. /\ snapshot \in Snapshot /\ snapshot.run \in 1 .. Len(store')
        /\ snapshot = StateIn(store', snapshot.run)
    BY <1>1, <1>6, <2>1, <2>2 DEF Snapshot, StateOf, StateIn
  <2> HIDE DEF snapshot
  <2>4. /\ Answered(h, snapshot) /\ store' \in Seq(Seq(Candidates))
        /\ Len(store') <= MaxRuns /\ Len(store') = Len(store) /\ task[h].kind # "list"
    BY <1>1, <1>6 DEF snapshot
  <2>5. QED
    BY <1>1, <1>2, <2>3, <2>4, AnswerStep
<1>7. QED
  BY <1>3, <1>4, <1>5, <1>6 DEF Serve

\* Given up or not, a request leaves a database of runs behind.
LEMMA SavedStore ==
    ASSUME PageInv, NEW h \in Handlers, task[h].at \in {"asked", "abandoned"},
           SaveNewRun(h) \/ SaveReview(h)
    PROVE  /\ store' \in Seq(Seq(Candidates))
           /\ Len(store) <= Len(store') /\ Len(store') <= MaxRuns
<1>1. /\ store \in Seq(Seq(Candidates)) /\ Len(store) \in Nat /\ Len(store) <= MaxRuns
      /\ TaskSound(task[h], Len(store)) /\ MaxRuns \in Nat
  BY PageAssumption DEF PageInv, Shape
<1>2. CASE SaveNewRun(h)
  <2>1. store' = Append(store, <<>>) /\ Len(store) < MaxRuns /\ <<>> \in Seq(Candidates)
    BY <1>2 DEF SaveNewRun
  <2>2. store' \in Seq(Seq(Candidates)) /\ Len(store') = Len(store) + 1
    BY <1>1, <2>1, AppendProperties
  <2>3. QED
    BY <1>1, <2>1, <2>2
<1>3. CASE SaveReview(h)
  <2> DEFINE chosen == Resolved(h)
  <2>1. task[h].run \in 1 .. Len(store) /\ task[h].choice[2] \in Candidates
    BY <1>1, <1>3 DEF TaskSound, SaveReview
  <2>2. store[task[h].run] \in Seq(Candidates)
    BY <1>1, <2>1
  <2>3. chosen \in Seq(Candidates)
    BY <2>1, <2>2, AppendProperties DEF Resolved
  <2>4. store' = [store EXCEPT ![task[h].run] = chosen]
    BY <1>3 DEF SaveReview
  <2> HIDE DEF chosen
  <2>5. QED
    BY <1>1, <2>1, <2>3, <2>4
<1>4. QED
  BY <1>2, <1>3

LEMMA ServeLateStep ==
    ASSUME PageInv, PatientInv, NEW h \in Handlers, ServeLate(h)
    PROVE  PageInv' /\ PatientInv'
<1>1. /\ task[h].at = "abandoned" /\ task[h] # Idle
      /\ SaveNewRun(h) \/ SaveReview(h)
      /\ task' = [task EXCEPT ![h] = Idle]
      /\ UNCHANGED <<state_run, panels, audit, gate, run_enabled, disabled,
                     notice, clicks, hasty>>
  BY IdleIsTask DEF ServeLate, Abandoned
<1>2. Idle \in Task /\ Idle.kind = "none" /\ Idle.at = "idle"
  BY IdleIsTask
<1>3. /\ store' \in Seq(Seq(Candidates))
      /\ Len(store') >= Len(store) /\ Len(store') <= MaxRuns
  BY <1>1, SavedStore DEF PageInv, Shape
<1>4. Shape'
  <2>1. panels \in Snapshot /\ panels.run <= Len(store) /\ Len(store) \in Nat
    BY DEF PageInv, Shape
  <2>2. panels.run \in Nat
    BY <2>1, PageAssumption DEF Snapshot
  <2>3. panels'.run <= Len(store')
    BY <1>1, <1>3, <2>1, <2>2
  <2>4. QED
    BY <1>1, <1>3, <2>3 DEF PageInv, Shape
<1>5. TaskSound(Idle, Len(store')) /\ ~Creating(Idle)
  BY <1>2 DEF TaskSound, Creating
<1>6. PageInv'
  BY <1>1, <1>2, <1>3, <1>4, <1>5, PageStep
<1>7. hasty' = hasty
  BY <1>1
<1>8. ~hasty' => ~hasty /\ \A f \in Handlers : f # h => task[f] = Idle
  BY <1>1, <1>7, Alone
<1>9. TaskCurrent(Idle, store', panels', notice')
  BY <1>2 DEF TaskCurrent
<1>10. ~hasty' => notice' = "error"
  BY <1>1, <1>7 DEF PatientInv, TaskCurrent
<1>11. PatientInv'
  BY <1>1, <1>2, <1>8, <1>9, <1>10, PatientStep
<1>12. QED
  BY <1>6, <1>11

LEMMA ServeProofStep ==
    ASSUME PageInv, PatientInv, NEW h \in Handlers, ServeProof(h)
    PROVE  PageInv' /\ PatientInv'
<1> DEFINE proof == StateOf(task[h].run)
           e == [task[h] EXCEPT !.exported = proof]
           g == [task[h] EXCEPT !.gated = proof]
<1>1. /\ task \in [Handlers -> Task] /\ task[h] \in Task
      /\ TaskSound(task[h], Len(store)) /\ task[h].at = "proving" /\ task[h] # Idle
  BY IdleIsTask DEF PageInv, ServeProof
<1>2. /\ UNCHANGED <<store, state_run, panels, audit, gate, run_enabled, disabled,
                     notice, clicks, hasty>>
      /\ task' = [task EXCEPT ![h] = e] \/ task' = [task EXCEPT ![h] = g]
  BY <1>1 DEF ServeProof
<1>3. task[h].run \in 1 .. Len(store)
  BY <1>1 DEF TaskSound
<1>4. proof \in Snapshot
  <2>1. store[task[h].run] \in Seq(Candidates) /\ task[h].run \in 0 .. MaxRuns
    BY <1>1, <1>3 DEF PageInv, Shape, Task
  <2>2. QED
    BY <2>1 DEF StateOf, Snapshot
<1> HIDE DEF proof
<1>5. PICK t \in Task :
        /\ task' = [task EXCEPT ![h] = t]
        /\ t.at = "proving" /\ t.kind = task[h].kind /\ t.run = task[h].run
        /\ t.exported \in {proof, task[h].exported} /\ t.gated \in {proof, task[h].gated}
  <2>1. /\ e \in Task /\ e.at = "proving" /\ e.kind = task[h].kind /\ e.run = task[h].run
        /\ e.exported = proof /\ e.gated = task[h].gated
    BY <1>1, <1>4 DEF Task
  <2>2. /\ g \in Task /\ g.at = "proving" /\ g.kind = task[h].kind /\ g.run = task[h].run
        /\ g.exported = task[h].exported /\ g.gated = proof
    BY <1>1, <1>4 DEF Task
  <2> HIDE DEF e, g
  <2>3. QED
    BY <1>2, <2>1, <2>2
<1>6. TaskSound(t, Len(store'))
  BY <1>2, <1>3, <1>5 DEF TaskSound
<1>7. /\ Shape' /\ run_enabled' = run_enabled
      /\ Len(store') = Len(store) /\ Len(store') >= Len(store)
      /\ Len(store) \in Nat
  BY <1>2 DEF PageInv, Shape
<1>8. Creating(t) => ~run_enabled' /\ (Creating(task[h]) \/ run_enabled)
  BY <1>1, <1>5, <1>7 DEF PageInv, Creating
<1>9. PageInv'
  BY <1>5, <1>6, <1>7, <1>8, PageStep
<1>10. hasty' = hasty
  BY <1>2
<1>11. ~hasty' => ~hasty /\ \A f \in Handlers : f # h => task[f] = Idle
  BY <1>1, <1>10, Alone
<1>12. ASSUME ~hasty'
       PROVE  TaskCurrent(t, store', panels', notice')
  <2>1. TaskCurrent(task[h], store, panels, notice)
    BY <1>10, <1>12 DEF PatientInv
  <2>2. proof = panels
    BY <1>1, <2>1 DEF TaskCurrent, StateOf, StateIn, proof
  <2>3. QED
    BY <1>1, <1>2, <1>5, <2>1, <2>2 DEF TaskCurrent
<1>13. t # Idle
  BY <1>5, IdleIsTask
<1>14. PatientInv'
  BY <1>5, <1>11, <1>12, <1>13, PatientStep
<1>15. QED
  BY <1>9, <1>14

-----------------------------------------------------------------------------
(* The page goes on.                                                       *)

LEMMA ReceiveListStep ==
    ASSUME PageInv, PatientInv, NEW h \in Handlers, ReceiveList(h)
    PROVE  PageInv' /\ PatientInv'
<1> DEFINE run == task[h].answer.run
           t == IF run = 0 THEN Idle ELSE Asking("get", run, <<>>)
<1>1. /\ task[h] \in Task /\ TaskSound(task[h], Len(store)) /\ task[h] # Idle
      /\ task[h].at = "answered" /\ task[h].kind = "list"
      /\ Len(store) \in Nat /\ Len(store) <= MaxRuns /\ MaxRuns \in Nat
  BY IdleIsTask, PageAssumption DEF PageInv, Shape, ReceiveList
<1>2. /\ task' = [task EXCEPT ![h] = t]
      /\ UNCHANGED <<store, state_run, panels, audit, gate, run_enabled, disabled,
                     notice, clicks, hasty>>
  BY DEF ReceiveList
<1>3. run \in 0 .. Len(store) /\ run \in 0 .. MaxRuns
  BY <1>1 DEF TaskSound
<1> HIDE DEF run
<1>4. /\ t \in Task /\ t.kind # "create" /\ t.kind # "review" /\ TaskSound(t, Len(store))
      /\ t.at \in {"idle", "asked"} /\ (t = Idle => run = 0)
  <2>1. CASE run = 0
    <3>1. t = Idle
      BY <2>1
    <3>2. QED
      BY <2>1, <3>1, IdleIsTask DEF TaskSound
  <2>2. CASE run # 0
    <3>1. t = Asking("get", run, <<>>)
      BY <2>2
    <3> HIDE DEF t
    <3>2. /\ t \in Task /\ t # Idle /\ t.kind = "get" /\ t.at = "asked" /\ t.run = run
          /\ t.exported = Nothing /\ t.gated = Nothing
      BY <1>3, <3>1, AskingIs
    <3>3. run \in 1 .. Len(store)
      BY <1>1, <1>3, <2>2
    <3>4. QED
      BY <2>2, <3>2, <3>3 DEF TaskSound
  <2>3. QED
    BY <2>1, <2>2
<1> HIDE DEF t
<1>5. /\ Shape' /\ run_enabled' = run_enabled
      /\ Len(store') = Len(store) /\ Len(store') >= Len(store)
      /\ Len(store) \in Nat
  BY <1>2 DEF PageInv, Shape
<1>6. TaskSound(t, Len(store'))
  BY <1>4, <1>5
<1>7. PageInv'
  <2>1. /\ task' = [task EXCEPT ![h] = t] /\ t \in Task
        /\ run_enabled' => run_enabled \/ Creating(task[h])
        /\ Creating(t) =>
                ~run_enabled' /\ (Creating(task[h]) \/ run_enabled)
    BY <1>2, <1>4, <1>5 DEF Creating
  <2>2. QED
    BY ONLY PageInv, h \in Handlers, <1>5, <1>6, <2>1, PageStep
<1>8. hasty' = hasty
  BY <1>2
<1>9. ~hasty' => ~hasty /\ \A f \in Handlers : f # h => task[f] = Idle
  BY <1>1, <1>8, Alone
<1>10. TaskCurrent(t, store', panels', notice')
  BY <1>4 DEF TaskCurrent
<1>11. ASSUME ~hasty', t = Idle
       PROVE  store' = <<>>
  <2>1. TaskCurrent(task[h], store, panels, notice)
    BY <1>8, <1>11 DEF PatientInv
  <2>2. Len(store) = 0 /\ store \in Seq(Seq(Candidates))
    BY <1>1, <1>4, <1>11, <2>1 DEF TaskCurrent, run, PageInv, Shape
  <2>3. QED
    BY <1>2, <2>2
<1>12. PatientInv'
  BY <1>2, <1>4, <1>9, <1>10, <1>11, PatientStep
<1>13. QED
  BY <1>7, <1>12

LEMMA RenderStep ==
    ASSUME PageInv, PatientInv, NEW h \in Handlers, Render(h)
    PROVE  PageInv' /\ PatientInv'
<1> DEFINE answer == task[h].answer
           t == [task[h] EXCEPT !.at = "proving", !.run = answer.run]
<1>1. /\ task \in [Handlers -> Task] /\ task[h] \in Task
      /\ TaskSound(task[h], Len(store)) /\ task[h] # Idle
      /\ task[h].at = "answered" /\ task[h].kind # "list"
      /\ Len(store) \in Nat
  BY IdleIsTask DEF PageInv, Shape, Render
<1>2. /\ task' = [task EXCEPT ![h] = t]
      /\ state_run' = answer /\ panels' = answer /\ disabled' = {}
      /\ UNCHANGED <<store, audit, gate, run_enabled, notice, clicks, hasty>>
  BY <1>1 DEF Render, Remember
<1>3. answer \in Snapshot /\ answer.run \in 1 .. Len(store) /\ answer.run \in 0 .. MaxRuns
  BY <1>1 DEF TaskSound, Task, Snapshot
<1>4. /\ t \in Task /\ t.at = "proving" /\ t.run = answer.run /\ t.kind = task[h].kind
      /\ t.exported = Nothing /\ t.gated = Nothing
  BY <1>1, <1>3 DEF Task, TaskSound
<1> HIDE DEF t, answer
<1>5. /\ Shape' /\ run_enabled' = run_enabled
      /\ Len(store') = Len(store) /\ Len(store') >= Len(store)
      /\ Len(store) \in Nat
  BY <1>2, <1>3 DEF PageInv, Shape
<1>6. TaskSound(t, Len(store'))
  BY <1>3, <1>4, <1>5 DEF TaskSound
<1>7. Creating(t) => ~run_enabled' /\ (Creating(task[h]) \/ run_enabled)
  BY <1>1, <1>4, <1>5 DEF PageInv, Creating
<1>8. PageInv'
  <2>1. /\ task' = [task EXCEPT ![h] = t] /\ t \in Task
        /\ run_enabled' => run_enabled \/ Creating(task[h])
        /\ Creating(t) =>
                ~run_enabled' /\ (Creating(task[h]) \/ run_enabled)
    BY <1>2, <1>4, <1>5, <1>7
  <2>2. QED
    BY ONLY PageInv, h \in Handlers, <1>5, <1>6, <2>1, PageStep
<1>9. hasty' = hasty
  BY <1>2
<1>10. ~hasty' => ~hasty /\ \A f \in Handlers : f # h => task[f] = Idle
  BY <1>1, <1>9, Alone
<1>11. ASSUME ~hasty'
       PROVE  TaskCurrent(t, store', panels', notice')
  <2>1. TaskCurrent(task[h], store, panels, notice)
    BY <1>9, <1>11 DEF PatientInv
  <2>2. panels' = StateIn(store', t.run)
    BY <1>1, <1>2, <1>4, <2>1 DEF TaskCurrent, answer
  <2>3. QED
    BY <1>4, <2>2 DEF TaskCurrent
<1>12. t # Idle
  BY <1>4, IdleIsTask
<1>13. PatientInv'
  BY <1>2, <1>4, <1>10, <1>11, <1>12, PatientStep
<1>14. QED
  BY <1>8, <1>13

LEMMA RenderProofStep ==
    ASSUME PageInv, PatientInv, NEW h \in Handlers, RenderProof(h)
    PROVE  PageInv' /\ PatientInv'
<1>1. /\ task[h] \in Task /\ TaskSound(task[h], Len(store)) /\ task[h] # Idle
      /\ task[h].at = "proving"
      /\ task[h].exported # Nothing /\ task[h].gated # Nothing
  BY IdleIsTask DEF PageInv, RenderProof, BothProofs
<1>2. /\ task' = [task EXCEPT ![h] = Idle]
      /\ audit' = task[h].exported /\ gate' = task[h].gated
      /\ notice' = IF task[h].kind = "get" THEN notice ELSE "done"
      /\ run_enabled' = (run_enabled \/ task[h].kind = "create")
      /\ UNCHANGED <<store, state_run, panels, disabled, clicks, hasty>>
  BY DEF RenderProof, ReturnButton
<1>3. Idle \in Task /\ Idle.kind = "none" /\ Idle.at = "idle"
  BY IdleIsTask
<1>4. audit' \in Snapshot /\ gate' \in Snapshot
  BY <1>1, <1>2 DEF Task
<1>5. /\ Shape'
      /\ Len(store') = Len(store) /\ Len(store') >= Len(store)
      /\ Len(store) \in Nat
  BY <1>2, <1>4 DEF PageInv, Shape
<1>6. TaskSound(Idle, Len(store')) /\ ~Creating(Idle)
  BY <1>3 DEF TaskSound, Creating
<1>7. run_enabled' => run_enabled \/ Creating(task[h])
  <2>1. task[h].kind = "create" => Creating(task[h])
    BY <1>1 DEF Creating
  <2>2. QED
    BY <1>2, <2>1, Zenon
<1>8. PageInv'
  BY <1>2, <1>3, <1>5, <1>6, <1>7, PageStep
<1>9. hasty' = hasty
  BY <1>2
<1>10. ~hasty' => ~hasty /\ \A f \in Handlers : f # h => task[f] = Idle
  BY <1>1, <1>9, Alone
<1>11. TaskCurrent(Idle, store', panels', notice')
  BY <1>3 DEF TaskCurrent
<1>12. ASSUME ~hasty'
       PROVE  Current'
  <2>1. TaskCurrent(task[h], store, panels, notice)
    BY <1>9, <1>12 DEF PatientInv
  <2>2. /\ panels = StateIn(store, task[h].run)
        /\ task[h].exported = panels /\ task[h].gated = panels
    BY <1>1, <2>1 DEF TaskCurrent
  <2>3. task[h].run \in 1 .. Len(store) /\ state_run = panels
    BY <1>1 DEF TaskSound, PageInv, Shape
  <2>4. panels.run = task[h].run /\ panels.run # 0
    BY <2>2, <2>3 DEF StateIn
  <2>5. panels = StateOf(panels.run)
    BY <2>2, <2>4 DEF StateOf, StateIn
  <2>6. /\ state_run' = panels /\ panels' = panels /\ audit' = panels /\ gate' = panels
        /\ store' = store
    BY <1>2, <2>2, <2>3
  <2>7. QED
    BY <2>4, <2>5, <2>6 DEF Current, StateOf
<1>13. PatientInv'
  BY <1>2, <1>3, <1>10, <1>11, <1>12, PatientStep
<1>14. QED
  BY <1>8, <1>13

\* What is left of a handler that fails: nothing, or a request given up.
LEMMA FailTask ==
    ASSUME PageInv, NEW h \in Handlers, Fail(h)
    PROVE  \E t \in Task :
            /\ task' = [task EXCEPT ![h] = t]
            /\ ~Creating(t) /\ t.at \in {"idle", "abandoned"}
            /\ TaskSound(t, Len(store))
<1>1. task \in [Handlers -> Task] /\ task[h] \in Task /\ TaskSound(task[h], Len(store))
  BY DEF PageInv
<1>2. CASE task' = [task EXCEPT ![h] = Idle]
  <2>1. TaskSound(Idle, Len(store)) /\ ~Creating(Idle)
    BY IdleIsTask DEF TaskSound, Creating
  <2>2. QED
    BY <1>2, <2>1, IdleIsTask
<1>3. CASE task[h].at = "asked" /\ task' = [task EXCEPT ![h].at = "abandoned"]
  <2> DEFINE t == [task[h] EXCEPT !.at = "abandoned"]
  <2>1. /\ t \in Task /\ t.at = "abandoned" /\ t.kind = task[h].kind
        /\ t.run = task[h].run /\ t.choice = task[h].choice
    BY <1>1 DEF Task
  <2>2. task' = [task EXCEPT ![h] = t]
    BY <1>1, <1>3
  <2> HIDE DEF t
  <2>3. TaskSound(t, Len(store)) /\ ~Creating(t)
    BY <1>1, <1>3, <2>1 DEF TaskSound, Creating
  <2>4. QED
    BY <2>1, <2>2, <2>3
<1>4. QED
  BY <1>2, <1>3 DEF Fail

LEMMA FailStep ==
    ASSUME PageInv, PatientInv, NEW h \in Handlers, Fail(h)
    PROVE  PageInv' /\ PatientInv'
<1>1. task[h] # Idle /\ task[h].at # "abandoned"
  BY DEF Fail, Abandoned
<1>2. /\ notice' = "error" /\ disabled' = disabled \ {h}
      /\ run_enabled' = (run_enabled \/ task[h].kind = "create")
      /\ UNCHANGED <<store, state_run, panels, audit, gate, clicks, hasty>>
  BY DEF Fail, ReturnButton
<1>3. PICK t \in Task :
        /\ task' = [task EXCEPT ![h] = t]
        /\ ~Creating(t) /\ t.at \in {"idle", "abandoned"}
        /\ TaskSound(t, Len(store))
  BY FailTask
<1>4. /\ Shape'
      /\ Len(store') = Len(store) /\ Len(store') >= Len(store)
      /\ Len(store) \in Nat
  BY <1>2 DEF PageInv, Shape
<1>5. TaskSound(t, Len(store'))
  BY <1>3, <1>4
<1>6. run_enabled' => run_enabled \/ Creating(task[h])
  BY <1>1, <1>2 DEF Creating
<1>7. PageInv'
  BY <1>3, <1>4, <1>5, <1>6, PageStep
<1>8. hasty' = hasty
  BY <1>2
<1>9. ~hasty' => ~hasty /\ \A f \in Handlers : f # h => task[f] = Idle
  BY <1>1, <1>8, Alone
<1>10. TaskCurrent(t, store', panels', notice')
  BY <1>2, <1>3 DEF TaskCurrent
<1>11. PatientInv'
  BY <1>2, <1>3, <1>9, <1>10, PatientStep
<1>12. QED
  BY <1>7, <1>11
-----------------------------------------------------------------------------
(* Every step, and what it all comes to.                                   *)

LEMMA PageStarts == Init => PageInv /\ PatientInv
<1> SUFFICES ASSUME Init PROVE PageInv /\ PatientInv
  OBVIOUS
<1> DEFINE asking == Asking("list", 0, <<>>)
<1>1. /\ asking \in Task /\ asking # Idle /\ asking.kind = "list" /\ asking.at = "asked"
      /\ asking.exported = Nothing /\ asking.gated = Nothing
  BY PageAssumption, AskingIs
<1>2. \A h \in Handlers : task[h] = IF h = Loader THEN asking ELSE Idle
  BY DEF Init
<1>3. task \in [Handlers -> Task]
  BY <1>1, IdleIsTask DEF Init
<1> HIDE DEF asking
<1>4. Shape
  <2>1. store \in Seq(Seq(Candidates)) /\ Len(store) <= MaxRuns /\ Len(store) \in Nat
    BY PageAssumption DEF Init
  <2>2. Nothing \in Snapshot /\ Nothing.run = 0
    BY IdleIsTask DEF Nothing
  <2>3. /\ panels = Nothing /\ state_run = Nothing /\ audit = Nothing /\ gate = Nothing
        /\ run_enabled = TRUE /\ disabled = {} /\ notice = "none" /\ clicks = 0
        /\ hasty = FALSE
    BY DEF Init
  <2>4. clicks \in 0 .. MaxClicks
    BY <2>3, PageAssumption
  <2>5. panels \in Snapshot /\ audit \in Snapshot /\ gate \in Snapshot
    BY <2>2, <2>3
  <2>6. panels.run <= Len(store)
    BY <2>1, <2>2, <2>3
  <2>7. state_run = panels
    BY <2>3
  <2>8. run_enabled \in BOOLEAN /\ hasty \in BOOLEAN
    BY <2>3, Zenon
  <2>9. disabled \subseteq Handlers /\ notice \in {"none", "done", "error"}
    BY <2>3
  <2>10. QED
    BY <2>1, <2>4, <2>5, <2>6, <2>7, <2>8, <2>9, Zenon DEF Shape
<1>5. \A h \in Handlers : TaskSound(task[h], Len(store))
  BY <1>1, <1>2, IdleIsTask DEF TaskSound
<1>6. \A h \in Handlers : ~Creating(task[h])
  BY <1>1, <1>2, IdleIsTask DEF Creating
<1>7. PageInv
  BY <1>3, <1>4, <1>5, <1>6 DEF PageInv
<1>8. \A h, g \in Handlers : task[h] # Idle /\ task[g] # Idle => h = g
  BY <1>2
<1>9. \A h \in Handlers : TaskCurrent(task[h], store, panels, notice)
  BY <1>1, <1>2, IdleIsTask DEF TaskCurrent
<1>10. Busy
  BY <1>1, <1>2, PageAssumption DEF Busy
<1>11. QED
  BY <1>7, <1>8, <1>9, <1>10 DEF PatientInv

LEMMA PageKept == PageInv /\ PatientInv /\ [Next]_vars => PageInv' /\ PatientInv'
<1> SUFFICES ASSUME PageInv, PatientInv, [Next]_vars PROVE PageInv' /\ PatientInv'
  OBVIOUS
<1>1. CASE Next
  BY <1>1, ClickRunStep, ClickReviewStep, ServeStep, ServeLateStep,
     ServeProofStep, ReceiveListStep, RenderStep, RenderProofStep, FailStep DEF Next, Proceed
<1>2. CASE UNCHANGED vars
  <2>1. PageInv'
    BY <1>2 DEF vars, PageInv, Shape
  <2>2. PatientInv'
    BY <1>2 DEF vars, PatientInv, Busy, Current, StateOf
  <2>3. QED
    BY <2>1, <2>2
<1>3. QED
  BY <1>1, <1>2

\* Both invariants hold of every page, however answers overlap.
THEOREM PageInvariance == Spec => [](PageInv /\ PatientInv)
BY PageStarts, PageKept, PTL DEF Spec

\* The page's state keeps its shape, and never names a run that does not exist
\* (app.js state, renderRun).
THEOREM PageTyped == Spec => []TypeOK
<1>1. PageInv /\ PatientInv => TypeOK
  BY DEF PageInv, Shape, TypeOK
<1>2. QED
  BY <1>1, PageInvariance, PTL

\* However many handlers overlap, a review is sent to the run its candidate
\* belongs to (app.js reviewAssertion, renderRun).
THEOREM ReviewsGoToTheirRun == Spec => []ReviewOfItsOwnRun
<1>1. PageInv /\ PatientInv => ReviewOfItsOwnRun
  BY DEF PageInv, TaskSound, ReviewOfItsOwnRun
<1>2. QED
  BY <1>1, PageInvariance, PTL

\* Once the page is at rest, without an error, a user who has waited for every
\* answer sees the present state of one run in every panel (app.js renderRun).
THEOREM PageAtRestIsCurrent == Spec => []QuietPageIsCurrent
<1>1. PageInv /\ PatientInv => QuietPageIsCurrent
  BY DEF PatientInv, Current, QuietPageIsCurrent
<1>2. QED
  BY <1>1, PageInvariance, PTL

\* A user who waits decides a key a second time only after an error has been
\* told of (app.js:253).
THEOREM NoHiddenSecondDecision == Spec => SecondDecisionOnlyAfterError
<1>1. PageInv /\ PatientInv /\ [Next]_vars =>
        [\A run \in DOMAIN store :
            ~hasty /\ store'[run] # store[run] /\ notice # "error" =>
                KeyOf[store'[run][Len(store'[run])]] \notin Decided(StateOf(run))]_vars
  <2>1. SUFFICES ASSUME PageInv, PatientInv, [Next]_vars, NEW run \in DOMAIN store,
                        ~hasty, store'[run] # store[run], notice # "error"
                 PROVE  KeyOf[store'[run][Len(store'[run])]] \notin Decided(StateOf(run))
    OBVIOUS
  <2>2. store' # store
    BY <2>1
  <2>3. PICK h \in Handlers : Serve(h)
    <3>1. ASSUME NEW h \in Handlers, ServeLate(h)
          PROVE  FALSE
      BY <2>1, <3>1 DEF ServeLate, Abandoned, PatientInv, TaskCurrent
    <3>2. QED
      BY <2>1, <2>2, <3>1 DEF Next, vars, Proceed, ClickRun, ClickReview, ServeProof,
          ReceiveList, Render, RenderProof, Fail
  <2>4. /\ store \in Seq(Seq(Candidates)) /\ Len(store) \in Nat
        /\ TaskSound(task[h], Len(store)) /\ task[h].at = "asked"
    BY <2>1, <2>3 DEF PageInv, Shape, Serve
  <2>5. SaveReview(h) /\ task[h].kind = "review"
    <3>1. ASSUME store' = Append(store, <<>>)
          PROVE  FALSE
      BY <2>1, <2>4, <3>1
    <3>2. QED
      BY <2>2, <2>3, <3>1 DEF Serve, SaveNewRun, SaveReview
  <2> DEFINE c == task[h].choice[2]
             chosen == Append(store[task[h].run], c)
  <2>6. store' = [store EXCEPT ![task[h].run] = chosen]
    BY <2>5 DEF SaveReview, Resolved
  <2>7. task[h].run \in DOMAIN store /\ c \in Candidates
    BY <2>4, <2>5 DEF TaskSound
  <2>8. run = task[h].run /\ store'[run] = chosen
    BY <2>1, <2>4, <2>6, <2>7
  <2>9. store[run] \in Seq(Candidates)
    BY <2>1, <2>4
  <2>10. chosen[Len(chosen)] = c
    BY <2>7, <2>8, <2>9, AppendProperties
  <2>11. KeyOf[c] \notin Decided(StateIn(store, task[h].run))
    BY <2>1, <2>4, <2>5 DEF PatientInv, TaskCurrent
  <2>12. StateIn(store, run) = StateOf(run)
    BY DEF StateIn, StateOf
  <2> HIDE DEF c, chosen
  <2>13. QED
    BY <2>8, <2>10, <2>11, <2>12
<1>2. QED
  BY <1>1, PageInvariance, PTL DEF Spec, SecondDecisionOnlyAfterError

\* To a user who has waited for every answer the gate is blocked while reviews are
\* open (docs/DEMO.md:42), unless the page has just told of an error: a request that
\* fails is what leaves an old gate beside a new list (app.js renderRun).
THEOREM GateBlockedUnlessError ==
    Spec => [](~hasty /\ notice # "error" => GateBlockedBeforeReview)
<1>1. ASSUME PageInv, PatientInv, ~hasty, notice # "error", ~Busy,
             OpenCandidates(panels) # {}
      PROVE  ~Ready(gate)
  <2>1. panels.run # 0 /\ panels.run \in Nat /\ panels.run <= Len(store)
        /\ store \in Seq(Seq(Candidates))
    BY <1>1, PageAssumption DEF OpenCandidates, PageInv, Shape, Snapshot
  <2>2. store # <<>>
    BY <2>1
  <2>3. Current
    BY <1>1, <2>2 DEF PatientInv
  <2>4. gate = panels
    BY <2>3 DEF Current
  <2>5. QED
    BY <1>1, <2>4 DEF Ready
<1>2. PageInv /\ PatientInv => (~hasty /\ notice # "error" => GateBlockedBeforeReview)
  BY <1>1 DEF GateBlockedBeforeReview
<1>3. QED
  BY <1>2, PageInvariance, PTL
-----------------------------------------------------------------------------
(* Dead buttons.                                                           *)

\* The buttons that stand disabled are those of handlers that still await their
\* answer: no handler comes to rest and leaves one behind.
DeadButtonsAwaited ==
    /\ ~run_enabled => \E h \in Handlers : Creating(task[h])
    /\ \A h \in disabled : task[h].kind = "review" /\ task[h].at \in {"asked", "answered"}

LEMMA ButtonStep ==
    ASSUME PageInv, DeadButtonsAwaited, NEW h \in Handlers, NEW t,
           task' = [task EXCEPT ![h] = t],
           ~run_enabled' => Creating(t) \/ (~run_enabled /\ ~Creating(task[h])),
           \A g \in disabled' :
                \/ g = h /\ t.kind = "review" /\ t.at \in {"asked", "answered"}
                \/ g # h /\ g \in disabled
    PROVE  DeadButtonsAwaited'
<1>1. task'[h] = t /\ \A g \in Handlers : g # h => task'[g] = task[g]
  BY DEF PageInv
<1>2. ASSUME ~run_enabled'
      PROVE  \E g \in Handlers : Creating(task'[g])
  <2>1. CASE Creating(t)
    BY <1>1, <2>1
  <2>2. CASE ~run_enabled /\ ~Creating(task[h])
    BY <1>1, <2>2 DEF DeadButtonsAwaited
  <2>3. QED
    BY <1>2, <2>1, <2>2
<1>3. ASSUME NEW g \in disabled'
      PROVE  task'[g].kind = "review" /\ task'[g].at \in {"asked", "answered"}
  <2>1. disabled \subseteq Handlers
    BY DEF PageInv, Shape
  <2>2. QED
    BY <1>1, <1>3, <2>1 DEF DeadButtonsAwaited
<1>4. QED
  BY <1>2, <1>3 DEF DeadButtonsAwaited

LEMMA ButtonsKept == PageInv /\ DeadButtonsAwaited /\ [Next]_vars => DeadButtonsAwaited'
<1> SUFFICES ASSUME PageInv, DeadButtonsAwaited, [Next]_vars PROVE DeadButtonsAwaited'
  OBVIOUS
<1>0. /\ task \in [Handlers -> Task] /\ disabled \subseteq Handlers
      /\ Idle.kind = "none" /\ Idle.at = "idle"
  BY IdleIsTask DEF PageInv, Shape
<1>1. ASSUME NEW h \in Handlers, ClickRun(h) PROVE DeadButtonsAwaited'
  <2> DEFINE t == Asking("create", 0, <<>>)
  <2>1. Creating(t)
    BY PageAssumption, AskingIs DEF Creating
  <2>2. /\ task' = [task EXCEPT ![h] = t] /\ disabled' = disabled /\ task[h] = Idle
    BY <1>1 DEF ClickRun, MayClick
  <2> HIDE DEF t
  <2>3. h \notin disabled
    BY <1>0, <2>2 DEF DeadButtonsAwaited
  <2>4. QED
    BY <2>1, <2>2, <2>3, ButtonStep
<1>2. ASSUME NEW h \in Handlers, ClickReview(h) PROVE DeadButtonsAwaited'
  <2>1. PICK c \in OpenCandidates(panels) :
            task' = [task EXCEPT ![h] =
                        Asking("review", state_run.run, <<panels.run, c>>)]
    BY <1>2 DEF ClickReview
  <2>2. /\ disabled' = disabled \cup {h} /\ run_enabled' = run_enabled /\ task[h] = Idle
    BY <1>2 DEF ClickReview, MayClick
  <2> DEFINE t == Asking("review", state_run.run, <<panels.run, c>>)
  <2>3. t.kind = "review" /\ t.at = "asked"
    <3>1. state_run.run \in 0 .. MaxRuns /\ panels.run \in 1 .. MaxRuns /\ c \in Candidates
      BY <2>1, PageAssumption DEF OpenCandidates, PageInv, Shape, Snapshot
    <3>2. QED
      BY <3>1, AskingIs
  <2> HIDE DEF t
  <2>4. task' = [task EXCEPT ![h] = t]
    BY <2>1 DEF t
  <2>5. ~run_enabled' => Creating(t) \/ (~run_enabled /\ ~Creating(task[h]))
    BY <1>0, <2>2 DEF Creating
  <2>6. \A g \in disabled' :
            \/ g = h /\ t.kind = "review" /\ t.at \in {"asked", "answered"}
            \/ g # h /\ g \in disabled
    BY <2>2, <2>3
  <2>7. QED
    BY <2>4, <2>5, <2>6, ButtonStep
<1>3. ASSUME NEW h \in Handlers, NEW t, task' = [task EXCEPT ![h] = t],
             t.kind = task[h].kind, Creating(task[h]) => Creating(t),
             (task[h].at = "asked" /\ t.at = "answered") \/ h \notin disabled',
             disabled' \subseteq disabled, run_enabled' = run_enabled
      PROVE  DeadButtonsAwaited'
  <2>1. ~run_enabled' => Creating(t) \/ (~run_enabled /\ ~Creating(task[h]))
    BY <1>3
  <2>2. \A g \in disabled' :
            \/ g = h /\ t.kind = "review" /\ t.at \in {"asked", "answered"}
            \/ g # h /\ g \in disabled
    BY <1>3 DEF DeadButtonsAwaited
  <2>3. QED
    BY <1>3, <2>1, <2>2, ButtonStep
<1>4. ASSUME NEW h \in Handlers, Serve(h) PROVE DeadButtonsAwaited'
  <2>1. PICK snapshot : Answered(h, snapshot)
    BY <1>4 DEF Serve
  <2> DEFINE t == [task[h] EXCEPT !.at = "answered", !.answer = snapshot]
  <2>2. task[h] \in Task
    BY <1>0
  <2>3. /\ task' = [task EXCEPT ![h] = t] /\ t.kind = task[h].kind /\ t.at = "answered"
        /\ task[h].at = "asked" /\ disabled' = disabled /\ run_enabled' = run_enabled
    BY <1>0, <1>4, <2>1, <2>2 DEF Serve, Answered, Task
  <2> HIDE DEF t
  <2>4. Creating(task[h]) => Creating(t)
    BY <2>3 DEF Creating
  <2>5. QED
    BY <1>3, <2>3, <2>4
<1>5. ASSUME NEW h \in Handlers, ServeProof(h) PROVE DeadButtonsAwaited'
  <2>1. PICK t \in {[task[h] EXCEPT !.exported = StateOf(task[h].run)],
                    [task[h] EXCEPT !.gated = StateOf(task[h].run)]} :
            task' = [task EXCEPT ![h] = t]
    BY <1>0, <1>5 DEF ServeProof
  <2>2. task[h] \in Task /\ task[h].at = "proving"
    BY <1>0, <1>5 DEF ServeProof
  <2>3. t.kind = task[h].kind /\ (Creating(task[h]) => Creating(t))
    BY <2>1, <2>2 DEF Task, Creating
  <2>4. h \notin disabled /\ disabled' = disabled /\ run_enabled' = run_enabled
    BY <1>5, <2>2 DEF ServeProof, DeadButtonsAwaited
  <2>5. QED
    BY <1>3, <2>1, <2>3, <2>4
<1>6. ASSUME NEW h \in Handlers, ReceiveList(h) PROVE DeadButtonsAwaited'
  <2>1. PICK t : task' = [task EXCEPT ![h] = t]
    BY <1>6 DEF ReceiveList
  <2>2. task[h].kind = "list" /\ disabled' = disabled /\ run_enabled' = run_enabled
    BY <1>6 DEF ReceiveList
  <2>3. h \notin disabled
    BY <2>2 DEF DeadButtonsAwaited
  <2>4. ~run_enabled' => Creating(t) \/ (~run_enabled /\ ~Creating(task[h]))
    BY <2>2 DEF Creating
  <2>5. QED
    BY <2>1, <2>2, <2>3, <2>4, ButtonStep
<1>7. ASSUME NEW h \in Handlers, Render(h) PROVE DeadButtonsAwaited'
  <2> DEFINE t == [task[h] EXCEPT !.at = "proving", !.run = task[h].answer.run]
  <2>1. task[h] \in Task
    BY <1>0
  <2>2. /\ task' = [task EXCEPT ![h] = t] /\ t.kind = task[h].kind
        /\ disabled' = {} /\ run_enabled' = run_enabled
        /\ (Creating(task[h]) => Creating(t))
    BY <1>0, <1>7, <2>1 DEF Render, Task, Creating
  <2> HIDE DEF t
  <2>3. QED
    BY <1>3, <2>2
<1>8. ASSUME NEW h \in Handlers, RenderProof(h) \/ Fail(h) PROVE DeadButtonsAwaited'
  <2>1. PICK t : task' = [task EXCEPT ![h] = t]
    <3>1. CASE RenderProof(h)
      BY <3>1 DEF RenderProof
    <3>2. CASE Fail(h)
      BY <3>2, FailTask
    <3>3. QED
      BY <1>8, <3>1, <3>2
  <2>2. disabled' \subseteq disabled /\ h \notin disabled'
    <3>1. CASE RenderProof(h)
      BY <3>1 DEF RenderProof, DeadButtonsAwaited
    <3>2. CASE Fail(h)
      BY <3>2 DEF Fail
    <3>3. QED
      BY <1>8, <3>1, <3>2
  <2>3. ~run_enabled' => ~run_enabled /\ ~Creating(task[h])
    BY <1>8, Zenon DEF ReturnButton, RenderProof, Fail, Creating
  <2>4. QED
    BY <2>1, <2>2, <2>3, ButtonStep
<1>11. ASSUME NEW h \in Handlers, ServeLate(h) PROVE DeadButtonsAwaited'
  <2>1. /\ task' = [task EXCEPT ![h] = Idle] /\ task[h].at = "abandoned"
        /\ disabled' = disabled /\ run_enabled' = run_enabled
    BY <1>11 DEF ServeLate, Abandoned
  <2>2. ~Creating(task[h]) /\ h \notin disabled
    BY <2>1 DEF Creating, DeadButtonsAwaited
  <2>3. QED
    BY <2>1, <2>2, ButtonStep
<1>9. CASE UNCHANGED vars
  BY <1>9 DEF vars, DeadButtonsAwaited
<1>10. QED
  BY <1>1, <1>2, <1>4, <1>5, <1>6, <1>7, <1>8, <1>9, <1>11 DEF Next, Proceed

\* Whatever fails, and in whatever order answers come, a button that stands disabled
\* is waited on by a handler that gives it back (app.js finally and catch): what
\* ButtonsComeBack needs beside fairness.
THEOREM DeadButtonsAreAwaited == Spec => []DeadButtonsAwaited
<1>1. Init => DeadButtonsAwaited
  BY DEF Init, DeadButtonsAwaited
<1>2. QED
  BY <1>1, ButtonsKept, PageInvariance, PTL DEF Spec
=============================================================================

----------------------------- MODULE WebClient -----------------------------
(***************************************************************************)
(* The browser page: web/app.js, over the endpoints of api.py.  The page   *)
(* is one event loop: a step runs from one await to the next.  Requests    *)
(* of one handler overlap those of another, and are served and answered    *)
(* in any order; the service may serve one after the page has given it up. *)
(*                                                                         *)
(* A run is the sequence of candidates its reviewers chose, which is all   *)
(* its panels and its gate are computed from.  Reviews are served one at a *)
(* time here: what overlapping ones do to a run is IntakeService's.        *)
(***************************************************************************)
EXTENDS Integers, Sequences

CONSTANTS
    FactKeys,       \* the keys of a new run that need a review
    Candidates,     \* the assertions that compete for them
    KeyOf,          \* KeyOf[c]: the key c is a candidate for
    Handlers,       \* bound: event handlers under way, and requests given up
                    \* that the service still has, at a time
    Loader,         \* the one that is when the page opens: loadLatestRun
    StoredRuns,     \* the runs there may be when the page opens
    MaxClicks,      \* bound: clicks on either button
    MaxRuns         \* bound: runs in the database

ASSUME PageAssumption ==
    /\ KeyOf \in [Candidates -> FactKeys]
    /\ Loader \in Handlers
    /\ MaxClicks \in Nat
    /\ MaxRuns \in Nat
    /\ StoredRuns \subseteq Seq(Seq(Candidates))
    /\ \A runs \in StoredRuns : Len(runs) <= MaxRuns

VARIABLES
    store,          \* the runs in the database, the newest last
    task,           \* task[h]: what handler h awaits, or Idle
    state_run,      \* state.run
    panels,         \* the run that metrics, reviews, facts and ledger show
    audit,          \* the run that the ledger's badge was computed from
    gate,           \* the run that the gate panel was computed from
    run_enabled,    \* the button "Run trusted intake"
    disabled,       \* handlers whose button stands disabled in the list
    notice,         \* the last toast
    clicks,
    hasty           \* the user has clicked while a request of theirs was
                    \* under way, in the page or, given up, at the service

vars == <<store, task, state_run, panels, audit, gate, run_enabled, disabled,
          notice, clicks, hasty>>

\* A run as some answer described it; run 0 is none.
Snapshot == [run : 0 .. MaxRuns, chosen : Seq(Candidates)]
Nothing == [run |-> 0, chosen |-> <<>>]
StateOf(run) == [run |-> run, chosen |-> store[run]]

Decided(snapshot) == {KeyOf[snapshot.chosen[i]] : i \in DOMAIN snapshot.chosen}

\* Mutant: only the chosen candidate leaves the queue.
UnchosenCandidates(snapshot) ==
    {c \in Candidates : snapshot.run # 0
        /\ \A i \in DOMAIN snapshot.chosen : snapshot.chosen[i] # c}

\* openAssertions: the candidates that have a button.
OpenCandidates(snapshot) ==
    {c \in Candidates : snapshot.run # 0 /\ KeyOf[c] \notin Decided(snapshot)}

\* The gate is READY when the last required key has its fact.
Ready(snapshot) == snapshot.run # 0 /\ OpenCandidates(snapshot) = {}

-----------------------------------------------------------------------------
(* Handlers.  A task is what it asked for, how far the request is, and     *)
(* what has come back.                                                     *)

Idle == [kind |-> "none", at |-> "idle", run |-> 0, choice |-> <<>>,
         answer |-> Nothing, exported |-> Nothing, gated |-> Nothing]

Asking(kind, run, choice) ==
    [Idle EXCEPT !.kind = kind, !.at = "asked", !.run = run, !.choice = choice]

\* The service still has a request whose handler has reported an error.
Abandoned(h) == task[h].at = "abandoned"

Busy == \E h \in Handlers : task[h] # Idle

MayClick(h) ==
    /\ task[h] = Idle
    /\ clicks < MaxClicks

\* createRun, up to its request.
ClickRun(h) ==
    /\ MayClick(h)
    /\ run_enabled
    /\ run_enabled' = FALSE
    /\ task' = [task EXCEPT ![h] = Asking("create", 0, <<>>)]
    /\ clicks' = clicks + 1
    /\ hasty' = (hasty \/ Busy)
    /\ UNCHANGED <<store, state_run, panels, audit, gate, disabled, notice>>

\* reviewAssertion, up to its request: the button names the assertion, state
\* the run.
ClickReview(h) ==
    /\ MayClick(h)
    /\ state_run # Nothing
    /\ \E c \in OpenCandidates(panels) :
        /\ \A i \in disabled : task[i].choice # <<panels.run, c>>
        /\ task' = [task EXCEPT ![h] =
                        Asking("review", state_run.run, <<panels.run, c>>)]
    /\ disabled' = disabled \cup {h}
    /\ clicks' = clicks + 1
    /\ hasty' = (hasty \/ Busy)
    /\ UNCHANGED <<store, state_run, panels, audit, gate, run_enabled, notice>>

-----------------------------------------------------------------------------
(* The service.                                                            *)

Answered(h, snapshot) ==
    task' = [task EXCEPT ![h].at = "answered", ![h].answer = snapshot]

\* create_demo_run.
SaveNewRun(h) ==
    /\ task[h].kind = "create"
    /\ Len(store) < MaxRuns
    /\ store' = Append(store, <<>>)

\* resolve_review.  A choice that is not one of the run's own is refused
\* (service.py:121).
Resolved(h) == Append(store[task[h].run], task[h].choice[2])

SaveReview(h) ==
    /\ task[h].kind = "review"
    /\ task[h].choice[1] = task[h].run
    /\ store' = [store EXCEPT ![task[h].run] = Resolved(h)]

\* Either of them, list_runs or get_run.
Serve(h) ==
    /\ task[h].at = "asked"
    /\ \/ /\ SaveNewRun(h)
          /\ Answered(h, [run |-> Len(store) + 1, chosen |-> <<>>])
       \/ /\ SaveReview(h)
          /\ Answered(h, [run |-> task[h].run, chosen |-> Resolved(h)])
       \/ /\ task[h].kind = "list"
          /\ Answered(h, [run |-> Len(store), chosen |-> <<>>])
          /\ UNCHANGED store
       \/ /\ task[h].kind = "get"
          /\ Answered(h, StateOf(task[h].run))
          /\ UNCHANGED store
    /\ UNCHANGED <<state_run, panels, audit, gate, run_enabled, disabled,
                   notice, clicks, hasty>>

\* A request that the page has given up is served all the same, and answered to
\* nobody.
ServeLate(h) ==
    /\ Abandoned(h)
    /\ SaveNewRun(h) \/ SaveReview(h)
    /\ task' = [task EXCEPT ![h] = Idle]
    /\ UNCHANGED <<state_run, panels, audit, gate, run_enabled, disabled,
                   notice, clicks, hasty>>

\* export_run and get_agent_gate, each for the run that was rendered.
ServeProof(h) ==
    /\ task[h].at = "proving"
    /\ \/ /\ task[h].exported = Nothing
          /\ task' = [task EXCEPT ![h].exported = StateOf(task[h].run)]
       \/ /\ task[h].gated = Nothing
          /\ task' = [task EXCEPT ![h].gated = StateOf(task[h].run)]
    /\ UNCHANGED <<store, state_run, panels, audit, gate, run_enabled,
                   disabled, notice, clicks, hasty>>

-----------------------------------------------------------------------------
(* The answers.                                                            *)

\* Mutant: the first run in hand is kept.
RememberFirst(run) == state_run' = IF state_run = Nothing THEN run ELSE state_run

\* Mutant: only the name of the run is kept.
RememberName(run) == state_run' = [run |-> run.run]

Remember(run) == state_run' = run

\* loadLatestRun goes on from the list to its first run, if there is one.
ReceiveList(h) ==
    /\ task[h].at = "answered"
    /\ task[h].kind = "list"
    /\ task' = [task EXCEPT ![h] =
                    IF task[h].answer.run = 0
                    THEN Idle
                    ELSE Asking("get", task[h].answer.run, <<>>)]
    /\ UNCHANGED <<store, state_run, panels, audit, gate, run_enabled,
                   disabled, notice, clicks, hasty>>

\* renderRun up to its await: the review list is built anew, buttons and all.
Render(h) ==
    /\ task[h].at = "answered"
    /\ task[h].kind # "list"
    /\ Remember(task[h].answer)
    /\ panels' = task[h].answer
    /\ disabled' = {}
    /\ task' = [task EXCEPT ![h].at = "proving", ![h].run = task[h].answer.run]
    /\ UNCHANGED <<store, audit, gate, run_enabled, notice, clicks, hasty>>

\* Mutant: the panels are filled when either answer is in.
EitherProof(h) ==
    task[h].exported # Nothing \/ task[h].gated # Nothing

\* Promise.all.
BothProofs(h) ==
    task[h].exported # Nothing /\ task[h].gated # Nothing

\* Mutant: the button is only given back when there is a run to show.
KeepButton(h) ==
    run_enabled' = \/ run_enabled
                   \/ task[h].kind = "create" /\ task[h].at = "proving"

\* finally.
ReturnButton(h) == run_enabled' = (run_enabled \/ task[h].kind = "create")

\* The rest of renderRun, and of the handler that called it.
RenderProof(h) ==
    /\ task[h].at = "proving"
    /\ BothProofs(h)
    /\ audit' = task[h].exported
    /\ gate' = task[h].gated
    /\ notice' = IF task[h].kind = "get" THEN notice ELSE "done"
    /\ ReturnButton(h)
    /\ task' = [task EXCEPT ![h] = Idle]
    /\ UNCHANGED <<store, state_run, panels, disabled, clicks, hasty>>

\* A request ends in an error: the service never does anything about it, or
\* will do so later, or has done it and the answer is lost; or the run has been
\* rendered already.  The handler's own button is given back, if it still is in
\* the list.
Fail(h) ==
    /\ task[h] # Idle
    /\ ~Abandoned(h)
    /\ \/ task' = [task EXCEPT ![h] = Idle]
       \/ /\ task[h].at = "asked"
          /\ task[h].kind \in {"create", "review"}
          /\ task' = [task EXCEPT ![h].at = "abandoned"]
    /\ notice' = "error"
    /\ ReturnButton(h)
    /\ disabled' = disabled \ {h}
    /\ UNCHANGED <<store, state_run, panels, audit, gate, clicks, hasty>>

-----------------------------------------------------------------------------

Init ==
    /\ store \in StoredRuns
    /\ task = [h \in Handlers |->
                IF h = Loader THEN Asking("list", 0, <<>>) ELSE Idle]
    /\ state_run = Nothing
    /\ panels = Nothing
    /\ audit = Nothing
    /\ gate = Nothing
    /\ run_enabled = TRUE
    /\ disabled = {}
    /\ notice = "none"
    /\ clicks = 0
    /\ hasty = FALSE

\* What goes on without the user.
Proceed(h) ==
    \/ Serve(h)
    \/ ServeProof(h)
    \/ ReceiveList(h)
    \/ Render(h)
    \/ RenderProof(h)
    \/ Fail(h)

Next ==
    \E h \in Handlers :
        \/ ClickRun(h)
        \/ ClickReview(h)
        \/ Proceed(h)
        \/ ServeLate(h)

\* A request that was given up need never be served.
Spec ==
    /\ Init
    /\ [][Next]_vars
    /\ \A h \in Handlers : WF_vars(Proceed(h))

-----------------------------------------------------------------------------
(* What the page promises.                                                 *)

Task ==
    [kind : {"none", "create", "review", "list", "get"},
     at : {"idle", "asked", "answered", "proving", "abandoned"},
     run : 0 .. MaxRuns,
     choice : {<<>>} \cup ((1 .. MaxRuns) \X Candidates),
     answer : Snapshot, exported : Snapshot, gated : Snapshot]

\* The state has the shape the code gives it.
TypeOK ==
    /\ store \in Seq(Seq(Candidates))
    /\ Len(store) <= MaxRuns
    /\ task \in [Handlers -> Task]
    /\ {state_run, panels, audit, gate} \subseteq Snapshot
    /\ run_enabled \in BOOLEAN
    /\ disabled \subseteq Handlers
    /\ notice \in {"none", "done", "error"}
    /\ clicks \in 0 .. MaxClicks
    /\ hasty \in BOOLEAN

\* However answers overlap, a review is sent to the run its candidate belongs
\* to: the list and state.run are replaced together, before renderRun awaits
\* anything (app.js:186, :244).
ReviewOfItsOwnRun ==
    \A h \in Handlers :
        task[h].kind = "review" /\ task[h].at = "asked" =>
            task[h].choice[1] = task[h].run

\* Once the page is at rest and its last handler reported no error, every
\* panel shows the present state of one run, gate and ledger badge included,
\* whatever failed before, if the user has waited for each answer and the
\* service is done with what was given up (app.js renderRun).
QuietPageIsCurrent ==
    ~hasty /\ ~Busy /\ notice # "error" /\ store # <<>> =>
        /\ panels.run # 0
        /\ \A shown \in {state_run, panels, audit, gate} :
            shown = StateOf(panels.run)

\* A user who waits as QuietPageIsCurrent asks has a key decided a second time
\* only when the page has just told of an error: a review that was recorded
\* while its answer was lost, or after it was given up, is still in the list,
\* and may be sent again (app.js:253).
SecondDecisionOnlyAfterError ==
    [][\A run \in DOMAIN store :
        ~hasty /\ store'[run] # store[run] /\ notice # "error" =>
            KeyOf[store'[run][Len(store'[run])]] \notin Decided(StateOf(run))]_vars

\* No way a request can end leaves a button dead (app.js finally and catch).
ButtonsComeBack ==
    /\ []<>run_enabled
    /\ \A h \in Handlers : []<>(h \notin disabled)

\* A page at rest shows no READY gate beside open reviews: docs/DEMO.md:42,
\* "The downstream agent gate is visibly blocked before those decisions."
GateBlockedBeforeReview ==
    ~Busy /\ OpenCandidates(panels) # {} => ~Ready(gate)
=============================================================================

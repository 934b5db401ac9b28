--------------------------- MODULE NutrientProofs ---------------------------
(***************************************************************************)
(* The budget and the lock of an extractor, and the cache, for any number  *)
(* of requests, documents, calls and credits, however many extractors the  *)
(* first requests of a process build.                                      *)
(***************************************************************************)
EXTENDS NutrientExtractor, TLAPS

\* The inductive invariant: every post has been reserved, whoever has one
\* under way has reserved it and holds the extractor's lock, and while no
\* other extractor has sent anything, what is being posted is not in the cache.
FlightInv ==
    /\ disk \in [Files -> Contents]
    /\ mode \in Settings
    /\ service \in Services \cup {Nobody}
    /\ calls \in [Services -> Nat]
    /\ holder \in [Services -> Requests \cup {Nobody}]
    /\ task \in [Requests -> Tasks]
    /\ bills \in [Contents -> Nat]
    /\ cache \in [Contents -> Answers \cup {NoEntry}]
    /\ posts = calls
    /\ \A s \in Services :
        /\ calls[s] <= MaxLiveCalls
        /\ calls[s] * CreditsPerCall <= MaxCredits
    /\ \A r \in Requests : InFlight(r) =>
        /\ holder[task[r].service] = r
        /\ calls[task[r].service] > 0
        /\ mode.cache /\ ~mode.refresh /\ OneExtractor => cache[task[r].key] = NoEntry

LEMMA TaskShapes ==
    ASSUME NEW t \in Tasks
    PROVE  /\ t.phase \in {"ended", "building", "queued", "posting", "billed"}
           /\ t.phase \in {"queued", "posting", "billed"} =>
                t.service \in Services /\ t.file \in Files
           /\ t.phase \in {"posting", "billed"} => t.key \in Contents
           /\ t.phase = "billed" => t.of \in Contents
BY DEF Tasks

LEMMA StartInv == Init => FlightInv
<1>1. SUFFICES ASSUME Init PROVE FlightInv
  OBVIOUS
<1>2. 0 * CreditsPerCall <= MaxCredits /\ 0 <= MaxLiveCalls
  BY ExtractorAssumption
<1>3. \A r \in Requests : task[r] = Ended
  BY <1>1 DEF Init, Idle
<1>4. QED
  BY <1>1, <1>2, <1>3, ExtractorAssumption
     DEF Init, FlightInv, Unused, Unlocked, Idle, Tasks, InFlight, Ended, Services

\* A new task in place of the old one, without a post under way.
LEMMA TaskStep ==
    ASSUME FlightInv, NEW r \in Requests, NEW t \in Tasks,
           t.phase \in {"ended", "building", "queued"},
           task' = [task EXCEPT ![r] = t],
           UNCHANGED <<disk, cache, mode, calls, holder, posts, bills>>,
           service' \in Services \cup {Nobody}
    PROVE  FlightInv'
<1>1. task' \in [Requests -> Tasks]
  BY DEF FlightInv
<1>2. \A q \in Requests : InFlight(q)' => InFlight(q) /\ task'[q] = task[q]
  BY DEF FlightInv, InFlight
<1>3. QED
  BY <1>1, <1>2 DEF FlightInv, OneExtractor

LEMMA DeliverTask ==
    ASSUME FlightInv, NEW r \in Requests,
           task[r].phase \in {"queued", "posting", "billed"},
           NEW answer, NEW line, Deliver(r, answer, line)
    PROVE  \E t \in Tasks : /\ t.phase \in {"ended", "queued"}
                            /\ task' = [task EXCEPT ![r] = t]
<1>1. task[r].service \in Services /\ task[r].file \in Files
  BY TaskShapes DEF FlightInv
<1> DEFINE more == answer.usable /\ DocumentsLeft(task[r].file)
<1>2. CASE more
  <2>1. task[r].file + 1 \in Files
    BY <1>1, <1>2, ExtractorAssumption DEF Files, DocumentsLeft
  <2>2. Queued(task[r].service, task[r].file + 1) \in Tasks
    BY <1>1, <2>1 DEF Queued, Tasks
  <2>3. QED
    BY <1>1, <1>2, <2>2 DEF Deliver, Queued
<1>3. CASE ~more
  BY <1>3 DEF Deliver, Tasks, Ended
<1>4. QED
  BY <1>2, <1>3

LEMMA RaiseTask ==
    ASSUME NEW r \in Requests, NEW line, Raise(r, line)
    PROVE  /\ Ended \in Tasks /\ Ended.phase = "ended"
           /\ task' = [task EXCEPT ![r] = Ended]
BY DEF Raise, Tasks, Ended

\* A post ends: r lets go of the lock that only r can hold.  What is kept of
\* the answer concerns nobody else, unless two extractors are at work.
LEMMA LandingStep ==
    ASSUME FlightInv, NEW r \in Requests, InFlight(r), Release(r),
           NEW t \in Tasks, t.phase \in {"ended", "queued"},
           task' = [task EXCEPT ![r] = t],
           cache' \in [Contents -> Answers \cup {NoEntry}],
           UNCHANGED <<disk, mode, service, calls, posts, bills>>
    PROVE  FlightInv'
<1>1. task' \in [Requests -> Tasks]
  BY DEF FlightInv
<1>2. task[r].service \in Services
  BY TaskShapes DEF FlightInv, InFlight
<1>3. holder' \in [Services -> Requests \cup {Nobody}]
  BY <1>2 DEF FlightInv, Release
<1>4. \A q \in Requests : InFlight(q)' => q # r /\ InFlight(q) /\ task'[q] = task[q]
  BY DEF FlightInv, InFlight
<1>5. ASSUME NEW q \in Requests, InFlight(q)'
      PROVE  /\ holder'[task'[q].service] = q
             /\ calls'[task'[q].service] > 0
             /\ ~OneExtractor'
  <2>1. q # r /\ InFlight(q) /\ task'[q] = task[q]
    BY <1>4, <1>5
  <2>2. task[q].service \in Services
    BY <2>1, TaskShapes DEF FlightInv, InFlight
  <2>3. task[q].service # task[r].service
    BY <2>1 DEF FlightInv
  <2>4. calls[task[q].service] > 0 /\ calls[task[r].service] > 0
    BY <2>1 DEF FlightInv
  <2>5. ~OneExtractor'
    BY <1>2, <2>2, <2>3, <2>4 DEF OneExtractor
  <2>6. holder'[task[q].service] = q
    BY <1>2, <2>1, <2>2, <2>3 DEF FlightInv, Release
  <2>7. QED
    BY <2>1, <2>4, <2>5, <2>6
<1>6. QED
  BY <1>1, <1>3, <1>5 DEF FlightInv

LEMMA SubmitStep ==
    ASSUME FlightInv, NEW r \in Requests, Submit(r)
    PROVE  FlightInv'
<1> DEFINE s == task[r].service
           t == [phase |-> "posting", service |-> s, file |-> task[r].file,
                 key |-> Document(r)]
<1>1. task[r].phase = "queued" /\ s \in Services /\ task[r].file \in Files
  BY TaskShapes DEF FlightInv, Submit, Turn
<1>2. Document(r) \in Contents
  BY <1>1 DEF FlightInv, Document
<1>3. t \in Tasks
  BY <1>1, <1>2 DEF Tasks
<1>4. /\ task' = [task EXCEPT ![r] = t]
      /\ calls' = [calls EXCEPT ![s] = @ + 1]
      /\ holder' = [holder EXCEPT ![s] = r]
      /\ posts' = [posts EXCEPT ![s] = @ + 1]
      /\ UNCHANGED <<disk, cache, mode, service, bills>>
      /\ ~CacheHit(r) /\ CanReserve(s) /\ holder[s] = Nobody
  BY <1>1 DEF Submit, Turn
<1> HIDE DEF s, t
<1>5. /\ calls' \in [Services -> Nat]
      /\ holder' \in [Services -> Requests \cup {Nobody}]
      /\ task' \in [Requests -> Tasks]
      /\ posts' = calls'
  BY <1>1, <1>3, <1>4 DEF FlightInv
<1>6. ASSUME NEW p \in Services
      PROVE  calls'[p] <= MaxLiveCalls /\ calls'[p] * CreditsPerCall <= MaxCredits
  <2>1. calls[s] \in Nat /\ calls[s] + 1 <= MaxLiveCalls
    BY <1>1, <1>4, ExtractorAssumption DEF FlightInv, CanReserve
  <2>2. CASE p = s
    <3>1. calls'[p] = calls[s] + 1
      BY <1>1, <1>4, <2>2 DEF FlightInv
    <3>2. QED
      BY <1>4, <2>1, <3>1 DEF CanReserve
  <2>3. CASE p # s
    <3>1. calls'[p] = calls[p]
      BY <1>1, <1>4, <2>3 DEF FlightInv
    <3>2. QED
      BY <3>1 DEF FlightInv
  <2>4. QED
    BY <2>2, <2>3
<1>7. \A p \in Services : calls[p] > 0 => calls'[p] > 0
  BY <1>1, <1>4 DEF FlightInv
<1>8. OneExtractor' => OneExtractor
  BY <1>7 DEF OneExtractor
<1>9. ASSUME NEW q \in Requests, InFlight(q)'
      PROVE  /\ holder'[task'[q].service] = q
             /\ calls'[task'[q].service] > 0
             /\ mode'.cache /\ ~mode'.refresh /\ OneExtractor' => cache'[task'[q].key] = NoEntry
  <2>1. CASE q = r
    <3>1. task'[q].service = s /\ task'[q].key = Document(r)
      BY <1>4, <2>1 DEF FlightInv, t
    <3>2. holder'[s] = r /\ calls'[s] > 0
      BY <1>1, <1>4 DEF FlightInv
    <3>3. QED
      BY <1>4, <2>1, <3>1, <3>2 DEF CacheHit
  <2>2. CASE q # r
    <3>1. InFlight(q) /\ task'[q] = task[q]
      BY <1>4, <1>9, <2>2 DEF InFlight, FlightInv
    <3>2. task[q].service \in Services
      BY <3>1, TaskShapes DEF FlightInv, InFlight
    <3>3. task[q].service # s
      BY <1>4, <3>1, ExtractorAssumption DEF FlightInv
    <3>4. holder'[task[q].service] = q
      BY <1>1, <1>4, <3>1, <3>2, <3>3 DEF FlightInv
    <3>5. QED
      BY <1>4, <1>7, <1>8, <3>1, <3>2, <3>4 DEF FlightInv
  <2>3. QED
    BY <2>1, <2>2
<1>10. QED
  BY <1>4, <1>5, <1>6, <1>9 DEF FlightInv

LEMMA VendorAcceptsStep ==
    ASSUME FlightInv, NEW r \in Requests, VendorAccepts(r)
    PROVE  FlightInv'
<1>1. /\ task[r].phase = "posting" /\ task[r].service \in Services
      /\ task[r].file \in Files /\ task[r].key \in Contents
  BY TaskShapes DEF FlightInv, VendorAccepts
<1>2. Document(r) \in Contents
  BY <1>1 DEF FlightInv, Document
<1> DEFINE t == [phase |-> "billed", service |-> task[r].service, file |-> task[r].file,
                 key |-> task[r].key, of |-> Document(r)]
<1>3. t \in Tasks
  BY <1>1, <1>2 DEF Tasks
<1>4. /\ task' = [task EXCEPT ![r] = t]
      /\ bills' = [bills EXCEPT ![Document(r)] = @ + 1]
      /\ UNCHANGED <<disk, cache, mode, service, calls, holder, posts>>
  BY <1>1 DEF VendorAccepts
<1>5. task' \in [Requests -> Tasks] /\ bills' \in [Contents -> Nat]
  BY <1>2, <1>3, <1>4 DEF FlightInv
<1>6. \A q \in Requests : InFlight(q)' =>
        /\ InFlight(q)
        /\ task'[q].service = task[q].service /\ task'[q].key = task[q].key
  BY <1>1, <1>4 DEF InFlight, FlightInv
<1>7. QED
  BY <1>4, <1>5, <1>6 DEF FlightInv, OneExtractor

LEMMA RestartStep ==
    ASSUME FlightInv, Restart
    PROVE  FlightInv'
<1>1. 0 * CreditsPerCall <= MaxCredits /\ 0 <= MaxLiveCalls
  BY ExtractorAssumption
<1>2. \A r \in Requests : task'[r] = Ended
  BY DEF Restart, Idle
<1>3. /\ service' = Nobody /\ mode' \in Settings
      /\ calls' = [s \in Services |-> 0] /\ posts' = calls'
      /\ holder' \in [Services -> Requests \cup {Nobody}]
      /\ task' \in [Requests -> Tasks]
      /\ UNCHANGED <<disk, cache, bills>>
  BY ExtractorAssumption DEF Restart, Unused, Unlocked, Idle, Tasks, Ended
<1>4. \A r \in Requests : ~InFlight(r)'
  BY <1>2 DEF InFlight, Ended
<1>5. QED
  BY <1>1, <1>3, <1>4 DEF FlightInv

-----------------------------------------------------------------------------

LEMMA StepInv == FlightInv /\ [Next]_vars => FlightInv'
<1>. SUFFICES ASSUME FlightInv, [Next]_vars PROVE FlightInv'
  OBVIOUS
<1>1. ASSUME NEW r \in Requests, UseService(r) PROVE FlightInv'
  <2>1. Queued(service, 1) \in Tasks /\ Queued(service, 1).phase = "queued"
    BY <1>1, ExtractorAssumption DEF UseService, FlightInv, Queued, Tasks, Files
  <2>2. task' = [task EXCEPT ![r] = Queued(service, 1)]
        /\ UNCHANGED <<disk, cache, mode, service, calls, holder, posts, bills>>
    BY <1>1 DEF UseService
  <2>3. QED
    BY <2>1, <2>2, TaskStep DEF FlightInv
<1>2. ASSUME NEW r \in Requests, MissService(r) PROVE FlightInv'
  <2>1. [phase |-> "building"] \in Tasks
    BY DEF Tasks
  <2>2. task' = [task EXCEPT ![r] = [phase |-> "building"]]
        /\ UNCHANGED <<disk, cache, mode, service, calls, holder, posts, bills>>
    BY <1>2 DEF MissService
  <2>3. QED
    BY <2>1, <2>2, TaskStep DEF FlightInv
<1>3. ASSUME NEW r \in Requests, BuildService(r) PROVE FlightInv'
  <2>1. Queued(r, 1) \in Tasks /\ Queued(r, 1).phase = "queued"
    BY ExtractorAssumption DEF Queued, Tasks, Files, Services
  <2>2. task' = [task EXCEPT ![r] = Queued(r, 1)]
        /\ UNCHANGED <<disk, cache, mode, calls, holder, posts, bills>>
    BY <1>3 DEF BuildService
  <2>3. service' \in Services \cup {Nobody}
    BY <1>3 DEF BuildService, FlightInv, Services
  <2>4. QED
    BY <2>1, <2>2, <2>3, TaskStep
<1>4. ASSUME NEW r \in Requests, Replay(r) PROVE FlightInv'
  <2>1. task[r].phase = "queued"
        /\ Deliver(r, cache[Document(r)], Tail(waiting[task[r].service]))
        /\ UNCHANGED <<disk, cache, mode, service, calls, holder, posts, bills>>
    BY <1>4 DEF Replay, Turn
  <2>2. PICK t \in Tasks : t.phase \in {"ended", "queued"} /\ task' = [task EXCEPT ![r] = t]
    BY <2>1, DeliverTask
  <2>3. QED
    BY <2>1, <2>2, TaskStep DEF FlightInv
<1>5. ASSUME NEW r \in Requests, Refuse(r) \/ Unreadable(r) PROVE FlightInv'
  <2>1. Raise(r, Tail(waiting[task[r].service]))
        /\ UNCHANGED <<disk, cache, mode, service, calls, holder, posts, bills>>
    BY <1>5 DEF Refuse, Unreadable
  <2>2. QED
    BY <2>1, RaiseTask, TaskStep DEF FlightInv
<1>6. ASSUME NEW r \in Requests, VendorRefuses(r) \/ AnswerLost(r) PROVE FlightInv'
  <2>1. /\ InFlight(r) /\ Release(r) /\ Raise(r, waiting[task[r].service])
        /\ UNCHANGED <<disk, cache, mode, service, calls, posts, bills>>
    BY <1>6 DEF VendorRefuses, AnswerLost, InFlight
  <2>2. cache' \in [Contents -> Answers \cup {NoEntry}]
    BY <2>1 DEF FlightInv
  <2>3. QED
    BY <2>1, <2>2, RaiseTask, LandingStep
<1>7. ASSUME NEW r \in Requests, Answer(r) PROVE FlightInv'
  <2>1. PICK usable \in BOOLEAN :
            /\ cache' = IF mode.cache
                        THEN [cache EXCEPT ![task[r].key] = [of |-> task[r].of, usable |-> usable]]
                        ELSE cache
            /\ \/ Deliver(r, [of |-> task[r].of, usable |-> usable], waiting[task[r].service])
               \/ Raise(r, waiting[task[r].service])
    BY <1>7 DEF Answer
  <2>2. /\ task[r].phase = "billed" /\ InFlight(r) /\ Release(r)
        /\ UNCHANGED <<disk, mode, service, calls, posts, bills>>
    BY <1>7 DEF Answer, InFlight
  <2>3. PICK t \in Tasks : t.phase \in {"ended", "queued"} /\ task' = [task EXCEPT ![r] = t]
    BY <2>1, <2>2, DeliverTask, RaiseTask
  <2>4. [of |-> task[r].of, usable |-> usable] \in Answers
    BY <2>2, TaskShapes DEF FlightInv, Answers
  <2>5. cache' \in [Contents -> Answers \cup {NoEntry}]
    BY <2>1, <2>4 DEF FlightInv
  <2>6. QED
    BY <2>2, <2>3, <2>5, LandingStep
<1>8. ASSUME NEW f \in Files, EditDocument(f) PROVE FlightInv'
  BY <1>8 DEF EditDocument, process, FlightInv, InFlight, OneExtractor
<1>9. CASE UNCHANGED vars
  BY <1>9 DEF vars, process, FlightInv, InFlight, OneExtractor
<1>10. QED
  BY <1>1, <1>2, <1>3, <1>4, <1>5, <1>6, <1>7, <1>8, <1>9,
     SubmitStep, VendorAcceptsStep, RestartStep DEF Next, Proceed

\* FlightInv is inductive.
THEOREM FlightInvariance == Spec => []FlightInv
BY StartInv, StepInv, PTL DEF Spec

\* An extractor never posts more than its budget of calls and credits lets it,
\* whatever becomes of the answers (nutrient.py _reserve_live_budget).
THEOREM BudgetHolds == Spec => []BudgetBoundsPosts
<1>1. FlightInv => BudgetBoundsPosts
  BY DEF FlightInv, BudgetBoundsPosts
<1>2. QED
  BY <1>1, FlightInvariance, PTL

\* An extractor has one document at a time with the vendor
\* (nutrient.py _request_lock).
THEOREM OneFlight == Spec => []OneFlightPerExtractor
<1>1. FlightInv => OneFlightPerExtractor
  BY DEF FlightInv, OneFlightPerExtractor
<1>2. QED
  BY <1>1, FlightInvariance, PTL

\* While one extractor does the work, what the cache holds is never paid for
\* again, across restarts (nutrient.py extract).
THEOREM CachedIsNotPaidAgain == Spec => NeverPaidTwice
<1>1. FlightInv /\ [Next]_vars =>
        [\A c \in Contents :
            mode.cache /\ ~mode.refresh /\ OneExtractor /\ AsLookedUp /\
            bills'[c] > bills[c] => cache[c] = NoEntry]_vars
  <2>1. SUFFICES ASSUME FlightInv, [Next]_vars, NEW c \in Contents,
                        mode.cache, ~mode.refresh, OneExtractor, AsLookedUp,
                        bills'[c] > bills[c]
                 PROVE  cache[c] = NoEntry
    OBVIOUS
  <2>2. bills[c] \in Nat
    BY <2>1 DEF FlightInv
  <2>3. bills' # bills
    BY <2>1, <2>2
  <2>4. PICK r \in Requests : VendorAccepts(r)
    BY <2>1, <2>3 DEF Next, Proceed, UseService, MissService, BuildService, Replay, Refuse,
        Unreadable, Submit, VendorRefuses, AnswerLost, Answer, Restart, EditDocument,
        vars, process
  <2>5. /\ InFlight(r) /\ task[r].key = Document(r)
        /\ bills' = [bills EXCEPT ![Document(r)] = @ + 1]
    BY <2>1, <2>4 DEF VendorAccepts, InFlight, AsLookedUp
  <2>6. c = Document(r)
    BY <2>1, <2>2, <2>5 DEF FlightInv
  <2>7. QED
    BY <2>1, <2>5, <2>6 DEF FlightInv
<1>2. QED
  BY <1>1, FlightInvariance, PTL DEF Spec, NeverPaidTwice
-----------------------------------------------------------------------------
(* The line for the lock.                                                  *)

HasService(t) == t.phase \in {"queued", "posting", "billed"}

\* Whoever wants the lock of an extractor is in its line, and an extractor
\* that is being built has no users yet, so its line starts empty.
LineInv ==
    /\ waiting \in [Services -> Seq(Requests)]
    /\ artifacts \subseteq [sha256 : Contents, of : Contents]
    /\ \A r \in Requests : task[r].phase = "queued" =>
        \E i \in DOMAIN waiting[task[r].service] : waiting[task[r].service][i] = r
    /\ service = Nobody => \A r \in Requests : ~HasService(task[r])
    /\ \A r \in Requests : task[r].phase = "building" =>
        /\ service # r
        /\ \A q \in Requests : HasService(task[q]) => task[q].service # r

Within(q, line) == \E i \in DOMAIN line : line[i] = q

\* One more in line, or the first one out: the others stay in it.
LEMMA LineGrows ==
    ASSUME NEW line \in Seq(Requests), NEW r \in Requests
    PROVE  /\ Append(line, r) \in Seq(Requests)
           /\ Within(r, Append(line, r))
           /\ \A q : Within(q, line) => Within(q, Append(line, r))
<1>1. /\ Append(line, r) \in Seq(Requests)
      /\ DOMAIN line = 1 .. Len(line) /\ Len(line) \in Nat
      /\ DOMAIN Append(line, r) = 1 .. Len(line) + 1
      /\ Append(line, r)[Len(line) + 1] = r
      /\ \A i \in 1 .. Len(line) : Append(line, r)[i] = line[i]
  OBVIOUS
<1>2. Len(line) + 1 \in 1 .. Len(line) + 1 /\ \A i \in 1 .. Len(line) : i \in 1 .. Len(line) + 1
  BY <1>1
<1>3. QED
  BY <1>1, <1>2 DEF Within

LEMMA LineAdvances ==
    ASSUME NEW line \in Seq(Requests), NEW r \in Requests, Within(r, line),
           Head(line) = r
    PROVE  /\ Tail(line) \in Seq(Requests)
           /\ \A q : Within(q, line) /\ q # r => Within(q, Tail(line))
<1>1. line # <<>>
  BY DEF Within
<1>2. /\ Tail(line) \in Seq(Requests)
      /\ DOMAIN line = 1 .. Len(line) /\ Len(line) \in Nat
      /\ DOMAIN Tail(line) = 1 .. Len(line) - 1
      /\ line[1] = r
      /\ \A i \in 1 .. Len(line) - 1 : Tail(line)[i] = line[i + 1]
  BY <1>1
<1>3. ASSUME NEW q, NEW i \in DOMAIN line, line[i] = q, q # r
      PROVE  Within(q, Tail(line))
  <2>1. i - 1 \in 1 .. Len(line) - 1 /\ (i - 1) + 1 = i
    BY <1>2, <1>3
  <2>2. Tail(line)[i - 1] = q
    BY <1>2, <1>3, <2>1
  <2>3. QED
    BY <1>2, <2>1, <2>2 DEF Within
<1>4. QED
  BY <1>2, <1>3 DEF Within

\* A new task for one request: the lines keep everyone else who is in them.
LEMMA LineStep ==
    ASSUME FlightInv, LineInv, NEW r \in Requests, NEW t \in Tasks,
           task' = [task EXCEPT ![r] = t],
           waiting' \in [Services -> Seq(Requests)],
           artifacts' \subseteq [sha256 : Contents, of : Contents],
           \A q \in Requests : q # r /\ task[q].phase = "queued" =>
                Within(q, waiting'[task[q].service]),
           t.phase = "queued" => Within(r, waiting'[t.service]),
           t.phase = "building" => service = Nobody /\ service' = Nobody,
           service' = service \/ (service' = r /\ t.phase # "building"),
           HasService(t) =>
                /\ service' # Nobody
                /\ \A q \in Requests : q # r /\ task[q].phase = "building" => t.service # q
    PROVE  LineInv'
<1>1. task \in [Requests -> Tasks] /\ r # Nobody
  BY ExtractorAssumption DEF FlightInv
<1>2. task'[r] = t /\ \A q \in Requests : q # r => task'[q] = task[q]
  BY <1>1
<1>3. ASSUME NEW q \in Requests, task'[q].phase = "queued"
      PROVE  \E i \in DOMAIN waiting'[task'[q].service] : waiting'[task'[q].service][i] = q
  BY ZenonT(30), <1>2, <1>3 DEF Within
<1>4. ASSUME service' = Nobody, NEW q \in Requests
      PROVE  ~HasService(task'[q])
  <2>1. service = Nobody
    BY <1>1, <1>4
  <2>2. QED
    BY <1>2, <1>4, <2>1 DEF LineInv
<1>5. ASSUME NEW p \in Requests, task'[p].phase = "building"
      PROVE  /\ service' # p
             /\ \A q \in Requests : HasService(task'[q]) => task'[q].service # p
  <2>1. CASE p = r
    <3>1. service = Nobody /\ service' = Nobody
      BY <1>2, <1>5, <2>1
    <3>2. QED
      BY <1>1, <1>4, <2>1, <3>1
  <2>2. CASE p # r
    <3>1. task[p].phase = "building"
      BY <1>2, <1>5, <2>2
    <3>2. service # p /\ \A q \in Requests : HasService(task[q]) => task[q].service # p
      BY <3>1 DEF LineInv
    <3>3. service' # p
      BY <2>2, <3>2
    <3>4. \A q \in Requests : HasService(task'[q]) => task'[q].service # p
      BY <1>2, <2>2, <3>1, <3>2
    <3>5. QED
      BY <3>3, <3>4
  <2>3. QED
    BY <2>1, <2>2
<1>6. LineInv' <=>
        /\ waiting' \in [Services -> Seq(Requests)]
        /\ artifacts' \subseteq [sha256 : Contents, of : Contents]
        /\ \A q \in Requests : task'[q].phase = "queued" =>
            \E i \in DOMAIN waiting'[task'[q].service] : waiting'[task'[q].service][i] = q
        /\ service' = Nobody => \A q \in Requests : ~HasService(task'[q])
        /\ \A p \in Requests : task'[p].phase = "building" =>
            /\ service' # p
            /\ \A q \in Requests : HasService(task'[q]) => task'[q].service # p
  BY DEF LineInv
<1>7. QED
  BY <1>3, <1>4, <1>5, <1>6

\* r leaves its line, or the lock, with an error.
LEMMA RaiseLine ==
    ASSUME FlightInv, LineInv, NEW r \in Requests, HasService(task[r]),
           NEW line \in Seq(Requests),
           \A q \in Requests : q # r /\ Within(q, waiting[task[r].service]) => Within(q, line),
           Raise(r, line), service' = service
    PROVE  LineInv'
<1>1. task[r].service \in Services
  BY TaskShapes DEF FlightInv, HasService
<1>2. /\ task' = [task EXCEPT ![r] = Ended] /\ artifacts' = artifacts
      /\ waiting' = [waiting EXCEPT ![task[r].service] = line]
  BY DEF Raise
<1>3. /\ Ended \in Tasks /\ Ended.phase = "ended" /\ ~HasService(Ended)
  BY DEF Tasks, Ended, HasService
<1>4. /\ waiting' \in [Services -> Seq(Requests)]
      /\ artifacts' \subseteq [sha256 : Contents, of : Contents]
  BY <1>1, <1>2 DEF LineInv
<1>5. ASSUME NEW q \in Requests, q # r, task[q].phase = "queued"
      PROVE  Within(q, waiting'[task[q].service])
  <2>1. task[q].service \in Services /\ Within(q, waiting[task[q].service])
    BY <1>5, TaskShapes DEF FlightInv, LineInv, Within
  <2>2. QED
    BY <1>1, <1>2, <1>5, <2>1 DEF LineInv
<1>6. QED
  BY <1>2, <1>3, <1>4, <1>5, LineStep

\* An answer is delivered: r leaves, or goes to the end of the line.
LEMMA DeliverLine ==
    ASSUME FlightInv, LineInv, NEW r \in Requests, HasService(task[r]),
           NEW line \in Seq(Requests), NEW answer \in Answers,
           \A q \in Requests : q # r /\ Within(q, waiting[task[r].service]) => Within(q, line),
           Deliver(r, answer, line), service' = service
    PROVE  LineInv'
<1> DEFINE s == task[r].service
           more == answer.usable /\ DocumentsLeft(task[r].file)
           t == IF more THEN Queued(s, task[r].file + 1) ELSE Ended
           rest == IF more THEN Append(line, r) ELSE line
<1>1. s \in Services /\ task[r].file \in Files /\ service # Nobody
  BY TaskShapes DEF FlightInv, LineInv, HasService
<1>2. /\ artifacts' = IF answer.usable
                      THEN artifacts \cup {[sha256 |-> Document(r), of |-> answer.of]}
                      ELSE artifacts
      /\ task' = [task EXCEPT ![r] = t]
      /\ waiting' = [waiting EXCEPT ![s] = rest]
  BY DEF Deliver
<1>3. t \in Tasks /\ t.phase \in {"queued", "ended"} /\ (t.phase = "queued" => more /\ t.service = s)
  <2>1. CASE more
    <3>1. task[r].file + 1 \in Files
      BY <1>1, <2>1, ExtractorAssumption DEF Files, DocumentsLeft
    <3>2. QED
      BY <1>1, <2>1, <3>1 DEF Queued, Tasks
  <2>2. CASE ~more
    BY <2>2 DEF Ended, Tasks
  <2>3. QED
    BY <2>1, <2>2
<1>4. artifacts' \subseteq [sha256 : Contents, of : Contents]
  <2>1. Document(r) \in Contents /\ answer.of \in Contents
    BY <1>1 DEF Document, FlightInv, Answers
  <2>2. artifacts \subseteq [sha256 : Contents, of : Contents]
    BY DEF LineInv
  <2>3. QED
    BY <1>2, <2>1, <2>2
<1>5. /\ rest \in Seq(Requests) /\ (more => Within(r, rest))
      /\ \A q \in Requests : Within(q, line) => Within(q, rest)
  BY LineGrows
<1> HIDE DEF s, t, rest, more
<1>6. waiting' \in [Services -> Seq(Requests)] /\ waiting'[s] = rest
  BY <1>1, <1>2, <1>5 DEF LineInv
<1>7. ASSUME NEW q \in Requests, q # r, task[q].phase = "queued"
      PROVE  Within(q, waiting'[task[q].service])
  <2>1. task[q].service \in Services /\ Within(q, waiting[task[q].service])
    BY <1>7, TaskShapes DEF FlightInv, LineInv, Within
  <2>2. CASE task[q].service = s
    BY <1>5, <1>6, <1>7, <2>1, <2>2 DEF s
  <2>3. CASE task[q].service # s
    BY <1>1, <1>2, <2>1, <2>3 DEF LineInv
  <2>4. QED
    BY <2>2, <2>3
<1>8. t.phase = "queued" => Within(r, waiting'[t.service])
  BY <1>3, <1>5, <1>6
<1>9. HasService(t) =>
        /\ service' # Nobody
        /\ \A q \in Requests : q # r /\ task[q].phase = "building" => t.service # q
  BY <1>1, <1>3 DEF HasService, LineInv, s
<1>10. t.phase # "building"
  BY <1>3
<1>11. QED
  BY <1>2, <1>3, <1>4, <1>6, <1>7, <1>8, <1>9, <1>10, LineStep

LEMMA TurnLine ==
    ASSUME FlightInv, LineInv, NEW r \in Requests, Turn(r)
    PROVE  /\ HasService(task[r]) /\ task[r].service \in Services
           /\ Tail(waiting[task[r].service]) \in Seq(Requests)
           /\ \A q \in Requests : q # r /\ Within(q, waiting[task[r].service])
                => Within(q, Tail(waiting[task[r].service]))
<1> DEFINE line == waiting[task[r].service]
<1>1. task[r].phase = "queued" /\ Head(line) = r
  BY DEF Turn
<1>2. task[r].service \in Services
  BY <1>1, TaskShapes DEF FlightInv
<1>3. line \in Seq(Requests) /\ Within(r, line)
  BY <1>1, <1>2 DEF LineInv, Within
<1> HIDE DEF line
<1>4. /\ Tail(line) \in Seq(Requests)
      /\ \A q : Within(q, line) /\ q # r => Within(q, Tail(line))
  BY <1>1, <1>3, LineAdvances
<1>5. QED
  BY <1>1, <1>2, <1>4 DEF HasService, line

LEMMA LineStart == Init => LineInv
BY DEF Init, LineInv, Idle, Ended, NoLines, HasService

LEMMA LineKept == FlightInv /\ LineInv /\ [Next]_vars => LineInv'
<1> SUFFICES ASSUME FlightInv, LineInv, [Next]_vars PROVE LineInv'
  OBVIOUS
<1>0. /\ waiting \in [Services -> Seq(Requests)]
      /\ artifacts \subseteq [sha256 : Contents, of : Contents]
      /\ task \in [Requests -> Tasks] /\ Nobody \notin Requests /\ Services = Requests
  BY ExtractorAssumption DEF LineInv, FlightInv, Services
<1>00. ASSUME NEW q \in Requests, task[q].phase = "queued"
       PROVE  task[q].service \in Services /\ Within(q, waiting[task[q].service])
  BY <1>00, TaskShapes DEF FlightInv, LineInv, Within
<1>1. ASSUME NEW r \in Requests, UseService(r) PROVE LineInv'
  <2> DEFINE t == Queued(service, 1)
             line == waiting[service]
  <2>1. /\ t \in Tasks /\ t.phase = "queued" /\ t.service = service
        /\ service \in Services /\ service # Nobody
    BY <1>1, ExtractorAssumption DEF UseService, FlightInv, Queued, Tasks, Files
  <2>2. /\ task' = [task EXCEPT ![r] = t]
        /\ waiting' = [waiting EXCEPT ![service] = Append(line, r)]
        /\ artifacts' = artifacts /\ service' = service
    BY <1>1 DEF UseService
  <2> HIDE DEF t
  <2>3. line \in Seq(Requests)
    BY <1>0, <2>1
  <2> HIDE DEF line
  <2>4. /\ Append(line, r) \in Seq(Requests) /\ Within(r, Append(line, r))
        /\ \A q \in Requests : Within(q, line) => Within(q, Append(line, r))
    BY <2>3, LineGrows
  <2>5. waiting' \in [Services -> Seq(Requests)] /\ waiting'[service] = Append(line, r)
    BY <1>0, <2>1, <2>2, <2>4
  <2>6. ASSUME NEW q \in Requests, q # r, task[q].phase = "queued"
        PROVE  Within(q, waiting'[task[q].service])
    <3>1. task[q].service \in Services /\ Within(q, waiting[task[q].service])
      BY <1>00, <2>6
    <3>2. CASE task[q].service = service
      BY <2>4, <2>5, <3>1, <3>2 DEF line
    <3>3. CASE task[q].service # service
      BY <1>0, <2>2, <3>1, <3>3
    <3>4. QED
      BY <3>2, <3>3
  <2>7. HasService(t) =>
            /\ service' # Nobody
            /\ \A q \in Requests : q # r /\ task[q].phase = "building" => t.service # q
    BY <2>1, <2>2 DEF LineInv
  <2>8. t.phase = "queued" => Within(r, waiting'[t.service])
    BY <2>1, <2>4, <2>5
  <2>9. artifacts' \subseteq [sha256 : Contents, of : Contents]
    BY <1>0, <2>2
  <2>10. t.phase # "building"
    BY <2>1
  <2>11. QED
    BY <2>1, <2>2, <2>5, <2>6, <2>7, <2>8, <2>9, <2>10, LineStep
<1>2. ASSUME NEW r \in Requests, MissService(r) PROVE LineInv'
  <2> DEFINE t == [phase |-> "building"]
  <2>1. t \in Tasks /\ t.phase = "building" /\ ~HasService(t)
    BY DEF Tasks, HasService
  <2>2. /\ task' = [task EXCEPT ![r] = t]
        /\ waiting' = waiting /\ artifacts' = artifacts
        /\ service = Nobody /\ service' = Nobody
    BY <1>2 DEF MissService
  <2> HIDE DEF t
  <2>3. \A q \in Requests : q # r /\ task[q].phase = "queued" =>
            Within(q, waiting'[task[q].service])
    BY <1>00, <2>2
  <2>4. /\ waiting' \in [Services -> Seq(Requests)]
        /\ artifacts' \subseteq [sha256 : Contents, of : Contents]
    BY <1>0, <2>2
  <2>5. QED
    BY <2>1, <2>2, <2>3, <2>4, LineStep
<1>3. ASSUME NEW r \in Requests, BuildService(r) PROVE LineInv'
  <2> DEFINE t == Queued(r, 1)
  <2>1. t \in Tasks /\ t.phase = "queued" /\ t.service = r /\ r # Nobody
    BY ExtractorAssumption DEF Queued, Tasks, Files, Services
  <2>2. /\ task' = [task EXCEPT ![r] = t]
        /\ waiting' = [waiting EXCEPT ![r] = <<r>>]
        /\ artifacts' = artifacts
        /\ service' = IF service = Nobody THEN r ELSE service
        /\ task[r].phase = "building"
    BY <1>3 DEF BuildService
  <2> HIDE DEF t
  <2>3. \A q \in Requests : HasService(task[q]) => task[q].service # r
    BY <2>2 DEF LineInv
  <2>4. ASSUME NEW q \in Requests, q # r, task[q].phase = "queued"
        PROVE  Within(q, waiting'[task[q].service])
    <3>1. task[q].service \in Services /\ Within(q, waiting[task[q].service])
      BY <1>00, <2>4
    <3>2. task[q].service # r
      BY <2>3, <2>4 DEF HasService
    <3>3. QED
      BY <1>0, <2>2, <3>1, <3>2
  <2>5. <<r>> \in Seq(Requests) /\ Within(r, <<r>>)
    <3>1. 1 \in DOMAIN <<r>> /\ <<r>>[1] = r
      OBVIOUS
    <3>2. QED
      BY <3>1 DEF Within
  <2>6. waiting' \in [Services -> Seq(Requests)] /\ waiting'[r] = <<r>>
    BY <1>0, <2>2, <2>5
  <2>7. t.phase = "queued" => Within(r, waiting'[t.service])
    BY <2>1, <2>5, <2>6
  <2>8. /\ service' # Nobody
        /\ service' = service \/ (service' = r /\ t.phase # "building")
        /\ t.phase # "building"
        /\ artifacts' \subseteq [sha256 : Contents, of : Contents]
    BY <1>0, <2>1, <2>2
  <2>9. \A q \in Requests : q # r /\ task[q].phase = "building" => t.service # q
    BY <2>1
  <2>10. QED
    BY <2>1, <2>2, <2>4, <2>6, <2>7, <2>8, <2>9, LineStep
<1>4. ASSUME NEW r \in Requests, Replay(r) PROVE LineInv'
  <2>1. /\ Turn(r) /\ cache[Document(r)] # NoEntry
        /\ Deliver(r, cache[Document(r)], Tail(waiting[task[r].service]))
        /\ service' = service
    BY <1>4 DEF Replay, CacheHit
  <2>2. Document(r) \in Contents
    BY <2>1, TaskShapes DEF FlightInv, Document, Turn
  <2>3. cache[Document(r)] \in Answers
    BY <2>1, <2>2 DEF FlightInv
  <2>4. QED
    BY <2>1, <2>3, TurnLine, DeliverLine
<1>5. ASSUME NEW r \in Requests, Refuse(r) \/ Unreadable(r) PROVE LineInv'
  <2>1. /\ Turn(r) /\ Raise(r, Tail(waiting[task[r].service])) /\ service' = service
    BY <1>5 DEF Refuse, Unreadable
  <2>2. QED
    BY <2>1, TurnLine, RaiseLine
<1>6. ASSUME NEW r \in Requests, Submit(r) PROVE LineInv'
  <2> DEFINE s == task[r].service
             t == [phase |-> "posting", service |-> s, file |-> task[r].file,
                   key |-> Document(r)]
             rest == Tail(waiting[s])
  <2>1. /\ Turn(r)
        /\ task' = [task EXCEPT ![r] = t]
        /\ waiting' = [waiting EXCEPT ![s] = rest]
        /\ artifacts' = artifacts /\ service' = service
    BY <1>6 DEF Submit
  <2>2. /\ HasService(task[r]) /\ s \in Services /\ rest \in Seq(Requests)
        /\ \A q \in Requests : q # r /\ Within(q, waiting[s]) => Within(q, rest)
    BY <2>1, TurnLine
  <2>3. task[r].file \in Files /\ Document(r) \in Contents
    BY <2>2, TaskShapes DEF FlightInv, Document, HasService
  <2>4. t \in Tasks /\ t.phase = "posting" /\ t.service = s
    BY <2>2, <2>3 DEF Tasks
  <2>5. service # Nobody
    BY <2>2 DEF LineInv
  <2>6. \A q \in Requests : task[q].phase = "building" => s # q
    BY <2>2 DEF LineInv
  <2> HIDE DEF s, t, rest
  <2>7. waiting' \in [Services -> Seq(Requests)]
    BY <1>0, <2>1, <2>2
  <2>8. ASSUME NEW q \in Requests, q # r, task[q].phase = "queued"
        PROVE  Within(q, waiting'[task[q].service])
    <3>1. task[q].service \in Services /\ Within(q, waiting[task[q].service])
      BY <1>00, <2>8
    <3>2. CASE task[q].service = s
      BY <1>0, <2>1, <2>2, <2>8, <3>1, <3>2
    <3>3. CASE task[q].service # s
      BY <1>0, <2>1, <3>1, <3>3
    <3>4. QED
      BY <3>2, <3>3
  <2>9. /\ service' # Nobody /\ t.phase # "building" /\ t.phase # "queued"
        /\ artifacts' \subseteq [sha256 : Contents, of : Contents]
        /\ \A q \in Requests : q # r /\ task[q].phase = "building" => t.service # q
    BY <1>0, <2>1, <2>4, <2>5, <2>6
  <2>10. QED
    BY <2>1, <2>4, <2>7, <2>8, <2>9, LineStep
<1>7. ASSUME NEW r \in Requests, VendorAccepts(r) PROVE LineInv'
  <2> DEFINE t == [phase |-> "billed", service |-> task[r].service,
                   file |-> task[r].file, key |-> task[r].key, of |-> Document(r)]
  <2>1. /\ task[r].phase = "posting"
        /\ task' = [task EXCEPT ![r] = t]
        /\ waiting' = waiting /\ artifacts' = artifacts /\ service' = service
    BY <1>7 DEF VendorAccepts
  <2>2. /\ task[r].service \in Services /\ task[r].file \in Files /\ task[r].key \in Contents
        /\ HasService(task[r])
    BY <2>1, TaskShapes DEF FlightInv, HasService
  <2>3. Document(r) \in Contents
    BY <2>2 DEF FlightInv, Document
  <2>4. t \in Tasks /\ t.phase = "billed" /\ t.service = task[r].service
    BY <2>2, <2>3 DEF Tasks
  <2>5. /\ service # Nobody
        /\ \A q \in Requests : task[q].phase = "building" => task[r].service # q
    BY <2>2 DEF LineInv
  <2> HIDE DEF t
  <2>6. \A q \in Requests : q # r /\ task[q].phase = "queued" =>
            Within(q, waiting'[task[q].service])
    BY <1>00, <2>1
  <2>7. /\ service' # Nobody /\ t.phase # "building" /\ t.phase # "queued"
        /\ waiting' \in [Services -> Seq(Requests)]
        /\ artifacts' \subseteq [sha256 : Contents, of : Contents]
        /\ \A q \in Requests : q # r /\ task[q].phase = "building" => t.service # q
    BY <1>0, <2>1, <2>4, <2>5
  <2>8. QED
    BY <2>1, <2>4, <2>6, <2>7, LineStep
<1>8. ASSUME NEW r \in Requests, VendorRefuses(r) \/ AnswerLost(r) PROVE LineInv'
  <2>1. /\ HasService(task[r]) /\ Raise(r, waiting[task[r].service]) /\ service' = service
    BY <1>8 DEF VendorRefuses, AnswerLost, HasService
  <2>2. waiting[task[r].service] \in Seq(Requests)
    BY <1>0, <2>1, TaskShapes DEF HasService
  <2>3. QED
    BY <2>1, <2>2, RaiseLine
<1>9. ASSUME NEW r \in Requests, Answer(r) PROVE LineInv'
  <2>1. PICK usable \in BOOLEAN :
            \/ Deliver(r, [of |-> task[r].of, usable |-> usable], waiting[task[r].service])
            \/ Raise(r, waiting[task[r].service])
    BY <1>9 DEF Answer
  <2>2. /\ task[r].phase = "billed" /\ HasService(task[r]) /\ service' = service
    BY <1>9 DEF Answer, HasService
  <2>3. waiting[task[r].service] \in Seq(Requests)
    BY <1>0, <2>2, TaskShapes
  <2>4. [of |-> task[r].of, usable |-> usable] \in Answers
    BY <1>0, <2>2, TaskShapes DEF Answers
  <2>5. QED
    BY <2>1, <2>2, <2>3, <2>4, DeliverLine, RaiseLine
<1>10. CASE Restart
  <2>1. /\ service' = Nobody /\ artifacts' = artifacts
        /\ waiting' = [s \in Services |-> <<>>]
        /\ \A q \in Requests : task'[q] = Ended
    BY <1>10 DEF Restart, NoLines, Idle
  <2>2. QED
    BY <1>0, <2>1 DEF LineInv, HasService, Ended
<1>11. ASSUME NEW f \in Files, EditDocument(f) PROVE LineInv'
  BY <1>11 DEF EditDocument, process, LineInv
<1>12. CASE UNCHANGED vars
  BY <1>12 DEF vars, process, LineInv
<1>13. QED
  BY <1>1, <1>2, <1>3, <1>4, <1>5, <1>6, <1>7, <1>8, <1>9, <1>10, <1>11, <1>12
     DEF Next, Proceed

\* The state keeps its shape: whoever takes a lock leaves the line in which it
\* was the first, and an extractor that is being built has no line yet that its
\* first user could take the place of (nutrient.py _request_lock, api.py
\* get_service).
THEOREM ExtractorTyped == Spec => []TypeOK
<1>1. Init => LineInv
  BY LineStart
<1>2. FlightInv /\ LineInv /\ [Next]_vars => LineInv'
  BY LineKept
<1>3. FlightInv /\ LineInv => TypeOK
  <2>1. SUFFICES ASSUME FlightInv, LineInv PROVE TypeOK
    OBVIOUS
  <2>2. calls \in [Services -> 0 .. MaxLiveCalls]
    <3>1. \A s \in Services : calls[s] \in 0 .. MaxLiveCalls
      BY <2>1, ExtractorAssumption DEF FlightInv
    <3>2. QED
      BY <2>1, <3>1 DEF FlightInv
  <2>3. posts \in [Services -> Nat]
    BY <2>1 DEF FlightInv
  <2>4. QED
    BY <2>1, <2>2, <2>3 DEF FlightInv, LineInv, TypeOK
<1>4. QED
  BY <1>1, <1>2, <1>3, FlightInvariance, PTL DEF Spec

\* One vendor request at a time in the whole process, and so no two submissions of one
\* document, is what the comment at nutrient.py:59 promises: it holds as long as the
\* first requests have not built two extractors that both send (api.py get_service).
THEOREM OneExtractorSubmitsOnce == Spec => [](OneExtractor => SingleFlight)
<1>1. ASSUME FlightInv, OneExtractor, NEW r \in Requests, NEW q \in Requests,
             InFlight(r), InFlight(q)
      PROVE  r = q
  <2>1. /\ task[r].service \in Services /\ task[q].service \in Services
        /\ calls[task[r].service] > 0 /\ calls[task[q].service] > 0
        /\ holder[task[r].service] = r /\ holder[task[q].service] = q
    BY <1>1, TaskShapes DEF FlightInv, InFlight
  <2>2. task[r].service = task[q].service
    BY <1>1, <2>1 DEF OneExtractor
  <2>3. QED
    BY <2>1, <2>2
<1>2. FlightInv => (OneExtractor => SingleFlight)
  BY <1>1 DEF SingleFlight
<1>3. QED
  BY <1>2, FlightInvariance, PTL

-----------------------------------------------------------------------------
(* Where blocks come from.                                                 *)

\* Source documents are only replaced while no run is being created.
EditedAtRest == [][\A r \in Requests : task[r] = Ended]_disk

\* Under that hypothesis: an answer is kept under the hash of the document it was
\* computed from, and so is what the vendor is at work on.
OriginInv ==
    /\ \A a \in artifacts : a.sha256 = a.of
    /\ \A c \in Contents : cache[c] # NoEntry => cache[c].of = c
    /\ \A r \in Requests : InFlight(r) => task[r].key = Document(r)
    /\ \A r \in Requests : task[r].phase = "billed" => task[r].of = task[r].key

\* An answer is delivered that comes from the document that is on the disk.
LEMMA DeliverOrigin ==
    ASSUME FlightInv, OriginInv, NEW r \in Requests, NEW answer, NEW line,
           task[r].phase \in {"queued", "posting", "billed"},
           Deliver(r, answer, line), answer.of = Document(r), disk' = disk,
           \A c \in Contents : cache'[c] # NoEntry => cache'[c].of = c
    PROVE  OriginInv'
<1>1. PICK t \in Tasks : /\ t.phase \in {"ended", "queued"}
                         /\ task' = [task EXCEPT ![r] = t]
  BY DeliverTask
<1>2. \A a \in artifacts' : a.sha256 = a.of
  <2>1. artifacts' \subseteq artifacts \cup {[sha256 |-> Document(r), of |-> answer.of]}
    BY DEF Deliver
  <2>2. QED
    BY <2>1 DEF OriginInv
<1>3. task'[r] = t /\ \A q \in Requests : q # r => task'[q] = task[q]
  BY <1>1 DEF FlightInv
<1>4. \A q \in Requests : InFlight(q)' => q # r
  BY <1>1, <1>3 DEF InFlight
<1>5. \A q \in Requests : InFlight(q)' => task'[q].key = Document(q)'
  BY <1>3, <1>4 DEF OriginInv, InFlight, Document
<1>6. \A q \in Requests : task'[q].phase = "billed" => task'[q].of = task'[q].key
  BY <1>1, <1>3 DEF OriginInv
<1>7. QED
  BY <1>2, <1>5, <1>6 DEF OriginInv

\* A request that moves without an answer.
LEMMA TaskOrigin ==
    ASSUME FlightInv, OriginInv, NEW r \in Requests, NEW t,
           task' = [task EXCEPT ![r] = t],
           disk' = disk, artifacts' = artifacts,
           \A c \in Contents : cache'[c] # NoEntry => cache'[c].of = c,
           t.phase \in {"posting", "billed"} => t.key = disk[t.file],
           t.phase = "billed" => t.of = t.key
    PROVE  OriginInv'
<1>1. task'[r] = t /\ \A q \in Requests : q # r => task'[q] = task[q]
  BY DEF FlightInv
<1>2. \A q \in Requests : InFlight(q)' => task'[q].key = Document(q)'
  BY <1>1 DEF OriginInv, InFlight, Document
<1>3. \A q \in Requests : task'[q].phase = "billed" => task'[q].of = task'[q].key
  BY <1>1 DEF OriginInv
<1>4. QED
  BY <1>2, <1>3 DEF OriginInv

LEMMA OriginKept ==
    ASSUME FlightInv, OriginInv, [Next]_vars,
           [\A r \in Requests : task[r] = Ended]_disk
    PROVE  OriginInv'
<1>0. ASSUME cache' = cache
      PROVE  \A c \in Contents : cache'[c] # NoEntry => cache'[c].of = c
  BY <1>0 DEF OriginInv
<1>1. ASSUME NEW r \in Requests, UseService(r) \/ MissService(r) \/ BuildService(r)
      PROVE  OriginInv'
  <2>1. PICK t \in {Queued(service, 1), [phase |-> "building"], Queued(r, 1)} :
            task' = [task EXCEPT ![r] = t]
    BY <1>1 DEF UseService, MissService, BuildService
  <2>2. t.phase \in {"queued", "building"}
    BY DEF Queued
  <2>3. disk' = disk /\ artifacts' = artifacts /\ cache' = cache
    BY <1>1 DEF UseService, MissService, BuildService
  <2>4. QED
    BY <1>0, <2>1, <2>2, <2>3, TaskOrigin
<1>2. ASSUME NEW r \in Requests,
             Refuse(r) \/ Unreadable(r) \/ VendorRefuses(r) \/ AnswerLost(r)
      PROVE  OriginInv'
  <2>1. task' = [task EXCEPT ![r] = Ended] /\ Ended.phase = "ended"
    BY <1>2 DEF Refuse, Unreadable, VendorRefuses, AnswerLost, Raise, Ended
  <2>2. disk' = disk /\ artifacts' = artifacts /\ cache' = cache
    BY <1>2 DEF Refuse, Unreadable, VendorRefuses, AnswerLost, Raise
  <2>3. QED
    BY <1>0, <2>1, <2>2, TaskOrigin
<1>3. ASSUME NEW r \in Requests, Replay(r)
      PROVE  OriginInv'
  <2>1. /\ task[r].phase = "queued" /\ cache[Document(r)] # NoEntry
        /\ Deliver(r, cache[Document(r)], Tail(waiting[task[r].service]))
        /\ disk' = disk
    BY <1>3 DEF Replay, Turn, CacheHit
  <2>2. Document(r) \in Contents
    BY <2>1, TaskShapes DEF FlightInv, Document
  <2>3. cache[Document(r)].of = Document(r)
    BY <2>1, <2>2 DEF OriginInv
  <2>4. cache' = cache
    BY <1>3 DEF Replay
  <2>5. \A c \in Contents : cache'[c] # NoEntry => cache'[c].of = c
    BY <2>4 DEF OriginInv
  <2>6. QED
    BY <2>1, <2>3, <2>5, DeliverOrigin
<1>4. ASSUME NEW r \in Requests, Submit(r)
      PROVE  OriginInv'
  <2> DEFINE t == [phase |-> "posting", service |-> task[r].service, file |-> task[r].file,
                   key |-> Document(r)]
  <2>1. /\ task' = [task EXCEPT ![r] = t]
        /\ disk' = disk /\ artifacts' = artifacts /\ cache' = cache
    BY <1>4 DEF Submit
  <2>2. t.phase = "posting" /\ t.key = disk[t.file]
    BY DEF Document
  <2> HIDE DEF t
  <2>3. QED
    BY <1>0, <2>1, <2>2, TaskOrigin
<1>5. ASSUME NEW r \in Requests, VendorAccepts(r)
      PROVE  OriginInv'
  <2> DEFINE t == [phase |-> "billed", service |-> task[r].service, file |-> task[r].file,
                   key |-> task[r].key, of |-> Document(r)]
  <2>1. /\ task' = [task EXCEPT ![r] = t]
        /\ disk' = disk /\ artifacts' = artifacts /\ cache' = cache
    BY <1>5 DEF VendorAccepts
  <2>2. task[r].key = disk[task[r].file]
    BY <1>5 DEF OriginInv, InFlight, Document, VendorAccepts
  <2>3. t.phase = "billed" /\ t.key = disk[t.file] /\ t.of = t.key
    BY <2>2 DEF Document
  <2> HIDE DEF t
  <2>4. QED
    BY <1>0, <2>1, <2>3, TaskOrigin
<1>6. ASSUME NEW r \in Requests, Answer(r)
      PROVE  OriginInv'
  <2>1. PICK usable \in BOOLEAN :
            LET answer == [of |-> task[r].of, usable |-> usable]
            IN  /\ cache' = IF mode.cache THEN [cache EXCEPT ![task[r].key] = answer]
                                          ELSE cache
                /\ \/ Deliver(r, answer, waiting[task[r].service])
                   \/ Raise(r, waiting[task[r].service])
    BY <1>6 DEF Answer
  <2> DEFINE answer == [of |-> task[r].of, usable |-> usable]
  <2>2. task[r].phase = "billed" /\ disk' = disk
    BY <1>6 DEF Answer
  <2>3. task[r].of = task[r].key /\ task[r].key = Document(r)
    BY <2>2 DEF OriginInv, InFlight
  <2>4. answer.of = task[r].key /\ answer.of = Document(r)
    BY <2>3
  <2> HIDE DEF answer
  <2>5. \A c \in Contents : cache'[c] # NoEntry => cache'[c].of = c
    <3>1. \/ cache' = cache
          \/ cache' = [cache EXCEPT ![task[r].key] = answer]
      BY <2>1 DEF answer
    <3>2. \A c \in Contents : cache'[c] = cache[c] \/ (c = task[r].key /\ cache'[c] = answer)
      BY <3>1 DEF FlightInv
    <3>3. QED
      BY <2>4, <3>2 DEF OriginInv
  <2>6. \/ Deliver(r, answer, waiting[task[r].service])
        \/ Raise(r, waiting[task[r].service])
    BY <2>1 DEF answer
  <2>7. CASE Raise(r, waiting[task[r].service])
    <3>1. task' = [task EXCEPT ![r] = Ended] /\ artifacts' = artifacts
      BY <2>7 DEF Raise
    <3>2. Ended.phase = "ended"
      BY DEF Ended
    <3>3. QED
      BY <2>2, <2>5, <3>1, <3>2, TaskOrigin
  <2>8. QED
    BY <2>2, <2>4, <2>5, <2>6, <2>7, DeliverOrigin
<1>7. CASE Restart
  <2>1. \A q \in Requests : task'[q] = Ended
    BY <1>7 DEF Restart, Idle
  <2>2. artifacts' = artifacts /\ cache' = cache
    BY <1>7 DEF Restart
  <2>3. QED
    BY <2>1, <2>2 DEF OriginInv, InFlight, Ended
<1>8. ASSUME NEW f \in Files, EditDocument(f)
      PROVE  OriginInv'
  <2>1. task' = task /\ artifacts' = artifacts /\ cache' = cache
    BY <1>8 DEF EditDocument, process
  <2>2. disk' = disk \/ \A q \in Requests : task[q] = Ended
    OBVIOUS
  <2>3. CASE disk' = disk
    BY <2>1, <2>3 DEF OriginInv, InFlight, Document
  <2>4. CASE \A q \in Requests : task[q] = Ended
    BY <2>1, <2>4 DEF OriginInv, InFlight, Ended
  <2>5. QED
    BY <2>2, <2>3, <2>4
<1>9. CASE UNCHANGED vars
  BY <1>9 DEF vars, process, OriginInv, InFlight, Document
<1>10. QED
  BY <1>1, <1>2, <1>3, <1>4, <1>5, <1>6, <1>7, <1>8, <1>9 DEF Next, Proceed

\* A SourceArtifact carries the hash of the document its blocks come from, however
\* requests overlap and the process restarts, when no document is replaced while a
\* run is being created (service.py create_run, nutrient.py extract).
THEOREM ArtifactsNameTheirSource == Spec /\ EditedAtRest => []ArtifactHashNamesSource
<1>1. Init => OriginInv
  BY DEF Init, OriginInv, Idle, Ended, InFlight
<1>2. FlightInv /\ OriginInv /\ [Next]_vars /\ [\A r \in Requests : task[r] = Ended]_disk
        => OriginInv'
  BY OriginKept
<1>3. OriginInv => ArtifactHashNamesSource
  BY DEF OriginInv, ArtifactHashNamesSource
<1>4. QED
  BY <1>1, <1>2, <1>3, FlightInvariance, PTL DEF Spec, EditedAtRest
-----------------------------------------------------------------------------
(* Nobody waits for nothing.                                               *)

Distinct(line) == \A i, j \in DOMAIN line : line[i] = line[j] => i = j

\* A lock is held by a request with a post under way, and a line holds requests
\* that want the lock, once each.
QueueInv ==
    /\ \A s \in Services : holder[s] # Nobody =>
        InFlight(holder[s]) /\ task[holder[s]].service = s
    /\ \A s \in Services : \A q \in Requests : Within(q, waiting[s]) =>
        task[q].phase = "queued" /\ task[q].service = s
    /\ \A s \in Services : Distinct(waiting[s])

LEMMA DistinctGrows ==
    ASSUME NEW line \in Seq(Requests), NEW r \in Requests, Distinct(line),
           ~Within(r, line)
    PROVE  /\ Distinct(Append(line, r))
           /\ \A q : Within(q, Append(line, r)) => q = r \/ Within(q, line)
<1>1. /\ DOMAIN line = 1 .. Len(line) /\ Len(line) \in Nat
      /\ DOMAIN Append(line, r) = 1 .. Len(line) + 1
      /\ Append(line, r)[Len(line) + 1] = r
      /\ \A i \in 1 .. Len(line) : Append(line, r)[i] = line[i]
  OBVIOUS
<1>2. \A i \in 1 .. Len(line) + 1 : i \in 1 .. Len(line) \/ i = Len(line) + 1
  BY <1>1
<1>3. ASSUME NEW i \in 1 .. Len(line) + 1, NEW j \in 1 .. Len(line) + 1,
             Append(line, r)[i] = Append(line, r)[j]
      PROVE  i = j
  BY <1>1, <1>2, <1>3 DEF Distinct, Within
<1>4. \A q : Within(q, Append(line, r)) => q = r \/ Within(q, line)
  BY <1>1, <1>2 DEF Within
<1>5. QED
  BY <1>1, <1>3, <1>4 DEF Distinct

LEMMA DistinctAdvances ==
    ASSUME NEW line \in Seq(Requests), NEW r \in Requests, Distinct(line),
           Within(r, line), Head(line) = r
    PROVE  /\ Distinct(Tail(line)) /\ ~Within(r, Tail(line))
           /\ \A q : Within(q, Tail(line)) => Within(q, line)
<1>1. line # <<>>
  BY DEF Within
<1>2. /\ DOMAIN line = 1 .. Len(line) /\ Len(line) \in Nat
      /\ DOMAIN Tail(line) = 1 .. Len(line) - 1
      /\ line[1] = r /\ 1 \in 1 .. Len(line)
      /\ \A i \in 1 .. Len(line) - 1 : Tail(line)[i] = line[i + 1]
  BY <1>1
<1>3. \A i \in 1 .. Len(line) - 1 : i + 1 \in 1 .. Len(line) /\ i + 1 # 1
  BY <1>2
<1>4. Distinct(Tail(line))
  <2>1. SUFFICES ASSUME NEW i \in 1 .. Len(line) - 1, NEW j \in 1 .. Len(line) - 1,
                        Tail(line)[i] = Tail(line)[j]
                 PROVE  i = j
    BY <1>2 DEF Distinct
  <2>2. line[i + 1] = line[j + 1]
    BY <1>2, <2>1
  <2>3. i + 1 = j + 1
    BY <1>2, <1>3, <2>2 DEF Distinct
  <2>4. QED
    BY <1>2, <2>3
<1>5. ~Within(r, Tail(line))
  BY <1>2, <1>3 DEF Distinct, Within
<1>6. \A q : Within(q, Tail(line)) => Within(q, line)
  BY <1>2, <1>3 DEF Within
<1>7. QED
  BY <1>4, <1>5, <1>6

\* The line of extractor s holds whom it held, and r only if r's new task is to
\* wait for it.
LineMoves(line, r, t, s) ==
    \A q \in Requests : Within(q, line) =>
        \/ q = r /\ t.phase = "queued" /\ t.service = s
        \/ q # r /\ Within(q, waiting[s])

\* A lock stays with its holder, or goes to r, whose new task is a post.
HolderMoves(r, t) ==
    \A p \in Services : holder'[p] # Nobody =>
        \/ holder'[p] = r /\ t.phase \in {"posting", "billed"} /\ t.service = p
        \/ holder'[p] # r /\ holder'[p] = holder[p]

\* A new task for r, and a new line for the one extractor whose line r may be in.
LEMMA QueueStep ==
    ASSUME FlightInv, LineInv, QueueInv,
           NEW r \in Requests, NEW t \in Tasks, NEW s \in Services,
           NEW line \in Seq(Requests),
           task' = [task EXCEPT ![r] = t],
           waiting' = [waiting EXCEPT ![s] = line],
           Distinct(line),
           task[r].phase = "queued" => task[r].service = s,
           LineMoves(line, r, t, s), HolderMoves(r, t)
    PROVE  QueueInv'
<1>1. /\ task'[r] = t /\ \A q \in Requests : q # r => task'[q] = task[q]
      /\ waiting'[s] = line /\ \A p \in Services : p # s => waiting'[p] = waiting[p]
  BY DEF FlightInv, LineInv
<1>2. ASSUME NEW p \in Services, holder'[p] # Nobody
      PROVE  InFlight(holder[p])' /\ task'[holder'[p]].service = p
  <2>1. CASE holder'[p] = r /\ t.phase \in {"posting", "billed"} /\ t.service = p
    BY <1>1, <2>1 DEF InFlight
  <2>2. CASE holder'[p] # r /\ holder'[p] = holder[p]
    <3>1. /\ holder[p] \in Requests
          /\ InFlight(holder[p]) /\ task[holder[p]].service = p
      BY <1>2, <2>2 DEF FlightInv, QueueInv
    <3>2. task'[holder[p]] = task[holder[p]]
      BY <1>1, <2>2, <3>1
    <3>3. QED
      BY <2>2, <3>1, <3>2 DEF InFlight
  <2>3. QED
    BY <1>2, <2>1, <2>2 DEF HolderMoves
<1>3. ASSUME NEW p \in Services, NEW q \in Requests, Within(q, waiting'[p])
      PROVE  task'[q].phase = "queued" /\ task'[q].service = p
  <2>1. CASE p = s
    <3>1. \/ q = r /\ t.phase = "queued" /\ t.service = s
          \/ q # r /\ Within(q, waiting[s])
      BY <1>1, <1>3, <2>1 DEF LineMoves
    <3>2. QED
      BY <1>1, <2>1, <3>1 DEF QueueInv
  <2>2. CASE p # s
    <3>1. Within(q, waiting[p])
      BY <1>1, <1>3, <2>2
    <3>2. task[q].phase = "queued" /\ task[q].service = p
      BY <3>1 DEF QueueInv
    <3>3. QED
      BY <1>1, <2>2, <3>2
  <2>3. QED
    BY <2>1, <2>2
<1>4. \A p \in Services : Distinct(waiting'[p])
  BY <1>1 DEF QueueInv
<1>5. QED
  BY <1>2, <1>3, <1>4 DEF QueueInv, Distinct, Within

\* The first in line takes its turn: those behind it are still in line, it is not.
LEMMA TurnQueue ==
    ASSUME FlightInv, LineInv, QueueInv, NEW r \in Requests, Turn(r)
    PROVE  /\ Distinct(Tail(waiting[task[r].service]))
           /\ \A q \in Requests : Within(q, Tail(waiting[task[r].service])) =>
                q # r /\ Within(q, waiting[task[r].service])
<1> DEFINE line == waiting[task[r].service]
<1>1. task[r].phase = "queued" /\ Head(line) = r
  BY DEF Turn
<1>2. task[r].service \in Services
  BY <1>1, TaskShapes DEF FlightInv
<1>3. line \in Seq(Requests) /\ Within(r, line) /\ Distinct(line)
  BY <1>1, <1>2 DEF LineInv, QueueInv, Within
<1> HIDE DEF line
<1>4. /\ Distinct(Tail(line)) /\ ~Within(r, Tail(line))
      /\ \A q : Within(q, Tail(line)) => Within(q, line)
  BY <1>1, <1>3, DistinctAdvances
<1>5. QED
  BY <1>4 DEF line

\* r leaves its line, or the lock, with an error.
LEMMA RaiseQueue ==
    ASSUME FlightInv, LineInv, QueueInv, NEW r \in Requests, HasService(task[r]),
           NEW line \in Seq(Requests), Distinct(line),
           \A q \in Requests : Within(q, line) =>
                q # r /\ Within(q, waiting[task[r].service]),
           Raise(r, line),
           \A p \in Services : holder'[p] # Nobody => holder'[p] # r /\ holder'[p] = holder[p]
    PROVE  QueueInv'
<1>1. task[r].service \in Services
  BY TaskShapes DEF FlightInv, HasService
<1>2. /\ task' = [task EXCEPT ![r] = Ended]
      /\ waiting' = [waiting EXCEPT ![task[r].service] = line]
  BY DEF Raise
<1>3. Ended \in Tasks
  BY DEF Tasks, Ended
<1> DEFINE s == task[r].service
           t == Ended
<1> HIDE DEF s, t
<1>4. /\ s \in Services /\ t \in Tasks
      /\ task' = [task EXCEPT ![r] = t] /\ waiting' = [waiting EXCEPT ![s] = line]
      /\ task[r].phase = "queued" => task[r].service = s
      /\ \A q \in Requests : Within(q, line) => q # r /\ Within(q, waiting[s])
  BY <1>1, <1>2, <1>3 DEF s, t
<1>5. LineMoves(line, r, t, s)
  BY <1>4 DEF LineMoves
<1>6. HolderMoves(r, t)
  BY DEF HolderMoves
<1>7. QED
  BY <1>4, <1>5, <1>6, QueueStep

\* An answer is delivered: r leaves, or goes to the end of the line.
LEMMA DeliverQueue ==
    ASSUME FlightInv, LineInv, QueueInv, NEW r \in Requests, HasService(task[r]),
           NEW line \in Seq(Requests), NEW answer, Distinct(line),
           \A q \in Requests : Within(q, line) =>
                q # r /\ Within(q, waiting[task[r].service]),
           Deliver(r, answer, line),
           \A p \in Services : holder'[p] # Nobody => holder'[p] # r /\ holder'[p] = holder[p]
    PROVE  QueueInv'
<1> DEFINE s == task[r].service
           more == answer.usable /\ DocumentsLeft(task[r].file)
           t == IF more THEN Queued(s, task[r].file + 1) ELSE Ended
           rest == IF more THEN Append(line, r) ELSE line
<1>1. s \in Services /\ task[r].file \in Files
  BY TaskShapes DEF FlightInv, HasService
<1>2. task' = [task EXCEPT ![r] = t] /\ waiting' = [waiting EXCEPT ![s] = rest]
  BY DEF Deliver
<1>3. t \in Tasks /\ (more => t.phase = "queued" /\ t.service = s)
  <2>1. CASE more
    <3>1. task[r].file + 1 \in Files
      BY <1>1, <2>1, ExtractorAssumption DEF Files, DocumentsLeft
    <3>2. QED
      BY <1>1, <2>1, <3>1 DEF Queued, Tasks
  <2>2. CASE ~more
    BY <2>2 DEF Ended, Tasks
  <2>3. QED
    BY <2>1, <2>2
<1>4. ~Within(r, line)
  OBVIOUS
<1>5. /\ Distinct(Append(line, r)) /\ Append(line, r) \in Seq(Requests)
      /\ \A q : Within(q, Append(line, r)) => q = r \/ Within(q, line)
  BY <1>4, DistinctGrows
<1>6. rest \in Seq(Requests) /\ Distinct(rest)
  BY <1>5
<1>7. ASSUME NEW q \in Requests, Within(q, rest)
      PROVE  \/ q = r /\ t.phase = "queued" /\ t.service = s
             \/ q # r /\ Within(q, waiting[s])
  <2>1. CASE more
    BY <1>3, <1>5, <1>7, <2>1
  <2>2. CASE ~more
    BY <1>7, <2>2
  <2>3. QED
    BY <2>1, <2>2
<1>8. task[r].phase = "queued" => task[r].service = s
  OBVIOUS
<1> HIDE DEF s, t, rest, more
<1>9. LineMoves(rest, r, t, s)
  BY <1>7 DEF LineMoves
<1>10. HolderMoves(r, t)
  BY DEF HolderMoves
<1>11. QED
  BY <1>1, <1>2, <1>3, <1>6, <1>8, <1>9, <1>10, QueueStep

LEMMA QueueKept == FlightInv /\ LineInv /\ QueueInv /\ [Next]_vars => QueueInv'
<1> SUFFICES ASSUME FlightInv, LineInv, QueueInv, [Next]_vars PROVE QueueInv'
  OBVIOUS
<1>0. /\ waiting \in [Services -> Seq(Requests)]
      /\ holder \in [Services -> Requests \cup {Nobody}]
      /\ task \in [Requests -> Tasks] /\ Nobody \notin Requests /\ Services = Requests
      /\ \A s \in Services : Distinct(waiting[s])
  BY ExtractorAssumption DEF LineInv, FlightInv, QueueInv, Services
<1>00. ASSUME NEW r \in Requests, ~InFlight(r), holder' = holder
       PROVE  \A p \in Services : holder'[p] # Nobody =>
                holder'[p] # r /\ holder'[p] = holder[p]
  BY <1>00 DEF QueueInv
<1>1. ASSUME NEW r \in Requests, UseService(r) PROVE QueueInv'
  <2> DEFINE t == Queued(service, 1)
             s == service
             line == Append(waiting[s], r)
  <2>1. /\ t \in Tasks /\ t.phase = "queued" /\ t.service = s /\ s \in Services
        /\ task[r].phase = "ended" /\ holder' = holder
    BY <1>1, ExtractorAssumption DEF UseService, FlightInv, Queued, Tasks, Files, Ended
  <2>2. task' = [task EXCEPT ![r] = t] /\ waiting' = [waiting EXCEPT ![s] = line]
    BY <1>1 DEF UseService
  <2>3. ~Within(r, waiting[s])
    BY <2>1 DEF QueueInv
  <2>4. waiting[s] \in Seq(Requests) /\ Distinct(waiting[s])
    BY <1>0, <2>1
  <2>5. /\ line \in Seq(Requests) /\ Distinct(line)
        /\ \A q : Within(q, line) => q = r \/ Within(q, waiting[s])
    BY <2>3, <2>4, LineGrows, DistinctGrows
  <2> HIDE DEF t, s, line
  <2>6. LineMoves(line, r, t, s)
    BY <2>1, <2>5 DEF LineMoves
  <2>7. HolderMoves(r, t)
    BY <1>00, <2>1 DEF InFlight, HolderMoves
  <2>8. QED
    BY <2>1, <2>2, <2>5, <2>6, <2>7, QueueStep
<1>2. ASSUME NEW r \in Requests, MissService(r) PROVE QueueInv'
  <2> DEFINE t == [phase |-> "building"]
             line == waiting[r]
  <2>1. /\ t \in Tasks /\ r \in Services
        /\ task[r].phase = "ended" /\ holder' = holder /\ waiting' = waiting
        /\ task' = [task EXCEPT ![r] = t]
    BY <1>0, <1>2 DEF MissService, Tasks, Ended
  <2>2. waiting' = [waiting EXCEPT ![r] = line]
    BY <1>0, <2>1
  <2>3. line \in Seq(Requests) /\ Distinct(line)
    BY <1>0, <2>1
  <2>4. ~Within(r, line)
    BY <2>1 DEF QueueInv
  <2>5. LineMoves(line, r, t, r)
    BY <2>4 DEF LineMoves
  <2> HIDE DEF t, line
  <2>6. HolderMoves(r, t)
    BY <1>00, <2>1 DEF InFlight, HolderMoves
  <2>7. task[r].phase # "queued"
    BY <2>1
  <2>8. QED
    BY <2>1, <2>2, <2>3, <2>5, <2>6, <2>7, QueueStep
<1>3. ASSUME NEW r \in Requests, BuildService(r) PROVE QueueInv'
  <2> DEFINE t == Queued(r, 1)
             line == <<r>>
  <2>1. /\ t \in Tasks /\ t.phase = "queued" /\ t.service = r /\ r \in Services
        /\ task[r].phase = "building" /\ holder' = holder
        /\ task' = [task EXCEPT ![r] = t] /\ waiting' = [waiting EXCEPT ![r] = line]
    BY <1>0, <1>3, ExtractorAssumption DEF BuildService, Queued, Tasks, Files
  <2>2. /\ line \in Seq(Requests) /\ Distinct(line)
        /\ \A q : Within(q, line) => q = r
    <3>1. line \in Seq(Requests) /\ DOMAIN line = {1} /\ line[1] = r
      OBVIOUS
    <3> HIDE DEF line
    <3>2. QED
      BY <3>1 DEF Distinct, Within
  <2> HIDE DEF t, line
  <2>3. LineMoves(line, r, t, r)
    BY <2>1, <2>2 DEF LineMoves
  <2>4. HolderMoves(r, t)
    BY <1>00, <2>1 DEF InFlight, HolderMoves
  <2>5. task[r].phase # "queued"
    BY <2>1
  <2>6. QED
    BY <2>1, <2>2, <2>3, <2>4, <2>5, QueueStep
<1>4. ASSUME NEW r \in Requests, Replay(r) PROVE QueueInv'
  <2>1. /\ Turn(r) /\ ~InFlight(r) /\ holder' = holder
        /\ Deliver(r, cache[Document(r)], Tail(waiting[task[r].service]))
    BY <1>4 DEF Replay, Turn, InFlight
  <2>2. \A p \in Services : holder'[p] # Nobody =>
            holder'[p] # r /\ holder'[p] = holder[p]
    BY <1>00, <2>1
  <2>3. QED
    BY <2>1, <2>2, TurnLine, TurnQueue, DeliverQueue
<1>5. ASSUME NEW r \in Requests, Refuse(r) \/ Unreadable(r) PROVE QueueInv'
  <2>1. /\ Turn(r) /\ ~InFlight(r) /\ holder' = holder
        /\ Raise(r, Tail(waiting[task[r].service]))
    BY <1>5 DEF Refuse, Unreadable, Turn, InFlight
  <2>2. \A p \in Services : holder'[p] # Nobody =>
            holder'[p] # r /\ holder'[p] = holder[p]
    BY <1>00, <2>1
  <2>3. QED
    BY <2>1, <2>2, TurnLine, TurnQueue, RaiseQueue
<1>6. ASSUME NEW r \in Requests, Submit(r) PROVE QueueInv'
  <2> DEFINE s == task[r].service
             t == [phase |-> "posting", service |-> s, file |-> task[r].file,
                   key |-> Document(r)]
             line == Tail(waiting[s])
  <2>1. /\ Turn(r) /\ task' = [task EXCEPT ![r] = t]
        /\ waiting' = [waiting EXCEPT ![s] = line] /\ holder' = [holder EXCEPT ![s] = r]
    BY <1>6 DEF Submit
  <2>2. s \in Services /\ HasService(task[r]) /\ line \in Seq(Requests)
    BY <2>1, TurnLine
  <2>3. task[r].file \in Files /\ Document(r) \in Contents
    BY <2>2, TaskShapes DEF FlightInv, Document, HasService
  <2>4. t \in Tasks /\ t.phase = "posting" /\ t.service = s
    BY <2>2, <2>3 DEF Tasks
  <2>5. /\ Distinct(line)
        /\ \A q \in Requests : Within(q, line) => q # r /\ Within(q, waiting[s])
    BY <2>1, TurnQueue
  <2>6. ~InFlight(r) /\ (task[r].phase = "queued" => task[r].service = s)
    BY <2>1 DEF Turn, InFlight
  <2> HIDE DEF s, t, line
  <2>7. \A p \in Services : holder[p] # r
    BY <1>0, <2>6 DEF QueueInv
  <2>8. HolderMoves(r, t)
    BY <1>0, <2>1, <2>2, <2>4, <2>7 DEF HolderMoves
  <2>9. LineMoves(line, r, t, s)
    BY <2>5 DEF LineMoves
  <2>10. QED
    BY <2>1, <2>2, <2>4, <2>5, <2>6, <2>8, <2>9, QueueStep
<1>7. ASSUME NEW r \in Requests, VendorAccepts(r) PROVE QueueInv'
  <2> DEFINE s == task[r].service
             t == [phase |-> "billed", service |-> s, file |-> task[r].file,
                   key |-> task[r].key, of |-> Document(r)]
             line == waiting[s]
  <2>1. /\ task[r].phase = "posting" /\ task' = [task EXCEPT ![r] = t]
        /\ waiting' = waiting /\ holder' = holder
    BY <1>7 DEF VendorAccepts
  <2>2. s \in Services /\ task[r].file \in Files /\ task[r].key \in Contents
    BY <1>0, <2>1, TaskShapes
  <2>3. Document(r) \in Contents
    BY <2>2 DEF FlightInv, Document
  <2>4. t \in Tasks /\ t.phase = "billed" /\ t.service = s
    BY <2>2, <2>3 DEF Tasks
  <2>5. line \in Seq(Requests) /\ Distinct(line) /\ ~Within(r, line)
    BY <1>0, <2>1, <2>2 DEF QueueInv
  <2>6. waiting' = [waiting EXCEPT ![s] = line]
    BY <1>0, <2>1, <2>2
  <2>7. \A p \in Services : holder[p] = r => p = s
    BY <1>0 DEF QueueInv
  <2>8. LineMoves(line, r, t, s)
    BY <2>5 DEF LineMoves
  <2> HIDE DEF s, t, line
  <2>9. HolderMoves(r, t)
    BY <2>1, <2>4, <2>7 DEF HolderMoves
  <2>10. task[r].phase = "queued" => task[r].service = s
    BY <2>1
  <2>11. task' = [task EXCEPT ![r] = t] /\ Distinct(line)
    BY <2>1, <2>5
  <2>12. QED
    BY <2>2, <2>4, <2>5, <2>6, <2>8, <2>9, <2>10, <2>11, QueueStep
<1>8. ASSUME NEW r \in Requests, InFlight(r), Release(r)
      PROVE  /\ HasService(task[r]) /\ waiting[task[r].service] \in Seq(Requests)
             /\ Distinct(waiting[task[r].service])
             /\ \A q \in Requests : Within(q, waiting[task[r].service]) =>
                    q # r /\ Within(q, waiting[task[r].service])
             /\ \A p \in Services : holder'[p] # Nobody =>
                    holder'[p] # r /\ holder'[p] = holder[p]
  <2>1. HasService(task[r]) /\ task[r].service \in Services /\ task[r].phase # "queued"
    BY <1>0, <1>8, TaskShapes DEF InFlight, HasService
  <2>2. \A q \in Requests : Within(q, waiting[task[r].service]) => q # r
    BY <2>1 DEF QueueInv
  <2>3. \A p \in Services : holder[p] = r => p = task[r].service
    BY <1>0 DEF QueueInv
  <2>4. holder' = [holder EXCEPT ![task[r].service] = Nobody]
    BY <1>8 DEF Release
  <2>5. \A p \in Services : holder'[p] # Nobody => holder'[p] # r /\ holder'[p] = holder[p]
    BY <1>0, <2>1, <2>3, <2>4
  <2>6. QED
    BY <1>0, <2>1, <2>2, <2>5
<1>9. ASSUME NEW r \in Requests, VendorRefuses(r) \/ AnswerLost(r) PROVE QueueInv'
  <2>1. InFlight(r) /\ Release(r) /\ Raise(r, waiting[task[r].service])
    BY <1>9 DEF VendorRefuses, AnswerLost, InFlight
  <2>2. QED
    BY <1>8, <2>1, RaiseQueue
<1>10. ASSUME NEW r \in Requests, Answer(r) PROVE QueueInv'
  <2>1. PICK usable \in BOOLEAN :
            \/ Deliver(r, [of |-> task[r].of, usable |-> usable], waiting[task[r].service])
            \/ Raise(r, waiting[task[r].service])
    BY <1>10 DEF Answer
  <2>2. InFlight(r) /\ Release(r)
    BY <1>10 DEF Answer, InFlight
  <2>3. QED
    BY <1>8, <2>1, <2>2, DeliverQueue, RaiseQueue
<1>11. CASE Restart
  <2>1. holder' = [s \in Services |-> Nobody] /\ waiting' = [s \in Services |-> <<>>]
    BY <1>11 DEF Restart, Unlocked, NoLines
  <2>2. QED
    BY <2>1 DEF QueueInv, Distinct, Within
<1>12. ASSUME NEW f \in Files, EditDocument(f) PROVE QueueInv'
  BY <1>12 DEF EditDocument, process, QueueInv, Within, Distinct, InFlight
<1>13. CASE UNCHANGED vars
  BY <1>13 DEF vars, process, QueueInv, Within, Distinct, InFlight
<1>14. QED
  BY <1>1, <1>2, <1>3, <1>4, <1>5, <1>6, <1>7, <1>9, <1>10, <1>11, <1>12, <1>13
     DEF Next, Proceed

\* While a request waits for an extractor's lock, one of its requests has the lock
\* and a post under way, or has its turn, and then it can take it: a hit, a refusal
\* or a submission.
SomeoneMoves ==
    \A r \in Requests : task[r].phase = "queued" =>
        \E q \in Requests :
            /\ HasService(task[q]) /\ task[q].service = task[r].service
            /\ InFlight(q) \/ Turn(q)

\* However requests overlap, fail and end, nobody waits for a lock that its holder has
\* forgotten, or behind one who is no longer in line (nutrient.py _request_lock): what
\* EveryRequestEnds needs of the lock beside fairness.
THEOREM NobodyWaitsForNothing == Spec => []SomeoneMoves
<1>1. Init => QueueInv
  BY DEF Init, QueueInv, Unlocked, NoLines, Distinct, Within
<1>2. FlightInv /\ LineInv /\ QueueInv => SomeoneMoves
  <2>1. SUFFICES ASSUME FlightInv, LineInv, QueueInv,
                        NEW r \in Requests, task[r].phase = "queued"
                 PROVE  \E q \in Requests :
                            /\ HasService(task[q]) /\ task[q].service = task[r].service
                            /\ InFlight(q) \/ Turn(q)
    BY DEF SomeoneMoves
  <2> DEFINE s == task[r].service
             line == waiting[s]
  <2>2. s \in Services /\ line \in Seq(Requests) /\ Within(r, line)
    BY <2>1, TaskShapes DEF FlightInv, LineInv, Within
  <2>3. CASE holder[s] # Nobody
    <3>1. holder[s] \in Requests /\ InFlight(holder[s]) /\ task[holder[s]].service = s
      BY <2>1, <2>2, <2>3 DEF FlightInv, QueueInv
    <3>2. QED
      BY <3>1 DEF InFlight, HasService
  <2>4. CASE holder[s] = Nobody
    <3>1. Head(line) \in Requests /\ Within(Head(line), line)
      <4>1. 1 \in DOMAIN line /\ line[1] = Head(line) /\ line[1] \in Requests
        BY <2>2 DEF Within
      <4> HIDE DEF line
      <4>2. QED
        BY <4>1 DEF Within
    <3>2. task[Head(line)].phase = "queued" /\ task[Head(line)].service = s
      BY <2>1, <2>2, <3>1 DEF QueueInv
    <3>3. Turn(Head(line))
      BY <2>4, <3>2 DEF Turn
    <3>4. QED
      BY <3>1, <3>2, <3>3 DEF HasService
  <2>5. QED
    BY <2>3, <2>4
<1>3. QED
  BY <1>1, <1>2, LineStart, LineKept, QueueKept, FlightInvariance, PTL DEF Spec
=============================================================================

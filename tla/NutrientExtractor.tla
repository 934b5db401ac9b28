------------------------- MODULE NutrientExtractor -------------------------
(***************************************************************************)
(* The billable extraction behind create_run: adapters/nutrient.py, the    *)
(* loop over the source documents in application/service.py, and the       *)
(* service singleton of api.py.  Coroutines of one event loop: a step runs *)
(* from one await to the next.  The cache directory outlives the process;  *)
(* locks, budgets and requests do not.  There is one instructions version, *)
(* so the SHA-256 of a document names its cache entry.  Credits are whole: *)
(* the code adds floats.                                                   *)
(***************************************************************************)
EXTENDS Integers, Sequences

CONSTANTS
    Requests,       \* concurrent POST /api/demo/runs
    NumFiles,       \* source documents of a run, in filename order
    Contents,       \* what a document can hold
    Modes,          \* settings a process may start with
    MaxLiveCalls, CreditsPerCall, MaxCredits,   \* the budget settings
    NoEntry,        \* no file in the cache directory
    Nobody,         \* no request; no service yet
    MaxMishaps      \* bound: restarts, and source documents replaced on disk

Settings == [live : BOOLEAN, cache : BOOLEAN, refresh : BOOLEAN]

ASSUME ExtractorAssumption ==
    /\ NumFiles \in Nat \ {0}
    /\ Modes \subseteq Settings
    /\ MaxLiveCalls \in Nat \ {0}
    /\ CreditsPerCall \in Nat \ {0}
    /\ MaxCredits \in Nat \ {0}
    /\ Nobody \notin Requests

Files == 1 .. NumFiles

\* A service, with its extractor, is named by the request that built it.
Services == Requests

\* A vendor answer: the document it was computed from, and whether it maps to
\* blocks.
Answers == [of : Contents, usable : BOOLEAN]

VARIABLES
    disk,       \* the source documents
    cache,      \* the cache directory: an answer per document hash
    mode,       \* the settings of this process
    service,    \* what lru_cache keeps for get_service
    calls,      \* live calls reserved, per service
    holder,     \* who holds the request lock of a service
    waiting,    \* who waits for it, first come first served
    task,       \* the state of each request
    posts,      \* requests this process has sent to the vendor, per service
    bills,      \* uploads the vendor charges for, per hash of what was uploaded
    artifacts,  \* the SourceArtifact records of extracted documents
    mishaps

process == <<mode, service, calls, holder, waiting, task, posts>>
vars == <<disk, cache, process, bills, artifacts, mishaps>>

Ended == [phase |-> "ended"]

Queued(s, f) == [phase |-> "queued", service |-> s, file |-> f]

\* What a process starts with.
Unused == [s \in Services |-> 0]
Unlocked == [s \in Services |-> Nobody]
NoLines == [s \in Services |-> <<>>]
Idle == [r \in Requests |-> Ended]

Init ==
    /\ disk \in [Files -> Contents]
    /\ cache = [c \in Contents |-> NoEntry]
    /\ mode \in Modes
    /\ service = Nobody
    /\ calls = Unused
    /\ holder = Unlocked
    /\ waiting = NoLines
    /\ task = Idle
    /\ posts = Unused
    /\ bills = [c \in Contents |-> 0]
    /\ artifacts = {}
    /\ mishaps = 0

-----------------------------------------------------------------------------
(* get_service.                                                            *)

\* The service is there: extraction of the first document begins.
UseService(r) ==
    /\ task[r] = Ended
    /\ service # Nobody
    /\ task' = [task EXCEPT ![r] = Queued(service, 1)]
    /\ waiting' = [waiting EXCEPT ![service] = Append(@, r)]
    /\ UNCHANGED <<disk, cache, mode, service, calls, holder, posts, bills,
                   artifacts, mishaps>>

\* It is not: a pool thread builds one.  lru_cache does not hold others back.
MissService(r) ==
    /\ task[r] = Ended
    /\ service = Nobody
    /\ task' = [task EXCEPT ![r] = [phase |-> "building"]]
    /\ UNCHANGED <<disk, cache, mode, service, calls, holder, waiting, posts,
                   bills, artifacts, mishaps>>

\* The request goes on with the service it built; lru_cache keeps the first.
BuildService(r) ==
    /\ task[r].phase = "building"
    /\ service' = IF service = Nobody THEN r ELSE service
    /\ task' = [task EXCEPT ![r] = Queued(r, 1)]
    /\ waiting' = [waiting EXCEPT ![r] = <<r>>]
    /\ UNCHANGED <<disk, cache, mode, calls, holder, posts, bills, artifacts,
                   mishaps>>

-----------------------------------------------------------------------------
(* extract.                                                                *)

\* Mutant: extract without the request lock.
TurnUnlocked(r) == task[r].phase = "queued"

\* The lock is free and r is the first in line for it.
Turn(r) ==
    /\ task[r].phase = "queued"
    /\ holder[task[r].service] = Nobody
    /\ Head(waiting[task[r].service]) = r

Document(r) == disk[task[r].file]

\* Mutant: an answer that did not map to blocks is asked for again.
CacheHitUsable(r) ==
    /\ mode.cache
    /\ ~mode.refresh
    /\ cache[Document(r)] # NoEntry
    /\ cache[Document(r)].usable

CacheHit(r) == mode.cache /\ ~mode.refresh /\ cache[Document(r)] # NoEntry

\* The coroutine raises, and create_run with it: the API answers 503.
Raise(r, line) ==
    /\ task' = [task EXCEPT ![r] = Ended]
    /\ waiting' = [waiting EXCEPT ![task[r].service] = line]
    /\ UNCHANGED artifacts

\* Mutant: one document too many.
DocumentsLeftInclusive(f) == f <= NumFiles

\* The loop of create_run goes on after document f.
DocumentsLeft(f) == f < NumFiles

\* The answer is mapped to blocks, and create_run takes the document's hash
\* from the disk and goes on to the next one.  line waits for the lock.
Deliver(r, answer, line) ==
    LET s == task[r].service
        more == answer.usable /\ DocumentsLeft(task[r].file)
    IN  /\ artifacts' = IF answer.usable
                        THEN artifacts \cup {[sha256 |-> Document(r), of |-> answer.of]}
                        ELSE artifacts
        /\ task' = [task EXCEPT ![r] = IF more THEN Queued(s, task[r].file + 1)
                                               ELSE Ended]
        /\ waiting' = [waiting EXCEPT ![s] = IF more THEN Append(line, r) ELSE line]

\* A hit: the lock is taken and given back without an await.
Replay(r) ==
    /\ Turn(r)
    /\ CacheHit(r)
    /\ Deliver(r, cache[Document(r)], Tail(waiting[task[r].service]))
    /\ UNCHANGED <<disk, cache, mode, service, calls, holder, posts, bills,
                   mishaps>>

\* Mutant: the credits used so far are compared, not the projected ones.
CanReserveUnprojected(s) ==
    /\ calls[s] < MaxLiveCalls
    /\ calls[s] * CreditsPerCall <= MaxCredits

\* _reserve_live_budget lets one more call through.
CanReserve(s) ==
    /\ calls[s] < MaxLiveCalls
    /\ (calls[s] + 1) * CreditsPerCall <= MaxCredits

\* A miss without live mode or budget.
Refuse(r) ==
    /\ Turn(r)
    /\ ~CacheHit(r)
    /\ ~mode.live \/ ~CanReserve(task[r].service)
    /\ Raise(r, Tail(waiting[task[r].service]))
    /\ UNCHANGED <<disk, cache, mode, service, calls, holder, posts, bills,
                   mishaps>>

\* Nothing comes of the turn: the document cannot be read, to be hashed for the
\* cache key or, after a hit, for its artifact; or its cache entry is damaged.
Unreadable(r) ==
    /\ Turn(r)
    /\ Raise(r, Tail(waiting[task[r].service]))
    /\ UNCHANGED <<disk, cache, mode, service, calls, holder, posts, bills,
                   mishaps>>

\* A miss with budget: the call is reserved, the document posted.
Submit(r) ==
    LET s == task[r].service
    IN  /\ Turn(r)
        /\ ~CacheHit(r)
        /\ mode.live
        /\ CanReserve(s)
        /\ calls' = [calls EXCEPT ![s] = @ + 1]
        /\ holder' = [holder EXCEPT ![s] = r]
        /\ waiting' = [waiting EXCEPT ![s] = Tail(@)]
        /\ task' = [task EXCEPT ![r] =
                    [phase |-> "posting", service |-> s, file |-> task[r].file,
                     key |-> Document(r)]]
        /\ posts' = [posts EXCEPT ![s] = @ + 1]
        /\ UNCHANGED <<disk, cache, mode, service, bills, artifacts, mishaps>>

\* The vendor has the document, which is opened after it was hashed, and will
\* charge for it.  The charge is booked here, at the upload, on what was
\* uploaded, also when the vendor makes it later: after the answer has been
\* lost, or after the client has given up and let go of the lock.
VendorAccepts(r) ==
    /\ task[r].phase = "posting"
    /\ task' = [task EXCEPT ![r] =
                [phase |-> "billed", service |-> task[r].service,
                 file |-> task[r].file, key |-> task[r].key, of |-> Document(r)]]
    /\ bills' = [bills EXCEPT ![Document(r)] = @ + 1]
    /\ UNCHANGED <<disk, cache, mode, service, calls, holder, waiting, posts,
                   artifacts, mishaps>>

\* Mutant: the lock is kept.
ReleaseNothing(r) == UNCHANGED holder

\* Leaving the lock's block, whatever the reason.
Release(r) == holder' = [holder EXCEPT ![task[r].service] = Nobody]

\* HTTP 402, another status, a transport error, the 60 seconds, or a document
\* that cannot be opened once its call is reserved (then posts counts a request
\* that was not sent): no answer, no charge ever, and no refund of the budget.
VendorRefuses(r) ==
    /\ task[r].phase = "posting"
    /\ Release(r)
    /\ Raise(r, waiting[task[r].service])
    /\ UNCHANGED <<disk, cache, mode, service, calls, posts, bills, mishaps>>

\* The answer that is paid for does not come within the 60 seconds, is lost on
\* the way, is not a JSON object, or cannot be written to the cache directory.
AnswerLost(r) ==
    /\ task[r].phase = "billed"
    /\ Release(r)
    /\ Raise(r, waiting[task[r].service])
    /\ UNCHANGED <<disk, cache, mode, service, calls, posts, bills, mishaps>>

\* The answer is kept before it is mapped, usable or not.  The document may be
\* unreadable when it is hashed for its artifact.
Answer(r) ==
    /\ task[r].phase = "billed"
    /\ \E usable \in BOOLEAN :
        LET answer == [of |-> task[r].of, usable |-> usable]
        IN  /\ cache' = IF mode.cache THEN [cache EXCEPT ![task[r].key] = answer]
                                      ELSE cache
            /\ \/ Deliver(r, answer, waiting[task[r].service])
               \/ Raise(r, waiting[task[r].service])
    /\ Release(r)
    /\ UNCHANGED <<disk, mode, service, calls, posts, bills, mishaps>>

-----------------------------------------------------------------------------
(* The surroundings.                                                       *)

Mishap == mishaps < MaxMishaps /\ mishaps' = mishaps + 1

\* The process dies, whatever it was doing, and starts again with settings
\* that may differ.
Restart ==
    /\ Mishap
    /\ mode' \in Modes
    /\ service' = Nobody
    /\ calls' = Unused
    /\ holder' = Unlocked
    /\ waiting' = NoLines
    /\ task' = Idle
    /\ posts' = Unused
    /\ UNCHANGED <<disk, cache, bills, artifacts>>

\* A source document is generated anew, or replaced.
EditDocument(f) ==
    /\ Mishap
    /\ \E c \in Contents \ {disk[f]} : disk' = [disk EXCEPT ![f] = c]
    /\ UNCHANGED <<cache, process, bills, artifacts>>

\* What a request that has been made does next.
Proceed(r) ==
    \/ BuildService(r)
    \/ Replay(r)
    \/ Refuse(r)
    \/ Unreadable(r)
    \/ Submit(r)
    \/ VendorRefuses(r)
    \/ AnswerLost(r)
    \/ Answer(r)

Next ==
    \/ \E r \in Requests :
        UseService(r) \/ MissService(r) \/ Proceed(r) \/ VendorAccepts(r)
    \/ Restart
    \/ \E f \in Files : EditDocument(f)

\* The event loop runs what is ready, and the client gives up on a post after
\* 60 seconds: no request is passed over for ever.
Spec == Init /\ [][Next]_vars /\ \A r \in Requests : WF_vars(Proceed(r))

-----------------------------------------------------------------------------
(* Properties.                                                             *)

Tasks ==
    [phase : {"ended", "building"}]
        \cup [phase : {"queued"}, service : Services, file : Files]
        \cup [phase : {"posting"}, service : Services, file : Files, key : Contents]
        \cup [phase : {"billed"}, service : Services, file : Files,
              key : Contents, of : Contents]

\* The state has the shape the code gives it.
TypeOK ==
    /\ disk \in [Files -> Contents]
    /\ cache \in [Contents -> Answers \cup {NoEntry}]
    /\ mode \in Settings
    /\ service \in Services \cup {Nobody}
    /\ calls \in [Services -> 0 .. MaxLiveCalls]
    /\ holder \in [Services -> Requests \cup {Nobody}]
    /\ waiting \in [Services -> Seq(Requests)]
    /\ task \in [Requests -> Tasks]
    /\ posts \in [Services -> Nat]
    /\ bills \in [Contents -> Nat]
    /\ artifacts \subseteq [sha256 : Contents, of : Contents]

\* No second extractor of this process has sent anything.
OneExtractor == \A s, q \in Services : calls[s] > 0 /\ calls[q] > 0 => s = q

\* What is being uploaded is what was looked up in the cache: no document has
\* been replaced in between (nutrient.py:85 opens it once more).
AsLookedUp ==
    \A r \in Requests : task[r].phase = "posting" => task[r].key = Document(r)

\* While one extractor does the work and uploads what it looked up, a document
\* whose answer is kept is not paid for again, by any request, before or after a
\* restart, unless a refresh was asked for (docs/NUTRIENT_DWS.md:37,
\* nutrient.py:125).
NeverPaidTwice ==
    [][\A c \in Contents :
        mode.cache /\ ~mode.refresh /\ OneExtractor /\ AsLookedUp /\
        bills'[c] > bills[c] => cache[c] = NoEntry]_vars

\* An extractor sends the vendor no more than its budget allows, whatever
\* becomes of the answers (docs/NUTRIENT_DWS.md:43, _reserve_live_budget).
BudgetBoundsPosts ==
    \A s \in Services :
        /\ posts[s] <= MaxLiveCalls
        /\ posts[s] * CreditsPerCall <= MaxCredits

InFlight(r) == task[r].phase \in {"posting", "billed"}

\* An extractor has one document at a time with the vendor, however requests
\* overlap and end (nutrient.py _request_lock).
OneFlightPerExtractor ==
    \A r, q \in Requests :
        InFlight(r) /\ InFlight(q) /\ task[r].service = task[q].service => r = q

\* nutrient.py:59: no two concurrent runs have both missed the cache for one
\* document and submitted it.
SingleFlight ==
    \A r, q \in Requests :
        InFlight(r) /\ InFlight(q) /\ task[r].key = task[q].key => r = q

\* The hash of a SourceArtifact is the hash of the document its blocks were
\* extracted from: docs/ARCHITECTURE.md:37, "A SourceArtifact is immutable and
\* content-addressed" (service.py:63 hashes the file once more).
ArtifactHashNamesSource == \A a \in artifacts : a.sha256 = a.of

\* A run that is asked for is answered, with a run or an error: waiting for
\* the lock ends, although any holder may fail (extract).
EveryRequestEnds ==
    \A r \in Requests : task[r] # Ended ~> task[r] = Ended
=============================================================================

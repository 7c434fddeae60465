------------------------------ MODULE Dispatch ------------------------------
(***************************************************************************)
(* LLM dispatches: the retry loop and the recording of dispatcher.ts, the  *)
(* SSE streams with their cancellation registry of stream.ts, the routes   *)
(* of plugin.ts, the test double and the example provider adapter, and the *)
(* two clients that read a stream: the React hook useDispatchStream and    *)
(* the chat command of the CLI.                                            *)
(*                                                                         *)
(* A handler runs without interruption up to its next await: the adapter's *)
(* answer, the next event of its stream, or the backoff sleep.             *)
(***************************************************************************)
EXTENDS Integers, Sequences, FiniteSets, SequencesExt

CONSTANTS
    Dispatches,     \* calls of POST /dispatch or of Dispatcher.dispatch()
    Corrs,          \* correlation ids
    UiCorr,         \* the one the chat UI's request carries, at every start()
    Adapters,       \* adapters the Runner may be wired with, see AdapterType
    InitialBehaviors,   \* what the test double may be started with
    None,
    MaxRetries,     \* MAX_DISPATCHER_RETRIES
    RingSize,       \* recentRingBuffer
    OtherVerdicts,  \* <<stop_reason, dispatcher_error_code>> an adopter's adapter
                    \*   puts in a response or in a MessageEnd of its own
    MaxDeltas,      \* ContentBlockDeltas the test double yields
    MaxFrames,      \* bound on the events of an adopter's stream
    MaxSet,         \* bound on calls of the set-behavior route
    MaxCancels      \* bound on cancellations a client posts

\* in-memory-test-adapter, the example adapter (no dispatchStream), and any
\* other adapter an adopter writes
AdapterType == {"double", "example", "other"}

Retryable == {"ProviderRateLimited", "ProviderUnavailable", "ProviderNetworkFailed"}
Fatal == {"ProviderAuthFailed", "ContentFilterRefusal", "ContextLengthExceeded"}
\* codes enough to tell apart what the dispatcher does with one
Thrown == {"ProviderRateLimited", "ProviderNetworkFailed", "ProviderAuthFailed"}
Codes == Retryable \cup Fatal \cup
    {"DispatcherRequestInvalid", "DispatcherAdapterError", "DispatcherStreamUnsupported"}
StopReasons == {"NaturalStop", "UserInterrupt", "BudgetExhausted", "DispatcherError"}
\* of the test double; those of dispatchStream() leave dispatch() to succeed,
\* and the others leave dispatchStream() to yield its deltas
Behaviors == {"ok", "never", "error", "flaky", "stream:never", "stream:error"}

Verdicts == (StopReasons \cup {None}) \X (Codes \cup {None})

ASSUME DispatchAssumption ==
    /\ UiCorr \in Corrs
    /\ MaxRetries \in Nat /\ RingSize \in Nat \ {0}
    /\ MaxDeltas \in Nat /\ MaxFrames \in Nat /\ MaxSet \in Nat /\ MaxCancels \in Nat
    /\ Adapters \subseteq AdapterType /\ InitialBehaviors \subseteq Behaviors
    /\ OtherVerdicts \subseteq Verdicts

ASSUME NoneAssumption ==
    None \notin Dispatches \cup Codes \cup StopReasons /\ None \notin {"ui", "cli"}

VARIABLES
    adapter,    \* the adapter wired into the dispatcher
    behavior,   \* of the test double
    job,        \* the dispatches
    inflight,   \* InFlightRegistry: whose controller each correlation id holds
    frames,     \* what each stream has written on the wire
    audit,      \* the dispatch rows of the audit chain
    ring,       \* the session's rows of /dispatch/recent, newest first
    reader,     \* the loop of the client that reads each stream
    ui,         \* DispatchStreamState of the chat UI
    cancels,    \* cancellations posted and not yet handled
    posted,     \* how many a client has posted
    sets,       \* calls of set-behavior so far
    \* history
    calls,      \* adapter calls made for each dispatch
    shared      \* correlation ids two live streams have registered

serverVars == <<adapter, behavior, job, inflight, frames, audit, ring, sets, calls, shared>>
clientVars == <<reader, ui, cancels, posted>>
vars == <<adapter, behavior, job, inflight, frames, audit, ring, reader, ui, cancels,
          posted, sets, calls, shared>>

EventTypes == {"MessageStart", "ContentBlockStart", "ContentBlockDelta", "ContentBlockEnd",
               "MessageEnd"}

\* A MessageEnd need not give a reason: stop_reason is optional in types.ts and
\* the sequence checker does not ask for it.
Event(type) == [type |-> type, reason |-> None, code |-> None]
MessageEnd(reason, code) == [type |-> "MessageEnd", reason |-> reason, code |-> code]
PlainEvents == {Event(t) : t \in EventTypes \ {"MessageEnd"}}
Events == PlainEvents \cup {MessageEnd(v[1], v[2]) : v \in Verdicts}
OtherEvents == PlainEvents \cup {MessageEnd(v[1], v[2]) : v \in OtherVerdicts}

\* SequenceChecker
Checker == [started |-> FALSE, ended |-> FALSE, open |-> FALSE]

Idle == [at |-> "idle"]
\* seen: the last MessageEnd the loop has taken; other events only add to the text
NoReader == [kind |-> None, open |-> FALSE, seen |-> 0]
NoUi == [status |-> "idle", stop |-> None]

Init ==
    /\ adapter \in Adapters
    /\ behavior \in InitialBehaviors
    /\ job = [d \in Dispatches |-> Idle]
    /\ inflight = [c \in Corrs |-> None]
    /\ frames = [d \in Dispatches |-> <<>>]
    /\ audit = <<>>
    /\ ring = <<>>
    /\ reader = [d \in Dispatches |-> NoReader]
    /\ ui = NoUi
    /\ cancels = {}
    /\ posted = 0
    /\ sets = 0
    /\ calls = [d \in Dispatches |-> 0]
    /\ shared = {}

MessageEnds(d) == {i \in DOMAIN frames[d] : frames[d][i].type = "MessageEnd"}

Unread(d) == {i \in MessageEnds(d) : i > reader[d].seen}

Live(d) == job[d].at \in {"calling", "backoff", "streaming"}

-----------------------------------------------------------------------------
(* Recording.  One row for the ring and for the audit chain.               *)

Row(d, stop, code) == [d |-> d, stop |-> stop, code |-> code]

RecordDispatch(row) ==
    /\ audit' = Append(audit, row)
    /\ ring' = SubSeq(<<row>> \o ring, 1, IF Len(ring) < RingSize THEN Len(ring) + 1
                                          ELSE RingSize)

\* the row of a stream, and of a stream the adapter cannot give
RecordStreamDispatch(d, stop, code) == RecordDispatch(Row(d, stop, code))

NoRecord == UNCHANGED <<audit, ring>>

RecentResponse(limit) == SubSeq(ring, 1, IF limit < Len(ring) THEN limit ELSE Len(ring))

-----------------------------------------------------------------------------
(* Dispatcher.dispatch(): mode "sync" is the HTTP route, which passes no   *)
(* signal; mode "lib" a caller with a signal of its own.                   *)

\* nothing reads the locals of a call that returned
Ended(j, stop, code) ==
    [j EXCEPT !.at = "done", !.stop = stop, !.code = code,
              !.attempt = 0, !.doing = None, !.chk = Checker, !.final = None, !.step = 0]

Done(d, stop, code) == job' = [job EXCEPT ![d] = Ended(@, stop, code)]

\* adapter.dispatch() of the given attempt
Call(d, attempt) ==
    /\ job' = [job EXCEPT ![d].at = "calling", ![d].attempt = attempt,
                          ![d].doing = behavior]
    /\ calls' = [calls EXCEPT ![d] = @ + 1]

NewJob(d, mode, corr, aborted) ==
    [at |-> "calling", mode |-> mode, corr |-> corr, attempt |-> 1, doing |-> behavior,
     aborted |-> aborted, chk |-> Checker, final |-> None, step |-> 0,
     stop |-> None, code |-> None, own |-> FALSE]

\* A request that fails validation in the library call is answered with no row.
DispatchInvalid(d) ==
    /\ job[d].at = "idle"
    /\ job' = [job EXCEPT ![d] = [NewJob(d, "lib", UiCorr, FALSE) EXCEPT
                 !.at = "done", !.stop = "DispatcherError", !.code = "DispatcherRequestInvalid"]]
    /\ NoRecord
    /\ UNCHANGED <<adapter, behavior, inflight, frames, sets, calls, shared>>
    /\ UNCHANGED clientVars

DispatchOverBudget(d) ==
    /\ job[d].at = "idle"
    /\ \E mode \in {"sync", "lib"} :
          job' = [job EXCEPT ![d] = [NewJob(d, mode, UiCorr, FALSE) EXCEPT
                    !.at = "done", !.stop = "BudgetExhausted"]]
    /\ RecordDispatch(Row(d, "BudgetExhausted", None))
    /\ UNCHANGED <<adapter, behavior, inflight, frames, sets, calls, shared>>
    /\ UNCHANGED clientVars

\* A signal aborted before the call is answered at the head of the loop.
DispatchArrives(d) ==
    /\ job[d].at = "idle"
    /\ \E mode \in {"sync", "lib"}, aborted \in BOOLEAN :
          /\ aborted => mode = "lib"
          /\ IF aborted
             THEN /\ job' = [job EXCEPT ![d] = [NewJob(d, mode, UiCorr, TRUE) EXCEPT
                               !.at = "done", !.stop = "UserInterrupt"]]
                  /\ UNCHANGED calls
             ELSE /\ job' = [job EXCEPT ![d] = NewJob(d, mode, UiCorr, FALSE)]
                  /\ calls' = [calls EXCEPT ![d] = @ + 1]
    /\ NoRecord
    /\ UNCHANGED <<adapter, behavior, inflight, frames, sets, shared>>
    /\ UNCHANGED clientVars

\* the caller's signal fires; the listener is removed when dispatch() returns
SignalAborts(d) ==
    /\ Live(d) /\ job[d].mode = "lib" /\ ~job[d].aborted
    /\ job' = [job EXCEPT ![d].aborted = TRUE]
    /\ UNCHANGED <<adapter, behavior, inflight, frames, audit, ring, sets, calls, shared>>
    /\ UNCHANGED clientVars

\* The adapter answers, with a reason and an error code of its own, which pass
\* through unchanged.
AdapterReturns(d, stop, code) ==
    /\ job[d].at = "calling"
    /\ job' = [job EXCEPT ![d] = [Ended(@, stop, code) EXCEPT !.own = TRUE]]
    /\ RecordDispatch(Row(d, stop, code))
    /\ UNCHANGED <<adapter, behavior, inflight, frames, sets, calls, shared>>
    /\ UNCHANGED clientVars

\* The response names another session, turn, billing tag or correlation id.
EchoBroken(d) ==
    /\ job[d].at = "calling"
    /\ Done(d, "DispatcherError", "DispatcherRequestInvalid")
    /\ RecordDispatch(Row(d, "DispatcherError", "DispatcherRequestInvalid"))
    /\ UNCHANGED <<adapter, behavior, inflight, frames, sets, calls, shared>>
    /\ UNCHANGED clientVars

AdapterThrowsEach(d, code) ==
    /\ job[d].at = "calling"
    /\ IF job[d].aborted
       THEN Done(d, "UserInterrupt", None) /\ RecordDispatch(Row(d, "UserInterrupt", None))
       ELSE IF code \notin Retryable \/ job[d].attempt > MaxRetries
       THEN Done(d, "DispatcherError", code) /\ RecordDispatch(Row(d, "DispatcherError", code))
       ELSE /\ job' = [job EXCEPT ![d].at = "backoff"]
            /\ RecordDispatch(Row(d, "DispatcherError", code))
    /\ UNCHANGED <<adapter, behavior, inflight, frames, sets, calls, shared>>
    /\ UNCHANGED clientVars

\* The adapter throws: cancelled, reported, or retried after a sleep.
AdapterThrows(d, code) ==
    /\ job[d].at = "calling"
    /\ IF job[d].aborted
       THEN Done(d, "UserInterrupt", None) /\ RecordDispatch(Row(d, "UserInterrupt", None))
       ELSE IF code \notin Retryable \/ job[d].attempt > MaxRetries
       THEN Done(d, "DispatcherError", code) /\ RecordDispatch(Row(d, "DispatcherError", code))
       ELSE job' = [job EXCEPT ![d].at = "backoff"] /\ NoRecord
    /\ UNCHANGED <<adapter, behavior, inflight, frames, sets, calls, shared>>
    /\ UNCHANGED clientVars

\* The sleep ends (nothing interrupts it): the head of the loop looks at the
\* signal again, and answers a cancelled dispatch without a row.
BackoffOver(d) ==
    /\ job[d].at = "backoff"
    /\ IF job[d].aborted
       THEN Done(d, "UserInterrupt", None) /\ UNCHANGED calls
       ELSE Call(d, job[d].attempt + 1)
    /\ NoRecord
    /\ UNCHANGED <<adapter, behavior, inflight, frames, sets, shared>>
    /\ UNCHANGED clientVars

-----------------------------------------------------------------------------
(* The adapters, as dispatch() meets them.                                 *)

\* The test double: "never" hangs until aborted, "error" throws at every
\* attempt, "flaky" at the first; a retry sees the behavior set meanwhile.
DoubleAnswers(d) ==
    /\ adapter = "double"
    /\ \/ /\ job[d].at = "calling" /\ job[d].doing \in {"ok", "stream:never", "stream:error"}
          /\ AdapterReturns(d, "NaturalStop", None)
       \/ /\ job[d].at = "calling" /\ job[d].doing = "never" /\ job[d].aborted
          /\ AdapterThrows(d, "ProviderNetworkFailed")
       \/ /\ job[d].at = "calling" /\ job[d].doing = "error"
          /\ \E c \in Thrown : AdapterThrows(d, c)
       \/ /\ job[d].at = "calling" /\ job[d].doing = "flaky"
          /\ IF job[d].attempt <= 1
             THEN \E c \in Thrown : AdapterThrows(d, c)
             ELSE AdapterReturns(d, "NaturalStop", None)

ClassifyHttpError(status) ==
    CASE status = 429 -> "ProviderRateLimited"
      [] status \in {401, 403} -> "ProviderAuthFailed"
      [] status \in 500..599 -> "ProviderUnavailable"
      [] status = 400 -> "ContextLengthExceeded"
      [] OTHER -> "ProviderNetworkFailed"

\* The example adapter: the response, an HTTP error by its status, or the
\* timeout of its own, which bounds every call.
ExampleAnswers(d) ==
    /\ adapter = "example"
    /\ \/ AdapterReturns(d, "NaturalStop", None)
       \/ \E status \in {400, 401, 404, 429, 500} : AdapterThrows(d, ClassifyHttpError(status))
       \/ AdapterThrows(d, "ProviderNetworkFailed")

OtherAnswers(d) ==
    /\ adapter = "other"
    /\ \/ \E v \in OtherVerdicts : v[1] # None /\ AdapterReturns(d, v[1], v[2])
       \/ EchoBroken(d)
       \/ \E c \in Thrown : AdapterThrows(d, c)

-----------------------------------------------------------------------------
(* Streams.                                                                *)

Register(c, d) ==
    /\ inflight' = [inflight EXCEPT ![c] = d]
    /\ shared' = shared \cup {x \in {c} : \E e \in Dispatches : /\ job[e].at = "streaming"
                                                                /\ job[e].corr = c}

ReleaseKeeps(c) == inflight

\* Whoever holds the id now is forgotten.
Release(c) == [inflight EXCEPT ![c] = None]

\* The request reaches the route: refused (not ready, bearer, rate limit,
\* schema, session), 406 with a row of its own, or a stream.
PostRefused(d) ==
    /\ job[d].at = "posted"
    /\ job' = [job EXCEPT ![d].at = "refused"]
    /\ UNCHANGED <<adapter, behavior, inflight, frames, audit, ring, sets, calls, shared>>
    /\ UNCHANGED clientVars

PostUnsupported(d) ==
    /\ job[d].at = "posted" /\ adapter = "example"
    /\ job' = [job EXCEPT ![d].at = "refused", ![d].stop = "DispatcherError"]
    /\ RecordStreamDispatch(d, "DispatcherError", "DispatcherStreamUnsupported")
    /\ UNCHANGED <<adapter, behavior, inflight, frames, sets, calls, shared>>
    /\ UNCHANGED clientVars

PostStreams(d) ==
    /\ job[d].at = "posted" /\ adapter # "example"
    /\ job' = [job EXCEPT ![d].at = "streaming", ![d].doing = behavior]
    /\ Register(job[d].corr, d)
    /\ calls' = [calls EXCEPT ![d] = @ + 1]
    /\ UNCHANGED <<adapter, behavior, frames, audit, ring, sets>>
    /\ UNCHANGED clientVars

\* SequenceChecker.check(): fresh says the sequence number grew.
Permits(chk, type, fresh) ==
    /\ fresh
    /\ type = "MessageStart" => ~chk.started
    /\ type = "ContentBlockStart" => chk.started /\ ~chk.open
    /\ type \in {"ContentBlockDelta", "ContentBlockEnd"} => chk.open
    /\ type = "MessageEnd" => chk.started /\ ~chk.ended

Checked(chk, type) ==
    [started |-> chk.started \/ type = "MessageStart",
     ended |-> chk.ended \/ type = "MessageEnd",
     open |-> (chk.open \/ type = "ContentBlockStart") /\ type # "ContentBlockEnd"]

Complete(chk) == chk.started /\ chk.ended /\ ~chk.open

\* The end of runStreamDispatch: err is the code of what was thrown, or None.
\* A failure after a MessageEnd that gave a reason changes nothing any more;
\* after one that gave none, a second MessageEnd follows it.
Finish(d, err) ==
    LET synthetic == err # None /\ job[d].final = None
        stop == IF synthetic THEN "DispatcherError"
                ELSE IF job[d].final = None THEN "NaturalStop" ELSE job[d].final
        code == IF synthetic THEN err ELSE job[d].code
    IN  /\ frames' = IF synthetic
                     THEN [frames EXCEPT ![d] = Append(@, MessageEnd("DispatcherError", err))]
                     ELSE frames
        /\ Done(d, stop, code)
        /\ inflight' = Release(job[d].corr)
        /\ RecordStreamDispatch(d, stop, code)
        /\ UNCHANGED <<adapter, behavior, sets, calls, shared>>
        /\ UNCHANGED clientVars

\* One event of the adapter's iterator; step is where the iterator goes next.
Forward(d, ev, step) ==
    /\ frames' = [frames EXCEPT ![d] = Append(@, ev)]
    /\ job' = [job EXCEPT ![d].chk = Checked(@, ev.type), ![d].step = step,
                          ![d].final = IF ev.type = "MessageEnd" THEN ev.reason ELSE @,
                          ![d].code = IF ev.type = "MessageEnd" THEN ev.code ELSE @]
    /\ UNCHANGED <<adapter, behavior, inflight, audit, ring, sets, calls, shared>>
    /\ UNCHANGED clientVars

Yields(d, ev, fresh, step) ==
    IF Permits(job[d].chk, ev.type, fresh)
    THEN Forward(d, ev, step)
    ELSE Finish(d, "DispatcherAdapterError")

EndOfStream(d) ==
    Finish(d, IF Complete(job[d].chk) THEN None ELSE "DispatcherAdapterError")

DoubleDeaf(d) ==
    LET at == job[d].step
    IN  /\ job[d].at = "streaming" /\ adapter = "double"
        /\ \/ at = 0 /\ Yields(d, Event("MessageStart"), TRUE, 1)
           \/ at = 1 /\ Yields(d, Event("ContentBlockStart"), TRUE, 2)
           \/ at \in 2..MaxDeltas + 1 /\ job[d].doing # "stream:never"
              /\ Yields(d, Event("ContentBlockDelta"), TRUE, at + 1)
           \/ at = MaxDeltas + 2
              /\ Yields(d, Event("ContentBlockEnd"), TRUE, MaxDeltas + 3)
           \/ at = MaxDeltas + 3
              /\ Yields(d, MessageEnd("NaturalStop", None), TRUE, MaxDeltas + 5)
           \/ at = MaxDeltas + 5 /\ EndOfStream(d)

\* dispatchStream of the test double: MessageStart, an error if told so, then
\* one block; an abort is looked at before each delta, and only one seen there
\* makes the message end with UserInterrupt (step MaxDeltas + 4).
DoubleStreams(d) ==
    LET at == job[d].step
        stalled == job[d].doing = "stream:never" /\ ~job[d].aborted
    IN  /\ job[d].at = "streaming" /\ adapter = "double"
        /\ \/ at = 0 /\ Yields(d, Event("MessageStart"), TRUE, 1)
           \/ at = 1 /\ job[d].doing = "stream:error" /\ \E c \in Thrown : Finish(d, c)
           \/ at = 1 /\ job[d].doing # "stream:error"
              /\ Yields(d, Event("ContentBlockStart"), TRUE, 2)
           \/ at \in 2..MaxDeltas + 1 /\ ~job[d].aborted /\ ~stalled
              /\ Yields(d, Event("ContentBlockDelta"), TRUE, at + 1)
           \/ at \in 2..MaxDeltas + 1 /\ job[d].aborted
              /\ Yields(d, Event("ContentBlockEnd"), TRUE, MaxDeltas + 4)
           \/ at = MaxDeltas + 2
              /\ Yields(d, Event("ContentBlockEnd"), TRUE, MaxDeltas + 3)
           \/ at = MaxDeltas + 3
              /\ Yields(d, MessageEnd("NaturalStop", None), TRUE, MaxDeltas + 5)
           \/ at = MaxDeltas + 4
              /\ Yields(d, MessageEnd("UserInterrupt", None), TRUE, MaxDeltas + 5)
           \/ at = MaxDeltas + 5 /\ EndOfStream(d)

\* Any other adapter yields what it likes, throws, or stops.
OtherStreams(d) ==
    /\ job[d].at = "streaming" /\ adapter = "other"
    /\ \/ \E ev \in OtherEvents :
             /\ Len(frames[d]) < MaxFrames \/ ~Permits(job[d].chk, ev.type, TRUE)
             /\ Yields(d, ev, TRUE, 0)
       \/ Yields(d, Event("ContentBlockDelta"), FALSE, 0)
       \/ \E c \in Thrown \cap Fatal : Finish(d, c)
       \/ EndOfStream(d)

\* POST /dispatch/:correlation_id/cancel: 202, 404, or refused earlier.
CancelArrives(c) ==
    /\ c \in cancels
    /\ cancels' = cancels \ {c}
    /\ \/ /\ inflight[c] # None
          /\ job' = [job EXCEPT ![inflight[c]].aborted = TRUE]
       \/ UNCHANGED job
    /\ UNCHANGED <<adapter, behavior, inflight, frames, audit, ring, reader, ui, posted, sets,
                   calls, shared>>

\* POST /dispatch/debug/set-behavior
SetBehavior(b) ==
    /\ adapter = "double" /\ sets < MaxSet /\ b # behavior
    /\ behavior' = b
    /\ sets' = sets + 1
    /\ UNCHANGED <<adapter, job, inflight, frames, audit, ring, calls, shared>>
    /\ UNCHANGED clientVars

-----------------------------------------------------------------------------
(* The clients.  Every start() of the UI posts the same request, its       *)
(* correlation id included, and every loop it started sets the same state. *)

Post(d, corr) == job' = [job EXCEPT ![d] = [NewJob(d, "stream", corr, FALSE) EXCEPT
                                              !.at = "posted"]]

UiStart(d) ==
    /\ job[d].at = "idle"
    /\ Post(d, UiCorr)
    /\ reader' = [reader EXCEPT ![d] = [kind |-> "ui", open |-> TRUE, seen |-> 0]]
    /\ ui' = [NoUi EXCEPT !.status = "streaming"]
    /\ UNCHANGED <<adapter, behavior, inflight, frames, audit, ring, cancels, posted, sets,
                   calls, shared>>

\* chatCommand: a turn, with a correlation id of its own
ChatTurn(d) ==
    /\ job[d].at = "idle"
    /\ \E c \in Corrs \ {UiCorr} : Post(d, c)
    /\ reader' = [reader EXCEPT ![d] = [kind |-> "cli", open |-> TRUE, seen |-> 0]]
    /\ UNCHANGED <<adapter, behavior, inflight, frames, audit, ring, ui, cancels, posted, sets,
                   calls, shared>>

\* The client takes the frames of the response, up to the next MessageEnd.
ReadMessageEnd(d) ==
    /\ reader[d].open
    /\ \E i \in Unread(d) :
          /\ \A k \in Unread(d) : i <= k
          /\ ui' = IF reader[d].kind = "ui"
                   THEN [status |-> "done", stop |-> frames[d][i].reason] ELSE ui
          /\ reader' = [reader EXCEPT ![d].seen = i]
    /\ UNCHANGED <<cancels, posted>>
    /\ UNCHANGED serverVars

UiSettles(d, status) ==
    ui' = IF reader[d].kind = "ui" THEN [ui EXCEPT !.status = status] ELSE ui

\* The response ends: a UI still streaming is done, though truncated.
ReadEnd(d) ==
    /\ reader[d].open /\ job[d].at = "done"
    /\ Unread(d) = {}
    /\ reader' = [reader EXCEPT ![d].open = FALSE]
    /\ UiSettles(d, IF ui.status = "streaming" THEN "done" ELSE ui.status)
    /\ UNCHANGED <<cancels, posted>>
    /\ UNCHANGED serverVars

\* The fetch fails: an HTTP status that is not 200, or the connection breaks.
\* The server does not look at the connection and goes on.
ReadFails(d) ==
    /\ reader[d].open /\ job[d].at # "posted"
    /\ reader' = [reader EXCEPT ![d].open = FALSE]
    /\ UiSettles(d, "error")
    /\ UNCHANGED <<cancels, posted>>
    /\ UNCHANGED serverVars

UiAbortsSilently(d) ==
    /\ reader[d].open /\ reader[d].kind = "ui"
    /\ reader' = [reader EXCEPT ![d].open = FALSE]
    /\ UNCHANGED <<ui, cancels, posted>>
    /\ UNCHANGED serverVars

\* The UI's abort() closes the fetch: the unmount of the component, or the
\* first half of cancel().
UiAborts(d) ==
    /\ reader[d].open /\ reader[d].kind = "ui"
    /\ reader' = [reader EXCEPT ![d].open = FALSE]
    /\ UiSettles(d, "done")
    /\ UNCHANGED <<cancels, posted>>
    /\ UNCHANGED serverVars

\* cancel() of the UI, which also aborts its fetch, and Ctrl-C of the chat
\* command, which keeps reading.
PostCancel(d) ==
    /\ reader[d].open /\ posted < MaxCancels
    /\ posted' = posted + 1
    /\ cancels' = cancels \cup {job[d].corr}
    /\ reader' = IF reader[d].kind = "ui" THEN [reader EXCEPT ![d].open = FALSE] ELSE reader
    /\ UiSettles(d, IF reader[d].kind = "ui" THEN "done" ELSE ui.status)
    /\ UNCHANGED serverVars

-----------------------------------------------------------------------------

Answers(d) == DoubleAnswers(d) \/ ExampleAnswers(d) \/ OtherAnswers(d)

Streams(d) == DoubleStreams(d) \/ OtherStreams(d)

Next ==
    \/ \E d \in Dispatches :
          \/ DispatchInvalid(d) \/ DispatchOverBudget(d) \/ DispatchArrives(d)
          \/ SignalAborts(d) \/ Answers(d) \/ BackoffOver(d)
          \/ PostRefused(d) \/ PostUnsupported(d) \/ PostStreams(d) \/ Streams(d)
          \/ UiStart(d) \/ ChatTurn(d) \/ ReadMessageEnd(d) \/ ReadEnd(d) \/ ReadFails(d)
          \/ UiAborts(d) \/ PostCancel(d)
    \/ \E c \in Corrs : CancelArrives(c)
    \/ \E b \in Behaviors : SetBehavior(b)

\* Sleeps end, the double's generator goes on, the example adapter has a
\* timeout, and a client goes on reading.  Nothing is assumed of an adopter's
\* adapter, of a cancellation's delivery, or of the user.
Fairness ==
    \A d \in Dispatches :
        /\ WF_vars(BackoffOver(d)) /\ WF_vars(DoubleAnswers(d)) /\ WF_vars(ExampleAnswers(d))
        /\ WF_vars(DoubleStreams(d)) /\ WF_vars(ReadMessageEnd(d)) /\ WF_vars(ReadEnd(d))

Spec == Init /\ [][Next]_vars /\ Fairness

-----------------------------------------------------------------------------
(* Properties.                                                             *)

\* Types: the ring holds at most RingSize rows, a registered id names a dispatch.
TypeOK ==
    /\ adapter \in AdapterType /\ behavior \in Behaviors
    /\ \A d \in Dispatches :
          /\ job[d].at \in {"idle", "posted", "refused", "calling", "backoff", "streaming", "done"}
          /\ job[d].at = "done" => job[d].stop \in StopReasons /\ job[d].code \in Codes \cup {None}
          /\ \A i \in DOMAIN frames[d] : frames[d][i] \in Events
          /\ reader[d].seen # 0 => job[d].mode = "stream"
    /\ inflight \in [Corrs -> Dispatches \cup {None}]
    /\ Len(ring) <= RingSize
    /\ ui.status \in {"idle", "streaming", "done", "error"}
    /\ cancels \subseteq Corrs

RowsOf(d) == Cardinality({i \in DOMAIN audit : audit[i].d = d})

\* No dispatch is audited twice, whatever retries, cancellations and stream
\* failures it meets, and a finished one has its row with the reason it was
\* answered with.  The exceptions are the two answers dispatcher.ts gives
\* before or between adapter calls: an invalid request, and a cancellation seen
\* at the head of the retry loop.
OneRowPerDispatch ==
    \A d \in Dispatches :
        /\ RowsOf(d) <= 1
        /\ job[d].at = "done" =>
              \/ \E i \in DOMAIN audit : audit[i] = Row(d, job[d].stop, job[d].code)
              \/ /\ job[d].mode = "lib" /\ RowsOf(d) = 0
                 /\ \/ job[d].aborted /\ job[d].stop = "UserInterrupt"
                    \/ job[d].code = "DispatcherRequestInvalid" /\ calls[d] = 0

\* The retry budget of errors.ts is one for the whole dispatch: changing from a
\* rate limit to a network failure does not start it again, and a retryable
\* condition the adapter threw is reported only once the budget is spent.
RetryBudget ==
    \A d \in Dispatches :
        /\ calls[d] <= MaxRetries + 1
        /\ job[d].at = "done" /\ job[d].mode # "stream" /\ ~job[d].own /\ job[d].code \in Retryable
              => calls[d] = MaxRetries + 1

\* A dispatch whose signal fired never calls the provider again, and is not
\* reported as a provider failure: it was interrupted, or the answer that was
\* already under way is passed on.
CancelledStops ==
    [][\A d \in Dispatches : job[d].at # "idle" /\ job[d].mode = "lib" /\ job[d].aborted =>
          /\ calls'[d] = calls[d]
          /\ job'[d].at = "done" => job'[d].own \/ job'[d].code \notin Retryable \cup Fatal]_vars

OpenBlocks(s, i) ==
    Cardinality({j \in 1..i - 1 : s[j].type = "ContentBlockStart"})
    - Cardinality({j \in 1..i - 1 : s[j].type = "ContentBlockEnd"})

\* Whatever an adapter yields, what reaches the wire is a stream a client can
\* read: deltas lie inside a block, blocks do not nest, the message starts at
\* most once and first, and a closed stream carries a MessageEnd.  It carries
\* two in one case only: the adapter's gave no stop_reason and the stream then
\* failed, so that stream.ts closes it with a second one.
StreamWellFormed ==
    \A d \in Dispatches :
        /\ \A i \in DOMAIN frames[d] :
              LET type == frames[d][i].type IN
              /\ OpenBlocks(frames[d], i) = IF type \in {"ContentBlockDelta", "ContentBlockEnd"}
                                            THEN 1
                                            ELSE IF type = "ContentBlockStart" THEN 0
                                            ELSE OpenBlocks(frames[d], i)
              /\ type = "MessageStart" <=> i = 1 /\ type # "MessageEnd"
        /\ \A i, k \in MessageEnds(d) : i < k =>
              /\ frames[d][i].reason = None
              /\ k = Len(frames[d]) /\ frames[d][k].reason = "DispatcherError"
              /\ job[d].at = "done"
        /\ job[d].at = "done" /\ job[d].mode = "stream" => MessageEnds(d) # {}

\* What the audit row says of a stream is what its last MessageEnd told the
\* client.  Of one that gave no reason and was not followed by a failure the
\* row says NaturalStop.
AuditMatchesWire ==
    \A i \in DOMAIN audit :
        LET d == audit[i].d IN
        job[d].at = "done" /\ job[d].mode = "stream" =>
            \E e \in MessageEnds(d) :
                /\ \A k \in MessageEnds(d) : k <= e
                /\ frames[d][e].code = audit[i].code
                /\ \/ frames[d][e].reason = audit[i].stop
                   \/ frames[d][e].reason = None /\ audit[i].stop = "NaturalStop"

\* The cancellation registry: a live stream can be cancelled through its id as
\* long as no other stream used the id meanwhile, and a finished stream leaves
\* nothing behind.
LiveIsCancellable ==
    /\ \A d \in Dispatches : job[d].at = "streaming" /\ job[d].corr \notin shared
          => inflight[job[d].corr] = d
    /\ \A c \in Corrs : inflight[c] # None =>
          job[inflight[c]].at = "streaming" /\ job[inflight[c]].corr = c

\* /dispatch/recent shows the newest rows of the audit chain, newest first, for
\* every limit.
RecentIsAuditTail ==
    \A limit \in 1..RingSize :
        LET n == IF limit < Len(audit) THEN limit ELSE Len(audit)
        IN  RecentResponse(limit) = Reverse(SubSeq(audit, Len(audit) - n + 1, Len(audit)))

\* The chat UI never shows a stream as running with no loop left that could
\* settle it, and shows only a stop reason that the wire carried.
UiSettled ==
    /\ ui.status = "streaming" => \E d \in Dispatches : reader[d].kind = "ui" /\ reader[d].open
    /\ ui.stop # None => \E d \in Dispatches : /\ reader[d].kind = "ui"
                                               /\ \E e \in MessageEnds(d) :
                                                     frames[d][e].reason = ui.stop

\* A cancellation that reached the dispatch ends it, even if the test double
\* hangs; with the example adapter every call ends by its timeout.
CancelledEnds ==
    \A d \in Dispatches :
        (Live(d) /\ (adapter = "example" \/ (adapter = "double" /\ job[d].aborted)))
            ~> job[d].at = "done"

\* What a dispatch leaves behind (dispatcher.ts, stream.ts): one audit row within one retry
\* budget, a stream a client can read, and the same story on the wire, in the
\* chain and on /dispatch/recent.
DispatchInv ==
    /\ TypeOK
    /\ OneRowPerDispatch /\ RetryBudget /\ RecentIsAuditTail
    /\ StreamWellFormed /\ AuditMatchesWire

\* A cancelled dispatch is over: it starts nothing new and comes to its end.
CancelIsFinal == CancelledStops /\ CancelledEnds
=============================================================================

---------------------------- MODULE DispatchProofs ---------------------------
(***************************************************************************)
(* The guarantees of the dispatcher, its streams and its clients, for any  *)
(* number of dispatches and correlation ids, any retry budget and ring,    *)
(* and an adapter that yields whatever it likes.                           *)
(***************************************************************************)
EXTENDS Dispatch, FiniteSetTheorems, SequenceTheorems, TLAPS

-----------------------------------------------------------------------------
(* The inductive invariant.                                                *)

CheckerType == [started : BOOLEAN, ended : BOOLEAN, open : BOOLEAN]

CallType ==
    [at : {"posted", "refused", "calling", "backoff", "streaming", "done"},
     mode : {"sync", "lib", "stream"}, corr : Corrs, attempt : Nat,
     doing : Behaviors \cup {None}, aborted : BOOLEAN, chk : CheckerType,
     final : StopReasons \cup {None}, step : Nat,
     stop : StopReasons \cup {None}, code : Codes \cup {None}, own : BOOLEAN]

RowType == [d : Dispatches, stop : StopReasons, code : Codes \cup {None}]

TypedServer ==
    /\ adapter \in AdapterType /\ behavior \in Behaviors
    /\ job \in [Dispatches -> {Idle} \cup CallType]
    /\ inflight \in [Corrs -> Dispatches \cup {None}]
    /\ frames \in [Dispatches -> Seq(Events)]
    /\ audit \in Seq(RowType) /\ ring \in Seq(RowType)
    /\ calls \in [Dispatches -> Nat]

ReaderType == [kind : {"ui", "cli", None}, open : BOOLEAN, seen : Nat]
UiType == [status : {"idle", "streaming", "done", "error"}, stop : StopReasons \cup {None}]

TypedClients ==
    /\ reader \in [Dispatches -> ReaderType]
    /\ ui \in UiType
    /\ cancels \subseteq Corrs

\* What StreamWellFormed says of the events on the wire.
Readable(s) ==
    \A i \in DOMAIN s :
        /\ OpenBlocks(s, i) = IF s[i].type \in {"ContentBlockDelta", "ContentBlockEnd"} THEN 1
                              ELSE IF s[i].type = "ContentBlockStart" THEN 0
                              ELSE OpenBlocks(s, i)
        /\ s[i].type = "MessageStart" <=> (i = 1 /\ s[i].type # "MessageEnd")

Ends(s) == {i \in DOMAIN s : s[i].type = "MessageEnd"}

\* The wire carries one MessageEnd, which gives this reason and code.
EndsWith(s, reason, code) ==
    \E e \in DOMAIN s : Ends(s) = {e} /\ s[e].reason = reason /\ s[e].code = code

\* It carries one that gives no reason, and closes with a second one.
EndsAgain(s, code) ==
    \E e \in DOMAIN s :
        /\ e < Len(s) /\ Ends(s) = {e, Len(s)}
        /\ s[e].reason = None /\ s[Len(s)].reason = "DispatcherError" /\ s[Len(s)].code = code

\* What went over the wire and what the audit row says of it.
Closes(s, stop, code) ==
    \/ EndsWith(s, stop, code)
    \/ EndsWith(s, None, code) /\ stop = "NaturalStop"
    \/ EndsAgain(s, code) /\ stop = "DispatcherError"

\* The sequence checker and the last MessageEnd are a summary of what went over
\* the wire.
Follows(chk, final, code, s) ==
    /\ Readable(s)
    /\ chk.started <=> s # <<>>
    /\ chk.open => chk.started
    /\ OpenBlocks(s, Len(s) + 1) = IF chk.open THEN 1 ELSE 0
    /\ IF chk.ended THEN EndsWith(s, final, code) ELSE Ends(s) = {} /\ final = None

\* A dispatch, stage by stage: its adapter calls n and its events s.
Fits(j, n, s) ==
    /\ j.at \in {"idle", "posted", "refused"} => n = 0 /\ s = <<>>
    /\ j.at \in {"posted", "refused", "streaming"} => j.mode = "stream"
    /\ j.at = "posted" => j.chk = Checker /\ j.final = None
    /\ j.at \in {"calling", "backoff"} =>
          /\ j.mode # "stream" /\ s = <<>> /\ (j.aborted => j.mode = "lib")
          /\ n = j.attempt /\ n <= MaxRetries + 1
          /\ j.at = "backoff" => n <= MaxRetries
    /\ j.at = "streaming" => n = 1 /\ Follows(j.chk, j.final, j.code, s)
    /\ j.at = "done" =>
          /\ n <= MaxRetries + 1 /\ j.stop # None
          /\ j.mode = "stream" => Readable(s) /\ Closes(s, j.stop, j.code)
          /\ j.mode # "stream" => s = <<>> /\ (~j.own /\ j.code \in Retryable => n = MaxRetries + 1)
          /\ j.mode = "lib" /\ j.aborted => j.own \/ j.code \notin Retryable \cup Fatal

Staged == \A d \in Dispatches : Fits(job[d], calls[d], frames[d])

\* The chain has a row of each answered dispatch, but for the two answers
\* dispatcher.ts gives outside an adapter call, and no dispatch has two.
Excused(j, n) ==
    /\ j.mode = "lib"
    /\ \/ j.aborted /\ j.stop = "UserInterrupt"
       \/ j.code = "DispatcherRequestInvalid" /\ n = 0

Unlogged(d) == \A i \in DOMAIN audit : audit[i].d # d

Logged ==
    /\ \A i \in DOMAIN audit : job[audit[i].d].at \in {"done", "refused"}
    /\ \A i, k \in DOMAIN audit : audit[i].d = audit[k].d => i = k
    /\ \A d \in Dispatches : job[d].at = "done" =>
          \/ \E i \in DOMAIN audit : audit[i] = Row(d, job[d].stop, job[d].code)
          \/ Excused(job[d], calls[d]) /\ Unlogged(d)

\* The ring is the end of the chain, newest first.
Ringed ==
    /\ Len(ring) = IF Len(audit) < RingSize THEN Len(audit) ELSE RingSize
    /\ \A i \in 1 .. Len(ring) : ring[i] = audit[Len(audit) - i + 1]

\* Streams that are live under one id have shared it.
Sharing ==
    \A d, e \in Dispatches :
        /\ d # e /\ job[d].at = "streaming" /\ job[e].at = "streaming"
        /\ job[d].corr = job[e].corr
        => job[d].corr \in shared

Registered == LiveIsCancellable /\ Sharing

\* A client reads only what it posted.
Reading ==
    \A d \in Dispatches :
        /\ reader[d].kind = None => reader[d] = NoReader
        /\ reader[d].kind # None => job[d].at # "idle" /\ job[d].mode = "stream"

Server == TypedServer /\ Staged /\ Logged /\ Ringed /\ Registered
Clients == TypedClients /\ Reading /\ UiSettled

Inv == Server /\ Clients
-----------------------------------------------------------------------------
(* Events on the wire.                                                     *)

LEMMA EventFacts ==
  ASSUME NEW e \in Events
  PROVE  /\ e.type \in EventTypes
         /\ e.type = "MessageEnd" => e.reason \in StopReasons \cup {None} /\ e.code \in Codes \cup {None}
<1>1. CASE e \in PlainEvents
  BY <1>1 DEF PlainEvents, Event, EventTypes
<1>2. CASE \E v \in Verdicts : e = MessageEnd(v[1], v[2])
  <2> PICK v \in Verdicts : e = MessageEnd(v[1], v[2])
    BY <1>2
  <2>1. v[1] \in StopReasons \cup {None} /\ v[2] \in Codes \cup {None}
    BY DEF Verdicts
  <2> QED
    BY <2>1 DEF MessageEnd, EventTypes
<1> QED
  BY <1>1, <1>2 DEF Events

LEMMA MadeEvents ==
  /\ \A t \in EventTypes \ {"MessageEnd"} : Event(t) \in Events /\ Event(t).type = t
  /\ \A r \in StopReasons \cup {None}, c \in Codes \cup {None} : MessageEnd(r, c) \in Events
  /\ \A r, c : /\ MessageEnd(r, c).type = "MessageEnd"
               /\ MessageEnd(r, c).reason = r /\ MessageEnd(r, c).code = c
<1>1. \A t \in EventTypes \ {"MessageEnd"} : Event(t) \in Events /\ Event(t).type = t
  BY DEF Events, PlainEvents, Event
<1>2. ASSUME NEW r \in StopReasons \cup {None}, NEW c \in Codes \cup {None}
      PROVE  MessageEnd(r, c) \in Events
  <2>1. <<r, c>> \in Verdicts /\ <<r, c>>[1] = r /\ <<r, c>>[2] = c
    BY DEF Verdicts
  <2>2. \E v \in Verdicts : MessageEnd(r, c) = MessageEnd(v[1], v[2])
    BY <2>1
  <2> QED
    BY <2>2 DEF Events
<1>3. \A r, c : /\ MessageEnd(r, c).type = "MessageEnd"
                /\ MessageEnd(r, c).reason = r /\ MessageEnd(r, c).code = c
  BY DEF MessageEnd
<1> QED
  BY <1>1, <1>2, <1>3

LEMMA OtherEventsMade ==
  OtherEvents \subseteq Events
BY DispatchAssumption DEF OtherEvents, Events

LEMMA FrameAppended ==
  ASSUME NEW s \in Seq(Events), NEW e \in Events
  PROVE  LET t == Append(s, e) IN
         /\ t \in Seq(Events) /\ Len(t) = Len(s) + 1 /\ Len(s) \in Nat
         /\ DOMAIN s = 1 .. Len(s) /\ DOMAIN t = 1 .. (Len(s) + 1)
         /\ \A i \in 1 .. Len(s) : t[i] = s[i] /\ s[i] \in Events
         /\ t[Len(s) + 1] = e
         /\ Ends(t) = IF e.type = "MessageEnd" THEN Ends(s) \cup {Len(s) + 1} ELSE Ends(s)
<1> PICK t : t = Append(s, e)
  OBVIOUS
<1>1. /\ t \in Seq(Events) /\ Len(t) = Len(s) + 1 /\ Len(s) \in Nat
      /\ DOMAIN s = 1 .. Len(s) /\ DOMAIN t = 1 .. (Len(s) + 1)
      /\ \A i \in 1 .. Len(s) : t[i] = s[i] /\ s[i] \in Events
      /\ t[Len(s) + 1] = e
  OBVIOUS
<1>2. 1 .. (Len(s) + 1) = (1 .. Len(s)) \cup {Len(s) + 1}
  BY <1>1
<1>3. Ends(t) = IF e.type = "MessageEnd" THEN Ends(s) \cup {Len(s) + 1} ELSE Ends(s)
  BY <1>1, <1>2 DEF Ends
<1> QED
  BY <1>1, <1>3

\* The events of a type before a position.
Marks(s, i, type) == {k \in 1 .. i - 1 : s[k].type = type}

LEMMA MarksCounted ==
  ASSUME NEW s, NEW i \in Nat, NEW type
  PROVE  IsFiniteSet(Marks(s, i, type)) /\ Cardinality(Marks(s, i, type)) \in Nat
<1>1. IsFiniteSet(1 .. i - 1)
  BY FS_Interval
<1>2. Marks(s, i, type) \in SUBSET (1 .. i - 1)
  BY DEF Marks
<1>3. IsFiniteSet(Marks(s, i, type))
  BY <1>1, <1>2, FS_Subset
<1> QED
  BY <1>3, FS_CardinalityType

LEMMA MarksGrow ==
  ASSUME NEW s \in Seq(Events), NEW e \in Events, NEW type
  PROVE  LET t == Append(s, e) IN
         /\ \A i \in 1 .. Len(s) + 1 : Marks(t, i, type) = Marks(s, i, type)
         /\ Cardinality(Marks(t, Len(s) + 2, type)) =
               Cardinality(Marks(s, Len(s) + 1, type)) + IF e.type = type THEN 1 ELSE 0
<1> PICK t : t = Append(s, e)
  OBVIOUS
<1> PICK n \in Nat : n = Len(s)
  OBVIOUS
<1>1. (\A i \in 1 .. n : t[i] = s[i]) /\ t[n + 1] = e
  BY FrameAppended
<1>2. \A i \in 1 .. n + 1 : Marks(t, i, type) = Marks(s, i, type)
  BY <1>1 DEF Marks
<1>3. 1 .. (n + 2) - 1 = (1 .. (n + 1) - 1) \cup {n + 1}
  OBVIOUS
<1>4. Marks(t, n + 2, type) = Marks(s, n + 1, type) \cup {k \in {n + 1} : e.type = type}
  BY <1>1, <1>3 DEF Marks
<1>5. n + 1 \notin Marks(s, n + 1, type)
  BY DEF Marks
<1>6. IsFiniteSet(Marks(s, n + 1, type)) /\ Cardinality(Marks(s, n + 1, type)) \in Nat
  BY MarksCounted
<1>7. Cardinality(Marks(s, n + 1, type) \cup {n + 1}) = Cardinality(Marks(s, n + 1, type)) + 1
  BY <1>5, <1>6, FS_AddElement
<1>8. Cardinality(Marks(t, n + 2, type)) =
        Cardinality(Marks(s, n + 1, type)) + IF e.type = type THEN 1 ELSE 0
  <2>1. CASE e.type = type
    <3>1. Marks(t, n + 2, type) = Marks(s, n + 1, type) \cup {n + 1}
      BY <1>4, <2>1
    <3> QED
      BY <1>7, <2>1, <3>1
  <2>2. CASE e.type # type
    <3>1. Marks(t, n + 2, type) = Marks(s, n + 1, type)
      BY <1>4, <2>2
    <3> QED
      BY <1>6, <2>2, <3>1
  <2> QED
    BY <2>1, <2>2
<1> QED
  BY <1>2, <1>8

LEMMA OpenBlocksGrow ==
  ASSUME NEW s \in Seq(Events), NEW e \in Events
  PROVE  LET t == Append(s, e) IN
         /\ \A i \in 1 .. Len(s) + 1 : OpenBlocks(t, i) = OpenBlocks(s, i)
         /\ OpenBlocks(t, Len(s) + 2) =
               OpenBlocks(s, Len(s) + 1) + (IF e.type = "ContentBlockStart" THEN 1 ELSE 0)
                                         - (IF e.type = "ContentBlockEnd" THEN 1 ELSE 0)
         /\ OpenBlocks(s, Len(s) + 1) \in Int
<1> DEFINE S == "ContentBlockStart"
           E == "ContentBlockEnd"
<1> PICK t : t = Append(s, e)
  OBVIOUS
<1> PICK n \in Nat : n = Len(s)
  OBVIOUS
<1>1. \A q, i : OpenBlocks(q, i) = Cardinality(Marks(q, i, S)) - Cardinality(Marks(q, i, E))
  BY DEF OpenBlocks, Marks
<1>2. \A i \in 1 .. n + 1 : Marks(t, i, S) = Marks(s, i, S) /\ Marks(t, i, E) = Marks(s, i, E)
  BY MarksGrow
<1>3. /\ Cardinality(Marks(t, n + 2, S)) = Cardinality(Marks(s, n + 1, S)) + IF e.type = S THEN 1 ELSE 0
      /\ Cardinality(Marks(t, n + 2, E)) = Cardinality(Marks(s, n + 1, E)) + IF e.type = E THEN 1 ELSE 0
  BY MarksGrow
<1>4. Cardinality(Marks(s, n + 1, S)) \in Nat /\ Cardinality(Marks(s, n + 1, E)) \in Nat
  BY MarksCounted
<1> HIDE DEF S, E
<1>5. \A i \in 1 .. n + 1 : OpenBlocks(t, i) = OpenBlocks(s, i)
  BY <1>1, <1>2
<1>6. OpenBlocks(t, n + 2) = OpenBlocks(s, n + 1) + (IF e.type = S THEN 1 ELSE 0)
                                                  - (IF e.type = E THEN 1 ELSE 0)
  BY <1>1, <1>3, <1>4
<1>7. OpenBlocks(s, n + 1) \in Int
  BY <1>1, <1>4
<1> QED
  BY <1>5, <1>6, <1>7 DEF S, E

LEMMA ReadableGrows ==
  ASSUME NEW s \in Seq(Events), NEW e \in Events, Readable(s),
         OpenBlocks(s, Len(s) + 1) = IF e.type \in {"ContentBlockDelta", "ContentBlockEnd"} THEN 1
                                     ELSE IF e.type = "ContentBlockStart" THEN 0
                                     ELSE OpenBlocks(s, Len(s) + 1),
         e.type = "MessageStart" <=> (s = <<>> /\ e.type # "MessageEnd")
  PROVE  Readable(Append(s, e))
<1> PICK t : t = Append(s, e)
  OBVIOUS
<1> PICK n \in Nat : n = Len(s)
  OBVIOUS
<1>1. /\ DOMAIN s = 1 .. n /\ DOMAIN t = 1 .. n + 1
      /\ (\A i \in 1 .. n : t[i] = s[i]) /\ t[n + 1] = e
  BY FrameAppended
<1>2. \A i \in 1 .. n + 1 : OpenBlocks(t, i) = OpenBlocks(s, i)
  BY OpenBlocksGrow
<1>3. s = <<>> <=> n = 0
  OBVIOUS
<1>4. \A i \in 1 .. n + 1 : i \in 1 .. n \/ i = n + 1
  OBVIOUS
<1> SUFFICES ASSUME NEW i \in 1 .. n + 1
             PROVE  /\ OpenBlocks(t, i) = IF t[i].type \in {"ContentBlockDelta", "ContentBlockEnd"} THEN 1
                                          ELSE IF t[i].type = "ContentBlockStart" THEN 0
                                          ELSE OpenBlocks(t, i)
                    /\ t[i].type = "MessageStart" <=> (i = 1 /\ t[i].type # "MessageEnd")
  BY <1>1 DEF Readable
<1>5. CASE i \in 1 .. n
  BY <1>1, <1>2, <1>5 DEF Readable
<1>6. CASE i = n + 1
  <2>1. t[i] = e /\ OpenBlocks(t, i) = OpenBlocks(s, n + 1)
    BY <1>1, <1>2, <1>6
  <2>2. i = 1 <=> s = <<>>
    BY <1>3, <1>6
  <2> QED
    BY <2>1, <2>2
<1> QED
  BY <1>4, <1>5, <1>6

LEMMA NothingSent ==
  /\ <<>> \in Seq(Events) /\ Readable(<<>>) /\ Checker \in CheckerType
  /\ \A code : Follows(Checker, None, code, <<>>)
<1>1. OpenBlocks(<<>>, 1) = 0
  <2>1. \A type : Marks(<<>>, 1, type) = {}
    BY DEF Marks
  <2>2. \A type : Cardinality(Marks(<<>>, 1, type)) = 0
    BY <2>1, FS_EmptySet
  <2>3. OpenBlocks(<<>>, 1) =
          Cardinality(Marks(<<>>, 1, "ContentBlockStart")) - Cardinality(Marks(<<>>, 1, "ContentBlockEnd"))
    BY DEF OpenBlocks, Marks
  <2> QED
    BY <2>2, <2>3
<1>2. DOMAIN <<>> = {} /\ Len(<<>>) = 0
  OBVIOUS
<1>3. Readable(<<>>) /\ Ends(<<>>) = {}
  BY <1>2 DEF Readable, Ends
<1> QED
  BY <1>1, <1>2, <1>3 DEF Follows, Checker, CheckerType

\* check(): an event it permits keeps the stream readable and the summary true.
LEMMA FollowsGrow ==
  ASSUME NEW s \in Seq(Events), NEW e \in Events,
         NEW chk \in CheckerType, NEW final \in StopReasons \cup {None}, NEW code \in Codes \cup {None},
         Follows(chk, final, code, s), Permits(chk, e.type, TRUE)
  PROVE  LET c == Checked(chk, e.type)
             f == IF e.type = "MessageEnd" THEN e.reason ELSE final
             k == IF e.type = "MessageEnd" THEN e.code ELSE code
         IN  /\ c \in CheckerType /\ f \in StopReasons \cup {None} /\ k \in Codes \cup {None}
             /\ Follows(c, f, k, Append(s, e))
<1> PICK t : t = Append(s, e)
  OBVIOUS
<1> PICK n \in Nat : n = Len(s)
  OBVIOUS
<1> PICK c : c = Checked(chk, e.type)
  OBVIOUS
<1> PICK f : f = IF e.type = "MessageEnd" THEN e.reason ELSE final
  OBVIOUS
<1> PICK k : k = IF e.type = "MessageEnd" THEN e.code ELSE code
  OBVIOUS
<1>1. /\ c = [started |-> chk.started \/ e.type = "MessageStart", ended |-> chk.ended \/ e.type = "MessageEnd",
              open |-> (chk.open \/ e.type = "ContentBlockStart") /\ e.type # "ContentBlockEnd"]
  BY DEF Checked
<1>2. /\ c \in CheckerType
      /\ c.started <=> (chk.started \/ e.type = "MessageStart")
      /\ c.ended <=> (chk.ended \/ e.type = "MessageEnd")
      /\ c.open <=> ((chk.open \/ e.type = "ContentBlockStart") /\ e.type # "ContentBlockEnd")
  <2> PICK a \in BOOLEAN : a <=> (chk.started \/ e.type = "MessageStart")
    OBVIOUS
  <2> PICK b \in BOOLEAN : b <=> (chk.ended \/ e.type = "MessageEnd")
    OBVIOUS
  <2> PICK o \in BOOLEAN : o <=> ((chk.open \/ e.type = "ContentBlockStart") /\ e.type # "ContentBlockEnd")
    OBVIOUS
  <2>1. c = [started |-> a, ended |-> b, open |-> o]
    BY <1>1, Zenon
  <2> QED
    BY <2>1 DEF CheckerType
<1>3. /\ e.type \in EventTypes
      /\ e.type = "MessageEnd" => e.reason \in StopReasons \cup {None} /\ e.code \in Codes \cup {None}
  BY EventFacts
<1>4. /\ t \in Seq(Events) /\ Len(t) = n + 1 /\ t # <<>>
      /\ DOMAIN t = 1 .. n + 1 /\ DOMAIN s = 1 .. n
      /\ t[n + 1] = e /\ \A i \in 1 .. n : t[i] = s[i]
      /\ Ends(t) = IF e.type = "MessageEnd" THEN Ends(s) \cup {n + 1} ELSE Ends(s)
  BY FrameAppended
<1>5. /\ Readable(s) /\ (chk.started <=> s # <<>>) /\ (chk.open => chk.started)
      /\ OpenBlocks(s, n + 1) = IF chk.open THEN 1 ELSE 0
      /\ IF chk.ended THEN EndsWith(s, final, code) ELSE Ends(s) = {} /\ final = None
  BY DEF Follows
<1>6. /\ e.type = "MessageStart" => ~chk.started
      /\ e.type = "ContentBlockStart" => chk.started /\ ~chk.open
      /\ e.type \in {"ContentBlockDelta", "ContentBlockEnd"} => chk.open
      /\ e.type = "MessageEnd" => chk.started /\ ~chk.ended
  BY DEF Permits
<1>7. chk.started \in BOOLEAN /\ chk.ended \in BOOLEAN /\ chk.open \in BOOLEAN
  BY DEF CheckerType
<1>8. Readable(t)
  <2>1. OpenBlocks(s, n + 1) = IF e.type \in {"ContentBlockDelta", "ContentBlockEnd"} THEN 1
                               ELSE IF e.type = "ContentBlockStart" THEN 0
                               ELSE OpenBlocks(s, n + 1)
    BY <1>5, <1>6
  <2>2. e.type = "MessageStart" <=> (s = <<>> /\ e.type # "MessageEnd")
    BY <1>3, <1>5, <1>6 DEF EventTypes
  <2> QED
    BY <1>5, <2>1, <2>2, ReadableGrows
<1>9. OpenBlocks(t, Len(t) + 1) = IF c.open THEN 1 ELSE 0
  <2>1. /\ OpenBlocks(t, n + 2) =
             OpenBlocks(s, n + 1) + (IF e.type = "ContentBlockStart" THEN 1 ELSE 0)
                                  - (IF e.type = "ContentBlockEnd" THEN 1 ELSE 0)
        /\ Len(t) + 1 = n + 2
    BY <1>4, OpenBlocksGrow
  <2> QED
    BY <1>2, <1>5, <1>6, <2>1
<1>10. IF c.ended THEN EndsWith(t, f, k) ELSE Ends(t) = {} /\ f = None
  <2>1. CASE e.type = "MessageEnd"
    <3>1. Ends(s) = {}
      BY <1>5, <1>6, <2>1
    <3>2. Ends(t) = {n + 1} /\ t[n + 1].reason = f /\ t[n + 1].code = k /\ n + 1 \in DOMAIN t
      BY <1>4, <2>1, <3>1
    <3>3. EndsWith(t, f, k)
      BY <3>2 DEF EndsWith
    <3> QED
      BY <1>2, <2>1, <3>3
  <2>2. CASE e.type # "MessageEnd"
    <3>1. f = final /\ k = code /\ Ends(t) = Ends(s) /\ (c.ended <=> chk.ended)
      BY <1>2, <1>4, <2>2
    <3>2. ASSUME EndsWith(s, f, k) PROVE EndsWith(t, f, k)
      <4> PICK m \in DOMAIN s : Ends(s) = {m} /\ s[m].reason = f /\ s[m].code = k
        BY <3>2 DEF EndsWith
      <4>1. m \in DOMAIN t /\ t[m] = s[m]
        BY <1>4
      <4> QED
        BY <3>1, <4>1 DEF EndsWith
    <3> QED
      BY <1>5, <3>1, <3>2
  <2> QED
    BY <2>1, <2>2
<1>12. (c.started <=> t # <<>>) /\ (c.open => c.started)
  BY <1>2, <1>3, <1>4, <1>5, <1>6 DEF EventTypes
<1>13. f \in StopReasons \cup {None} /\ k \in Codes \cup {None}
  BY <1>3
<1> QED
  BY <1>2, <1>8, <1>9, <1>10, <1>12, <1>13 DEF Follows

\* The MessageEnd that stream.ts adds for an adapter that gave no reason.
LEMMA EndAdded ==
  ASSUME NEW s \in Seq(Events), NEW chk \in CheckerType, NEW code, NEW err \in Codes,
         Follows(chk, None, code, s)
  PROVE  LET t == Append(s, MessageEnd("DispatcherError", err)) IN
         t \in Seq(Events) /\ Readable(t) /\ Closes(t, "DispatcherError", err)
<1> PICK e : e = MessageEnd("DispatcherError", err)
  OBVIOUS
<1> PICK t : t = Append(s, e)
  OBVIOUS
<1>1. e \in Events /\ e.type = "MessageEnd" /\ e.reason = "DispatcherError" /\ e.code = err
  BY MadeEvents DEF StopReasons
<1>2. /\ t \in Seq(Events) /\ Ends(t) = Ends(s) \cup {Len(s) + 1} /\ Len(t) = Len(s) + 1
      /\ t[Len(s) + 1] = e /\ Len(s) + 1 \in DOMAIN t /\ Len(s) \in Nat
      /\ DOMAIN s = 1 .. Len(s) /\ \A i \in 1 .. Len(s) : t[i] = s[i] /\ i \in DOMAIN t
  BY <1>1, FrameAppended
<1>3. Readable(s) /\ (EndsWith(s, None, code) \/ Ends(s) = {})
  BY DEF Follows
<1>4. Readable(t)
  BY <1>1, <1>3, ReadableGrows
<1>5. CASE Ends(s) = {}
  <2>1. EndsWith(t, "DispatcherError", err)
    BY <1>1, <1>2, <1>5 DEF EndsWith
  <2> QED
    BY <1>2, <1>4, <2>1 DEF Closes
<1>6. CASE EndsWith(s, None, code)
  <2> PICK m \in DOMAIN s : Ends(s) = {m} /\ s[m].reason = None
    BY <1>6 DEF EndsWith
  <2>1. m \in DOMAIN t /\ m < Len(t) /\ Ends(t) = {m, Len(t)} /\ t[m].reason = None /\ t[Len(t)] = e
    BY <1>2
  <2>2. EndsAgain(t, err)
    BY <1>1, <2>1 DEF EndsAgain
  <2> QED
    BY <1>2, <1>4, <2>2 DEF Closes
<1> QED
  BY <1>3, <1>5, <1>6
-----------------------------------------------------------------------------
(* A dispatch moves on.                                                    *)

LEMMA JobFacts ==
  ASSUME TypedServer, NEW d \in Dispatches
  PROVE  /\ job[d] \in {Idle} \cup CallType
         /\ job[d].at # "idle" => job[d] \in CallType
         /\ job[d].at = "idle" => job[d] = Idle
         /\ frames[d] \in Seq(Events) /\ calls[d] \in Nat
BY DEF TypedServer, Idle, CallType

\* The job, the adapter calls and the events of d become j, n and s: a signal
\* that fired stays fired, and lets no further call be made.
Moves(d, j, n, s) ==
    /\ job' = [job EXCEPT ![d] = j]
    /\ calls' = [calls EXCEPT ![d] = n]
    /\ frames' = [frames EXCEPT ![d] = s]
    /\ j \in CallType /\ n \in Nat /\ s \in Seq(Events)
    /\ Fits(j, n, s)
    /\ job[d].at # "idle" =>
          /\ j.mode = job[d].mode /\ (job[d].aborted => j.aborted)
          /\ job[d].mode = "lib" /\ job[d].aborted => n = calls[d]
    /\ \A i \in DOMAIN frames[d] : i \in DOMAIN s /\ s[i] = frames[d][i]

\* It is answered with its row, or goes on with none.
Writes(d, j, n) ==
    /\ job[d].at \notin {"done", "refused"}
    /\ \/ UNCHANGED <<audit, ring>> /\ (j.at = "done" => Excused(j, n))
       \/ \E row \in RowType :
             /\ RecordDispatch(row) /\ row.d = d
             /\ j.at \in {"done", "refused"}
             /\ j.at = "done" => row = Row(d, j.stop, j.code)

\* It takes a place in the registry, leaves it, or neither.
Holds(d, j) ==
    \/ /\ UNCHANGED <<inflight, shared>>
       /\ \/ job[d].at # "streaming" /\ j.at # "streaming"
          \/ job[d].at = "streaming" /\ j.at = "streaming" /\ j.corr = job[d].corr
    \/ job[d].at # "streaming" /\ j.at = "streaming" /\ Register(j.corr, d)
    \/ /\ job[d].at = "streaming" /\ j.at # "streaming"
       /\ inflight' = Release(job[d].corr) /\ UNCHANGED shared

Advances(d) ==
    /\ \E j \in CallType, n \in Nat, s \in Seq(Events) :
          Moves(d, j, n, s) /\ Writes(d, j, n) /\ Holds(d, j)
    /\ UNCHANGED <<adapter, behavior>>

LEMMA MovedFacts ==
  ASSUME TypedServer, NEW d \in Dispatches, NEW j, NEW n, NEW s, Moves(d, j, n, s)
  PROVE  /\ job' \in [Dispatches -> {Idle} \cup CallType]
         /\ calls' \in [Dispatches -> Nat] /\ frames' \in [Dispatches -> Seq(Events)]
         /\ job'[d] = j /\ calls'[d] = n /\ frames'[d] = s
         /\ \A e \in Dispatches \ {d} :
               job'[e] = job[e] /\ calls'[e] = calls[e] /\ frames'[e] = frames[e]
BY DEF TypedServer, Moves

LEMMA StagedKept ==
  ASSUME TypedServer, Staged, NEW d \in Dispatches, NEW j, NEW n, NEW s, Moves(d, j, n, s)
  PROVE  Staged'
<1>1. Fits(j, n, s)
  BY DEF Moves
<1> SUFFICES ASSUME NEW e \in Dispatches PROVE Fits(job'[e], calls'[e], frames'[e])
  BY DEF Staged
<1>2. CASE e = d
  BY <1>1, <1>2, MovedFacts
<1>3. CASE e # d
  <2>1. job'[e] = job[e] /\ calls'[e] = calls[e] /\ frames'[e] = frames[e]
    BY <1>3, MovedFacts
  <2>2. Fits(job[e], calls[e], frames[e])
    BY DEF Staged
  <2> QED
    BY <2>1, <2>2
<1> QED
  BY <1>2, <1>3

LEMMA RingGrows ==
  ASSUME TypedServer, Ringed, NEW row \in RowType, RecordDispatch(row)
  PROVE  /\ Ringed' /\ ring' \in Seq(RowType) /\ audit' \in Seq(RowType)
         /\ Len(audit') = Len(audit) + 1 /\ Len(audit) \in Nat
         /\ DOMAIN audit = 1 .. Len(audit) /\ DOMAIN audit' = 1 .. Len(audit) + 1
         /\ \A i \in 1 .. Len(audit) : audit'[i] = audit[i]
         /\ audit'[Len(audit) + 1] = row
<1> PICK n \in Nat : n = Len(audit)
  BY DEF TypedServer
<1> PICK m \in Nat : m = Len(ring)
  BY DEF TypedServer
<1>1. /\ audit' \in Seq(RowType) /\ Len(audit') = n + 1
      /\ DOMAIN audit = 1 .. n /\ DOMAIN audit' = 1 .. n + 1
      /\ \A i \in 1 .. n : audit'[i] = audit[i]
      /\ audit'[n + 1] = row
  BY DEF TypedServer, RecordDispatch
<1> PICK k \in Nat : k = IF m < RingSize THEN m + 1 ELSE RingSize
  BY DispatchAssumption
<1> PICK q : q = <<row>> \o ring
  OBVIOUS
<1>2. /\ m = IF n < RingSize THEN n ELSE RingSize
      /\ \A i \in 1 .. m : ring[i] = audit[n - i + 1]
  BY DEF Ringed
<1>3. RingSize \in Nat \ {0} /\ k \in 1 .. m + 1
  BY <1>2, DispatchAssumption
<1>4. /\ q \in Seq(RowType) /\ Len(q) = m + 1 /\ q[1] = row
      /\ \A i \in 2 .. m + 1 : q[i] = ring[i - 1]
  BY DEF TypedServer
<1>5. ring' = SubSeq(q, 1, k)
  BY DEF RecordDispatch
<1>6. ring' \in Seq(RowType) /\ Len(ring') = k /\ \A i \in 1 .. k : ring'[i] = q[i]
  BY <1>3, <1>4, <1>5
<1>7. k = IF n + 1 < RingSize THEN n + 1 ELSE RingSize
  BY <1>2, <1>3
<1>8. \A i \in 1 .. k : ring'[i] = audit'[(n + 1) - i + 1]
  <2> SUFFICES ASSUME NEW i \in 1 .. k PROVE q[i] = audit'[(n + 1) - i + 1]
    BY <1>6
  <2>1. CASE i = 1
    BY <1>1, <1>4, <2>1
  <2>2. CASE i # 1
    <3>1. i - 1 \in 1 .. m /\ i \in 2 .. m + 1 /\ m <= n
      BY <1>2, <1>3, <2>2
    <3>2. q[i] = audit[n - (i - 1) + 1]
      BY <1>2, <1>4, <3>1
    <3>3. n - (i - 1) + 1 = (n + 1) - i + 1 /\ (n + 1) - i + 1 \in 1 .. n
      BY <3>1
    <3> QED
      BY <1>1, <3>2, <3>3
  <2> QED
    BY <2>1, <2>2
<1> QED
  BY <1>1, <1>6, <1>7, <1>8 DEF Ringed

LEMMA LogKept ==
  ASSUME TypedServer, Logged, Ringed, NEW d \in Dispatches, NEW j, NEW n, NEW s,
         Moves(d, j, n, s), Writes(d, j, n)
  PROVE  Logged' /\ Ringed' /\ audit' \in Seq(RowType) /\ ring' \in Seq(RowType)
<1>1. /\ job'[d] = j /\ calls'[d] = n
      /\ \A e \in Dispatches \ {d} : job'[e] = job[e] /\ calls'[e] = calls[e]
  BY MovedFacts
<1>2. audit \in Seq(RowType) /\ ring \in Seq(RowType) /\ \A i \in DOMAIN audit : audit[i].d \in Dispatches
  <2>1. audit \in Seq(RowType) /\ ring \in Seq(RowType)
    BY DEF TypedServer
  <2>2. \A i \in DOMAIN audit : audit[i] \in RowType
    BY <2>1, ElementOfSeq
  <2> QED
    BY <2>1, <2>2 DEF RowType
<1>3. Unlogged(d)
  BY DEF Unlogged, Logged, Writes
<1>4. /\ \A i \in DOMAIN audit : job[audit[i].d].at \in {"done", "refused"}
      /\ \A i, k \in DOMAIN audit : audit[i].d = audit[k].d => i = k
      /\ \A e \in Dispatches : job[e].at = "done" =>
            \/ \E i \in DOMAIN audit : audit[i] = Row(e, job[e].stop, job[e].code)
            \/ Excused(job[e], calls[e]) /\ Unlogged(e)
  BY DEF Logged
<1>5. \A i \in DOMAIN audit : job'[audit[i].d].at \in {"done", "refused"}
  BY <1>1, <1>2, <1>3, <1>4 DEF Unlogged
<1>6. CASE UNCHANGED <<audit, ring>> /\ (j.at = "done" => Excused(j, n))
  <2>1. Ringed'
    BY <1>6 DEF Ringed
  <2>2. \A e \in Dispatches : Unlogged(e)' <=> Unlogged(e)
    BY <1>6 DEF Unlogged
  <2>3. ASSUME NEW e \in Dispatches, job'[e].at = "done"
        PROVE  \/ \E i \in DOMAIN audit' : audit'[i] = Row(e, job'[e].stop, job'[e].code)
               \/ Excused(job'[e], calls'[e]) /\ Unlogged(e)'
    <3>1. CASE e = d
      BY <1>1, <1>3, <1>6, <2>2, <2>3, <3>1
    <3>2. CASE e # d
      BY <1>1, <1>4, <1>6, <2>2, <2>3, <3>2
    <3> QED
      BY <3>1, <3>2
  <2> QED
    BY <1>2, <1>4, <1>5, <1>6, <2>1, <2>3 DEF Logged
<1>7. ASSUME NEW row \in RowType, RecordDispatch(row), row.d = d,
             j.at \in {"done", "refused"}, j.at = "done" => row = Row(d, j.stop, j.code)
      PROVE  Logged' /\ Ringed' /\ audit' \in Seq(RowType) /\ ring' \in Seq(RowType)
  <2> PICK m \in Nat : m = Len(audit)
    BY <1>2
  <2>1. /\ Ringed' /\ ring' \in Seq(RowType) /\ audit' \in Seq(RowType)
        /\ DOMAIN audit = 1 .. m /\ DOMAIN audit' = 1 .. m + 1
        /\ \A i \in 1 .. m : audit'[i] = audit[i]
        /\ audit'[m + 1] = row
    BY <1>7, RingGrows
  <2>2. \A i \in 1 .. m + 1 : i \in 1 .. m \/ i = m + 1
    OBVIOUS
  <2>3. \A i \in DOMAIN audit' : job'[audit'[i].d].at \in {"done", "refused"}
    BY <1>1, <1>5, <1>7, <2>1, <2>2
  <2>4. \A i \in 1 .. m : audit[i].d # d
    BY <1>3, <2>1 DEF Unlogged
  <2>5. \A i, k \in DOMAIN audit' : audit'[i].d = audit'[k].d => i = k
    <3> SUFFICES ASSUME NEW i \in 1 .. m + 1, NEW k \in 1 .. m + 1, audit'[i].d = audit'[k].d
                 PROVE  i = k
      BY <2>1
    <3>1. CASE i \in 1 .. m /\ k \in 1 .. m
      BY <1>4, <2>1, <3>1
    <3>2. CASE i \in 1 .. m /\ k = m + 1
      BY <1>7, <2>1, <2>4, <3>2
    <3>3. CASE i = m + 1 /\ k \in 1 .. m
      BY <1>7, <2>1, <2>4, <3>3
    <3> QED
      BY <2>2, <3>1, <3>2, <3>3
  <2>6. ASSUME NEW e \in Dispatches, job'[e].at = "done"
        PROVE  \/ \E i \in DOMAIN audit' : audit'[i] = Row(e, job'[e].stop, job'[e].code)
               \/ Excused(job'[e], calls'[e]) /\ Unlogged(e)'
    <3>1. CASE e = d
      <4>1. audit'[m + 1] = Row(e, job'[e].stop, job'[e].code) /\ m + 1 \in DOMAIN audit'
        BY <1>1, <1>7, <2>1, <2>6, <3>1
      <4> QED
        BY <4>1
    <3>2. CASE e # d
      <4>1. job'[e] = job[e] /\ calls'[e] = calls[e]
        BY <1>1, <3>2
      <4>2. ASSUME NEW i \in DOMAIN audit, audit[i] = Row(e, job[e].stop, job[e].code)
            PROVE  \E k \in DOMAIN audit' : audit'[k] = Row(e, job'[e].stop, job'[e].code)
        BY <2>1, <4>1, <4>2
      <4>3. ASSUME Unlogged(e) PROVE Unlogged(e)'
        <5>1. \A i \in 1 .. m + 1 : audit'[i].d # e
          BY <1>7, <2>1, <2>2, <3>2, <4>3 DEF Unlogged
        <5> QED
          BY <2>1, <5>1 DEF Unlogged
      <4> QED
        BY <1>4, <2>6, <4>1, <4>2, <4>3
    <3> QED
      BY <3>1, <3>2
  <2> QED
    BY <2>1, <2>3, <2>5, <2>6 DEF Logged
<1> QED
  BY <1>6, <1>7 DEF Writes

LEMMA RegistryKept ==
  ASSUME TypedServer, Registered, NEW d \in Dispatches, NEW j, NEW n, NEW s,
         Moves(d, j, n, s), Holds(d, j)
  PROVE  Registered' /\ inflight' \in [Corrs -> Dispatches \cup {None}]
<1>1. /\ job'[d] = j /\ j \in CallType /\ \A e \in Dispatches \ {d} : job'[e] = job[e]
  BY MovedFacts DEF Moves
<1>2. \A e \in Dispatches : job[e].at # "idle" => job[e].corr \in Corrs
  BY JobFacts DEF CallType
<1>3. /\ \A e \in Dispatches : job[e].at = "streaming" /\ job[e].corr \notin shared
            => inflight[job[e].corr] = e
      /\ \A c \in Corrs : inflight[c] # None =>
            job[inflight[c]].at = "streaming" /\ job[inflight[c]].corr = c
      /\ \A e, f \in Dispatches : e # f /\ job[e].at = "streaming" /\ job[f].at = "streaming"
            /\ job[e].corr = job[f].corr => job[e].corr \in shared
  BY DEF Registered, LiveIsCancellable, Sharing
<1>4. inflight \in [Corrs -> Dispatches \cup {None}] /\ None \notin Dispatches
  BY NoneAssumption DEF TypedServer
<1> HIDE DEF TypedServer, Registered, Moves
<1>5. CASE UNCHANGED <<inflight, shared>> /\ job[d].at # "streaming" /\ j.at # "streaming"
  <2>1. \A e \in Dispatches : job'[e].at = "streaming" => job[e].at = "streaming" /\ job'[e] = job[e]
    BY <1>1, <1>5
  <2>2. \A c \in Corrs : inflight[c] # None => job'[inflight[c]] = job[inflight[c]]
    BY <1>1, <1>3, <1>4, <1>5
  <2> QED
    BY <1>3, <1>4, <1>5, <2>1, <2>2 DEF Registered, LiveIsCancellable, Sharing
<1>6. CASE UNCHANGED <<inflight, shared>> /\ job[d].at = "streaming" /\ j.at = "streaming" /\ j.corr = job[d].corr
  <2>1. \A e \in Dispatches : job'[e].at = job[e].at /\ (job[e].at # "idle" => job'[e].corr = job[e].corr)
    BY <1>1, <1>6
  <2>2. \A c \in Corrs : inflight[c] # None => inflight[c] \in Dispatches
    BY <1>4
  <2> QED
    BY <1>3, <1>4, <1>6, <2>1, <2>2 DEF Registered, LiveIsCancellable, Sharing
<1>7. CASE job[d].at # "streaming" /\ j.at = "streaming" /\ Register(j.corr, d)
  <2> PICK c \in Corrs : c = j.corr
    BY <1>1 DEF CallType
  <2>1. inflight' = [inflight EXCEPT ![c] = d]
    BY <1>7 DEF Register
  <2>2. /\ shared \subseteq shared'
        /\ (\E e \in Dispatches : job[e].at = "streaming" /\ job[e].corr = c) => c \in shared'
    BY <1>7 DEF Register
  <2>3. inflight' \in [Corrs -> Dispatches \cup {None}] /\ inflight'[c] = d
        /\ \A b \in Corrs \ {c} : inflight'[b] = inflight[b]
    BY <1>4, <2>1
  <2>4. \A e \in Dispatches \ {d} : job'[e].at = "streaming" /\ job'[e].corr = c => c \in shared'
    BY <1>1, <2>2
  <2>5. ASSUME NEW e \in Dispatches, job'[e].at = "streaming", job'[e].corr \notin shared'
        PROVE  inflight'[job'[e].corr] = e
    <3>1. CASE e = d
      BY <1>1, <2>3, <3>1
    <3>2. CASE e # d
      <4>1. job'[e] = job[e] /\ job[e].corr \in Corrs /\ job[e].corr \notin shared /\ job[e].corr # c
        BY <1>1, <1>2, <2>2, <2>4, <2>5, <3>2
      <4> QED
        BY <1>3, <2>3, <2>5, <4>1
    <3> QED
      BY <3>1, <3>2
  <2>6. ASSUME NEW b \in Corrs, inflight'[b] # None
        PROVE  job'[inflight'[b]].at = "streaming" /\ job'[inflight'[b]].corr = b
    <3>1. CASE b = c
      BY <1>1, <1>7, <2>3, <3>1
    <3>2. CASE b # c
      <4>1. inflight'[b] = inflight[b] /\ inflight[b] \in Dispatches /\ job[inflight[b]].at = "streaming"
            /\ job[inflight[b]].corr = b
        BY <1>3, <1>4, <2>3, <2>6, <3>2
      <4>2. inflight[b] # d
        BY <1>7, <4>1
      <4> QED
        BY <1>1, <4>1, <4>2
    <3> QED
      BY <3>1, <3>2
  <2>7. ASSUME NEW e \in Dispatches, NEW f \in Dispatches, e # f,
               job'[e].at = "streaming", job'[f].at = "streaming", job'[e].corr = job'[f].corr
        PROVE  job'[e].corr \in shared'
    <3>1. CASE e = d \/ f = d
      BY <1>1, <2>4, <2>7, <3>1
    <3>2. CASE e # d /\ f # d
      BY <1>1, <1>3, <2>2, <2>7, <3>2
    <3> QED
      BY <3>1, <3>2
  <2> QED
    BY <2>3, <2>5, <2>6, <2>7 DEF Registered, LiveIsCancellable, Sharing
<1>8. CASE job[d].at = "streaming" /\ j.at # "streaming" /\ inflight' = Release(job[d].corr) /\ UNCHANGED shared
  <2> PICK c \in Corrs : c = job[d].corr
    BY <1>2, <1>8
  <2>1. inflight' \in [Corrs -> Dispatches \cup {None}] /\ inflight'[c] = None
        /\ \A b \in Corrs \ {c} : inflight'[b] = inflight[b]
    BY <1>4, <1>8 DEF Release
  <2>2. \A e \in Dispatches : job'[e].at = "streaming" =>
           e # d /\ job'[e] = job[e] /\ (job[e].corr = c => c \in shared)
    BY <1>1, <1>3, <1>8
  <2>3. ASSUME NEW e \in Dispatches, job'[e].at = "streaming", job'[e].corr \notin shared'
        PROVE  inflight'[job'[e].corr] = e
    <3>1. job'[e] = job[e] /\ job[e].corr \in Corrs /\ job[e].corr # c /\ job[e].corr \notin shared
      BY <1>2, <1>8, <2>2, <2>3
    <3> QED
      BY <1>3, <2>1, <2>3, <3>1
  <2>4. ASSUME NEW b \in Corrs, inflight'[b] # None
        PROVE  job'[inflight'[b]].at = "streaming" /\ job'[inflight'[b]].corr = b
    <3>1. b # c /\ inflight'[b] = inflight[b] /\ inflight[b] \in Dispatches
          /\ job[inflight[b]].at = "streaming" /\ job[inflight[b]].corr = b
      BY <1>3, <1>4, <2>1, <2>4
    <3>2. inflight[b] # d
      BY <3>1
    <3> QED
      BY <1>1, <3>1, <3>2
  <2> QED
    BY <1>3, <1>8, <2>1, <2>2, <2>3, <2>4 DEF Registered, LiveIsCancellable, Sharing
<1> QED
  BY <1>5, <1>6, <1>7, <1>8 DEF Holds

LEMMA ServerStep ==
  ASSUME Server, NEW d \in Dispatches, Advances(d)
  PROVE  Server'
<1> PICK j \in CallType, n \in Nat, s \in Seq(Events) :
      Moves(d, j, n, s) /\ Writes(d, j, n) /\ Holds(d, j)
  BY DEF Advances
<1>1. Staged' /\ Logged' /\ Ringed' /\ Registered'
  BY StagedKept, LogKept, RegistryKept DEF Server
<1>2. /\ audit' \in Seq(RowType) /\ ring' \in Seq(RowType)
      /\ inflight' \in [Corrs -> Dispatches \cup {None}]
  BY LogKept, RegistryKept DEF Server
<1>3. /\ job' \in [Dispatches -> {Idle} \cup CallType]
      /\ calls' \in [Dispatches -> Nat] /\ frames' \in [Dispatches -> Seq(Events)]
  BY MovedFacts DEF Server
<1>4. TypedServer'
  BY <1>2, <1>3 DEF Advances, Server, TypedServer
<1> QED
  BY <1>1, <1>4 DEF Server

\* What a client was shown it can still be shown.
LEMMA ClientsKept ==
  ASSUME TypedServer, Clients, NEW d \in Dispatches, Advances(d),
         UNCHANGED <<reader, ui>>, cancels' \subseteq Corrs
  PROVE  Clients'
<1> PICK j \in CallType, n \in Nat, s \in Seq(Events) : Moves(d, j, n, s)
  BY DEF Advances
<1>1. /\ job'[d] = j /\ \A e \in Dispatches \ {d} : job'[e] = job[e] /\ frames'[e] = frames[e]
      /\ frames'[d] = s
  BY MovedFacts
<1>2. /\ j \in CallType
      /\ job[d].at # "idle" => j.mode = job[d].mode
      /\ \A i \in DOMAIN frames[d] : i \in DOMAIN s /\ s[i] = frames[d][i]
  BY DEF Moves
<1>3. j.at # "idle"
  BY <1>2 DEF CallType
<1>4. Reading'
  <2>1. ASSUME NEW e \in Dispatches, reader[e].kind # None
        PROVE  job'[e].at # "idle" /\ job'[e].mode = "stream"
    <3>1. job[e].at # "idle" /\ job[e].mode = "stream"
      BY <2>1 DEF Clients, Reading
    <3> QED
      BY <1>1, <1>2, <1>3, <3>1
  <2> QED
    BY <2>1 DEF Clients, Reading
<1>5. \A e \in Dispatches : \A i \in MessageEnds(e) :
         i \in MessageEnds(e)' /\ frames'[e][i].reason = frames[e][i].reason
  <2> SUFFICES ASSUME NEW e \in Dispatches, NEW i \in DOMAIN frames[e], frames[e][i].type = "MessageEnd"
               PROVE  i \in DOMAIN frames'[e] /\ frames'[e][i] = frames[e][i]
    BY DEF MessageEnds
  <2> QED
    BY <1>1, <1>2
<1>6. UiSettled'
  <2>1. ASSUME ui.stop # None
        PROVE  \E e \in Dispatches : /\ reader[e].kind = "ui"
                                     /\ \E i \in MessageEnds(e)' : frames'[e][i].reason = ui.stop
    BY <1>5, <2>1 DEF Clients, UiSettled
  <2> QED
    BY <2>1 DEF Clients, UiSettled
<1>7. TypedClients'
  BY DEF Clients, TypedClients
<1> QED
  BY <1>4, <1>6, <1>7 DEF Clients
-----------------------------------------------------------------------------
(* Dispatcher.dispatch().                                                  *)

LEMMA RowFacts ==
  ASSUME NEW d \in Dispatches, NEW stop \in StopReasons, NEW code \in Codes \cup {None}
  PROVE  /\ Row(d, stop, code) \in RowType /\ Row(d, stop, code).d = d
         /\ Row(d, stop, code).stop = stop
BY DEF Row, RowType

LEMMA CodeFacts ==
  /\ None \notin Dispatches /\ None \notin Codes /\ None \notin StopReasons
  /\ Retryable \subseteq Codes /\ Fatal \subseteq Codes /\ Thrown \subseteq Codes
  /\ Thrown \subseteq Retryable \cup Fatal
  /\ {"DispatcherRequestInvalid", "DispatcherAdapterError", "DispatcherStreamUnsupported"} \subseteq Codes
  /\ "DispatcherRequestInvalid" \notin Retryable \cup Fatal
  /\ {"NaturalStop", "UserInterrupt", "BudgetExhausted", "DispatcherError"} \subseteq StopReasons
BY NoneAssumption DEF Codes, Retryable, Fatal, Thrown, StopReasons

LEMMA EndedFacts ==
  ASSUME NEW i \in CallType, NEW stop \in StopReasons, NEW code \in Codes \cup {None}
  PROVE  LET j == Ended(i, stop, code) IN
         /\ j \in CallType /\ j.at = "done" /\ j.stop = stop /\ j.code = code
         /\ j.mode = i.mode /\ j.aborted = i.aborted
<1> PICK j : j = [i EXCEPT !.at = "done", !.stop = stop, !.code = code,
                           !.attempt = 0, !.doing = None, !.chk = Checker, !.final = None, !.step = 0]
  OBVIOUS
<1>1. /\ j \in CallType /\ j.at = "done" /\ j.stop = stop /\ j.code = code
      /\ j.mode = i.mode /\ j.aborted = i.aborted
  BY NothingSent DEF CallType
<1> QED
  BY <1>1 DEF Ended

\* A call that returns, with its row.
LEMMA CallReturns ==
  ASSUME Server, NEW d \in Dispatches, job[d].at \in {"calling", "backoff"},
         NEW stop \in StopReasons, NEW code \in Codes \cup {None}, Done(d, stop, code),
         UNCHANGED <<adapter, behavior, calls, frames, inflight, shared>>,
         code \in Retryable => calls[d] = MaxRetries + 1,
         job[d].aborted => code \notin Retryable \cup Fatal,
         \/ RecordDispatch(Row(d, stop, code))
         \/ /\ UNCHANGED <<audit, ring>>
            /\ job[d].mode = "lib" /\ job[d].aborted /\ stop = "UserInterrupt"
  PROVE  Advances(d)
<1>1. job[d] \in CallType /\ frames[d] \in Seq(Events) /\ calls[d] \in Nat
  BY JobFacts DEF Server
<1> PICK i \in CallType : i = job[d]
  BY <1>1
<1> PICK j : j = Ended(i, stop, code)
  OBVIOUS
<1>2. /\ j \in CallType /\ j.at = "done" /\ j.stop = stop /\ j.code = code
      /\ j.mode = job[d].mode /\ j.aborted = job[d].aborted
  BY EndedFacts
<1>3. /\ job[d].mode # "stream" /\ frames[d] = <<>> /\ calls[d] <= MaxRetries + 1
  BY DEF Server, Staged, Fits
<1>4. Fits(j, calls[d], frames[d])
  BY <1>2, <1>3, CodeFacts DEF Fits
<1>5. job' = [job EXCEPT ![d] = j]
  BY DEF Done
<1>6. calls' = [calls EXCEPT ![d] = calls[d]] /\ frames' = [frames EXCEPT ![d] = frames[d]]
  BY DEF Server, TypedServer
<1>7. Moves(d, j, calls[d], frames[d])
  BY <1>1, <1>2, <1>4, <1>5, <1>6 DEF Moves
<1>8. Writes(d, j, calls[d])
  <2>1. CASE RecordDispatch(Row(d, stop, code))
    BY <1>2, <2>1, RowFacts DEF Writes
  <2>2. CASE UNCHANGED <<audit, ring>> /\ job[d].mode = "lib" /\ job[d].aborted /\ stop = "UserInterrupt"
    BY <1>2, <2>2 DEF Writes, Excused
  <2> QED
    BY <2>1, <2>2
<1>9. Holds(d, j)
  BY <1>2 DEF Holds
<1> QED
  BY <1>1, <1>2, <1>7, <1>8, <1>9 DEF Advances

\* A call that returns with the adapter's own response.
LEMMA AdapterReturnsAdvances ==
  ASSUME Server, NEW d \in Dispatches, NEW stop \in StopReasons, NEW code \in Codes \cup {None},
         AdapterReturns(d, stop, code)
  PROVE  Advances(d)
<1>1. /\ job[d].at = "calling" /\ RecordDispatch(Row(d, stop, code))
      /\ UNCHANGED <<adapter, behavior, calls, frames, inflight, shared>>
  BY DEF AdapterReturns
<1>2. job[d] \in CallType /\ frames[d] \in Seq(Events) /\ calls[d] \in Nat
  BY <1>1, JobFacts DEF Server
<1> PICK i \in CallType : i = job[d]
  BY <1>2
<1> PICK h : h = Ended(i, stop, code)
  OBVIOUS
<1>3. /\ h \in CallType /\ h.at = "done" /\ h.stop = stop /\ h.code = code
      /\ h.mode = i.mode /\ h.aborted = i.aborted
  BY EndedFacts
<1> PICK j : j = [h EXCEPT !.own = TRUE]
  OBVIOUS
<1>4. /\ j \in CallType /\ j.at = "done" /\ j.stop = stop /\ j.code = code /\ j.own
      /\ j.mode = job[d].mode /\ j.aborted = job[d].aborted
  BY <1>3 DEF CallType
<1>5. job[d].mode # "stream" /\ frames[d] = <<>> /\ calls[d] <= MaxRetries + 1
  BY <1>1 DEF Server, Staged, Fits
<1>6. Fits(j, calls[d], frames[d])
  BY <1>4, <1>5, CodeFacts DEF Fits
<1>7. job' = [job EXCEPT ![d] = j]
  BY DEF AdapterReturns
<1>8. calls' = [calls EXCEPT ![d] = calls[d]] /\ frames' = [frames EXCEPT ![d] = frames[d]]
  BY <1>1 DEF Server, TypedServer
<1>9. Moves(d, j, calls[d], frames[d])
  BY <1>2, <1>4, <1>6, <1>7, <1>8 DEF Moves
<1>10. Writes(d, j, calls[d]) /\ Holds(d, j)
  BY <1>1, <1>4, RowFacts DEF Writes, Holds
<1> QED
  BY <1>1, <1>2, <1>4, <1>9, <1>10 DEF Advances

\* A call that goes on, with at most one adapter call more.
LEMMA CallGoesOn ==
  ASSUME Server, NEW d \in Dispatches, job[d].at \in {"calling", "backoff"},
         NEW j \in CallType, j.at \in {"calling", "backoff"},
         job' = [job EXCEPT ![d] = j], calls' = [calls EXCEPT ![d] = j.attempt],
         j.mode = job[d].mode, job[d].aborted => j.aborted /\ j.attempt = job[d].attempt,
         j.aborted => j.mode = "lib",
         j.attempt <= MaxRetries + 1, j.at = "backoff" => j.attempt <= MaxRetries,
         UNCHANGED <<adapter, behavior, frames, inflight, shared, audit, ring>>
  PROVE  Advances(d)
<1>1. frames[d] \in Seq(Events) /\ j.attempt \in Nat
  BY JobFacts DEF Server, CallType
<1>2. job[d].mode # "stream" /\ frames[d] = <<>> /\ calls[d] = job[d].attempt
  BY DEF Server, Staged, Fits
<1>3. Fits(j, j.attempt, frames[d])
  BY <1>2 DEF Fits
<1>4. frames' = [frames EXCEPT ![d] = frames[d]]
  BY DEF Server, TypedServer
<1>5. Moves(d, j, j.attempt, frames[d])
  BY <1>1, <1>2, <1>3, <1>4 DEF Moves
<1>6. Writes(d, j, j.attempt) /\ Holds(d, j)
  BY DEF Writes, Holds
<1> QED
  BY <1>1, <1>5, <1>6 DEF Advances

\* A call whose request has just come in.
LEMMA CallArrives ==
  ASSUME Server, NEW d \in Dispatches, job[d].at = "idle",
         NEW j \in CallType, NEW n \in Nat, Fits(j, n, <<>>), j.at # "streaming",
         job' = [job EXCEPT ![d] = j], calls' = [calls EXCEPT ![d] = n],
         \/ UNCHANGED <<audit, ring>> /\ (j.at = "done" => Excused(j, n))
         \/ RecordDispatch(Row(d, j.stop, j.code)) /\ j.at = "done" /\ j.stop # None,
         UNCHANGED <<adapter, behavior, frames, inflight, shared>>
  PROVE  Advances(d)
<1>1. frames[d] = <<>> /\ calls[d] = 0
  BY DEF Server, Staged, Fits
<1>2. frames' = [frames EXCEPT ![d] = <<>>]
  BY <1>1 DEF Server, TypedServer
<1>3. Moves(d, j, n, <<>>)
  BY <1>1, <1>2, NothingSent DEF Moves
<1>4. j.stop \in StopReasons \cup {None} /\ j.code \in Codes \cup {None}
  BY DEF CallType
<1>5. Writes(d, j, n)
  BY <1>4, RowFacts DEF Writes
<1>6. Holds(d, j)
  BY DEF Holds
<1> QED
  BY <1>3, <1>5, <1>6, NothingSent DEF Advances

LEMMA FitsArrived ==
  ASSUME NEW j, j.mode \in {"sync", "lib"}
  PROVE  /\ j.at = "done" /\ j.stop # None /\ j.code \notin Retryable \cup Fatal => Fits(j, 0, <<>>)
         /\ j.at = "calling" /\ j.attempt = 1 /\ ~j.aborted => Fits(j, 1, <<>>)
<1>1. 0 <= MaxRetries + 1 /\ 1 <= MaxRetries + 1
  BY DispatchAssumption
<1> QED
  BY <1>1 DEF Fits

LEMMA DispatchInvalidAdvances ==
  ASSUME Server, NEW d \in Dispatches, DispatchInvalid(d)
  PROVE  Advances(d)
<1> PICK i : i = NewJob(d, "lib", UiCorr, FALSE)
  OBVIOUS
<1> PICK j : j = [i EXCEPT !.at = "done", !.stop = "DispatcherError", !.code = "DispatcherRequestInvalid"]
  OBVIOUS
<1>1. i \in CallType /\ i.mode = "lib" /\ ~i.aborted
  BY NothingSent, DispatchAssumption DEF NewJob, CallType, Server, TypedServer
<1>2. /\ j \in CallType /\ j.at = "done" /\ j.mode = "lib" /\ ~j.aborted
      /\ j.stop = "DispatcherError" /\ j.code = "DispatcherRequestInvalid"
  BY <1>1, CodeFacts DEF CallType
<1>3. Fits(j, 0, <<>>)
  <2>1. j.mode \in {"sync", "lib"} /\ j.at = "done" /\ j.stop # None /\ j.code \notin Retryable \cup Fatal
    BY <1>2, CodeFacts
  <2> QED
    BY ONLY <2>1, FitsArrived
<1>4. Excused(j, 0)
  BY <1>2 DEF Excused
<1>5. job' = [job EXCEPT ![d] = j] /\ job[d].at = "idle"
      /\ UNCHANGED <<adapter, behavior, calls, frames, inflight, shared, audit, ring>>
  BY DEF DispatchInvalid, NoRecord
<1>6. calls' = [calls EXCEPT ![d] = 0]
  BY <1>5 DEF Server, TypedServer, Staged, Fits
<1> QED
  BY <1>2, <1>3, <1>4, <1>5, <1>6, CallArrives

LEMMA DispatchOverBudgetAdvances ==
  ASSUME Server, NEW d \in Dispatches, DispatchOverBudget(d)
  PROVE  Advances(d)
<1> PICK mode \in {"sync", "lib"} :
      job' = [job EXCEPT ![d] = [NewJob(d, mode, UiCorr, FALSE) EXCEPT !.at = "done", !.stop = "BudgetExhausted"]]
  BY DEF DispatchOverBudget
<1> PICK i : i = NewJob(d, mode, UiCorr, FALSE)
  OBVIOUS
<1> PICK j : j = [i EXCEPT !.at = "done", !.stop = "BudgetExhausted"]
  OBVIOUS
<1>0. mode \in {"sync", "lib", "stream"}
  OBVIOUS
<1>1. i \in CallType /\ i.mode = mode /\ ~i.aborted /\ i.code = None
  BY <1>0, NothingSent, DispatchAssumption DEF NewJob, CallType, Server, TypedServer
<1>2. /\ j \in CallType /\ j.at = "done" /\ j.mode = mode /\ ~j.aborted
      /\ j.stop = "BudgetExhausted" /\ j.code = None
  BY <1>1, CodeFacts DEF CallType
<1>3. Fits(j, 0, <<>>)
  <2>1. j.mode \in {"sync", "lib"} /\ j.at = "done" /\ j.stop # None /\ j.code \notin Retryable \cup Fatal
    BY <1>2, CodeFacts
  <2> QED
    BY ONLY <2>1, FitsArrived
<1>4. job' = [job EXCEPT ![d] = j] /\ job[d].at = "idle" /\ RecordDispatch(Row(d, j.stop, j.code))
      /\ UNCHANGED <<adapter, behavior, calls, frames, inflight, shared>>
  BY <1>2 DEF DispatchOverBudget
<1>5. calls' = [calls EXCEPT ![d] = 0]
  BY <1>4 DEF Server, TypedServer, Staged, Fits
<1> QED
  BY <1>2, <1>3, <1>4, <1>5, CallArrives, CodeFacts

LEMMA DispatchArrivesAdvances ==
  ASSUME Server, NEW d \in Dispatches, DispatchArrives(d)
  PROVE  Advances(d)
<1>1. job[d].at = "idle" /\ UNCHANGED <<adapter, behavior, frames, inflight, shared, audit, ring>>
  BY DEF DispatchArrives, NoRecord
<1>2. calls[d] = 0 /\ calls' \in {calls, [calls EXCEPT ![d] = calls[d] + 1]}
  BY <1>1 DEF DispatchArrives, Server, Staged, Fits
<1>3. CASE \E mode \in {"sync", "lib"} : /\ mode = "lib"
                                          /\ job' = [job EXCEPT ![d] = [NewJob(d, mode, UiCorr, TRUE) EXCEPT
                                                       !.at = "done", !.stop = "UserInterrupt"]]
                                          /\ UNCHANGED calls
  <2> PICK i : i = NewJob(d, "lib", UiCorr, TRUE)
    OBVIOUS
  <2> PICK j : j = [i EXCEPT !.at = "done", !.stop = "UserInterrupt"]
    OBVIOUS
  <2>1. i \in CallType /\ i.mode = "lib" /\ i.aborted /\ i.code = None
    BY NothingSent, DispatchAssumption DEF NewJob, CallType, Server, TypedServer
  <2>2. /\ j \in CallType /\ j.at = "done" /\ j.mode = "lib" /\ j.aborted
        /\ j.stop = "UserInterrupt" /\ j.code = None
    BY <2>1, CodeFacts DEF CallType
  <2>3. Fits(j, 0, <<>>) /\ Excused(j, 0)
    <3>1. j.mode \in {"sync", "lib"} /\ j.at = "done" /\ j.stop # None /\ j.code \notin Retryable \cup Fatal
      BY <2>2, CodeFacts
    <3>2. Fits(j, 0, <<>>)
      BY ONLY <3>1, FitsArrived
    <3> QED
      BY <2>2, <3>2 DEF Excused
  <2>4. job' = [job EXCEPT ![d] = j] /\ calls' = [calls EXCEPT ![d] = 0]
    BY <1>2, <1>3 DEF Server, TypedServer
  <2> QED
    BY <1>1, <2>2, <2>3, <2>4, CallArrives
<1>4. CASE \E mode \in {"sync", "lib"} : /\ job' = [job EXCEPT ![d] = NewJob(d, mode, UiCorr, FALSE)]
                                          /\ calls' = [calls EXCEPT ![d] = @ + 1]
  <2> PICK mode \in {"sync", "lib"} : /\ job' = [job EXCEPT ![d] = NewJob(d, mode, UiCorr, FALSE)]
                                      /\ calls' = [calls EXCEPT ![d] = @ + 1]
    BY <1>4
  <2> PICK j : j = NewJob(d, mode, UiCorr, FALSE)
    OBVIOUS
  <2>0. mode \in {"sync", "lib", "stream"}
    OBVIOUS
  <2>1. j \in CallType /\ j.at = "calling" /\ j.mode = mode /\ j.attempt = 1 /\ ~j.aborted
    BY <2>0, NothingSent, DispatchAssumption DEF NewJob, CallType, Server, TypedServer
  <2>2. Fits(j, 1, <<>>)
    <3>1. j.mode \in {"sync", "lib"}
      BY <2>1
    <3> QED
      BY ONLY <2>1, <3>1, FitsArrived
  <2>3. calls' = [calls EXCEPT ![d] = 1]
    BY <1>2
  <2> QED
    BY <1>1, <2>1, <2>2, <2>3, CallArrives
<1> QED
  BY <1>3, <1>4 DEF DispatchArrives
\* Where a call stands.
LEMMA CallFacts ==
  ASSUME Server, NEW d \in Dispatches, job[d].at \in {"calling", "backoff"}
  PROVE  /\ job[d] \in CallType /\ calls[d] = job[d].attempt
         /\ calls[d] \in Nat /\ calls[d] <= MaxRetries + 1 /\ MaxRetries \in Nat
         /\ job[d].at = "backoff" => calls[d] <= MaxRetries
         /\ job[d].mode \in {"sync", "lib"} /\ (job[d].aborted => job[d].mode = "lib")
<1>1. job[d] \in CallType /\ calls[d] \in Nat
  BY JobFacts DEF Server
<1>2. /\ calls[d] = job[d].attempt /\ calls[d] <= MaxRetries + 1 /\ job[d].mode # "stream"
      /\ job[d].at = "backoff" => calls[d] <= MaxRetries
      /\ job[d].aborted => job[d].mode = "lib"
  BY DEF Server, Staged, Fits
<1>3. job[d].mode \in {"sync", "lib", "stream"}
  BY <1>1 DEF CallType
<1> QED
  BY <1>1, <1>2, <1>3, DispatchAssumption

LEMMA SignalAbortsAdvances ==
  ASSUME Server, NEW d \in Dispatches, SignalAborts(d)
  PROVE  Advances(d)
<1>1. /\ job[d].at \in {"calling", "backoff", "streaming"} /\ job[d].mode = "lib" /\ ~job[d].aborted
      /\ job' = [job EXCEPT ![d].aborted = TRUE]
      /\ UNCHANGED <<adapter, behavior, inflight, frames, audit, ring, calls, shared>>
  BY DEF SignalAborts, Live
<1>2. job[d].at \in {"calling", "backoff"}
  BY <1>1 DEF Server, Staged, Fits
<1>3. job[d] \in CallType /\ calls[d] = job[d].attempt /\ calls[d] <= MaxRetries + 1
      /\ (job[d].at = "backoff" => calls[d] <= MaxRetries)
  BY <1>2, CallFacts
<1> PICK i \in CallType : i = job[d]
  BY <1>3
<1> PICK j : j = [i EXCEPT !.aborted = TRUE]
  OBVIOUS
<1>4. j \in CallType /\ j.at = i.at /\ j.mode = i.mode /\ j.attempt = i.attempt /\ j.aborted
  BY DEF CallType
<1>5. job' = [job EXCEPT ![d] = j]
  BY <1>1
<1>6. calls' = [calls EXCEPT ![d] = j.attempt]
  BY <1>1, <1>3, <1>4 DEF Server, TypedServer
<1> QED
  BY <1>1, <1>2, <1>3, <1>4, <1>5, <1>6, CallGoesOn

LEMMA EchoBrokenAdvances ==
  ASSUME Server, NEW d \in Dispatches, EchoBroken(d)
  PROVE  Advances(d)
<1>1. /\ job[d].at \in {"calling", "backoff"}
      /\ UNCHANGED <<adapter, behavior, calls, frames, inflight, shared>>
      /\ Done(d, "DispatcherError", "DispatcherRequestInvalid")
      /\ RecordDispatch(Row(d, "DispatcherError", "DispatcherRequestInvalid"))
  BY DEF EchoBroken
<1>2. /\ "DispatcherRequestInvalid" \notin Retryable \cup Fatal
      /\ "DispatcherRequestInvalid" \in Codes /\ "DispatcherError" \in StopReasons
  BY CodeFacts
<1> QED
  BY <1>1, <1>2, CallReturns

LEMMA AdapterThrowsAdvances ==
  ASSUME Server, NEW d \in Dispatches, NEW code \in Retryable \cup Fatal, AdapterThrows(d, code)
  PROVE  Advances(d)
<1>1. /\ job[d].at = "calling"
      /\ UNCHANGED <<adapter, behavior, calls, frames, inflight, shared>>
  BY DEF AdapterThrows
<1>2. /\ job[d] \in CallType /\ calls[d] = job[d].attempt
      /\ calls[d] \in Nat /\ calls[d] <= MaxRetries + 1 /\ MaxRetries \in Nat
  BY <1>1, CallFacts
<1>3. CASE Done(d, "UserInterrupt", None) /\ RecordDispatch(Row(d, "UserInterrupt", None))
  <2>1. None \notin Retryable \cup Fatal /\ "UserInterrupt" \in StopReasons
    BY CodeFacts
  <2> QED
    BY <1>1, <1>3, <2>1, CallReturns
<1>4. CASE /\ ~job[d].aborted /\ (code \notin Retryable \/ job[d].attempt > MaxRetries)
           /\ Done(d, "DispatcherError", code) /\ RecordDispatch(Row(d, "DispatcherError", code))
  <2>1. code \in Codes /\ "DispatcherError" \in StopReasons
    BY CodeFacts
  <2>2. code \in Retryable => calls[d] = MaxRetries + 1
    BY <1>2, <1>4
  <2> QED
    BY <1>1, <1>4, <2>1, <2>2, CallReturns
<1>5. CASE /\ ~job[d].aborted /\ ~(job[d].attempt > MaxRetries)
           /\ job' = [job EXCEPT ![d].at = "backoff"] /\ UNCHANGED <<audit, ring>>
  <2> PICK i \in CallType : i = job[d]
    BY <1>2
  <2> PICK j : j = [i EXCEPT !.at = "backoff"]
    OBVIOUS
  <2>1. j \in CallType /\ j.at = "backoff" /\ j.mode = i.mode /\ j.attempt = i.attempt /\ j.aborted = i.aborted
    BY DEF CallType
  <2>2. job' = [job EXCEPT ![d] = j]
    BY <1>5
  <2>3. calls' = [calls EXCEPT ![d] = j.attempt]
    BY <1>1, <1>2, <2>1 DEF Server, TypedServer
  <2>4. j.attempt <= MaxRetries + 1 /\ j.attempt <= MaxRetries
    BY <1>2, <1>5, <2>1
  <2> QED
    BY <1>1, <1>5, <2>1, <2>2, <2>3, <2>4, CallGoesOn
<1> QED
  BY <1>3, <1>4, <1>5 DEF AdapterThrows, NoRecord

LEMMA BackoffOverAdvances ==
  ASSUME Server, NEW d \in Dispatches, BackoffOver(d)
  PROVE  Advances(d)
<1>1. /\ job[d].at = "backoff"
      /\ UNCHANGED <<adapter, behavior, frames, inflight, shared, audit, ring>>
  BY DEF BackoffOver, NoRecord
<1>2. /\ job[d] \in CallType /\ calls[d] = job[d].attempt
      /\ calls[d] \in Nat /\ calls[d] <= MaxRetries /\ MaxRetries \in Nat
      /\ job[d].aborted => job[d].mode = "lib"
  BY <1>1, CallFacts
<1>3. CASE job[d].aborted /\ Done(d, "UserInterrupt", None) /\ UNCHANGED calls
  <2>1. None \notin Retryable \cup Fatal /\ "UserInterrupt" \in StopReasons
    BY CodeFacts
  <2> QED
    BY <1>1, <1>2, <1>3, <2>1, CallReturns
<1>4. CASE ~job[d].aborted /\ Call(d, job[d].attempt + 1)
  <2> PICK i \in CallType : i = job[d]
    BY <1>2
  <2> PICK b \in Behaviors : b = behavior
    BY DEF Server, TypedServer
  <2> PICK k \in Nat : k = i.attempt + 1
    BY <1>2
  <2> PICK j : j = [i EXCEPT !.at = "calling", !.attempt = k, !.doing = b]
    OBVIOUS
  <2>1. j \in CallType /\ j.at = "calling" /\ j.mode = i.mode /\ j.attempt = k /\ j.aborted = i.aborted
    BY DEF CallType
  <2>2. job' = [job EXCEPT ![d] = j]
    BY <1>4 DEF Call
  <2>3. calls' = [calls EXCEPT ![d] = j.attempt]
    BY <1>2, <1>4, <2>1 DEF Call
  <2>4. j.attempt <= MaxRetries + 1
    BY <1>2, <2>1
  <2> QED
    BY <1>1, <1>4, <2>1, <2>2, <2>3, <2>4, CallGoesOn
<1> QED
  BY <1>3, <1>4 DEF BackoffOver

LEMMA AnswersAdvance ==
  ASSUME Server, NEW d \in Dispatches, Answers(d)
  PROVE  Advances(d)
<1>1. \A code \in Retryable \cup Fatal : AdapterThrows(d, code) => Advances(d)
  BY AdapterThrowsAdvances
<1>2. AdapterThrows(d, "ProviderNetworkFailed") => Advances(d)
  BY <1>1 DEF Retryable
<1>3. \A c \in Thrown : AdapterThrows(d, c) => Advances(d)
  BY <1>1, CodeFacts
<1> DEFINE Statuses == {400, 401, 404, 429, 500}
<1>4. \A status \in Statuses : AdapterThrows(d, ClassifyHttpError(status)) => Advances(d)
  <2>1. \A status \in Statuses : ClassifyHttpError(status) \in Retryable \cup Fatal
    BY DEF ClassifyHttpError, Retryable, Fatal
  <2> HIDE DEF Statuses
  <2> QED
    BY ONLY <1>1, <2>1
<1>5. \A stop \in StopReasons, code \in Codes \cup {None} : AdapterReturns(d, stop, code) => Advances(d)
  BY AdapterReturnsAdvances
<1>6. AdapterReturns(d, "NaturalStop", None) => Advances(d)
  BY <1>5 DEF StopReasons
<1>7. CASE DoubleAnswers(d)
  <2>1. \/ AdapterReturns(d, "NaturalStop", None)
        \/ AdapterThrows(d, "ProviderNetworkFailed")
        \/ \E c \in Thrown : AdapterThrows(d, c)
    BY ONLY <1>7 DEF DoubleAnswers
  <2> QED
    BY ONLY <1>2, <1>3, <1>6, <2>1
<1>8. CASE ExampleAnswers(d)
  <2>1. \/ AdapterReturns(d, "NaturalStop", None)
        \/ AdapterThrows(d, "ProviderNetworkFailed")
        \/ \E status \in Statuses : AdapterThrows(d, ClassifyHttpError(status))
    BY ONLY <1>8 DEF ExampleAnswers
  <2> HIDE DEF Statuses
  <2> QED
    BY ONLY <1>2, <1>4, <1>6, <2>1
<1>9. CASE OtherAnswers(d)
  <2>1. \/ \E v \in OtherVerdicts : v[1] # None /\ AdapterReturns(d, v[1], v[2])
        \/ EchoBroken(d)
        \/ \E c \in Thrown : AdapterThrows(d, c)
    BY ONLY <1>9 DEF OtherAnswers
  <2>2. ASSUME NEW v \in OtherVerdicts, v[1] # None, AdapterReturns(d, v[1], v[2])
        PROVE  Advances(d)
    <3>1. v[1] \in StopReasons /\ v[2] \in Codes \cup {None}
      BY <2>2, DispatchAssumption DEF Verdicts
    <3> QED
      BY ONLY <1>5, <2>2, <3>1
  <2>4. EchoBroken(d) => Advances(d)
    BY EchoBrokenAdvances
  <2>3. (\E c \in Thrown : AdapterThrows(d, c)) => Advances(d)
    BY ONLY <1>3
  <2> QED
    BY ONLY <2>1, <2>2, <2>3, <2>4
<1> QED
  BY <1>7, <1>8, <1>9 DEF Answers

-----------------------------------------------------------------------------
(* Streams.                                                                *)

LEMMA PostedAdvances ==
  ASSUME Server, NEW d \in Dispatches, PostRefused(d) \/ PostUnsupported(d) \/ PostStreams(d)
  PROVE  Advances(d)
<1>1. job[d].at = "posted" /\ UNCHANGED <<adapter, behavior, frames>>
  BY DEF PostRefused, PostUnsupported, PostStreams
<1>2. job[d] \in CallType /\ job[d].mode = "stream" /\ calls[d] = 0 /\ frames[d] = <<>>
  BY <1>1, JobFacts DEF Server, Staged, Fits
<1>3. frames' = [frames EXCEPT ![d] = <<>>]
  BY <1>1, <1>2 DEF Server, TypedServer
<1> PICK i \in CallType : i = job[d]
  BY <1>2
<1>4. CASE PostRefused(d)
  <2> PICK j : j = [i EXCEPT !.at = "refused"]
    OBVIOUS
  <2>1. j \in CallType /\ j.at = "refused" /\ j.mode = i.mode /\ j.aborted = i.aborted
    BY DEF CallType
  <2>2. job' = [job EXCEPT ![d] = j] /\ UNCHANGED <<inflight, shared, audit, ring, calls>>
    BY <1>4 DEF PostRefused
  <2>3. calls' = [calls EXCEPT ![d] = 0]
    BY <1>2, <2>2 DEF Server, TypedServer
  <2>4. Fits(j, 0, <<>>)
    BY <1>2, <2>1 DEF Fits
  <2>5. Moves(d, j, 0, <<>>)
    BY <1>2, <1>3, <2>1, <2>2, <2>3, <2>4, NothingSent DEF Moves
  <2>6. Writes(d, j, 0) /\ Holds(d, j)
    BY <1>1, <2>1, <2>2 DEF Writes, Holds
  <2> QED
    BY <1>1, <2>1, <2>5, <2>6, NothingSent DEF Advances
<1>5. CASE PostUnsupported(d)
  <2> PICK j : j = [i EXCEPT !.at = "refused", !.stop = "DispatcherError"]
    OBVIOUS
  <2>1. j \in CallType /\ j.at = "refused" /\ j.mode = i.mode /\ j.aborted = i.aborted
    BY CodeFacts DEF CallType
  <2>2. job' = [job EXCEPT ![d] = j] /\ UNCHANGED <<inflight, shared, calls>>
    BY <1>5 DEF PostUnsupported
  <2>3. calls' = [calls EXCEPT ![d] = 0]
    BY <1>2, <2>2 DEF Server, TypedServer
  <2>4. Fits(j, 0, <<>>)
    BY <1>2, <2>1 DEF Fits
  <2>5. Moves(d, j, 0, <<>>)
    BY <1>2, <1>3, <2>1, <2>2, <2>3, <2>4, NothingSent DEF Moves
  <2> PICK row : row = Row(d, "DispatcherError", "DispatcherStreamUnsupported")
    OBVIOUS
  <2>6. row \in RowType /\ row.d = d /\ RecordDispatch(row)
    BY <1>5, RowFacts, CodeFacts DEF PostUnsupported, RecordStreamDispatch
  <2>7. Writes(d, j, 0) /\ Holds(d, j)
    BY <1>1, <2>1, <2>2, <2>6 DEF Writes, Holds
  <2> QED
    BY <1>1, <2>1, <2>5, <2>7, NothingSent DEF Advances
<1>6. CASE PostStreams(d)
  <2> PICK b \in Behaviors : b = behavior
    BY DEF Server, TypedServer
  <2>0. Follows(i.chk, i.final, i.code, <<>>)
    BY <1>1, <1>2, NothingSent DEF Server, Staged, Fits
  <2> PICK j : j = [i EXCEPT !.at = "streaming", !.doing = b]
    OBVIOUS
  <2>1. j \in CallType /\ j.at = "streaming" /\ j.mode = i.mode /\ j.aborted = i.aborted
        /\ j.corr = i.corr /\ j.chk = i.chk /\ j.final = i.final /\ j.code = i.code
    BY DEF CallType
  <2>2. job' = [job EXCEPT ![d] = j] /\ Register(j.corr, d) /\ UNCHANGED <<audit, ring>>
    BY <1>6, <2>1 DEF PostStreams
  <2>3. calls' = [calls EXCEPT ![d] = 1]
    BY <1>2, <1>6 DEF PostStreams
  <2>4. Fits(j, 1, <<>>)
    BY <1>2, <2>0, <2>1 DEF Fits
  <2>5. Moves(d, j, 1, <<>>)
    BY <1>2, <1>3, <2>1, <2>2, <2>3, <2>4, NothingSent DEF Moves
  <2>6. Writes(d, j, 1) /\ Holds(d, j)
    BY <1>1, <2>1, <2>2 DEF Writes, Holds
  <2> QED
    BY <1>1, <2>1, <2>5, <2>6, NothingSent DEF Advances
<1> QED
  BY <1>4, <1>5, <1>6

\* Where a stream stands.
LEMMA StreamFacts ==
  ASSUME Server, NEW d \in Dispatches, job[d].at = "streaming"
  PROVE  /\ job[d] \in CallType /\ job[d].mode = "stream" /\ calls[d] = 1
         /\ frames[d] \in Seq(Events) /\ Follows(job[d].chk, job[d].final, job[d].code, frames[d])
         /\ calls = [calls EXCEPT ![d] = 1] /\ frames = [frames EXCEPT ![d] = frames[d]]
BY JobFacts DEF Server, Staged, Fits, TypedServer

LEMMA StreamCancelled ==
  ASSUME Server, NEW d \in Dispatches, job[d].at = "streaming",
         job' = [job EXCEPT ![d].aborted = TRUE],
         UNCHANGED <<adapter, behavior, calls, frames, inflight, shared, audit, ring>>
  PROVE  Advances(d)
<1>1. /\ job[d] \in CallType /\ job[d].mode = "stream" /\ calls[d] = 1
      /\ frames[d] \in Seq(Events) /\ Follows(job[d].chk, job[d].final, job[d].code, frames[d])
      /\ calls' = [calls EXCEPT ![d] = 1] /\ frames' = [frames EXCEPT ![d] = frames[d]]
  BY StreamFacts
<1> PICK i \in CallType : i = job[d]
  BY <1>1
<1> PICK j : j = [i EXCEPT !.aborted = TRUE]
  OBVIOUS
<1>2. j \in CallType /\ j.at = i.at /\ j.mode = i.mode /\ j.aborted
      /\ j.corr = i.corr /\ j.chk = i.chk /\ j.final = i.final /\ j.code = i.code
  BY DEF CallType
<1>3. job' = [job EXCEPT ![d] = j]
  OBVIOUS
<1>4. Fits(j, 1, frames[d])
  BY <1>1, <1>2 DEF Fits
<1>5. Moves(d, j, 1, frames[d])
  BY <1>1, <1>2, <1>3, <1>4 DEF Moves
<1>6. Writes(d, j, 1) /\ Holds(d, j)
  BY <1>2 DEF Writes, Holds
<1> QED
  BY <1>1, <1>2, <1>5, <1>6 DEF Advances

LEMMA ForwardAdvances ==
  ASSUME Server, NEW d \in Dispatches, job[d].at = "streaming",
         NEW ev \in Events, NEW step \in Nat, Permits(job[d].chk, ev.type, TRUE), Forward(d, ev, step)
  PROVE  Advances(d)
<1>1. /\ job[d] \in CallType /\ job[d].mode = "stream" /\ calls[d] = 1
      /\ frames[d] \in Seq(Events) /\ Follows(job[d].chk, job[d].final, job[d].code, frames[d])
      /\ calls = [calls EXCEPT ![d] = 1]
  BY StreamFacts
<1> PICK i \in CallType : i = job[d]
  BY <1>1
<1> PICK c : c = Checked(i.chk, ev.type)
  OBVIOUS
<1> PICK f : f = IF ev.type = "MessageEnd" THEN ev.reason ELSE i.final
  OBVIOUS
<1> PICK g : g = IF ev.type = "MessageEnd" THEN ev.code ELSE i.code
  OBVIOUS
<1> PICK s : s = Append(frames[d], ev)
  OBVIOUS
<1>2. i.chk \in CheckerType /\ i.final \in StopReasons \cup {None} /\ i.code \in Codes \cup {None}
  BY DEF CallType
<1>3. c \in CheckerType /\ f \in StopReasons \cup {None} /\ g \in Codes \cup {None} /\ Follows(c, f, g, s)
  <2> PICK q \in Seq(Events) : q = frames[d]
    BY <1>1
  <2>1. LET c1 == Checked(i.chk, ev.type)
            f1 == IF ev.type = "MessageEnd" THEN ev.reason ELSE i.final
            k1 == IF ev.type = "MessageEnd" THEN ev.code ELSE i.code
        IN  /\ c1 \in CheckerType /\ f1 \in StopReasons \cup {None} /\ k1 \in Codes \cup {None}
            /\ Follows(c1, f1, k1, Append(q, ev))
    BY <1>1, <1>2, FollowsGrow
  <2> QED
    BY <2>1
<1> PICK j : j = [i EXCEPT !.chk = c, !.step = step, !.final = f, !.code = g]
  OBVIOUS
<1>4. j \in CallType /\ j.at = i.at /\ j.mode = i.mode /\ j.aborted = i.aborted
      /\ j.corr = i.corr /\ j.chk = c /\ j.final = f /\ j.code = g
  <2> PICK x \in CheckerType : x = c
    BY <1>3
  <2> PICK y \in StopReasons \cup {None} : y = f
    BY <1>3
  <2> PICK k \in Nat : k = step
    OBVIOUS
  <2> PICK z \in Codes \cup {None} : z = g
    BY <1>3
  <2> PICK h : h = [i EXCEPT !.chk = x, !.step = k, !.final = y, !.code = z]
    OBVIOUS
  <2>1. h \in CallType /\ h.at = i.at /\ h.mode = i.mode /\ h.aborted = i.aborted
        /\ h.corr = i.corr /\ h.chk = x /\ h.final = y /\ h.code = z
    BY ONLY h = [i EXCEPT !.chk = x, !.step = k, !.final = y, !.code = z], i \in CallType,
            x \in CheckerType, y \in StopReasons \cup {None}, k \in Nat,
            z \in Codes \cup {None} DEF CallType
  <2>2. j = h
    OBVIOUS
  <2> QED
    BY <2>1, <2>2
<1>5. job' = [job EXCEPT ![d] = j] /\ frames' = [frames EXCEPT ![d] = s]
      /\ UNCHANGED <<adapter, behavior, inflight, audit, ring, calls, shared>>
  BY DEF Forward
<1>6. Fits(j, 1, s)
  BY <1>1, <1>3, <1>4 DEF Fits
<1>7. s \in Seq(Events) /\ \A k \in DOMAIN frames[d] : k \in DOMAIN s /\ s[k] = frames[d][k]
  BY <1>1
<1>8. Moves(d, j, 1, s)
  BY <1>1, <1>4, <1>5, <1>6, <1>7 DEF Moves
<1>9. Writes(d, j, 1) /\ Holds(d, j)
  BY <1>4, <1>5 DEF Writes, Holds
<1> QED
  BY <1>4, <1>5, <1>7, <1>8, <1>9 DEF Advances

LEMMA FinishAdvances ==
  ASSUME Server, NEW d \in Dispatches, job[d].at = "streaming",
         NEW err \in Codes \cup {None}, err = None => Complete(job[d].chk), Finish(d, err)
  PROVE  Advances(d)
<1>1. /\ job[d] \in CallType /\ job[d].mode = "stream" /\ calls[d] = 1
      /\ frames[d] \in Seq(Events) /\ Follows(job[d].chk, job[d].final, job[d].code, frames[d])
      /\ calls = [calls EXCEPT ![d] = 1] /\ frames = [frames EXCEPT ![d] = frames[d]]
  BY StreamFacts
<1> PICK i \in CallType : i = job[d]
  BY <1>1
<1>2. i.chk \in CheckerType /\ i.final \in StopReasons \cup {None} /\ i.code \in Codes \cup {None}
  BY DEF CallType
<1> PICK synthetic \in BOOLEAN : synthetic <=> (err # None /\ i.final = None)
  OBVIOUS
<1> PICK stop : stop = IF synthetic THEN "DispatcherError"
                       ELSE IF i.final = None THEN "NaturalStop" ELSE i.final
  OBVIOUS
<1> PICK code : code = IF synthetic THEN err ELSE i.code
  OBVIOUS
<1> PICK s : s = IF synthetic THEN Append(frames[d], MessageEnd("DispatcherError", err)) ELSE frames[d]
  OBVIOUS
<1>3. /\ frames' = [frames EXCEPT ![d] = s]
      /\ Done(d, stop, code) /\ inflight' = Release(i.corr) /\ RecordDispatch(Row(d, stop, code))
      /\ UNCHANGED <<adapter, behavior, calls, shared>>
  BY <1>1 DEF Finish, RecordStreamDispatch
<1>4. stop \in StopReasons /\ stop # None /\ code \in Codes \cup {None}
  BY <1>2, CodeFacts
<1>5. s \in Seq(Events) /\ Readable(s) /\ Closes(s, stop, code)
      /\ \A k \in DOMAIN frames[d] : k \in DOMAIN s /\ s[k] = frames[d][k]
  <2>1. CASE synthetic
    <3>1. Follows(i.chk, None, i.code, frames[d]) /\ err \in Codes
      BY <1>1, <2>1
    <3>2. s \in Seq(Events) /\ Readable(s) /\ Closes(s, "DispatcherError", err)
      BY <1>1, <1>2, <2>1, <3>1, EndAdded
    <3>3. \A k \in DOMAIN frames[d] : k \in DOMAIN s /\ s[k] = frames[d][k]
      BY <1>1, <2>1
    <3> QED
      BY <2>1, <3>2, <3>3
  <2>2. CASE ~synthetic
    <3>1. i.chk.ended
      BY <1>1, <2>2 DEF Follows, Complete
    <3>2. Readable(frames[d]) /\ EndsWith(frames[d], i.final, i.code)
      BY <1>1, <3>1 DEF Follows
    <3>3. code = i.code /\ s = frames[d] /\ (i.final = None => stop = "NaturalStop")
          /\ (i.final # None => stop = i.final)
      BY <2>2
    <3> QED
      BY <1>1, <3>2, <3>3 DEF Closes
  <2> QED
    BY <2>1, <2>2
<1> PICK j : j = Ended(i, stop, code)
  OBVIOUS
<1>6. /\ j \in CallType /\ j.at = "done" /\ j.stop = stop /\ j.code = code
      /\ j.mode = i.mode /\ j.aborted = i.aborted
  BY <1>4, EndedFacts
<1>7. job' = [job EXCEPT ![d] = j]
  BY <1>3 DEF Done
<1>8. Fits(j, 1, s)
  BY <1>1, <1>4, <1>5, <1>6, DispatchAssumption DEF Fits
<1>9. Moves(d, j, 1, s)
  BY <1>1, <1>3, <1>5, <1>6, <1>7, <1>8 DEF Moves
<1>10. Writes(d, j, 1) /\ Holds(d, j)
  BY <1>3, <1>4, <1>6, RowFacts DEF Writes, Holds
<1> QED
  BY <1>3, <1>5, <1>6, <1>9, <1>10 DEF Advances
-----------------------------------------------------------------------------
(* The adapters' streams, event by event.                                  *)

LEMMA YieldsAdvances ==
  ASSUME Server, NEW d \in Dispatches, job[d].at = "streaming",
         NEW ev \in Events, NEW fresh \in BOOLEAN, NEW step \in Nat, Yields(d, ev, fresh, step)
  PROVE  Advances(d)
<1>1. CASE Permits(job[d].chk, ev.type, fresh) /\ Forward(d, ev, step)
  <2>1. Permits(job[d].chk, ev.type, TRUE)
    BY <1>1 DEF Permits
  <2> QED
    BY <1>1, <2>1, ForwardAdvances
<1>2. CASE Finish(d, "DispatcherAdapterError")
  <2>1. "DispatcherAdapterError" \in Codes \cup {None} /\ "DispatcherAdapterError" # None
    BY CodeFacts
  <2> QED
    BY <1>2, <2>1, FinishAdvances
<1> QED
  BY <1>1, <1>2 DEF Yields

LEMMA EndOfStreamAdvances ==
  ASSUME Server, NEW d \in Dispatches, job[d].at = "streaming", EndOfStream(d)
  PROVE  Advances(d)
<1> PICK err : err = IF Complete(job[d].chk) THEN None ELSE "DispatcherAdapterError"
  OBVIOUS
<1>1. err \in Codes \cup {None} /\ (err = None => Complete(job[d].chk))
  BY CodeFacts
<1>2. Finish(d, err)
  BY DEF EndOfStream
<1> QED
  BY <1>1, <1>2, FinishAdvances

\* Whatever the adapter, a step of its stream is one of these.
StreamStep(d) ==
    /\ job[d].at = "streaming"
    /\ \/ \E ev \in Events, fresh \in BOOLEAN, step \in Nat : Yields(d, ev, fresh, step)
       \/ \E c \in Thrown : Finish(d, c)
       \/ EndOfStream(d)

LEMMA DoubleStreamsStep ==
  ASSUME NEW d \in Dispatches, DoubleStreams(d), job[d].step \in Nat
  PROVE  StreamStep(d)
<1> PICK at \in Nat : at = job[d].step
  OBVIOUS
<1>1. job[d].at = "streaming" /\ MaxDeltas \in Nat /\ (TRUE \in BOOLEAN)
  BY DispatchAssumption DEF DoubleStreams
<1>2. /\ 1 \in Nat /\ 2 \in Nat /\ at + 1 \in Nat
      /\ MaxDeltas + 3 \in Nat /\ MaxDeltas + 4 \in Nat /\ MaxDeltas + 5 \in Nat
  BY <1>1
<1>3. /\ Event("MessageStart") \in Events /\ Event("ContentBlockStart") \in Events
      /\ Event("ContentBlockDelta") \in Events /\ Event("ContentBlockEnd") \in Events
      /\ MessageEnd("NaturalStop", None) \in Events /\ MessageEnd("UserInterrupt", None) \in Events
  BY MadeEvents DEF EventTypes, StopReasons
<1>4. \/ \E ev \in Events, step \in Nat : Yields(d, ev, TRUE, step)
      \/ \E c \in Thrown : Finish(d, c)
      \/ EndOfStream(d)
  <2>1. \/ Yields(d, Event("MessageStart"), TRUE, 1)
        \/ \E c \in Thrown : Finish(d, c)
        \/ Yields(d, Event("ContentBlockStart"), TRUE, 2)
        \/ Yields(d, Event("ContentBlockDelta"), TRUE, at + 1)
        \/ Yields(d, Event("ContentBlockEnd"), TRUE, MaxDeltas + 4)
        \/ Yields(d, Event("ContentBlockEnd"), TRUE, MaxDeltas + 3)
        \/ Yields(d, MessageEnd("NaturalStop", None), TRUE, MaxDeltas + 5)
        \/ Yields(d, MessageEnd("UserInterrupt", None), TRUE, MaxDeltas + 5)
        \/ EndOfStream(d)
    BY ONLY DoubleStreams(d), at = job[d].step DEF DoubleStreams
  <2>2. \A ev \in Events, step \in Nat : Yields(d, ev, TRUE, step) =>
           \E e \in Events, s \in Nat : Yields(d, e, TRUE, s)
    OBVIOUS
  <2> QED
    BY ONLY <1>2, <1>3, <2>1, <2>2
<1> QED
  BY ONLY <1>1, <1>4 DEF StreamStep

LEMMA OtherStreamsStep ==
  ASSUME NEW d \in Dispatches, OtherStreams(d)
  PROVE  StreamStep(d)
<1>1. job[d].at = "streaming" /\ (TRUE \in BOOLEAN) /\ (FALSE \in BOOLEAN) /\ 0 \in Nat
  BY DEF OtherStreams
<1>2. Event("ContentBlockDelta") \in Events
  BY MadeEvents DEF EventTypes
<1>3. \/ \E ev \in OtherEvents : Yields(d, ev, TRUE, 0)
      \/ Yields(d, Event("ContentBlockDelta"), FALSE, 0)
      \/ \E c \in Thrown : Finish(d, c)
      \/ EndOfStream(d)
  BY DEF OtherStreams
<1>4. ASSUME NEW ev \in OtherEvents, Yields(d, ev, TRUE, 0) PROVE StreamStep(d)
  <2>1. ev \in Events
    BY OtherEventsMade
  <2> QED
    BY ONLY <1>1, <1>4, <2>1 DEF StreamStep
<1>5. ASSUME Yields(d, Event("ContentBlockDelta"), FALSE, 0) PROVE StreamStep(d)
  BY ONLY <1>1, <1>2, <1>5 DEF StreamStep
<1>6. (\E c \in Thrown : Finish(d, c)) \/ EndOfStream(d) => StreamStep(d)
  BY <1>1 DEF StreamStep
<1> QED
  BY <1>3, <1>4, <1>5, <1>6

LEMMA StreamsAdvance ==
  ASSUME Server, NEW d \in Dispatches, Streams(d)
  PROVE  Advances(d)
<1>1. job[d].at = "streaming"
  BY DEF Streams, DoubleStreams, OtherStreams
<1>2. job[d].step \in Nat
  BY <1>1, StreamFacts DEF CallType
<1>3. StreamStep(d)
  BY <1>2, DoubleStreamsStep, OtherStreamsStep DEF Streams
<1>4. CASE \E ev \in Events, fresh \in BOOLEAN, step \in Nat : Yields(d, ev, fresh, step)
  BY <1>1, <1>4, YieldsAdvances
<1>5. CASE \E c \in Thrown : Finish(d, c)
  <2> PICK c \in Thrown : Finish(d, c)
    BY <1>5
  <2>1. c \in Codes \cup {None} /\ c # None
    BY CodeFacts
  <2> QED
    BY <1>1, <2>1, FinishAdvances
<1>6. CASE EndOfStream(d)
  BY <1>1, <1>6, EndOfStreamAdvances
<1> QED
  BY <1>3, <1>4, <1>5, <1>6 DEF StreamStep
-----------------------------------------------------------------------------
(* The clients.                                                            *)

LEMMA ServerUnchanged ==
  ASSUME Server, behavior' \in Behaviors,
         UNCHANGED <<adapter, job, inflight, frames, audit, ring, calls, shared>>
  PROVE  Server'
<1>1. TypedServer'
  BY DEF Server, TypedServer
<1>2. Staged' /\ Ringed'
  BY DEF Server, Staged, Ringed
<1>3. Logged'
  BY DEF Server, Logged, Unlogged
<1>4. Registered'
  BY DEF Server, Registered, LiveIsCancellable, Sharing
<1> QED
  BY <1>1, <1>2, <1>3, <1>4 DEF Server

LEMMA ClientsUnchanged ==
  ASSUME Clients, cancels' \subseteq Corrs, UNCHANGED <<job, frames, reader, ui>>
  PROVE  Clients'
BY DEF Clients, TypedClients, Reading, UiSettled, MessageEnds

LEMMA CancelArrivesKeeps ==
  ASSUME Inv, NEW c \in Corrs, CancelArrives(c)
  PROVE  Inv'
<1>1. /\ cancels' \subseteq Corrs
      /\ UNCHANGED <<adapter, behavior, inflight, frames, audit, ring, reader, ui, calls, shared>>
  BY DEF CancelArrives, Inv, Clients, TypedClients
<1>2. CASE UNCHANGED job
  <2>1. behavior' \in Behaviors
    BY <1>1 DEF Inv, Server, TypedServer
  <2>2. Server'
    BY <1>1, <1>2, <2>1, ServerUnchanged DEF Inv
  <2> QED
    BY <1>1, <1>2, <2>2, ClientsUnchanged DEF Inv
<1>3. CASE inflight[c] # None /\ job' = [job EXCEPT ![inflight[c]].aborted = TRUE]
  <2> PICK d : d = inflight[c]
    OBVIOUS
  <2>1. d \in Dispatches /\ job[d].at = "streaming"
    BY <1>3 DEF Inv, Server, TypedServer, Registered, LiveIsCancellable
  <2>2. Advances(d)
    BY <1>1, <1>3, <2>1, StreamCancelled DEF Inv
  <2>3. Server'
    BY <2>1, <2>2, ServerStep DEF Inv
  <2> QED
    BY <1>1, <2>1, <2>2, <2>3, ClientsKept DEF Inv, Server
<1> QED
  BY <1>2, <1>3 DEF CancelArrives

LEMMA SetBehaviorKeeps ==
  ASSUME Inv, NEW b \in Behaviors, SetBehavior(b)
  PROVE  Inv'
<1>1. /\ behavior' \in Behaviors /\ cancels' \subseteq Corrs
      /\ UNCHANGED <<adapter, job, inflight, frames, audit, ring, calls, shared, reader, ui>>
  BY DEF SetBehavior, clientVars, Inv, Clients, TypedClients
<1> QED
  BY <1>1, ServerUnchanged, ClientsUnchanged DEF Inv

\* A request on its way is a stream nothing has happened to.
LEMMA PostAdvances ==
  ASSUME Server, NEW d \in Dispatches, job[d].at = "idle", NEW corr \in Corrs, Post(d, corr),
         UNCHANGED <<adapter, behavior, inflight, frames, audit, ring, calls, shared>>
  PROVE  Advances(d) /\ job'[d].at = "posted" /\ job'[d].mode = "stream"
<1> PICK i : i = NewJob(d, "stream", corr, FALSE)
  OBVIOUS
<1> PICK j : j = [i EXCEPT !.at = "posted"]
  OBVIOUS
<1>1. i \in CallType /\ i.mode = "stream" /\ i.chk = Checker /\ i.final = None
  BY NothingSent DEF NewJob, CallType, Server, TypedServer
<1>2. j \in CallType /\ j.at = "posted" /\ j.mode = "stream" /\ j.chk = Checker /\ j.final = None
  BY <1>1 DEF CallType
<1>3. Fits(j, 0, <<>>)
  BY <1>2 DEF Fits
<1>4. job' = [job EXCEPT ![d] = j]
  BY DEF Post
<1>5. calls' = [calls EXCEPT ![d] = 0]
  BY DEF Server, TypedServer, Staged, Fits
<1>6. Advances(d)
  BY <1>2, <1>3, <1>4, <1>5, CallArrives
<1> QED
  BY <1>2, <1>4, <1>6 DEF Server, TypedServer

\* A client opens the response to its request.
LEMMA ClientStarts ==
  ASSUME Inv, NEW d \in Dispatches, job[d].at = "idle", Advances(d),
         job'[d].at = "posted", job'[d].mode = "stream",
         NEW kind \in {"ui", "cli"},
         reader' = [reader EXCEPT ![d] = [kind |-> kind, open |-> TRUE, seen |-> 0]],
         \/ kind = "ui" /\ ui' = [NoUi EXCEPT !.status = "streaming"]
         \/ kind = "cli" /\ ui' = ui,
         UNCHANGED <<cancels, frames>>
  PROVE  Inv'
<1>1. Server'
  BY ServerStep DEF Inv
<1> PICK j \in CallType, n \in Nat, s \in Seq(Events) : Moves(d, j, n, s)
  BY DEF Advances
<1>2. \A e \in Dispatches \ {d} : job'[e] = job[e]
  BY MovedFacts DEF Inv, Server
<1> PICK r : r = [kind |-> kind, open |-> TRUE, seen |-> 0]
  OBVIOUS
<1>3. r \in ReaderType /\ r.kind = kind /\ r.open /\ kind # None
  BY NoneAssumption DEF ReaderType
<1>4. /\ reader' \in [Dispatches -> ReaderType] /\ reader'[d] = r
      /\ \A e \in Dispatches \ {d} : reader'[e] = reader[e]
  BY <1>3 DEF Inv, Clients, TypedClients
<1>5. reader[d].kind = None
  BY DEF Inv, Clients, Reading
<1>6. TypedClients'
  <2>1. ui' \in UiType
    <3>1. [NoUi EXCEPT !.status = "streaming"] \in UiType
      BY DEF NoUi, UiType
    <3> QED
      BY <3>1 DEF Inv, Clients, TypedClients
  <2> QED
    BY <1>4, <2>1 DEF Inv, Clients, TypedClients
<1>7. Reading'
  BY <1>2, <1>3, <1>4 DEF Inv, Clients, Reading
<1>8. UiSettled'
  <2>1. CASE kind = "ui" /\ ui' = [NoUi EXCEPT !.status = "streaming"]
    <3>1. ui'.stop = None
      BY <2>1 DEF NoUi
    <3> QED
      BY <1>3, <1>4, <2>1, <3>1 DEF UiSettled
  <2>2. CASE ui' = ui
    <3>1. \A e \in Dispatches : reader[e].kind = "ui" => reader'[e] = reader[e]
      BY <1>4, <1>5, NoneAssumption
    <3>2. \A e \in Dispatches : MessageEnds(e)' = MessageEnds(e)
      BY DEF MessageEnds
    <3> QED
      BY <2>2, <3>1, <3>2 DEF Inv, Clients, UiSettled
  <2> QED
    BY <2>1, <2>2
<1> QED
  BY <1>1, <1>6, <1>7, <1>8 DEF Inv, Clients

LEMMA PostKeeps ==
  ASSUME Inv, NEW d \in Dispatches, UiStart(d) \/ ChatTurn(d)
  PROVE  Inv'
<1>1. CASE UiStart(d)
  <2>1. /\ job[d].at = "idle" /\ Post(d, UiCorr) /\ UiCorr \in Corrs
        /\ UNCHANGED <<adapter, behavior, inflight, frames, audit, ring, calls, shared, cancels>>
        /\ reader' = [reader EXCEPT ![d] = [kind |-> "ui", open |-> TRUE, seen |-> 0]]
        /\ ui' = [NoUi EXCEPT !.status = "streaming"]
    BY <1>1, DispatchAssumption DEF UiStart
  <2>2. Advances(d) /\ job'[d].at = "posted" /\ job'[d].mode = "stream"
    BY <2>1, PostAdvances DEF Inv
  <2> QED
    BY <2>1, <2>2, ClientStarts
<1>2. CASE ChatTurn(d)
  <2>1. PICK c \in Corrs : Post(d, c)
    BY <1>2 DEF ChatTurn
  <2>2. /\ job[d].at = "idle"
        /\ UNCHANGED <<adapter, behavior, inflight, frames, audit, ring, calls, shared, cancels>>
        /\ reader' = [reader EXCEPT ![d] = [kind |-> "cli", open |-> TRUE, seen |-> 0]]
        /\ ui' = ui
    BY <1>2 DEF ChatTurn
  <2>3. Advances(d) /\ job'[d].at = "posted" /\ job'[d].mode = "stream"
    BY <2>1, <2>2, PostAdvances DEF Inv
  <2> QED
    BY <2>2, <2>3, ClientStarts
<1> QED
  BY <1>1, <1>2

\* A client reads on, or stops reading.
LEMMA ClientReads ==
  ASSUME Inv, NEW d \in Dispatches, UNCHANGED serverVars, reader[d].open,
         NEW r \in ReaderType, r.kind = reader[d].kind, reader' = [reader EXCEPT ![d] = r],
         ui' \in UiType, cancels' \subseteq Corrs,
         reader[d].kind # "ui" => ui' = ui,
         reader[d].kind = "ui" =>
            /\ ui'.status # "streaming"
            /\ ui'.stop = ui.stop \/ \E i \in MessageEnds(d) : frames[d][i].reason = ui'.stop
  PROVE  Inv'
<1>1. /\ UNCHANGED <<adapter, job, inflight, frames, audit, ring, calls, shared>>
      /\ behavior' \in Behaviors
  BY DEF serverVars, Inv, Server, TypedServer
<1>2. Server'
  BY <1>1, ServerUnchanged DEF Inv
<1>3. /\ reader' \in [Dispatches -> ReaderType] /\ reader'[d] = r
      /\ \A e \in Dispatches \ {d} : reader'[e] = reader[e]
  BY DEF Inv, Clients, TypedClients
<1>4. \A e \in Dispatches : reader'[e].kind = reader[e].kind
  BY <1>3
<1>5. reader[d].kind # None
  BY DEF Inv, Clients, Reading, NoReader
<1>6. TypedClients'
  BY <1>3 DEF TypedClients
<1>7. Reading'
  BY <1>1, <1>3, <1>4, <1>5 DEF Inv, Clients, Reading
<1>8. \A e \in Dispatches : MessageEnds(e)' = MessageEnds(e)
  BY <1>1 DEF MessageEnds
<1>9. UiSettled'
  <2>1. CASE reader[d].kind # "ui"
    <3>1. \A e \in Dispatches : reader[e].kind = "ui" => reader'[e] = reader[e]
      BY <1>3, <2>1
    <3> QED
      BY <1>1, <1>8, <2>1, <3>1 DEF Inv, Clients, UiSettled
  <2>2. CASE reader[d].kind = "ui"
    BY <1>1, <1>4, <1>8, <2>2 DEF Inv, Clients, UiSettled
  <2> QED
    BY <2>1, <2>2
<1> QED
  BY <1>2, <1>6, <1>7, <1>9 DEF Inv, Clients

LEMMA ReadKeeps ==
  ASSUME Inv, NEW d \in Dispatches,
         ReadMessageEnd(d) \/ ReadEnd(d) \/ ReadFails(d) \/ UiAborts(d) \/ PostCancel(d)
  PROVE  Inv'
<1>1. /\ reader[d].open /\ reader[d] \in ReaderType /\ ui \in UiType /\ cancels \subseteq Corrs
      /\ UNCHANGED serverVars
  BY DEF ReadMessageEnd, ReadEnd, ReadFails, UiAborts, PostCancel, Inv, Clients, TypedClients
<1> PICK q \in ReaderType : q = reader[d]
  BY <1>1
<1> PICK shut : shut = [q EXCEPT !.open = FALSE]
  OBVIOUS
<1>2. shut \in ReaderType /\ shut.kind = q.kind
  BY DEF ReaderType
<1>3. \A status \in {"idle", "streaming", "done", "error"} :
         LET u == [ui EXCEPT !.status = status] IN u \in UiType /\ u.status = status /\ u.stop = ui.stop
  BY <1>1 DEF UiType
<1>4. CASE ReadMessageEnd(d)
  <2> PICK i \in MessageEnds(d) :
        /\ ui' = IF q.kind = "ui" THEN [status |-> "done", stop |-> frames[d][i].reason] ELSE ui
        /\ reader' = [reader EXCEPT ![d].seen = i]
    BY <1>4 DEF ReadMessageEnd, Unread
  <2>0. frames[d] \in Seq(Events) /\ i \in DOMAIN frames[d] /\ frames[d][i].type = "MessageEnd" /\ i \in Nat
    BY DEF MessageEnds, Inv, Server, TypedServer
  <2> PICK r : r = [q EXCEPT !.seen = i]
    OBVIOUS
  <2>1. r \in ReaderType /\ r.kind = q.kind /\ reader' = [reader EXCEPT ![d] = r] /\ cancels' = cancels
    BY <1>4, <2>0 DEF ReaderType, ReadMessageEnd
  <2>2. frames[d][i].reason \in StopReasons \cup {None}
    <3>1. frames[d] \in Seq(Events) /\ i \in DOMAIN frames[d] /\ frames[d][i].type = "MessageEnd"
      BY <2>0
    <3>2. frames[d][i] \in Events
      BY <3>1, ElementOfSeq
    <3> QED
      BY <3>1, <3>2, EventFacts
  <2>3. ui' \in UiType
    BY <1>1, <2>2 DEF UiType
  <2> QED
    BY <1>1, <2>1, <2>3, ClientReads
<1>5. CASE ReadEnd(d)
  <2> PICK status : status = IF ui.status = "streaming" THEN "done" ELSE ui.status
    OBVIOUS
  <2>1. status \in {"idle", "streaming", "done", "error"} /\ status # "streaming"
    BY <1>1 DEF UiType
  <2>2. /\ reader' = [reader EXCEPT ![d] = shut] /\ cancels' = cancels
        /\ ui' = IF q.kind = "ui" THEN [ui EXCEPT !.status = status] ELSE ui
    BY <1>5 DEF ReadEnd, UiSettles
  <2> QED
    BY <1>1, <1>2, <1>3, <2>1, <2>2, ClientReads
<1>6. CASE ReadFails(d)
  <2>1. /\ reader' = [reader EXCEPT ![d] = shut] /\ cancels' = cancels
        /\ ui' = IF q.kind = "ui" THEN [ui EXCEPT !.status = "error"] ELSE ui
    BY <1>6 DEF ReadFails, UiSettles
  <2> QED
    BY <1>1, <1>2, <1>3, <2>1, ClientReads
<1>7. CASE UiAborts(d)
  <2>1. /\ reader' = [reader EXCEPT ![d] = shut] /\ cancels' = cancels
        /\ ui' = IF q.kind = "ui" THEN [ui EXCEPT !.status = "done"] ELSE ui
    BY <1>7 DEF UiAborts, UiSettles
  <2> QED
    BY <1>1, <1>2, <1>3, <2>1, ClientReads
<1>8. CASE PostCancel(d)
  <2>1. q.kind # None
    BY <1>1 DEF Inv, Clients, Reading, NoReader
  <2>2. job[d].corr \in Corrs
    <3>1. job[d] \in CallType
      BY <2>1, JobFacts DEF Inv, Server, Clients, Reading
    <3> QED
      BY <3>1 DEF CallType
  <2>3. cancels' \subseteq Corrs
    BY <1>1, <1>8, <2>2 DEF PostCancel
  <2>4. CASE q.kind = "ui"
    <3>1. reader' = [reader EXCEPT ![d] = shut] /\ ui' = [ui EXCEPT !.status = "done"]
      BY <1>8, <2>4 DEF PostCancel, UiSettles
    <3> QED
      BY <1>1, <1>2, <1>3, <2>3, <2>4, <3>1, ClientReads
  <2>5. CASE q.kind # "ui"
    <3>1. reader' = [reader EXCEPT ![d] = q] /\ ui' = ui
      BY <1>8, <2>5 DEF PostCancel, UiSettles, Inv, Clients, TypedClients
    <3> QED
      BY <1>1, <2>3, <2>5, <3>1, ClientReads
  <2> QED
    BY <2>4, <2>5
<1> QED
  BY <1>4, <1>5, <1>6, <1>7, <1>8

-----------------------------------------------------------------------------
(* The invariant, and what follows from it.                                *)

LEMMA InitInv == Init => Inv
<1> SUFFICES ASSUME Init PROVE Inv
  OBVIOUS
<1>1. TypedServer
  BY DispatchAssumption, NothingSent DEF Init, TypedServer
<1>2. Staged
  BY DEF Init, Staged, Fits, Idle
<1>3. Logged /\ Ringed
  BY DispatchAssumption DEF Init, Logged, Ringed, Idle
<1>4. Registered
  BY DEF Init, Registered, LiveIsCancellable, Sharing, Idle
<1>5. TypedClients /\ Reading
  BY DEF Init, TypedClients, Reading, NoReader, ReaderType, NoUi, UiType
<1>6. UiSettled
  BY DEF Init, UiSettled, NoUi
<1> QED
  BY <1>1, <1>2, <1>3, <1>4, <1>5, <1>6 DEF Inv, Server, Clients

\* The steps of the server's handlers.
Serves(d) ==
    \/ DispatchInvalid(d) \/ DispatchOverBudget(d) \/ DispatchArrives(d)
    \/ SignalAborts(d) \/ Answers(d) \/ BackoffOver(d)
    \/ PostRefused(d) \/ PostUnsupported(d) \/ PostStreams(d) \/ Streams(d)

LEMMA ServesAdvances ==
  ASSUME Server, NEW d \in Dispatches, Serves(d)
  PROVE  Advances(d)
BY DispatchInvalidAdvances, DispatchOverBudgetAdvances, DispatchArrivesAdvances, SignalAbortsAdvances,
   AnswersAdvance, BackoffOverAdvances, PostedAdvances, StreamsAdvance DEF Serves

LEMMA ServesClients ==
  ASSUME NEW d \in Dispatches, Serves(d)
  PROVE  UNCHANGED clientVars
<1>1. ASSUME DispatchInvalid(d) \/ DispatchOverBudget(d) \/ DispatchArrives(d) \/ SignalAborts(d)
             \/ BackoffOver(d) \/ PostRefused(d) \/ PostUnsupported(d) \/ PostStreams(d)
      PROVE  UNCHANGED clientVars
  BY <1>1 DEF DispatchInvalid, DispatchOverBudget, DispatchArrives, SignalAborts, BackoffOver,
              PostRefused, PostUnsupported, PostStreams
<1>2. ASSUME Answers(d) PROVE UNCHANGED clientVars
  <2>1. \A stop, code : AdapterReturns(d, stop, code) => UNCHANGED clientVars
    BY DEF AdapterReturns
  <2>4. EchoBroken(d) => UNCHANGED clientVars
    BY DEF EchoBroken
  <2>2. \A code : AdapterThrows(d, code) => UNCHANGED clientVars
    BY DEF AdapterThrows
  <2> HIDE DEF clientVars
  <2> QED
    BY ONLY <1>2, <2>1, <2>2, <2>4 DEF Answers, DoubleAnswers, ExampleAnswers, OtherAnswers
<1>3. ASSUME Streams(d) PROVE UNCHANGED clientVars
  <2>1. \A err : Finish(d, err) => UNCHANGED clientVars
    BY DEF Finish
  <2>2. \A ev, fresh, step : Yields(d, ev, fresh, step) => UNCHANGED clientVars
    BY <2>1 DEF Yields, Forward
  <2>3. EndOfStream(d) => UNCHANGED clientVars
    BY <2>1 DEF EndOfStream
  <2> QED
    BY ONLY <1>3, <2>1, <2>2, <2>3 DEF Streams, DoubleStreams, OtherStreams
<1> QED
  BY <1>1, <1>2, <1>3 DEF Serves

LEMMA NextInv ==
  ASSUME Inv, [Next]_vars
  PROVE  Inv'
<1>1. ASSUME NEW d \in Dispatches, Serves(d) PROVE Inv'
  <2>1. Advances(d) /\ UNCHANGED <<reader, ui, cancels>>
    BY <1>1, ServesAdvances, ServesClients DEF Inv, clientVars
  <2>2. cancels' \subseteq Corrs
    BY <2>1 DEF Inv, Clients, TypedClients
  <2> QED
    BY <2>1, <2>2, ServerStep, ClientsKept DEF Inv, Server
<1>2. ASSUME NEW d \in Dispatches, UiStart(d) \/ ChatTurn(d) PROVE Inv'
  BY <1>2, PostKeeps
<1>3. ASSUME NEW d \in Dispatches,
             ReadMessageEnd(d) \/ ReadEnd(d) \/ ReadFails(d) \/ UiAborts(d) \/ PostCancel(d)
      PROVE  Inv'
  BY <1>3, ReadKeeps
<1>4. ASSUME NEW c \in Corrs, CancelArrives(c) PROVE Inv'
  BY <1>4, CancelArrivesKeeps
<1>5. ASSUME NEW b \in Behaviors, SetBehavior(b) PROVE Inv'
  BY <1>5, SetBehaviorKeeps
<1>6. CASE UNCHANGED vars
  <2>1. /\ behavior' \in Behaviors /\ cancels' \subseteq Corrs
        /\ UNCHANGED <<adapter, job, inflight, frames, audit, ring, calls, shared, reader, ui>>
    BY <1>6 DEF vars, Inv, Server, TypedServer, Clients, TypedClients
  <2> QED
    BY <2>1, ServerUnchanged, ClientsUnchanged DEF Inv
<1> QED
  BY <1>1, <1>2, <1>3, <1>4, <1>5, <1>6 DEF Next, Serves

\* Every reachable state satisfies the inductive invariant: the types, the
\* stage of each dispatch, the audit rows, the ring, the cancellation registry
\* and the clients of dispatcher.ts, stream.ts and useDispatchStream.
THEOREM Inductive == Spec => []Inv
BY InitInv, NextInv, PTL DEF Spec
LEMMA TypesHold ==
  ASSUME Inv
  PROVE  TypeOK
<1>1. /\ adapter \in AdapterType /\ behavior \in Behaviors
      /\ inflight \in [Corrs -> Dispatches \cup {None}]
      /\ ui.status \in {"idle", "streaming", "done", "error"} /\ cancels \subseteq Corrs
  BY DEF Inv, Server, TypedServer, Clients, TypedClients, UiType
<1>2. Len(ring) <= RingSize
  <2>1. Len(audit) \in Nat /\ RingSize \in Nat
    BY DispatchAssumption DEF Inv, Server, TypedServer
  <2>2. Len(ring) = IF Len(audit) < RingSize THEN Len(audit) ELSE RingSize
    BY DEF Inv, Server, Ringed
  <2> QED
    BY <2>1, <2>2
<1>3. ASSUME NEW d \in Dispatches
      PROVE  /\ job[d].at \in {"idle", "posted", "refused", "calling", "backoff", "streaming", "done"}
             /\ job[d].at = "done" => job[d].stop \in StopReasons /\ job[d].code \in Codes \cup {None}
             /\ \A i \in DOMAIN frames[d] : frames[d][i] \in Events
             /\ reader[d].seen # 0 => job[d].mode = "stream"
  <2>1. (job[d].at = "idle" \/ job[d] \in CallType) /\ frames[d] \in Seq(Events)
    BY JobFacts DEF Inv, Server
  <2>2. job[d].at = "done" => job[d].stop # None
    BY DEF Inv, Server, Staged, Fits
  <2>3. job[d].at \in {"idle", "posted", "refused", "calling", "backoff", "streaming", "done"}
    BY <2>1 DEF CallType
  <2>4. job[d].at = "done" => job[d].stop \in StopReasons /\ job[d].code \in Codes \cup {None}
    BY <2>1, <2>2 DEF CallType
  <2>5. \A i \in DOMAIN frames[d] : frames[d][i] \in Events
    BY <2>1, ElementOfSeq
  <2>6. reader[d].seen # 0 => job[d].mode = "stream"
    BY DEF Inv, Clients, Reading, NoReader
  <2> QED
    BY <2>3, <2>4, <2>5, <2>6
<1> QED
  BY <1>1, <1>2, <1>3 DEF TypeOK

LEMMA RowsCounted ==
  ASSUME Inv, NEW d \in Dispatches
  PROVE  RowsOf(d) <= 1 /\ (Unlogged(d) => RowsOf(d) = 0)
<1> PICK rows : rows = {i \in DOMAIN audit : audit[i].d = d}
  OBVIOUS
<1>1. RowsOf(d) = Cardinality(rows)
  BY DEF RowsOf
<1>2. \A i, k \in rows : i = k
  BY DEF Inv, Server, Logged
<1>3. CASE rows = {}
  BY <1>1, <1>3, FS_EmptySet
<1>4. CASE rows # {}
  <2> PICK i : i \in rows
    BY <1>4
  <2>1. rows = {i}
    BY <1>2
  <2>2. ~Unlogged(d)
    BY DEF Unlogged
  <2>3. Cardinality({i}) = 1
    BY FS_Singleton
  <2> QED
    BY <1>1, <2>1, <2>2, <2>3
<1> QED
  BY <1>3, <1>4

LEMMA OneRow ==
  ASSUME Inv
  PROVE  OneRowPerDispatch
<1> SUFFICES ASSUME NEW d \in Dispatches
             PROVE  /\ RowsOf(d) <= 1
                    /\ job[d].at = "done" =>
                          \/ \E i \in DOMAIN audit : audit[i] = Row(d, job[d].stop, job[d].code)
                          \/ /\ job[d].mode = "lib" /\ RowsOf(d) = 0
                             /\ \/ job[d].aborted /\ job[d].stop = "UserInterrupt"
                                \/ job[d].code = "DispatcherRequestInvalid" /\ calls[d] = 0
  BY DEF OneRowPerDispatch
<1>1. RowsOf(d) <= 1 /\ (Unlogged(d) => RowsOf(d) = 0)
  BY RowsCounted
<1>2. job[d].at = "done" =>
          \/ \E i \in DOMAIN audit : audit[i] = Row(d, job[d].stop, job[d].code)
          \/ Excused(job[d], calls[d]) /\ Unlogged(d)
  BY DEF Inv, Server, Logged
<1> QED
  BY <1>1, <1>2 DEF Excused

LEMMA BudgetHeld ==
  ASSUME Inv
  PROVE  RetryBudget
<1> SUFFICES ASSUME NEW d \in Dispatches
             PROVE  /\ calls[d] <= MaxRetries + 1
                    /\ job[d].at = "done" /\ job[d].mode # "stream" /\ ~job[d].own /\ job[d].code \in Retryable
                          => calls[d] = MaxRetries + 1
  BY DEF RetryBudget
<1>1. job[d].at = "idle" \/ job[d] \in CallType
  BY JobFacts DEF Inv, Server
<1>2. job[d].at \in {"idle", "posted", "refused", "calling", "backoff", "streaming", "done"}
  BY <1>1 DEF CallType
<1>3. Fits(job[d], calls[d], frames[d]) /\ MaxRetries \in Nat
  BY DispatchAssumption DEF Inv, Server, Staged
<1> QED
  BY <1>2, <1>3 DEF Fits

\* Two ways to read the n newest rows.
LEMMA TailReversed ==
  ASSUME NEW S, NEW r \in Seq(S), NEW a \in Seq(S), NEW n \in Nat, n <= Len(a), n <= Len(r),
         \A i \in 1 .. Len(r) : r[i] = a[Len(a) - i + 1]
  PROVE  SubSeq(r, 1, n) = Reverse(SubSeq(a, Len(a) - n + 1, Len(a)))
<1> PICK len \in Nat : len = Len(a)
  OBVIOUS
<1> PICK have \in Nat : have = Len(r)
  OBVIOUS
<1> PICK m \in Int : m = len - n + 1
  OBVIOUS
<1> PICK tail : tail = SubSeq(a, m, len)
  OBVIOUS
<1> PICK head : head = SubSeq(r, 1, n)
  OBVIOUS
<1>1. head \in Seq(S) /\ Len(head) = n /\ \A i \in 1 .. n : head[i] = r[i]
  <2>1. \A i \in 1 .. n : r[i] \in S
    BY ElementOfSeq
  <2>2. 1 \in Int /\ n \in Int /\ (1 <= n => n - 1 + 1 = n) /\ n - 1 + 1 = n
    OBVIOUS
  <2>3. /\ SubSeq(r, 1, n) \in Seq(S)
        /\ Len(SubSeq(r, 1, n)) = IF 1 <= n THEN n - 1 + 1 ELSE 0
        /\ \A i \in 1 .. n - 1 + 1 : SubSeq(r, 1, n)[i] = r[1 + i - 1]
    BY <2>1, <2>2, SubSeqProperties
  <2> QED
    BY <2>3
<1>2. tail \in Seq(S) /\ Len(tail) = n /\ \A i \in 1 .. n : tail[i] = a[m + i - 1]
  <2>1. \A i \in m .. len : a[i] \in S
    BY ElementOfSeq
  <2>2. /\ SubSeq(a, m, len) \in Seq(S)
        /\ Len(SubSeq(a, m, len)) = IF m <= len THEN len - m + 1 ELSE 0
        /\ \A i \in 1 .. len - m + 1 : SubSeq(a, m, len)[i] = a[m + i - 1]
    BY <2>1, SubSeqProperties
  <2> QED
    BY <2>2
<1>3. head = [i \in 1 .. n |-> head[i]]
  BY <1>1
<1>4. Reverse(tail) = [i \in 1 .. n |-> tail[n - i + 1]]
  BY <1>2 DEF Reverse
<1>5. \A i \in 1 .. n : tail[n - i + 1] = head[i]
  <2> SUFFICES ASSUME NEW i \in 1 .. n PROVE tail[n - i + 1] = head[i]
    OBVIOUS
  <2> PICK k \in Nat : k = n - i + 1
    OBVIOUS
  <2>1. k \in 1 .. n /\ i \in 1 .. have /\ m + k - 1 = len - i + 1
    OBVIOUS
  <2>2. tail[k] = a[len - i + 1]
    BY <1>2, <2>1
  <2>3. head[i] = a[len - i + 1]
    BY <1>1, <2>1
  <2> QED
    BY <2>2, <2>3
<1> QED
  BY <1>3, <1>4, <1>5

LEMMA RecentIsTail ==
  ASSUME Inv
  PROVE  RecentIsAuditTail
<1>1. audit \in Seq(RowType) /\ ring \in Seq(RowType) /\ RingSize \in Nat \ {0}
  BY DispatchAssumption DEF Inv, Server, TypedServer
<1> PICK len \in Nat : len = Len(audit)
  BY <1>1
<1> PICK have \in Nat : have = Len(ring)
  BY <1>1
<1>2. /\ have = IF len < RingSize THEN len ELSE RingSize
      /\ \A i \in 1 .. have : ring[i] = audit[len - i + 1]
  BY DEF Inv, Server, Ringed
<1> SUFFICES ASSUME NEW limit \in 1 .. RingSize
             PROVE  LET n == IF limit < len THEN limit ELSE len
                    IN  RecentResponse(limit) = Reverse(SubSeq(audit, len - n + 1, len))
  BY DEF RecentIsAuditTail
<1> (IF limit < len THEN limit ELSE len) \in Nat
  OBVIOUS
<1> PICK n \in Nat : n = IF limit < len THEN limit ELSE len
  OBVIOUS
<1>3. n <= len /\ n <= have /\ n = IF limit < have THEN limit ELSE have
  BY <1>1, <1>2
<1>4. RecentResponse(limit) = SubSeq(ring, 1, n)
  BY <1>3 DEF RecentResponse
<1>5. SubSeq(ring, 1, n) = Reverse(SubSeq(audit, len - n + 1, len))
  <2>1. /\ n <= Len(audit) /\ n <= Len(ring)
        /\ \A i \in 1 .. Len(ring) : ring[i] = audit[Len(audit) - i + 1]
    BY <1>2, <1>3
  <2>2. SubSeq(ring, 1, n) = Reverse(SubSeq(audit, Len(audit) - n + 1, Len(audit)))
    BY ONLY <1>1, <2>1, n \in Nat, TailReversed
  <2> QED
    BY <2>2
<1> QED
  BY <1>4, <1>5

LEMMA StreamsReadable ==
  ASSUME Inv, NEW d \in Dispatches
  PROVE  /\ Readable(frames[d]) /\ MessageEnds(d) = Ends(frames[d])
         /\ \/ MessageEnds(d) = {} /\ ~(job[d].at = "done" /\ job[d].mode = "stream")
            \/ \E e \in DOMAIN frames[d] : MessageEnds(d) = {e}
            \/ EndsAgain(frames[d], job[d].code) /\ job[d].at = "done"
<1>1. MessageEnds(d) = Ends(frames[d])
  BY DEF MessageEnds, Ends
<1>2. job[d].at = "idle" \/ job[d] \in CallType
  BY JobFacts DEF Inv, Server
<1>3. job[d].at \in {"idle", "posted", "refused", "calling", "backoff", "streaming", "done"}
  BY <1>2 DEF CallType
<1>4. Fits(job[d], calls[d], frames[d])
  BY DEF Inv, Server, Staged
<1>5. Readable(<<>>) /\ Ends(<<>>) = {}
  <2>1. Readable(<<>>) /\ Follows(Checker, None, None, <<>>)
    BY NothingSent
  <2> QED
    BY <2>1 DEF Follows, Checker
<1>6. CASE job[d].at \in {"idle", "posted", "refused", "calling", "backoff"}
  BY <1>1, <1>4, <1>5, <1>6 DEF Fits
<1>7. CASE job[d].at = "streaming"
  <2>1. Follows(job[d].chk, job[d].final, job[d].code, frames[d])
    BY <1>4, <1>7 DEF Fits
  <2> QED
    BY <1>1, <1>7, <2>1 DEF Follows, EndsWith
<1>8. CASE job[d].at = "done" /\ job[d].mode = "stream"
  BY <1>1, <1>4, <1>8 DEF Fits, Closes, EndsWith
<1>9. CASE job[d].at = "done" /\ job[d].mode # "stream"
  BY <1>1, <1>4, <1>5, <1>9 DEF Fits
<1> QED
  BY <1>3, <1>6, <1>7, <1>8, <1>9

LEMMA StreamsWellFormed ==
  ASSUME Inv
  PROVE  StreamWellFormed
<1>1. ASSUME NEW d \in Dispatches
      PROVE  /\ Readable(frames[d])
             /\ \A i, k \in MessageEnds(d) : i < k =>
                   /\ frames[d][i].reason = None
                   /\ k = Len(frames[d]) /\ frames[d][k].reason = "DispatcherError"
                   /\ job[d].at = "done"
             /\ job[d].at = "done" /\ job[d].mode = "stream" => MessageEnds(d) # {}
  <2>1. /\ Readable(frames[d]) /\ MessageEnds(d) = Ends(frames[d])
        /\ \/ MessageEnds(d) = {} /\ ~(job[d].at = "done" /\ job[d].mode = "stream")
           \/ \E e \in DOMAIN frames[d] : MessageEnds(d) = {e}
           \/ EndsAgain(frames[d], job[d].code) /\ job[d].at = "done"
    BY StreamsReadable
  <2>0. frames[d] \in Seq(Events) /\ Len(frames[d]) \in Nat /\ DOMAIN frames[d] = 1 .. Len(frames[d])
    BY DEF Inv, Server, TypedServer
  <2>2. CASE MessageEnds(d) = {} /\ ~(job[d].at = "done" /\ job[d].mode = "stream")
    BY <2>1, <2>2
  <2>3. CASE \E e \in DOMAIN frames[d] : MessageEnds(d) = {e}
    BY <2>0, <2>1, <2>3
  <2>4. CASE EndsAgain(frames[d], job[d].code) /\ job[d].at = "done"
    <3> PICK e \in DOMAIN frames[d] :
          /\ e < Len(frames[d]) /\ Ends(frames[d]) = {e, Len(frames[d])}
          /\ frames[d][e].reason = None /\ frames[d][Len(frames[d])].reason = "DispatcherError"
      BY <2>4 DEF EndsAgain
    <3>1. ASSUME NEW i \in MessageEnds(d), NEW k \in MessageEnds(d), i < k
          PROVE  i = e /\ k = Len(frames[d])
      BY <2>0, <2>1, <3>1
    <3> QED
      BY <2>1, <2>4, <3>1
  <2> QED
    BY <2>1, <2>2, <2>3, <2>4
<1> QED
  BY <1>1 DEF StreamWellFormed, Readable

LEMMA WireMatches ==
  ASSUME Inv
  PROVE  AuditMatchesWire
<1> SUFFICES ASSUME NEW i \in DOMAIN audit, NEW d, d = audit[i].d,
                    job[d].at = "done", job[d].mode = "stream"
             PROVE  \E e \in MessageEnds(d) :
                       /\ \A k \in MessageEnds(d) : k <= e
                       /\ frames[d][e].code = audit[i].code
                       /\ \/ frames[d][e].reason = audit[i].stop
                          \/ frames[d][e].reason = None /\ audit[i].stop = "NaturalStop"
  BY DEF AuditMatchesWire
<1>1. d \in Dispatches
  <2>1. audit[i] \in RowType
    BY ElementOfSeq DEF Inv, Server, TypedServer
  <2> QED
    BY <2>1 DEF RowType
<1>2. \/ \E k \in DOMAIN audit : audit[k] = Row(d, job[d].stop, job[d].code)
      \/ Excused(job[d], calls[d])
  BY <1>1 DEF Inv, Server, Logged
<1>3. PICK k \in DOMAIN audit : audit[k] = Row(d, job[d].stop, job[d].code)
  BY <1>2 DEF Excused
<1>4. audit[k].d = d /\ audit[k].stop = job[d].stop /\ audit[k].code = job[d].code
  BY <1>3 DEF Row
<1>5. k = i
  BY <1>4 DEF Inv, Server, Logged
<1>6. Closes(frames[d], job[d].stop, job[d].code)
  BY <1>1 DEF Inv, Server, Staged, Fits
<1>7. MessageEnds(d) = Ends(frames[d])
  BY <1>1, StreamsReadable
<1>8. /\ frames[d] \in Seq(Events) /\ Len(frames[d]) \in Nat
      /\ DOMAIN frames[d] = 1 .. Len(frames[d])
  BY <1>1 DEF Inv, Server, TypedServer
<1>9. CASE EndsAgain(frames[d], job[d].code) /\ job[d].stop = "DispatcherError"
  <2> PICK e \in DOMAIN frames[d] :
        /\ e < Len(frames[d]) /\ Ends(frames[d]) = {e, Len(frames[d])}
        /\ frames[d][Len(frames[d])].reason = "DispatcherError"
        /\ frames[d][Len(frames[d])].code = job[d].code
    BY <1>9 DEF EndsAgain
  <2>1. Len(frames[d]) \in MessageEnds(d) /\ \A m \in MessageEnds(d) : m <= Len(frames[d])
    BY <1>7, <1>8
  <2> QED
    BY <1>4, <1>5, <1>9, <2>1
<1>10. ASSUME NEW reason, EndsWith(frames[d], reason, job[d].code),
              reason = job[d].stop \/ (reason = None /\ job[d].stop = "NaturalStop")
       PROVE  \E e \in MessageEnds(d) :
                 /\ \A m \in MessageEnds(d) : m <= e
                 /\ frames[d][e].code = audit[i].code
                 /\ \/ frames[d][e].reason = audit[i].stop
                    \/ frames[d][e].reason = None /\ audit[i].stop = "NaturalStop"
  <2> PICK e \in DOMAIN frames[d] :
        Ends(frames[d]) = {e} /\ frames[d][e].reason = reason /\ frames[d][e].code = job[d].code
    BY <1>10 DEF EndsWith
  <2>1. e \in MessageEnds(d) /\ \A m \in MessageEnds(d) : m <= e
    BY <1>7, <1>8
  <2> QED
    BY <1>4, <1>5, <1>10, <2>1
<1> QED
  BY <1>6, <1>9, <1>10 DEF Closes

\* What a dispatch leaves behind: one audit row within one retry budget, a
\* stream a client can read, with a second MessageEnd only where the adapter's
\* gave no reason and the stream then failed, and the same story on the wire,
\* in the chain and on /dispatch/recent, for any number of dispatches and
\* whatever an adapter yields, throws or answers.
THEOREM DispatchHeld == Spec => []DispatchInv
<1>1. Inv => DispatchInv
  BY TypesHold, OneRow, BudgetHeld, RecentIsTail, StreamsWellFormed, WireMatches DEF DispatchInv
<1> QED
  BY <1>1, Inductive, PTL

\* The registry of stream.ts finds a live stream by its id as long as no other
\* stream took the id meanwhile, and never a stream that has ended.
THEOREM StreamsCancellable == Spec => []LiveIsCancellable
<1>1. Inv => LiveIsCancellable
  BY DEF Inv, Server, Registered
<1> QED
  BY <1>1, Inductive, PTL

\* useDispatchStream never shows a running stream with no loop left to settle
\* it, and shows only a stop reason that came over the wire.
THEOREM ChatSettled == Spec => []UiSettled
<1>1. Inv => UiSettled
  BY DEF Inv, Clients
<1> QED
  BY <1>1, Inductive, PTL

\* Every step moves one dispatch on, or leaves the server's calls as they are.
LEMMA NextMoves ==
  ASSUME Inv, [Next]_vars
  PROVE  (\E d \in Dispatches : Advances(d)) \/ UNCHANGED <<job, calls, frames>>
<1>1. ASSUME NEW d \in Dispatches, Serves(d) PROVE Advances(d)
  BY <1>1, ServesAdvances DEF Inv
<1>2. ASSUME NEW d \in Dispatches, UiStart(d) \/ ChatTurn(d) PROVE Advances(d)
  <2>1. /\ job[d].at = "idle" /\ \E c \in Corrs : Post(d, c)
        /\ UNCHANGED <<adapter, behavior, inflight, frames, audit, ring, calls, shared>>
    BY <1>2, DispatchAssumption DEF UiStart, ChatTurn
  <2> QED
    BY <2>1, PostAdvances DEF Inv
<1>3. ASSUME NEW d \in Dispatches,
             ReadMessageEnd(d) \/ ReadEnd(d) \/ ReadFails(d) \/ UiAborts(d) \/ PostCancel(d)
      PROVE  UNCHANGED <<job, calls, frames>>
  BY <1>3 DEF ReadMessageEnd, ReadEnd, ReadFails, UiAborts, PostCancel, serverVars
<1>4. ASSUME NEW c \in Corrs, CancelArrives(c)
      PROVE  (\E d \in Dispatches : Advances(d)) \/ UNCHANGED <<job, calls, frames>>
  <2>1. CASE inflight[c] # None /\ job' = [job EXCEPT ![inflight[c]].aborted = TRUE]
    <3> PICK d : d = inflight[c]
      OBVIOUS
    <3>1. d \in Dispatches /\ job[d].at = "streaming"
      BY <2>1 DEF Inv, Server, TypedServer, Registered, LiveIsCancellable
    <3> QED
      BY <1>4, <2>1, <3>1, StreamCancelled DEF Inv, CancelArrives
  <2>2. CASE UNCHANGED job
    BY <1>4, <2>2 DEF CancelArrives
  <2> QED
    BY <1>4, <2>1, <2>2 DEF CancelArrives
<1>5. ASSUME NEW b \in Behaviors, SetBehavior(b) PROVE UNCHANGED <<job, calls, frames>>
  BY <1>5 DEF SetBehavior
<1>6. CASE UNCHANGED vars
  BY <1>6 DEF vars
<1> QED
  BY <1>1, <1>2, <1>3, <1>4, <1>5, <1>6 DEF Next, Serves

\* The retry loop of dispatcher.ts: once the caller's signal fired, the
\* provider is not called again, and the dispatch is not reported as a
\* provider's failure, save in the adapter's own response, at whatever moment
\* the signal fires.
THEOREM CancelStops == Spec => CancelledStops
<1> DEFINE Stops(d) == job[d].at # "idle" /\ job[d].mode = "lib" /\ job[d].aborted =>
                          /\ calls'[d] = calls[d]
                          /\ job'[d].at = "done" => job'[d].own \/ job'[d].code \notin Retryable \cup Fatal
<1>1. ASSUME Inv, Inv', [Next]_vars PROVE \A d \in Dispatches : Stops(d)
  <2> SUFFICES ASSUME NEW d \in Dispatches,
                      job[d].at # "idle", job[d].mode = "lib", job[d].aborted
               PROVE  /\ calls'[d] = calls[d]
                      /\ job'[d].at = "done" => job'[d].own \/ job'[d].code \notin Retryable \cup Fatal
    OBVIOUS
  <2>1. calls'[d] = calls[d] /\ job'[d].mode = "lib" /\ job'[d].aborted
    <3>1. ASSUME NEW e \in Dispatches, Advances(e)
          PROVE  calls'[d] = calls[d] /\ job'[d].mode = "lib" /\ job'[d].aborted
      <4> PICK j \in CallType, n \in Nat, s \in Seq(Events) : Moves(e, j, n, s)
        BY <3>1 DEF Advances
      <4>1. /\ job'[e] = j /\ calls'[e] = n
            /\ \A f \in Dispatches \ {e} : job'[f] = job[f] /\ calls'[f] = calls[f]
        BY <1>1, MovedFacts DEF Inv, Server
      <4>2. CASE e = d
        BY <4>1, <4>2 DEF Moves
      <4>3. CASE e # d
        BY <4>1, <4>3
      <4> QED
        BY <4>2, <4>3
    <3>2. CASE UNCHANGED <<job, calls, frames>>
      BY <3>2
    <3> QED
      BY <1>1, <3>1, <3>2, NextMoves
  <2>2. Fits(job'[d], calls'[d], frames'[d])
    BY <1>1 DEF Inv, Server, Staged
  <2> QED
    BY <2>1, <2>2 DEF Fits
<1>2. Inv /\ Inv' /\ [Next]_vars => [\A d \in Dispatches : Stops(d)]_vars
  BY <1>1
<1>3. CancelledStops <=> [][\A d \in Dispatches : Stops(d)]_vars
  BY DEF CancelledStops
<1> HIDE DEF Stops
<1> QED
  BY <1>2, <1>3, Inductive, PTL DEF Spec
=============================================================================

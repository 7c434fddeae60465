-------------------------- MODULE A2aHandoffProofs --------------------------
(***************************************************************************)
(* The guarantees of the Agent2Agent endpoint for any number of tasks,     *)
(* requests and tokens, any resolution of the clock and any settings the   *)
(* collision guard lets pass.                                              *)
(***************************************************************************)
EXTENDS A2aHandoff, TLAPS

-----------------------------------------------------------------------------
(* The inductive invariant.                                                *)

\* A request in flight, stage by stage: a fetched or cached card has a version,
\* a peer certificate none.
FlightType(stages, versions) ==
    [at : stages, tok : Tokens, used : BOOLEAN, version : versions]

JobType ==
    [at : {"idle"}]
    \cup [at : {"resolve"}, tok : Tokens, used : BOOLEAN]
    \cup [at : {"fetch"}, tok : Tokens, used : BOOLEAN, next : {"verify", "drift"},
          began : Nat, seen : (1 .. MaxCards) \cup {None}]
    \cup FlightType({"verify"}, 0 .. MaxCards)
    \cup FlightType({"drift"}, 1 .. MaxCards)

TypedRegistry ==
    /\ tasks \in [Tasks -> RowType \cup {None}]
    /\ auto \in [Tasks -> PairType \cup {None}]
    /\ eager \in [Tasks -> Stamp]
    /\ begun \in [Tasks -> Stamp] /\ accepted \in [Tasks -> Stamp] /\ ended \in [Tasks -> Stamp]
    /\ returned \subseteq Tasks
    /\ told \in [Tasks -> Statuses \cup {None}]

TypedAuth ==
    /\ jtis \in [Jtis -> Stamp]
    /\ cards \in CardType \cup {None}
    /\ job \in [Callers -> JobType]
    /\ verified \subseteq Tokens

TypedWorld ==
    /\ opt \in OptionType /\ AutoAllowed(opt)
    /\ clock \in 0 .. MaxClock
    /\ peer \in 1 .. MaxCards
    /\ current \in [1 .. MaxCards -> Nat]
    /\ crashes \in 0 .. MaxCrashes

Completed(t) == tasks[t] # None /\ tasks[t].status = "completed"

\* The pair of timers of the first accepted transfer still stands, and the
\* event loop is not later than it may be.
Paired(t) ==
    /\ auto[t] # None
    /\ auto[t].second = begun[t] + 2 * opt.auto * TicksPerS
    /\ clock <= auto[t].second + MaxLate

\* A task in the registry: what its row, its timers and its history say of each
\* other.
Held(t) ==
    /\ tasks[t] # None =>
          /\ tasks[t].status \in {"accepted", "executing", "completed"}
          /\ tasks[t].acceptedAtS # None =>
                begun[t] # None /\ Sec(begun[t]) <= tasks[t].acceptedAtS
    /\ begun[t] # None => begun[t] <= clock /\ accepted[t] # None
    /\ auto[t] # None => begun[t] # None
    /\ opt.auto > 0 /\ begun[t] # None => Completed(t) \/ (tasks[t] # None /\ Paired(t))
    /\ t \in returned => Completed(t)
    /\ told[t] = "completed" => Completed(t)
    /\ opt.auto > 0 /\ ~opt.junk => told[t] # "timed-out"
    /\ eager[t] # None => /\ opt.hook
                          /\ accepted[t] # None /\ eager[t] = accepted[t] + Deadline * TicksPerS

Registry == \A t \in Tasks : Held(t)

\* Only a verification writes the jti cache.
Burned == \A j \in Jtis : jtis[j] # None => \E k \in verified : k.jti = j

\* The card the caller serves is served now; a cached card was fetched at a
\* tick f, and served at most a fetch before.
ServedNear(v, f) == f <= current[v] + FetchTimeout

CardDates ==
    /\ current[peer] = clock /\ \A v \in 1 .. MaxCards : current[v] <= clock
    /\ cards # None =>
          \E f \in 0 .. clock : cards.cachedAt = Sec(f) /\ ServedNear(cards.version, f)

\* A card is compared within its time to live, plus one fetch, of being served.
InTime(j) ==
    /\ j.at = "fetch" => j.began <= clock /\ (j.seen # None => j.began <= current[j.seen])
    /\ j.at = "drift" => clock < current[j.version] + CardTtl * TicksPerS + FetchTimeout

Dated == CardDates /\ \A r \in Callers : InTime(job[r])

\* What the cache remembers of every verified token, as long as no two genuine
\* tokens share a jti (which is what a jti is, RFC 7519 section 4.1.7): the
\* token is in it until it has expired and a retention more.
UniqueJtis ==
    \A k1, k2 \in Tokens : k1.genuine /\ k2.genuine /\ k1.jti = k2.jti => k1 = k2

Remembered ==
    \A k \in verified : k.genuine /\ (jtis[k.jti] = k.exp + JtiExtra \/ k.exp + JtiExtra <= Now)

Unused == \A r \in Callers : job[r].at # "idle" => ~job[r].used

Inv == TypedRegistry /\ TypedAuth /\ TypedWorld /\ Registry /\ Burned /\ Dated
-----------------------------------------------------------------------------
(* Ticks and seconds.                                                      *)

LEMMA SecFacts ==
  ASSUME NEW a \in Nat
  PROVE  Sec(a) \in Nat /\ TicksPerS * Sec(a) <= a /\ a < TicksPerS * Sec(a) + TicksPerS
<1>1. TicksPerS \in Nat \ {0}
  BY A2aAssumption
<1> QED
  BY <1>1 DEF Sec

\* Whole seconds never run ahead of the ticks: n seconds of ticks are at most n
\* seconds of the clock.
LEMMA SecBounded ==
  ASSUME NEW a \in Nat, NEW b \in Nat, NEW n \in Nat, a <= b + n * TicksPerS
  PROVE  Sec(a) <= Sec(b) + n
<1> PICK d \in Nat \ {0} : d = TicksPerS
  BY A2aAssumption
<1> PICK p \in Nat : p = Sec(a) /\ d * p <= a
  BY SecFacts
<1> PICK q \in Nat : q = Sec(b) /\ b < d * q + d
  BY SecFacts
<1>1. n * d = d * n /\ n * d \in Nat /\ d * p \in Nat /\ d * q \in Nat
  OBVIOUS
<1>2. d * p < d * q + d * n + d
  BY <1>1
<1>3. ASSUME p >= q + n + 1 PROVE FALSE
  <2>1. d * p >= d * (q + n + 1)
    BY <1>3
  <2>2. d * (q + n + 1) = d * q + d * n + d
    OBVIOUS
  <2> QED
    BY <1>1, <1>2, <2>1, <2>2
<1> QED
  BY <1>3

LEMMA SecMonotone ==
  ASSUME NEW a \in Nat, NEW b \in Nat, a <= b
  PROVE  Sec(a) <= Sec(b)
<1>1. 0 * TicksPerS = 0
  BY A2aAssumption
<1>2. Sec(a) <= Sec(b) + 0
  BY <1>1, SecBounded
<1> QED
  BY <1>2, SecFacts

\* Fewer than n seconds between the floors are fewer than n seconds of ticks.
LEMMA SecStrict ==
  ASSUME NEW a \in Nat, NEW b \in Nat, NEW n \in Nat, Sec(a) - Sec(b) < n
  PROVE  a < b + n * TicksPerS
<1> PICK d \in Nat \ {0} : d = TicksPerS
  BY A2aAssumption
<1> PICK p \in Nat : p = Sec(a) /\ a < d * p + d
  BY SecFacts
<1> PICK q \in Nat : q = Sec(b) /\ d * q <= b
  BY SecFacts
<1>1. p + 1 <= q + n
  OBVIOUS
<1>2. d * (p + 1) <= d * (q + n)
  BY <1>1
<1>3. d * (p + 1) = d * p + d /\ d * (q + n) = d * q + n * d
  OBVIOUS
<1>4. d * p \in Nat /\ d * q \in Nat /\ n * d \in Nat
  OBVIOUS
<1> QED
  BY <1>2, <1>3, <1>4

LEMMA SpanFacts ==
  ASSUME TypedWorld
  PROVE  /\ 2 * opt.auto * TicksPerS \in Nat /\ opt.auto * TicksPerS \in Nat
         /\ Deadline * TicksPerS \in Nat /\ MaxLate \in Nat /\ clock \in Nat /\ opt.auto \in Nat
         /\ opt.auto > 0 /\ ~opt.junk =>
               2 * opt.auto * TicksPerS + MaxLate <= Deadline * TicksPerS
<1>1. opt.auto \in Nat /\ clock \in Nat /\ opt.junk \in BOOLEAN
  BY A2aAssumption DEF TypedWorld, OptionType
<1>2. opt.auto > 0 /\ ~opt.junk => 2 * opt.auto < Deadline
  BY <1>1 DEF TypedWorld, AutoAllowed
<1> PICK n \in Nat : n = opt.auto
  BY <1>1
<1>3. TicksPerS \in Nat \ {0} /\ Deadline \in Nat /\ MaxLate \in Nat /\ MaxLate <= TicksPerS
  BY A2aAssumption
<1>4. 2 * n * TicksPerS \in Nat /\ n * TicksPerS \in Nat /\ Deadline * TicksPerS \in Nat
  BY <1>3
<1>5. 2 * n < Deadline => 2 * n * TicksPerS + TicksPerS <= Deadline * TicksPerS
  BY <1>3
<1> QED
  BY <1>1, <1>2, <1>3, <1>4, <1>5

-----------------------------------------------------------------------------
(* The registry.                                                           *)

LEMMA RegistryFacts ==
  ASSUME TypedRegistry, TypedWorld, NEW t \in Tasks
  PROVE  /\ tasks[t] = None \/ tasks[t] \in RowType
         /\ tasks[t] # None => /\ tasks[t].status \in Statuses /\ tasks[t].acceptedAtS \in Stamp
                               /\ tasks[t].offer \in OfferType \cup {None}
         /\ auto[t] = None \/ (auto[t] \in PairType /\ auto[t].second \in Nat)
         /\ eager[t] \in Stamp /\ begun[t] \in Stamp /\ accepted[t] \in Stamp
         /\ clock \in Nat /\ Now \in Nat
<1>1. clock \in Nat
  BY A2aAssumption DEF TypedWorld
<1> QED
  BY <1>1, SecFacts DEF TypedRegistry, RowType, PairType, Now

\* A task of which nothing changed stays as it is held.
LEMMA SameHeld ==
  ASSUME NEW t, Held(t), UNCHANGED <<opt, clock>>,
         tasks'[t] = tasks[t], auto'[t] = auto[t], eager'[t] = eager[t],
         begun'[t] = begun[t], accepted'[t] = accepted[t], told'[t] = told[t],
         t \in returned' <=> t \in returned
  PROVE  Held(t)'
BY DEF Held, Completed, Paired

\* record(): a status that is not terminal is replaced, a terminal one stands.
LEMMA RecordFacts ==
  ASSUME TypedRegistry, TypedWorld, Registry, NEW t \in Tasks,
         NEW status \in {"accepted", "executing", "completed"}, NEW at \in Stamp
  PROVE  LET m == Record(t, status, at) IN
         /\ m \in [Tasks -> RowType \cup {None}]
         /\ m[t] # None
         /\ m[t].status = IF Completed(t) THEN "completed" ELSE status
         /\ m[t].acceptedAtS \in {at, None} \/ (tasks[t] # None /\ m[t].acceptedAtS = tasks[t].acceptedAtS)
         /\ \A s \in Tasks \ {t} : m[s] = tasks[s]
<1> PICK m : m = Record(t, status, at)
  OBVIOUS
<1>1. /\ tasks \in [Tasks -> RowType \cup {None}]
      /\ tasks[t] = None \/ tasks[t] \in RowType
      /\ tasks[t] # None => /\ tasks[t].acceptedAtS \in Stamp
                            /\ tasks[t].offer \in OfferType \cup {None}
                            /\ tasks[t].status \in {"accepted", "executing", "completed"}
  BY RegistryFacts DEF TypedRegistry, Registry, Held
<1>2. CASE Row(t) # None /\ Row(t).status \in Terminal
  <2>1. m = tasks
    BY <1>2 DEF Record
  <2>2. Completed(t)
    BY <1>1, <1>2 DEF Row, Terminal, Completed
  <2> QED
    BY <1>1, <2>1, <2>2 DEF Completed
<1>3. CASE ~(Row(t) # None /\ Row(t).status \in Terminal)
  <2>1. PICK offer \in OfferType \cup {None} :
            offer = IF Row(t) = None THEN None ELSE Row(t).offer
    BY <1>1 DEF Row
  <2>2. PICK a \in Stamp : /\ a = IF at # None THEN at
                                  ELSE IF Row(t) = None THEN None ELSE Row(t).acceptedAtS
                           /\ a \in {at, None} \/ (tasks[t] # None /\ a = tasks[t].acceptedAtS)
    BY <1>1 DEF Row, Stamp
  <2> DEFINE row == [status |-> status, offer |-> offer, acceptedAtS |-> a]
  <2>3. row \in RowType /\ row.status = status /\ row.acceptedAtS = a
    BY DEF RowType, Statuses, Terminal
  <2>4. row # None
    BY <2>3, NoneAssumption
  <2>5. m = [tasks EXCEPT ![t] = row]
    BY <1>3, <2>1, <2>2 DEF Record
  <2> HIDE DEF row
  <2>6. /\ m \in [Tasks -> RowType \cup {None}] /\ m[t] = row
        /\ \A s \in Tasks \ {t} : m[s] = tasks[s]
    BY ONLY <1>1, <2>3, <2>5, t \in Tasks
  <2>7. ~Completed(t)
    BY <1>3 DEF Completed, Row, Terminal
  <2> QED
    BY <2>2, <2>3, <2>4, <2>6, <2>7
<1> QED
  BY <1>2, <1>3

LEMMA RecordOfferFacts ==
  ASSUME TypedRegistry, TypedWorld, NEW t \in Tasks, NEW content \in Contents
  PROVE  LET m == RecordOffer(t, content) IN
         /\ m \in [Tasks -> RowType \cup {None}]
         /\ m[t] # None
         /\ m[t].status = IF tasks[t] = None THEN "accepted" ELSE tasks[t].status
         /\ m[t].acceptedAtS = IF tasks[t] = None THEN None ELSE tasks[t].acceptedAtS
         /\ \A s \in Tasks \ {t} : m[s] = tasks[s]
<1> PICK m : m = RecordOffer(t, content)
  OBVIOUS
<1>1. PICK status \in Statuses : status = IF Row(t) = None THEN "accepted" ELSE Row(t).status
  BY RegistryFacts DEF Row, Statuses
<1>2. PICK a \in Stamp : a = IF Row(t) = None THEN None ELSE Row(t).acceptedAtS
  BY RegistryFacts DEF Row, Stamp
<1>3. [content |-> content, at |-> Now] \in OfferType
  BY RegistryFacts DEF OfferType
<1> DEFINE row == [status |-> status, offer |-> [content |-> content, at |-> Now], acceptedAtS |-> a]
<1>4. row \in RowType /\ row.status = status /\ row.acceptedAtS = a
  BY <1>3 DEF RowType
<1>5. row # None
  BY <1>4, NoneAssumption
<1>6. m = [tasks EXCEPT ![t] = row]
  BY <1>1, <1>2 DEF RecordOffer
<1>7. tasks \in [Tasks -> RowType \cup {None}]
  BY DEF TypedRegistry
<1> HIDE DEF row
<1>8. /\ m \in [Tasks -> RowType \cup {None}] /\ m[t] = row
      /\ \A s \in Tasks \ {t} : m[s] = tasks[s]
  BY ONLY <1>4, <1>6, <1>7, t \in Tasks
<1> QED
  BY <1>1, <1>2, <1>4, <1>5, <1>8 DEF Row
-----------------------------------------------------------------------------
(* The methods and the timers.                                             *)

RegistryInv == TypedRegistry /\ Registry

LEMMA OfferKeeps ==
  ASSUME RegistryInv, TypedWorld, HandoffOffer, UNCHANGED <<opt, clock>>
  PROVE  RegistryInv'
<1>0. TypedRegistry /\ Registry
  BY DEF RegistryInv
<1> PICK t \in Tasks, content \in Contents, needed \in (SUBSET Capabilities) \cup {None} :
        tasks' = IF MatchA2aCapabilities(needed) = "accept" THEN RecordOffer(t, content) ELSE tasks
  BY DEF HandoffOffer
<1>1. UNCHANGED <<auto, eager, begun, accepted, returned, ended, told>>
  BY DEF HandoffOffer, historyVars
<1>2. CASE tasks' = tasks
  BY <1>0, <1>1, <1>2, SameHeld DEF RegistryInv, TypedRegistry, Registry
<1>3. CASE tasks' = RecordOffer(t, content)
  <2>1. /\ tasks' \in [Tasks -> RowType \cup {None}]
        /\ tasks'[t] # None
        /\ tasks'[t].status = IF tasks[t] = None THEN "accepted" ELSE tasks[t].status
        /\ tasks'[t].acceptedAtS = IF tasks[t] = None THEN None ELSE tasks[t].acceptedAtS
        /\ \A s \in Tasks \ {t} : tasks'[s] = tasks[s]
    BY <1>0, <1>3, RecordOfferFacts
  <2>2. TypedRegistry'
    BY <1>0, <1>1, <2>1 DEF TypedRegistry
  <2>3. Held(t)
    BY <1>0 DEF Registry
  <2>4. Held(t)'
    BY <1>1, <2>1, <2>3 DEF Held, Completed, Paired
  <2>5. ASSUME NEW s \in Tasks \ {t} PROVE Held(s)'
    BY <1>0, <1>1, <2>1, SameHeld DEF Registry
  <2> QED
    BY <2>2, <2>4, <2>5 DEF RegistryInv, Registry
<1> QED
  BY <1>2, <1>3

\* The first accepted transfer starts the pair; a later one finds the pair or a
\* completed task, and in either case does not delay the end.
LEMMA TransferKeeps ==
  ASSUME RegistryInv, TypedWorld, HandoffTransfer, UNCHANGED <<opt, clock>>
  PROVE  RegistryInv'
<1>0. TypedRegistry /\ Registry
  BY DEF RegistryInv
<1> PICK t \in Tasks, content \in Contents :
        IF CheckTransferDigests(GetOfferMetadata(t), content) # "accept"
        THEN UNCHANGED <<registryVars, historyVars>>
        ELSE /\ tasks' = Record(t, "accepted", Now)
             /\ auto' = ScheduleAutoExecute(t)
             /\ eager' = IF opt.hook
                         THEN [eager EXCEPT ![t] = clock + Deadline * TicksPerS]
                         ELSE eager
             /\ begun' = IF begun[t] = None THEN [begun EXCEPT ![t] = clock] ELSE begun
             /\ accepted' = [accepted EXCEPT ![t] = clock]
             /\ UNCHANGED <<returned, ended, told>>
  BY DEF HandoffTransfer
<1>1. CASE UNCHANGED <<registryVars, historyVars>>
  BY <1>0, <1>1, SameHeld DEF registryVars, historyVars, RegistryInv, TypedRegistry, Registry
<1>2. CASE /\ tasks' = Record(t, "accepted", Now)
           /\ auto' = ScheduleAutoExecute(t)
           /\ eager' = IF opt.hook
                       THEN [eager EXCEPT ![t] = clock + Deadline * TicksPerS]
                       ELSE eager
           /\ begun' = IF begun[t] = None THEN [begun EXCEPT ![t] = clock] ELSE begun
           /\ accepted' = [accepted EXCEPT ![t] = clock]
           /\ UNCHANGED <<returned, ended, told>>
  <2>0. /\ clock \in Nat /\ Now \in Stamp /\ clock # None /\ Now # None
        /\ eager[t] \in Stamp /\ begun[t] \in Stamp /\ clock \in Stamp
    BY <1>0, RegistryFacts, NoneAssumption DEF Stamp
  <2> PICK due \in Nat : due = clock + Deadline * TicksPerS
    BY <2>0, SpanFacts
  <2>1. /\ tasks' \in [Tasks -> RowType \cup {None}]
        /\ tasks'[t] # None
        /\ tasks'[t].status = IF Completed(t) THEN "completed" ELSE "accepted"
        /\ tasks'[t].acceptedAtS \in {Now, None}
           \/ (tasks[t] # None /\ tasks'[t].acceptedAtS = tasks[t].acceptedAtS)
        /\ \A s \in Tasks \ {t} : tasks'[s] = tasks[s]
    BY <1>0, <1>2, <2>0, RecordFacts
  <2>2. /\ begun' \in [Tasks -> Stamp] /\ accepted' \in [Tasks -> Stamp]
        /\ begun'[t] = IF begun[t] = None THEN clock ELSE begun[t]
        /\ accepted'[t] = clock
        /\ \A s \in Tasks \ {t} : begun'[s] = begun[s] /\ accepted'[s] = accepted[s]
    BY <1>0, <1>2, <2>0 DEF TypedRegistry
  <2>3. /\ eager' \in [Tasks -> Stamp]
        /\ (opt.hook /\ eager'[t] = due) \/ (~opt.hook /\ eager'[t] = eager[t])
        /\ \A s \in Tasks \ {t} : eager'[s] = eager[s]
    <3>1. CASE opt.hook /\ eager' = [eager EXCEPT ![t] = due]
      BY <1>0, <3>1 DEF TypedRegistry, Stamp
    <3>2. CASE ~opt.hook /\ eager' = eager
      BY <1>0, <3>2 DEF TypedRegistry
    <3> QED
      BY <1>2, <3>1, <3>2
  <2> DEFINE first == clock + opt.auto * TicksPerS
             second == clock + 2 * opt.auto * TicksPerS
             pair == [first |-> first, second |-> second]
  <2>4. first \in Nat /\ second \in Nat
    BY <2>0, SpanFacts
  <2>5. pair \in PairType /\ pair # None /\ pair.second = second
    <3> HIDE DEF first, second
    <3>1. pair \in PairType /\ pair.second = second
      BY <2>4 DEF PairType, Stamp
    <3> QED
      BY <3>1, NoneAssumption
  <2>6. /\ auto' \in [Tasks -> PairType \cup {None}]
        /\ auto'[t] = IF opt.auto = 0 \/ auto[t] # None THEN auto[t] ELSE pair
        /\ \A s \in Tasks \ {t} : auto'[s] = auto[s]
    <3>1. auto' = IF opt.auto = 0 \/ auto[t] # None THEN auto ELSE [auto EXCEPT ![t] = pair]
      BY <1>2 DEF ScheduleAutoExecute
    <3> HIDE DEF pair
    <3> QED
      BY <1>0, <2>5, <3>1 DEF TypedRegistry
  <2>7. TypedRegistry'
    BY <1>0, <1>2, <2>1, <2>2, <2>3, <2>6 DEF TypedRegistry
  <2>8. Held(t)
    BY <1>0 DEF Registry
  <2> HIDE DEF pair
  <2>9. Held(t)'
    <3>1. begun'[t] \in Nat /\ begun'[t] # None /\ begun'[t] <= clock
      BY <2>0, <2>2, <2>8 DEF Held, Stamp
    <3>2. tasks'[t].status \in {"accepted", "executing", "completed"}
      BY <2>1
    <3>3. tasks'[t].acceptedAtS # None => Sec(begun'[t]) <= tasks'[t].acceptedAtS
      <4>1. Sec(begun'[t]) <= Now
        BY <2>0, <3>1, SecMonotone DEF Now
      <4>2. CASE tasks'[t].acceptedAtS \in {Now, None}
        BY <4>1, <4>2
      <4>3. CASE tasks[t] # None /\ tasks'[t].acceptedAtS = tasks[t].acceptedAtS
        BY <2>2, <2>8, <4>3 DEF Held
      <4> QED
        BY <2>1, <4>2, <4>3
    <3>4. ASSUME opt.auto > 0 PROVE Completed(t)' \/ (tasks'[t] # None /\ Paired(t)')
      <4>1. CASE Completed(t)
        BY <2>1, <4>1 DEF Completed
      <4>2. CASE begun[t] # None /\ ~Completed(t)
        <5>1. Paired(t)
          BY <2>8, <3>4, <4>2 DEF Held
        <5>2. auto'[t] = auto[t] /\ begun'[t] = begun[t]
          BY <2>2, <2>6, <4>2, <5>1 DEF Paired
        <5> QED
          BY <2>1, <5>1, <5>2 DEF Paired
      <4>3. CASE begun[t] = None
        <5>1. auto[t] = None /\ begun'[t] = clock
          BY <2>2, <2>8, <4>3 DEF Held
        <5>2. auto'[t] = pair
          BY <2>6, <3>4, <5>1, SpanFacts
        <5>3. clock <= second + MaxLate
          BY <2>0, SpanFacts
        <5> QED
          BY <2>1, <2>5, <5>1, <5>2, <5>3 DEF Paired
      <4> QED
        BY <4>1, <4>2, <4>3
    <3>5. Completed(t) => Completed(t)'
      BY <2>1 DEF Completed
    <3>6. eager'[t] # None => opt.hook /\ eager'[t] = accepted'[t] + Deadline * TicksPerS
      <4>1. CASE opt.hook /\ eager'[t] = due
        BY <2>2, <4>1
      <4>2. CASE ~opt.hook /\ eager'[t] = eager[t]
        BY <2>8, <4>2 DEF Held
      <4> QED
        BY <2>3, <4>1, <4>2
    <3> QED
      BY <1>2, <2>0, <2>1, <2>2, <2>8, <3>1, <3>2, <3>3, <3>4, <3>5, <3>6 DEF Held
  <2>10. ASSUME NEW s \in Tasks \ {t} PROVE Held(s)'
    BY <1>0, <1>2, <2>1, <2>2, <2>3, <2>6, SameHeld DEF Registry
  <2> QED
    BY <2>7, <2>9, <2>10 DEF RegistryInv, Registry
<1> QED
  BY <1>1, <1>2
\* A status read while the pair stands is too early for the deadline.
LEMMA GetFacts ==
  ASSUME RegistryInv, TypedWorld, NEW t \in Tasks, tasks[t] # None
  PROVE  /\ Get(t) \in Statuses
         /\ Get(t) = "completed" => Completed(t)
         /\ Completed(t) => Get(t) = "completed"
         /\ opt.auto > 0 /\ ~opt.junk => Get(t) # "timed-out"
<1>0. TypedRegistry /\ Registry
  BY DEF RegistryInv
<1>1. /\ Held(t) /\ tasks[t].status \in {"accepted", "executing", "completed"}
      /\ tasks[t].acceptedAtS \in Stamp
  BY <1>0, RegistryFacts DEF Registry, Held
<1>2. Get(t) \in {"timed-out", tasks[t].status}
  BY DEF Get, Row
<1>3. Completed(t) => Get(t) = "completed"
  BY DEF Get, Row, Completed, Terminal
<1>4. ASSUME opt.auto > 0, ~opt.junk, Get(t) = "timed-out" PROVE FALSE
  <2>1. tasks[t].acceptedAtS # None /\ ~Completed(t) /\ Now - tasks[t].acceptedAtS > Deadline
    BY <1>1, <1>3, <1>4 DEF Get, Row
  <2>2. begun[t] # None /\ Sec(begun[t]) <= tasks[t].acceptedAtS
    BY <1>1, <2>1 DEF Held
  <2>3. Paired(t)
    BY <1>1, <1>4, <2>1, <2>2 DEF Held
  <2>4. begun[t] \in Nat /\ tasks[t].acceptedAtS \in Nat /\ clock \in Nat /\ Deadline \in Nat
    BY <1>0, <1>1, <2>1, <2>2, RegistryFacts, A2aAssumption DEF Stamp
  <2>5. clock <= begun[t] + 2 * opt.auto * TicksPerS + MaxLate
    BY <2>3 DEF Paired
  <2>6. clock <= begun[t] + Deadline * TicksPerS
    BY <1>4, <2>4, <2>5, SpanFacts
  <2>7. Now <= Sec(begun[t]) + Deadline
    BY <2>4, <2>6, SecBounded DEF Now
  <2>8. Now \in Nat /\ Sec(begun[t]) \in Nat
    BY <2>4, SecFacts DEF Now
  <2> QED
    BY <2>1, <2>2, <2>4, <2>7, <2>8
<1> QED
  BY <1>1, <1>2, <1>3, <1>4 DEF Statuses, Terminal, Completed

LEMMA StatusKeeps ==
  ASSUME RegistryInv, TypedWorld, HandoffStatus, UNCHANGED <<opt, clock>>
  PROVE  RegistryInv'
<1>0. TypedRegistry /\ Registry
  BY DEF RegistryInv
<1> PICK t \in Tasks : told' = IF Row(t) = None THEN told ELSE [told EXCEPT ![t] = Get(t)]
  BY DEF HandoffStatus
<1>1. UNCHANGED <<tasks, auto, eager, begun, accepted, returned, ended>>
  BY DEF HandoffStatus, registryVars
<1>2. CASE told' = told
  BY <1>0, <1>1, <1>2, SameHeld DEF RegistryInv, TypedRegistry, Registry
<1>3. CASE tasks[t] # None /\ told' = [told EXCEPT ![t] = Get(t)]
  <2>1. /\ Get(t) \in Statuses
        /\ Get(t) = "completed" => Completed(t)
        /\ opt.auto > 0 /\ ~opt.junk => Get(t) # "timed-out"
    BY <1>3, GetFacts
  <2>2. /\ told' \in [Tasks -> Statuses \cup {None}] /\ told'[t] = Get(t)
        /\ \A s \in Tasks \ {t} : told'[s] = told[s]
    BY <1>0, <1>3, <2>1 DEF TypedRegistry
  <2>3. TypedRegistry'
    BY <1>0, <1>1, <2>2 DEF TypedRegistry
  <2>4. Held(t)'
    BY <1>0, <1>1, <2>1, <2>2 DEF Registry, Held, Completed, Paired
  <2>5. ASSUME NEW s \in Tasks \ {t} PROVE Held(s)'
    BY <1>0, <1>1, <2>2, SameHeld DEF Registry
  <2> QED
    BY <2>3, <2>4, <2>5 DEF RegistryInv, Registry
<1> QED
  BY <1>2, <1>3 DEF Row

LEMMA ReturnKeeps ==
  ASSUME RegistryInv, TypedWorld, HandoffReturn, UNCHANGED <<opt, clock>>
  PROVE  RegistryInv'
<1>0. TypedRegistry /\ Registry
  BY DEF RegistryInv
<1> PICK t \in Tasks, wellFormed \in BOOLEAN :
        /\ eager' = [eager EXCEPT ![t] = None]
        /\ IF wellFormed
           THEN /\ auto' = [auto EXCEPT ![t] = None]
                /\ tasks' = Record(t, "completed", None)
                /\ returned' = returned \cup {t}
           ELSE UNCHANGED <<auto, tasks, returned>>
        /\ UNCHANGED <<begun, accepted, ended, told>>
  BY DEF HandoffReturn
<1>1. /\ eager' \in [Tasks -> Stamp] /\ eager'[t] = None
      /\ \A s \in Tasks \ {t} : eager'[s] = eager[s]
  BY <1>0 DEF TypedRegistry, Stamp
<1>2. Held(t)
  BY <1>0 DEF Registry
<1>3. CASE wellFormed
  <2>1. /\ tasks' \in [Tasks -> RowType \cup {None}]
        /\ tasks'[t] # None
        /\ tasks'[t].status = "completed"
        /\ tasks'[t].acceptedAtS = None
           \/ (tasks[t] # None /\ tasks'[t].acceptedAtS = tasks[t].acceptedAtS)
        /\ \A s \in Tasks \ {t} : tasks'[s] = tasks[s]
    <3>1. None \in Stamp
      BY DEF Stamp
    <3> QED
      BY <1>0, <1>3, <3>1, RecordFacts
  <2>2. /\ auto' \in [Tasks -> PairType \cup {None}] /\ auto'[t] = None
        /\ \A s \in Tasks \ {t} : auto'[s] = auto[s]
    BY <1>0, <1>3 DEF TypedRegistry
  <2>3. TypedRegistry'
    BY <1>0, <1>1, <1>3, <2>1, <2>2 DEF TypedRegistry
  <2>4. Held(t)'
    BY <1>1, <1>2, <2>1, <2>2 DEF Held, Completed
  <2>5. ASSUME NEW s \in Tasks \ {t} PROVE Held(s)'
    <3>1. s \in returned' <=> s \in returned
      BY <1>3
    <3> QED
      BY <1>0, <1>1, <2>1, <2>2, <3>1, SameHeld DEF Registry
  <2> QED
    BY <2>3, <2>4, <2>5 DEF RegistryInv, Registry
<1>4. CASE ~wellFormed
  <2>1. UNCHANGED <<auto, tasks, returned>>
    BY <1>4
  <2>2. TypedRegistry'
    BY <1>0, <1>1, <2>1 DEF TypedRegistry
  <2>3. Held(t)'
    BY <1>1, <1>2, <2>1 DEF Held, Completed, Paired
  <2>4. ASSUME NEW s \in Tasks \ {t} PROVE Held(s)'
    BY <1>0, <1>1, <2>1, SameHeld DEF Registry
  <2> QED
    BY <2>2, <2>3, <2>4 DEF RegistryInv, Registry
<1> QED
  BY <1>3, <1>4

LEMMA RegistryKept ==
  ASSUME RegistryInv, UNCHANGED <<registryVars, historyVars>>, UNCHANGED <<opt, clock>>
  PROVE  RegistryInv'
<1>1. UNCHANGED <<tasks, auto, eager, begun, accepted, returned, ended, told>>
  BY DEF registryVars, historyVars
<1> QED
  BY <1>1, SameHeld DEF RegistryInv, TypedRegistry, Registry

LEMMA DispatchKeeps ==
  ASSUME RegistryInv, TypedWorld, Dispatch, UNCHANGED <<opt, clock>>
  PROVE  RegistryInv'
BY OfferKeeps, TransferKeeps, StatusKeeps, ReturnKeeps, RegistryKept DEF Dispatch, AgentDescribe

\* The first timer of the pair does not change when the second is due.
LEMMA AutoKeeps ==
  ASSUME RegistryInv, TypedWorld, NEW t \in Tasks, AutoExecuting(t) \/ AutoCompleted(t)
  PROVE  RegistryInv'
<1>0. TypedRegistry /\ Registry /\ Held(t)
  BY DEF RegistryInv, Registry
<1>1. UNCHANGED <<opt, clock, eager, begun, accepted, returned, ended, told>>
  BY DEF AutoExecuting, AutoCompleted, historyVars
<1>2. auto[t] # None /\ auto[t] \in PairType /\ None \in Stamp
  BY <1>0, RegistryFacts DEF AutoExecuting, AutoCompleted, Stamp
<1>3. CASE AutoExecuting(t)
  <2>1. /\ tasks' \in [Tasks -> RowType \cup {None}]
        /\ tasks'[t] # None
        /\ tasks'[t].status = IF Completed(t) THEN "completed" ELSE "executing"
        /\ tasks'[t].acceptedAtS = None
           \/ (tasks[t] # None /\ tasks'[t].acceptedAtS = tasks[t].acceptedAtS)
        /\ \A s \in Tasks \ {t} : tasks'[s] = tasks[s]
    BY <1>0, <1>2, <1>3, RecordFacts DEF AutoExecuting
  <2> PICK pair : pair = [auto[t] EXCEPT !.first = None]
    OBVIOUS
  <2>2. pair \in PairType /\ pair.second = auto[t].second
    BY <1>2 DEF PairType
  <2>3. pair # None
    BY <2>2, NoneAssumption
  <2>4. auto' = [auto EXCEPT ![t] = pair]
    BY <1>3 DEF AutoExecuting
  <2>5. /\ auto' \in [Tasks -> PairType \cup {None}] /\ auto'[t] = pair
        /\ \A s \in Tasks \ {t} : auto'[s] = auto[s]
    BY <1>0, <2>2, <2>4 DEF TypedRegistry
  <2>6. TypedRegistry'
    BY <1>0, <1>1, <2>1, <2>5 DEF TypedRegistry
  <2>7. Held(t)'
    BY <1>0, <1>1, <1>2, <2>1, <2>2, <2>3, <2>5 DEF Held, Completed, Paired
  <2>8. ASSUME NEW s \in Tasks \ {t} PROVE Held(s)'
    BY <1>0, <1>1, <2>1, <2>5, SameHeld DEF Registry
  <2> QED
    BY <2>6, <2>7, <2>8 DEF RegistryInv, Registry
<1>4. CASE AutoCompleted(t)
  <2>1. /\ tasks' \in [Tasks -> RowType \cup {None}]
        /\ tasks'[t] # None
        /\ tasks'[t].status = "completed"
        /\ tasks'[t].acceptedAtS = None
           \/ (tasks[t] # None /\ tasks'[t].acceptedAtS = tasks[t].acceptedAtS)
        /\ \A s \in Tasks \ {t} : tasks'[s] = tasks[s]
    BY <1>0, <1>2, <1>4, RecordFacts DEF AutoCompleted
  <2>2. /\ auto' \in [Tasks -> PairType \cup {None}] /\ auto'[t] = None
        /\ \A s \in Tasks \ {t} : auto'[s] = auto[s]
    BY <1>0, <1>4 DEF TypedRegistry, AutoCompleted
  <2>3. TypedRegistry'
    BY <1>0, <1>1, <2>1, <2>2 DEF TypedRegistry
  <2>4. Held(t)'
    BY <1>0, <1>1, <2>1, <2>2 DEF Held, Completed
  <2>5. ASSUME NEW s \in Tasks \ {t} PROVE Held(s)'
    BY <1>0, <1>1, <2>1, <2>2, SameHeld DEF Registry
  <2> QED
    BY <2>3, <2>4, <2>5 DEF RegistryInv, Registry
<1> QED
  BY <1>3, <1>4

LEMMA DeadlineKeeps ==
  ASSUME RegistryInv, TypedWorld, NEW t \in Tasks, TaskDeadline(t)
  PROVE  RegistryInv'
<1>0. TypedRegistry /\ Registry /\ Held(t)
  BY DEF RegistryInv, Registry
<1>1. UNCHANGED <<opt, clock, tasks, auto, begun, accepted, returned, told>>
  BY DEF TaskDeadline
<1>2. /\ eager' \in [Tasks -> Stamp] /\ eager'[t] = None
      /\ \A s \in Tasks \ {t} : eager'[s] = eager[s]
  BY <1>0 DEF TypedRegistry, Stamp, TaskDeadline
<1>3. ended' \in [Tasks -> Stamp]
  <2>1. clock \in Stamp
    BY <1>0, RegistryFacts DEF Stamp
  <2>2. ended' = [ended EXCEPT ![t] = clock] \/ ended' = ended
    BY DEF TaskDeadline
  <2> QED
    BY <1>0, <2>1, <2>2 DEF TypedRegistry
<1>4. TypedRegistry'
  BY <1>0, <1>1, <1>2, <1>3 DEF TypedRegistry
<1>5. Held(t)'
  BY <1>0, <1>1, <1>2 DEF Held, Completed, Paired
<1>6. ASSUME NEW s \in Tasks \ {t} PROVE Held(s)'
  BY <1>0, <1>1, <1>2, SameHeld DEF Registry
<1> QED
  BY <1>4, <1>5, <1>6 DEF RegistryInv, Registry

\* Time passes only while no second timer is later than the event loop may be.
LEMMA TickKeeps ==
  ASSUME RegistryInv, TypedWorld, Tick
  PROVE  RegistryInv'
<1>0. TypedRegistry /\ Registry
  BY DEF RegistryInv
<1>1. UNCHANGED <<opt, tasks, auto, eager, begun, accepted, returned, ended, told>>
      /\ clock' = clock + 1
  BY DEF Tick, registryVars, historyVars
<1>2. ASSUME NEW t \in Tasks PROVE Held(t)'
  <2>1. /\ Held(t) /\ clock \in Nat /\ begun[t] \in Stamp
        /\ auto[t] # None => auto[t].second \in Nat
    BY <1>0, RegistryFacts DEF Registry
  <2>2. auto[t] # None => clock' <= auto[t].second + MaxLate
    <3>1. auto[t] # None => ~Overdue(auto[t].second)
      BY DEF Tick
    <3>2. auto[t] # None => auto[t].second # None /\ MaxLate \in Nat
      BY <2>1, NoneAssumption, SpanFacts
    <3> QED
      BY <1>1, <2>1, <3>1, <3>2 DEF Overdue
  <2>3. begun[t] # None => begun[t] <= clock'
    BY <1>1, <2>1 DEF Held, Stamp
  <2> QED
    BY <1>1, <2>1, <2>2, <2>3 DEF Held, Completed, Paired
<1>3. TypedRegistry'
  BY <1>0, <1>1 DEF TypedRegistry
<1> QED
  BY <1>2, <1>3 DEF RegistryInv, Registry

LEMMA RestartKeeps ==
  ASSUME Restart
  PROVE  RegistryInv'
<1>1. TypedRegistry'
  BY DEF Restart, TypedRegistry, Stamp
<1>2. ASSUME NEW t \in Tasks PROVE Held(t)'
  <2>1. /\ tasks'[t] = None /\ auto'[t] = None /\ eager'[t] = None /\ begun'[t] = None
        /\ told'[t] = None /\ returned' = {}
    BY DEF Restart
  <2>2. None # "completed" /\ None # "timed-out"
    BY NoneAssumption DEF Statuses, Terminal
  <2> QED
    BY <2>1, <2>2 DEF Held
<1> QED
  BY <1>1, <1>2 DEF RegistryInv, Registry
-----------------------------------------------------------------------------
(* Requests in flight.                                                     *)

LEMMA JobFacts ==
  ASSUME TypedAuth, NEW r \in Callers
  PROVE  /\ job[r] \in JobType
         /\ job[r].at # "idle" => job[r].tok \in Tokens /\ job[r].used \in BOOLEAN
         /\ job[r].at = "fetch" => /\ job[r].next \in {"verify", "drift"} /\ job[r].began \in Nat
                                   /\ job[r].seen \in (1 .. MaxCards) \cup {None}
         /\ job[r].at = "verify" => job[r].version \in 0 .. MaxCards
         /\ job[r].at = "drift" => job[r].version \in 1 .. MaxCards
BY DEF TypedAuth, JobType, FlightType

LEMMA WorldFacts ==
  ASSUME TypedWorld
  PROVE  /\ clock \in Nat /\ MaxCards \in Nat /\ FetchTimeout \in Nat /\ CardTtl * TicksPerS \in Nat
         /\ CardTtl * TicksPerS > 0 /\ Now \in Nat /\ JtiExtra \in Nat
         /\ current \in [1 .. MaxCards -> Nat] /\ peer \in 1 .. MaxCards
<1>1. clock \in Nat /\ MaxCards \in Nat /\ FetchTimeout \in Nat /\ JtiExtra \in Nat
  BY A2aAssumption DEF TypedWorld
<1>2. CardTtl \in Nat \ {0} /\ TicksPerS \in Nat \ {0}
  BY A2aAssumption
<1>3. CardTtl * TicksPerS \in Nat /\ CardTtl * TicksPerS > 0
  BY <1>2
<1> QED
  BY <1>1, <1>3, SecFacts DEF TypedWorld, Now

\* One request moves to another stage.
Stage(r, j) == j \in JobType /\ job' = [job EXCEPT ![r] = j]

LEMMA StageFacts ==
  ASSUME TypedAuth, NEW r \in Callers, NEW j, Stage(r, j)
  PROVE  /\ job' \in [Callers -> JobType] /\ job'[r] = j
         /\ \A s \in Callers \ {r} : job'[s] = job[s]
<1>1. job \in [Callers -> JobType] /\ j \in JobType /\ job' = [job EXCEPT ![r] = j]
  BY DEF TypedAuth, Stage
<1> QED
  BY ONLY <1>1, r \in Callers

LEMMA IdleStage ==
  ASSUME NEW r \in Callers, job' = [job EXCEPT ![r] = Idle]
  PROVE  Stage(r, Idle) /\ Idle.at = "idle"
BY DEF Stage, JobType, Idle

\* A hit of the card cache is a card served within the time to live.
LEMMA CachedFacts ==
  ASSUME TypedAuth, TypedWorld, CardDates
  PROVE  /\ Cached \in {cards, None}
         /\ Cached # None =>
              /\ Cached.version \in 1 .. MaxCards
              /\ clock < current[Cached.version] + CardTtl * TicksPerS + FetchTimeout
<1>1. Cached \in {cards, None}
  BY DEF Cached
<1>2. ASSUME Cached # None
      PROVE  /\ Cached.version \in 1 .. MaxCards
             /\ clock < current[Cached.version] + CardTtl * TicksPerS + FetchTimeout
  <2>1. cards # None /\ Cached = cards /\ ~(Now - cards.cachedAt >= CardTtl)
    BY <1>2 DEF Cached
  <2>2. cards \in CardType
    BY <2>1 DEF TypedAuth
  <2>3. cards.version \in 1 .. MaxCards /\ cards.cachedAt \in Nat
    BY <2>2 DEF CardType
  <2> PICK f \in 0 .. clock : cards.cachedAt = Sec(f) /\ ServedNear(cards.version, f)
    BY <2>1 DEF CardDates
  <2>4. f \in Nat /\ clock \in Nat /\ CardTtl \in Nat /\ FetchTimeout \in Nat
    BY WorldFacts, A2aAssumption
  <2>5. Sec(clock) - Sec(f) < CardTtl
    BY <2>1, <2>3, <2>4, WorldFacts DEF Now
  <2>6. clock < f + CardTtl * TicksPerS
    BY <2>4, <2>5, SecStrict
  <2>7. f <= current[cards.version] + FetchTimeout /\ current[cards.version] \in Nat
    BY <2>3, WorldFacts DEF ServedNear
  <2> QED
    BY <2>1, <2>3, <2>4, <2>6, <2>7, WorldFacts
<1> QED
  BY <1>1, <1>2

LEMMA LoadedStage ==
  ASSUME TypedAuth, TypedWorld, CardDates, NEW r \in Callers, NEW next \in {"verify", "drift"},
         job[r].at # "idle", Loaded(r, next)
  PROVE  \E j : Stage(r, j) /\ InTime(j) /\ j.at # "idle" /\ j.used = job[r].used
<1>1. job[r].tok \in Tokens /\ job[r].used \in BOOLEAN
  BY JobFacts
<1>2. CASE Cached = None
  <2> DEFINE j == [at |-> "fetch", tok |-> job[r].tok, used |-> job[r].used,
                   next |-> next, began |-> clock, seen |-> None]
  <2>1. clock \in Nat
    BY WorldFacts
  <2>2. j \in JobType /\ j.at = "fetch" /\ j.seen = None /\ j.used = job[r].used /\ j.began <= clock
    BY <1>1, <2>1 DEF JobType
  <2>3. job' = [job EXCEPT ![r] = j]
    BY <1>2 DEF Loaded
  <2> HIDE DEF j
  <2> QED
    BY <2>2, <2>3 DEF Stage, InTime
<1>3. CASE Cached # None
  <2>1. /\ Cached.version \in 1 .. MaxCards
        /\ clock < current[Cached.version] + CardTtl * TicksPerS + FetchTimeout
    BY <1>3, CachedFacts
  <2> DEFINE j == [at |-> next, tok |-> job[r].tok, used |-> job[r].used, version |-> Cached.version]
  <2>2. /\ j.at = next /\ j.version = Cached.version /\ j.used = job[r].used
        /\ j \in JobType
    <3>1. CASE next = "verify"
      <4>1. Cached.version \in 0 .. MaxCards
        BY <2>1
      <4> QED
        BY <1>1, <3>1, <4>1 DEF JobType, FlightType
    <3>2. CASE next = "drift"
      BY <1>1, <2>1, <3>2 DEF JobType, FlightType
    <3> QED
      BY <3>1, <3>2
  <2>3. job' = [job EXCEPT ![r] = j]
    BY <1>3 DEF Loaded
  <2> HIDE DEF j
  <2> QED
    BY <2>1, <2>2, <2>3 DEF Stage, InTime
<1> QED
  BY <1>2, <1>3

-----------------------------------------------------------------------------
(* Authentication, step by step.                                           *)

AuthInv == TypedAuth /\ Burned /\ Dated

WorldKept == UNCHANGED <<opt, clock, peer, current, crashes>>

LEMMA WorldKeptTyped ==
  ASSUME TypedWorld, WorldKept
  PROVE  TypedWorld'
BY DEF TypedWorld, WorldKept, AutoAllowed

\* A step of one request, with the card cache as it was or emptied.
LEMMA StageKeeps ==
  ASSUME AuthInv, TypedWorld, WorldKept, NEW r \in Callers, NEW j, Stage(r, j), InTime(j),
         cards' \in {cards, None}, jtis' \in [Jtis -> Stamp], verified' \subseteq Tokens, Burned'
  PROVE  AuthInv'
<1>1. /\ job' \in [Callers -> JobType] /\ job'[r] = j
      /\ \A s \in Callers \ {r} : job'[s] = job[s]
  BY StageFacts DEF AuthInv
<1>2. TypedAuth'
  BY <1>1 DEF AuthInv, TypedAuth
<1>3. CardDates'
  BY DEF AuthInv, Dated, CardDates, ServedNear, WorldKept
<1>4. ASSUME NEW s \in Callers PROVE InTime(job[s])'
  <2>1. InTime(job[s]) \/ s = r
    BY DEF AuthInv, Dated
  <2>2. CASE s = r
    BY <1>1, <2>2 DEF InTime, WorldKept
  <2>3. CASE s # r
    BY <1>1, <2>1, <2>3 DEF InTime, WorldKept
  <2> QED
    BY <2>2, <2>3
<1> QED
  BY <1>2, <1>3, <1>4 DEF AuthInv, Dated

LEMMA BurnedSame ==
  ASSUME Burned, UNCHANGED <<jtis, verified>>
  PROVE  Burned'
BY DEF Burned

LEMMA AuthKept ==
  ASSUME AuthInv, WorldKept, UNCHANGED <<jtis, cards, job, verified>>
  PROVE  AuthInv'
BY DEF AuthInv, WorldKept, TypedAuth, Burned, Dated, CardDates, ServedNear, InTime

\* has(): what is pruned has passed its retention.
LEMMA PrunedFacts ==
  ASSUME TypedAuth
  PROVE  /\ Pruned \in [Jtis -> Stamp]
         /\ \A n \in Jtis : Pruned[n] = jtis[n] \/ (Pruned[n] = None /\ jtis[n] # None /\ jtis[n] <= Now)
         /\ \A n \in Jtis : jtis[n] # None /\ ~(jtis[n] <= Now) => Pruned[n] = jtis[n]
BY DEF TypedAuth, Pruned, Stamp

LEMMA ArrivalKeeps ==
  ASSUME AuthInv, TypedWorld, NEW r \in Callers, NEW k \in Tokens, JwtArrives(r, k)
  PROVE  AuthInv' /\ WorldKept
<1>0. TypedAuth /\ Burned
  BY DEF AuthInv
<1>1. WorldKept /\ UNCHANGED <<cards, verified>> /\ job[r] = Idle
  BY DEF JwtArrives, WorldKept
<1>2. CASE UNCHANGED <<jtis, job>>
  BY <1>1, <1>2, AuthKept
<1>3. CASE /\ jtis' = Pruned
           /\ job' = [job EXCEPT ![r] =
                 IF Pruned[k.jti] # None THEN Idle
                 ELSE [at |-> "resolve", tok |-> k, used |-> k \in verified]]
  <2>1. jtis' \in [Jtis -> Stamp] /\ Burned'
    BY <1>0, <1>1, <1>3, PrunedFacts DEF Burned
  <2>2. verified' \subseteq Tokens
    BY <1>0, <1>1 DEF TypedAuth
  <2>3. CASE job' = [job EXCEPT ![r] = Idle]
    <3>1. InTime(Idle)
      BY DEF InTime, Idle
    <3> QED
      BY <1>1, <2>1, <2>2, <2>3, <3>1, IdleStage, StageKeeps
  <2>4. CASE job' = [job EXCEPT ![r] = [at |-> "resolve", tok |-> k, used |-> k \in verified]]
    <3> DEFINE seen == k \in verified
    <3> PICK used \in BOOLEAN : used = seen
      <4>1. CASE seen
        <5>1. TRUE = seen
          BY <4>1
        <5> QED
          BY <5>1
      <4>2. CASE ~seen
        <5>1. FALSE = seen
          BY <4>2
        <5> QED
          BY <5>1
      <4> QED
        BY <4>1, <4>2
    <3> DEFINE j == [at |-> "resolve", tok |-> k, used |-> used]
    <3>1. j \in JobType /\ j.at = "resolve"
      BY DEF JobType
    <3>2. job' = [job EXCEPT ![r] = j]
      BY <2>4
    <3> HIDE DEF j
    <3>3. Stage(r, j) /\ InTime(j)
      BY <3>1, <3>2 DEF Stage, InTime
    <3> QED
      BY <1>1, <2>1, <2>2, <3>3, StageKeeps
  <2> QED
    BY <1>3, <2>3, <2>4
<1> QED
  BY <1>1, <1>2, <1>3 DEF JwtArrives

LEMMA ResolveKeeps ==
  ASSUME AuthInv, TypedWorld, NEW r \in Callers, ResolveKey(r)
  PROVE  AuthInv' /\ WorldKept
<1>0. TypedAuth /\ Burned /\ CardDates
  BY DEF AuthInv, Dated
<1>1. WorldKept /\ UNCHANGED <<jtis, verified>> /\ job[r].at = "resolve"
  BY DEF ResolveKey, WorldKept
<1>2. jtis' \in [Jtis -> Stamp] /\ verified' \subseteq Tokens /\ Burned'
  BY <1>0, <1>1, BurnedSame DEF TypedAuth
<1>3. CASE /\ job' = [job EXCEPT ![r] = [at |-> "verify", tok |-> job[r].tok,
                                         used |-> job[r].used, version |-> 0]]
           /\ UNCHANGED cards
  <2> DEFINE j == [at |-> "verify", tok |-> job[r].tok, used |-> job[r].used, version |-> 0]
  <2>1. j \in JobType /\ j.at = "verify"
    <3>1. job[r].tok \in Tokens /\ job[r].used \in BOOLEAN /\ 0 \in 0 .. MaxCards
      BY <1>0, <1>1, JobFacts, WorldFacts
    <3> QED
      BY <3>1 DEF JobType, FlightType
  <2>2. job' = [job EXCEPT ![r] = j]
    BY <1>3
  <2> HIDE DEF j
  <2>3. Stage(r, j) /\ InTime(j)
    BY <2>1, <2>2 DEF Stage, InTime
  <2> QED
    BY <1>1, <1>2, <1>3, <2>3, StageKeeps
<1>4. CASE Loaded(r, "verify") /\ cards' = Cached
  <2>1. job[r].at # "idle"
    BY <1>1
  <2> PICK j : Stage(r, j) /\ InTime(j)
    BY <1>0, <1>4, <2>1, LoadedStage
  <2>2. cards' \in {cards, None}
    BY <1>0, <1>4, CachedFacts
  <2> QED
    BY <1>1, <1>2, <2>2, StageKeeps
<1> QED
  BY <1>3, <1>4 DEF ResolveKey

LEMMA AnswerKeeps ==
  ASSUME AuthInv, TypedWorld, NEW r \in Callers, CardAnswered(r)
  PROVE  AuthInv' /\ WorldKept
<1>0. TypedAuth /\ Burned /\ CardDates /\ InTime(job[r])
  BY DEF AuthInv, Dated
<1>1. WorldKept /\ UNCHANGED <<jtis, verified, cards>> /\ job[r].at = "fetch"
  BY DEF CardAnswered, WorldKept, authVars
<1>2. jtis' \in [Jtis -> Stamp] /\ verified' \subseteq Tokens /\ Burned'
  BY <1>0, <1>1, BurnedSame DEF TypedAuth
<1> PICK j : j = [job[r] EXCEPT !.seen = peer]
  OBVIOUS
<1>3. /\ j \in JobType /\ j.at = "fetch" /\ j.seen = peer /\ j.began = job[r].began
  <2>1. peer \in 1 .. MaxCards
    BY WorldFacts
  <2>2. job[r] \in [at : {"fetch"}, tok : Tokens, used : BOOLEAN, next : {"verify", "drift"},
                    began : Nat, seen : (1 .. MaxCards) \cup {None}]
    BY <1>0, <1>1, JobFacts DEF JobType, FlightType
  <2>3. /\ j \in [at : {"fetch"}, tok : Tokens, used : BOOLEAN, next : {"verify", "drift"},
                  began : Nat, seen : (1 .. MaxCards) \cup {None}]
        /\ j.at = "fetch" /\ j.seen = peer /\ j.began = job[r].began
    BY <2>1, <2>2
  <2> QED
    BY <2>3 DEF JobType
<1>4. job' = [job EXCEPT ![r] = j]
  BY <1>0 DEF CardAnswered, TypedAuth
<1>5. j.began <= clock /\ current[peer] = clock
  BY <1>0, <1>1, <1>3 DEF InTime, CardDates
<1>6. Stage(r, j) /\ InTime(j)
  BY <1>3, <1>4, <1>5 DEF Stage, InTime
<1> QED
  BY <1>1, <1>2, <1>6, StageKeeps
\* A fetch that returned in time dates its card.
LEMMA FetchedKeeps ==
  ASSUME AuthInv, TypedWorld, NEW r \in Callers, CardFetched(r)
  PROVE  AuthInv' /\ WorldKept
<1>0. TypedAuth /\ Burned /\ CardDates /\ InTime(job[r])
  BY DEF AuthInv, Dated
<1>1. /\ WorldKept /\ UNCHANGED <<jtis, verified>> /\ job[r].at = "fetch" /\ job[r].seen # None
      /\ clock - job[r].began <= FetchTimeout
      /\ cards' = [version |-> job[r].seen, cachedAt |-> Now]
      /\ job' = [job EXCEPT ![r] = [at |-> job[r].next, tok |-> job[r].tok,
                                    used |-> job[r].used, version |-> job[r].seen]]
  BY DEF CardFetched, WorldKept
<1>2. /\ job[r].tok \in Tokens /\ job[r].used \in BOOLEAN
      /\ job[r].next \in {"verify", "drift"} /\ job[r].began \in Nat /\ job[r].seen \in 1 .. MaxCards
  BY <1>0, <1>1, JobFacts
<1> PICK v \in 1 .. MaxCards : v = job[r].seen
  BY <1>2
<1>3. job[r].began <= current[v] /\ current[v] \in Nat
  BY <1>0, <1>1, WorldFacts DEF InTime
<1>4. clock <= current[v] + FetchTimeout /\ clock < current[v] + CardTtl * TicksPerS + FetchTimeout
  <2> PICK ttl \in Nat : ttl = CardTtl * TicksPerS /\ ttl > 0
    BY WorldFacts
  <2> PICK c \in Nat : c = current[v]
    BY <1>3
  <2>1. clock \in Nat /\ FetchTimeout \in Nat /\ job[r].began <= c
    BY <1>3, WorldFacts
  <2>2. clock <= c + FetchTimeout
    BY <1>1, <1>2, <2>1
  <2>3. clock < c + ttl + FetchTimeout
    BY <2>1, <2>2
  <2> QED
    BY <2>2, <2>3
<1> DEFINE j == [at |-> job[r].next, tok |-> job[r].tok, used |-> job[r].used, version |-> v]
<1>5. /\ j.at = job[r].next /\ j.version = v /\ j \in JobType
  <2>1. CASE job[r].next = "verify"
    <3>1. v \in 0 .. MaxCards
      OBVIOUS
    <3> QED
      BY <1>2, <2>1, <3>1 DEF JobType, FlightType
  <2>2. CASE job[r].next = "drift"
    BY <1>2, <2>2 DEF JobType, FlightType
  <2> QED
    BY <1>2, <2>1, <2>2
<1>6. job' = [job EXCEPT ![r] = j]
  BY <1>1
<1> HIDE DEF j
<1>7. Stage(r, j) /\ InTime(j)
  BY <1>2, <1>4, <1>5, <1>6 DEF Stage, InTime
<1>8. /\ job' \in [Callers -> JobType] /\ job'[r] = j
      /\ \A s \in Callers \ {r} : job'[s] = job[s]
  BY <1>0, <1>7, StageFacts
<1>9. cards' \in CardType /\ cards'.version = v /\ cards'.cachedAt = Now
  BY <1>1, WorldFacts DEF CardType
<1>10. TypedAuth'
  BY <1>0, <1>1, <1>8, <1>9 DEF TypedAuth
<1>11. CardDates'
  <2>1. clock \in 0 .. clock /\ cards'.cachedAt = Sec(clock)
    BY <1>9, WorldFacts DEF Now
  <2>2. ServedNear(cards.version, clock)'
    BY <1>1, <1>4, <1>9 DEF ServedNear, WorldKept
  <2> QED
    BY <1>0, <1>1, <2>1, <2>2 DEF CardDates, WorldKept, ServedNear
<1>12. ASSUME NEW s \in Callers PROVE InTime(job[s])'
  <2>1. CASE s = r
    BY <1>1, <1>7, <1>8, <2>1 DEF InTime, WorldKept
  <2>2. CASE s # r
    <3>1. InTime(job[s])
      BY DEF AuthInv, Dated
    <3> QED
      BY <1>1, <1>8, <2>2, <3>1 DEF InTime, WorldKept
  <2> QED
    BY <2>1, <2>2
<1>13. Burned'
  BY <1>0, <1>1, BurnedSame
<1> QED
  BY <1>1, <1>10, <1>11, <1>12, <1>13 DEF AuthInv, Dated

LEMMA DroppedKeeps ==
  ASSUME AuthInv, TypedWorld, NEW r \in Callers, CardUnreachable(r) \/ DriftChecked(r)
  PROVE  AuthInv' /\ WorldKept
<1>0. TypedAuth /\ Burned
  BY DEF AuthInv
<1>1. WorldKept /\ UNCHANGED <<jtis, verified, cards>> /\ job' = [job EXCEPT ![r] = Idle]
  BY DEF CardUnreachable, DriftChecked, WorldKept, authVars
<1>2. jtis' \in [Jtis -> Stamp] /\ verified' \subseteq Tokens /\ Burned'
  BY <1>0, <1>1, BurnedSame DEF TypedAuth
<1>3. InTime(Idle)
  BY DEF InTime, Idle
<1> QED
  BY <1>1, <1>2, <1>3, IdleStage, StageKeeps

LEMMA VerifyFacts ==
  ASSUME TypedAuth, TypedWorld, NEW r \in Callers, job[r].at = "verify"
  PROVE  /\ job[r].tok \in Tokens /\ job[r].tok.jti \in Jtis /\ job[r].tok.exp + JtiExtra \in Nat
         /\ Register(job[r].tok) \in [Jtis -> Stamp]
         /\ \A n \in Jtis : Register(job[r].tok)[n] =
               IF n = job[r].tok.jti THEN job[r].tok.exp + JtiExtra ELSE jtis[n]
<1>1. job[r].tok \in Tokens
  BY JobFacts
<1> PICK k \in TokenType : k = job[r].tok
  BY <1>1, A2aAssumption
<1>2. k.jti \in Jtis /\ k.exp \in Nat /\ k.exp + JtiExtra \in Nat
  BY WorldFacts DEF TokenType
<1>3. jtis \in [Jtis -> Stamp] /\ k.exp + JtiExtra \in Stamp
  BY <1>2 DEF TypedAuth, Stamp
<1>4. Register(k) = [jtis EXCEPT ![k.jti] = k.exp + JtiExtra]
  BY DEF Register
<1> QED
  BY <1>1, <1>2, <1>3, <1>4

LEMMA VerifyKeeps ==
  ASSUME AuthInv, TypedWorld, NEW r \in Callers, JwtVerify(r)
  PROVE  AuthInv' /\ WorldKept
<1>0. TypedAuth /\ Burned /\ CardDates
  BY DEF AuthInv, Dated
<1> PICK k : k = job[r].tok
  OBVIOUS
<1>1. /\ WorldKept /\ job[r].at = "verify"
      /\ jtis' = IF k.genuine THEN Register(k) ELSE jtis
      /\ verified' = IF k.genuine THEN verified \cup {k} ELSE verified
  BY DEF JwtVerify, WorldKept
<1>2. /\ k \in Tokens /\ k.jti \in Jtis /\ Register(k) \in [Jtis -> Stamp]
      /\ \A n \in Jtis : Register(k)[n] = IF n = k.jti THEN k.exp + JtiExtra ELSE jtis[n]
  BY <1>0, <1>1, VerifyFacts
<1>3. jtis' \in [Jtis -> Stamp] /\ verified' \subseteq Tokens
  BY <1>0, <1>1, <1>2 DEF TypedAuth
<1>4. Burned'
  BY <1>0, <1>1, <1>2 DEF Burned
<1>5. CASE Loaded(r, "drift") /\ cards' = Cached
  <2>1. job[r].at # "idle"
    BY <1>1
  <2> PICK j : Stage(r, j) /\ InTime(j)
    BY <1>0, <1>5, <2>1, LoadedStage
  <2>2. cards' \in {cards, None}
    BY <1>0, <1>5, CachedFacts
  <2> QED
    BY <1>1, <1>3, <1>4, <2>2, StageKeeps
<1>6. CASE job' = [job EXCEPT ![r] = Idle] /\ UNCHANGED cards
  <2>1. InTime(Idle)
    BY DEF InTime, Idle
  <2> QED
    BY <1>1, <1>3, <1>4, <1>6, <2>1, IdleStage, StageKeeps
<1> QED
  BY <1>5, <1>6 DEF JwtVerify

-----------------------------------------------------------------------------
(* The clock, the caller's card and restarts.                              *)

\* A loaded card is compared in the same turn of the loop, so no time passes.
LEMMA TickAuth ==
  ASSUME AuthInv, TypedWorld, Tick
  PROVE  AuthInv' /\ TypedWorld'
<1>1. /\ UNCHANGED <<opt, jtis, cards, job, verified, peer, crashes>>
      /\ clock' = clock + 1 /\ clock < MaxClock /\ current' = [current EXCEPT ![peer] = clock + 1]
      /\ \A r \in Callers : job[r].at # "drift"
  BY DEF Tick, authVars
<1>2. clock \in Nat /\ current \in [1 .. MaxCards -> Nat] /\ peer \in 1 .. MaxCards /\ MaxClock \in Nat
      /\ FetchTimeout \in Nat
  BY WorldFacts, A2aAssumption
<1>3. /\ current' \in [1 .. MaxCards -> Nat] /\ current'[peer] = clock + 1
      /\ \A v \in 1 .. MaxCards : v # peer => current'[v] = current[v]
  BY <1>1, <1>2
<1>4. /\ current[peer] = clock /\ \A v \in 1 .. MaxCards : current[v] <= clock
      /\ \A r \in Callers : InTime(job[r])
  BY DEF AuthInv, Dated, CardDates
<1>5. \A v \in 1 .. MaxCards : current[v] <= current'[v] /\ current'[v] <= clock'
                               /\ current[v] \in Nat /\ current'[v] \in Nat
  BY <1>1, <1>2, <1>3, <1>4
<1>6. TypedWorld'
  BY <1>1, <1>2, <1>3 DEF TypedWorld, AutoAllowed
<1>7. TypedAuth' /\ Burned'
  BY <1>1 DEF AuthInv, TypedAuth, Burned
<1>8. ASSUME NEW r \in Callers PROVE InTime(job[r])'
  <2>1. job'[r] = job[r] /\ job[r].at # "drift" /\ InTime(job[r])
    BY <1>1, <1>4
  <2>2. job[r].at = "fetch" => job[r].began \in Nat /\ job[r].seen \in (1 .. MaxCards) \cup {None}
    BY JobFacts DEF AuthInv
  <2>3. job[r].at = "fetch" => job[r].began <= clock'
                               /\ (job[r].seen # None => job[r].began <= current'[job[r].seen])
    BY <1>1, <1>2, <1>5, <2>1, <2>2 DEF InTime
  <2> QED
    BY <2>1, <2>3 DEF InTime
<1>9. ASSUME cards # None
      PROVE  \E f \in 0 .. clock' : cards.cachedAt = Sec(f) /\ f <= current'[cards.version] + FetchTimeout
  <2> PICK f \in 0 .. clock : cards.cachedAt = Sec(f) /\ ServedNear(cards.version, f)
    BY <1>9 DEF AuthInv, Dated, CardDates
  <2>1. cards.version \in 1 .. MaxCards
    BY <1>9 DEF AuthInv, TypedAuth, CardType
  <2>2. f \in 0 .. clock' /\ f <= current'[cards.version] + FetchTimeout
    BY <1>1, <1>2, <1>5, <2>1 DEF ServedNear
  <2> QED
    BY <2>2
<1>10. CardDates'
  BY <1>1, <1>3, <1>5, <1>9 DEF CardDates, ServedNear, Sec
<1> QED
  BY <1>6, <1>7, <1>8, <1>10 DEF AuthInv, Dated

LEMMA RotateAuth ==
  ASSUME AuthInv, TypedWorld, RotateCard
  PROVE  AuthInv' /\ TypedWorld'
<1>1. /\ UNCHANGED <<opt, clock, jtis, cards, job, verified, crashes>>
      /\ peer < MaxCards /\ peer' = peer + 1 /\ current' = [current EXCEPT ![peer + 1] = clock]
  BY DEF RotateCard, authVars
<1>2. clock \in Nat /\ current \in [1 .. MaxCards -> Nat] /\ peer \in 1 .. MaxCards /\ MaxCards \in Nat
      /\ FetchTimeout \in Nat /\ CardTtl * TicksPerS \in Nat
  BY WorldFacts
<1>3. peer + 1 \in 1 .. MaxCards
  BY <1>1, <1>2
<1>4. /\ current' \in [1 .. MaxCards -> Nat] /\ current'[peer + 1] = clock
      /\ \A v \in 1 .. MaxCards : v # peer + 1 => current'[v] = current[v]
  BY <1>1, <1>2, <1>3
<1>5. /\ \A v \in 1 .. MaxCards : current[v] <= clock
      /\ \A r \in Callers : InTime(job[r])
  BY DEF AuthInv, Dated, CardDates
<1>6. \A v \in 1 .. MaxCards : current[v] <= current'[v] /\ current'[v] <= clock
                               /\ current[v] \in Nat /\ current'[v] \in Nat
  BY <1>2, <1>4, <1>5
<1>7. TypedWorld'
  BY <1>1, <1>3, <1>4 DEF TypedWorld, AutoAllowed
<1>8. TypedAuth' /\ Burned'
  BY <1>1 DEF AuthInv, TypedAuth, Burned
<1>9. ASSUME NEW r \in Callers PROVE InTime(job[r])'
  <2>1. job'[r] = job[r] /\ InTime(job[r])
    BY <1>1, <1>5
  <2>2. /\ job[r].at = "fetch" => job[r].began \in Nat /\ job[r].seen \in (1 .. MaxCards) \cup {None}
        /\ job[r].at = "drift" => job[r].version \in 1 .. MaxCards
    BY JobFacts DEF AuthInv
  <2>3. job[r].at = "fetch" => job[r].began <= clock
                               /\ (job[r].seen # None => job[r].began <= current'[job[r].seen])
    BY <1>2, <1>6, <2>1, <2>2 DEF InTime
  <2>4. job[r].at = "drift" => clock < current'[job[r].version] + CardTtl * TicksPerS + FetchTimeout
    BY <1>2, <1>6, <2>1, <2>2 DEF InTime
  <2> QED
    BY <1>1, <2>1, <2>3, <2>4 DEF InTime
<1>10. ASSUME cards # None
       PROVE  \E f \in 0 .. clock : cards.cachedAt = Sec(f) /\ f <= current'[cards.version] + FetchTimeout
  <2> PICK f \in 0 .. clock : cards.cachedAt = Sec(f) /\ ServedNear(cards.version, f)
    BY <1>10 DEF AuthInv, Dated, CardDates
  <2>1. cards.version \in 1 .. MaxCards
    BY <1>10 DEF AuthInv, TypedAuth, CardType
  <2>2. f <= current'[cards.version] + FetchTimeout
    BY <1>2, <1>6, <2>1 DEF ServedNear
  <2> QED
    BY <2>2
<1>11. CardDates'
  BY <1>1, <1>4, <1>6, <1>10 DEF CardDates, ServedNear, Sec
<1> QED
  BY <1>7, <1>8, <1>9, <1>11 DEF AuthInv, Dated

LEMMA RestartAuth ==
  ASSUME AuthInv, TypedWorld, Restart
  PROVE  AuthInv' /\ TypedWorld'
<1>1. /\ UNCHANGED <<opt, clock, peer, current>> /\ crashes < MaxCrashes /\ crashes' = crashes + 1
      /\ jtis' = [n \in Jtis |-> None] /\ cards' = None /\ job' = [r \in Callers |-> Idle]
      /\ verified' = {}
  BY DEF Restart
<1>2. Idle \in JobType /\ Idle.at = "idle"
  BY DEF Idle, JobType
<1>3. job' \in [Callers -> JobType] /\ \A r \in Callers : job'[r].at = "idle"
  BY <1>1, <1>2
<1>4. TypedAuth'
  BY <1>1, <1>3 DEF TypedAuth, Stamp
<1>5. Burned'
  BY <1>1 DEF Burned
<1>6. Dated'
  BY <1>1, <1>3 DEF AuthInv, Dated, CardDates, InTime
<1>7. TypedWorld'
  <2>1. crashes' \in 0 .. MaxCrashes
    BY <1>1, A2aAssumption DEF TypedWorld
  <2> QED
    BY <1>1, <2>1 DEF TypedWorld, AutoAllowed
<1> QED
  BY <1>4, <1>5, <1>6, <1>7 DEF AuthInv

-----------------------------------------------------------------------------
(* The inductive invariant.                                                *)

LEMMA InitInv ==
  ASSUME Init
  PROVE  Inv
<1>1. TypedRegistry
  BY DEF Init, TypedRegistry, Stamp
<1>2. ASSUME NEW t \in Tasks PROVE Held(t)
  <2>1. /\ tasks[t] = None /\ auto[t] = None /\ eager[t] = None /\ begun[t] = None
        /\ told[t] = None /\ returned = {}
    BY DEF Init
  <2>2. None # "completed" /\ None # "timed-out"
    BY NoneAssumption DEF Statuses, Terminal
  <2> QED
    BY <2>1, <2>2 DEF Held
<1>3. Idle \in JobType /\ Idle.at = "idle"
  BY DEF Idle, JobType
<1>4. job \in [Callers -> JobType] /\ \A r \in Callers : job[r].at = "idle"
  BY <1>3 DEF Init
<1>5. TypedAuth
  BY <1>4 DEF Init, TypedAuth, Stamp
<1>6. TypedWorld
  BY A2aAssumption DEF Init, TypedWorld
<1>7. Burned
  BY DEF Init, Burned
<1>8. Dated
  <2>1. peer \in 1 .. MaxCards /\ \A v \in 1 .. MaxCards : current[v] = 0
    BY <1>6 DEF Init, TypedWorld
  <2>2. clock = 0 /\ cards = None
    BY DEF Init
  <2> QED
    BY <1>4, <2>1, <2>2 DEF Dated, CardDates, InTime
<1> QED
  BY <1>1, <1>2, <1>5, <1>6, <1>7, <1>8 DEF Inv, Registry

LEMMA NextInv ==
  ASSUME Inv, [Next]_vars
  PROVE  Inv'
<1>0. RegistryInv /\ AuthInv /\ TypedWorld
  BY DEF Inv, RegistryInv, AuthInv
<1> SUFFICES RegistryInv' /\ AuthInv' /\ TypedWorld'
  BY DEF Inv, RegistryInv, AuthInv
<1>1. CASE UNCHANGED vars
  <2>1. WorldKept /\ UNCHANGED <<jtis, cards, job, verified>> /\ UNCHANGED <<registryVars, historyVars>>
    BY <1>1 DEF vars, WorldKept, registryVars, historyVars
  <2> QED
    BY <1>0, <2>1, WorldKeptTyped, AuthKept, RegistryKept DEF WorldKept
<1>2. CASE BearerRequest
  <2>1. WorldKept /\ UNCHANGED <<jtis, cards, job, verified>> /\ Dispatch
    BY <1>2 DEF BearerRequest, WorldKept, authVars
  <2> QED
    BY <1>0, <2>1, WorldKeptTyped, AuthKept, DispatchKeeps DEF WorldKept
<1>3. ASSUME NEW r \in Callers,
             \/ \E k \in Tokens : JwtArrives(r, k)
             \/ ResolveKey(r) \/ CardAnswered(r) \/ CardFetched(r) \/ CardUnreachable(r)
             \/ JwtVerify(r) \/ DriftChecked(r)
      PROVE  RegistryInv' /\ AuthInv' /\ TypedWorld'
  <2>1. AuthInv' /\ WorldKept
    BY <1>0, <1>3, ArrivalKeeps, ResolveKeeps, AnswerKeeps, FetchedKeeps, DroppedKeeps, VerifyKeeps
  <2>2. TypedWorld'
    BY <1>0, <2>1, WorldKeptTyped
  <2>3. Dispatch \/ UNCHANGED <<registryVars, historyVars>>
    BY <1>3 DEF JwtArrives, ResolveKey, CardAnswered, CardFetched, CardUnreachable, JwtVerify,
                DriftChecked
  <2>4. RegistryInv'
    BY <1>0, <2>1, <2>3, DispatchKeeps, RegistryKept DEF WorldKept
  <2> QED
    BY <2>1, <2>2, <2>4
<1>4. ASSUME NEW t \in Tasks, AutoExecuting(t) \/ AutoCompleted(t) \/ TaskDeadline(t)
      PROVE  RegistryInv' /\ AuthInv' /\ TypedWorld'
  <2>1. WorldKept /\ UNCHANGED <<jtis, cards, job, verified>>
    BY <1>4 DEF AutoExecuting, AutoCompleted, TaskDeadline, WorldKept, authVars
  <2>2. RegistryInv'
    BY <1>0, <1>4, AutoKeeps, DeadlineKeeps
  <2> QED
    BY <1>0, <2>1, <2>2, WorldKeptTyped, AuthKept
<1>5. CASE Tick
  BY <1>0, <1>5, TickKeeps, TickAuth
<1>6. CASE RotateCard
  <2>1. UNCHANGED <<registryVars, historyVars>> /\ UNCHANGED <<opt, clock>>
    BY <1>6 DEF RotateCard
  <2> QED
    BY <1>0, <1>6, <2>1, RotateAuth, RegistryKept
<1>7. CASE Restart
  BY <1>0, <1>7, RestartKeeps, RestartAuth
<1> QED
  BY <1>1, <1>2, <1>3, <1>4, <1>5, <1>6, <1>7 DEF Next
-----------------------------------------------------------------------------
(* Replays, when a jti names one genuine token.                            *)

ReplayInv == Remembered /\ Unused

\* Every step but a verification leaves what is verified, and every step but an
\* arrival, a verification and a restart what is remembered.
LEMMA ReplayKept ==
  ASSUME Inv, ReplayInv, UNCHANGED <<jtis, verified>>, Now <= Now', Now' \in Nat
  PROVE  Remembered'
<1>1. \A k \in verified : k.exp + JtiExtra \in Nat
  <2>1. \A k \in verified : k \in TokenType
    BY A2aAssumption DEF Inv, TypedAuth
  <2> QED
    BY <2>1, WorldFacts DEF Inv, TokenType
<1>2. Now \in Nat
  BY WorldFacts DEF Inv
<1> QED
  BY <1>1, <1>2 DEF ReplayInv, Remembered

LEMMA NowKept ==
  ASSUME Inv, [Next]_vars
  PROVE  Now <= Now' /\ Now' \in Nat
<1>1. clock \in Nat
  BY WorldFacts DEF Inv
<1>2. clock' = clock \/ clock' = clock + 1
  BY DEF Next, vars, BearerRequest, JwtArrives, ResolveKey, CardAnswered, CardFetched,
         CardUnreachable, JwtVerify, DriftChecked, AutoExecuting, AutoCompleted, TaskDeadline,
         Tick, RotateCard, Restart
<1>3. clock' \in Nat /\ clock <= clock'
  BY <1>1, <1>2
<1>4. Sec(clock) <= Sec(clock') /\ Sec(clock') \in Nat
  BY <1>1, <1>3, SecMonotone, SecFacts
<1> QED
  BY <1>4 DEF Now, Sec

\* A job goes on with what it found when it arrived, or becomes idle.
Carries == \A r \in Callers :
    job'[r].at # "idle" => ~job'[r].used \/ (job[r].at # "idle" /\ job'[r].used = job[r].used)

LEMMA UnusedKept ==
  ASSUME Unused, Carries
  PROVE  Unused'
BY DEF Unused, Carries

LEMMA StageCarries ==
  ASSUME TypedAuth, NEW r \in Callers, NEW j, Stage(r, j),
         j.at = "idle" \/ ~j.used \/ (job[r].at # "idle" /\ j.used = job[r].used)
  PROVE  Carries
<1>1. job'[r] = j /\ \A s \in Callers \ {r} : job'[s] = job[s]
  BY StageFacts
<1> QED
  BY <1>1 DEF Carries

\* A token in the cache's memory that has not expired is still in the cache.
LEMMA ArrivalReplays ==
  ASSUME UniqueJtis, Inv, ReplayInv, NEW r \in Callers, NEW k \in Tokens, JwtArrives(r, k)
  PROVE  ReplayInv'
<1>0. TypedAuth /\ TypedWorld /\ Remembered /\ Unused
  BY DEF Inv, ReplayInv
<1>1. verified' = verified /\ Now' = Now
  BY DEF JwtArrives, Now, Sec
<1>2. Now \in Nat /\ JtiExtra \in Nat
  BY <1>0, WorldFacts
<1>3. \A c \in verified : c.jti \in Jtis /\ c.exp \in Nat /\ c.exp + JtiExtra \in Nat
  <2>1. \A c \in verified : c \in TokenType
    BY <1>0, A2aAssumption DEF TypedAuth
  <2> QED
    BY <1>2, <2>1 DEF TokenType
<1>4. ASSUME NEW c \in verified, jtis[c.jti] = c.exp + JtiExtra
      PROVE  Pruned[c.jti] = c.exp + JtiExtra \/ c.exp + JtiExtra <= Now
  <2>1. jtis[c.jti] # None
    BY <1>3, <1>4, NoneAssumption
  <2> QED
    BY <1>0, <1>3, <1>4, <2>1, PrunedFacts
<1>5. Remembered'
  <2>1. jtis' = jtis \/ jtis' = Pruned
    BY DEF JwtArrives
  <2>2. ASSUME NEW c \in verified
        PROVE  c.genuine /\ (jtis'[c.jti] = c.exp + JtiExtra \/ c.exp + JtiExtra <= Now)
    BY <1>0, <1>4, <2>1 DEF Remembered
  <2> QED
    BY <1>1, <2>2 DEF Remembered
<1>6. CASE job' = job
  BY <1>0, <1>5, <1>6 DEF ReplayInv, Unused
<1>7. CASE job' = [job EXCEPT ![r] = Idle]
  BY <1>0, <1>5, <1>7, IdleStage, StageCarries, UnusedKept DEF ReplayInv
<1>8. CASE /\ ClaimsHold(k) /\ Pruned[k.jti] = None
           /\ job' = [job EXCEPT ![r] = [at |-> "resolve", tok |-> k, used |-> k \in verified]]
  <2>1. k \notin verified
    <3>1. ASSUME k \in verified PROVE FALSE
      <4>1. k.exp > Now
        BY <1>8 DEF ClaimsHold
      <4>2. k.exp \in Nat /\ ~(k.exp + JtiExtra <= Now) /\ k.exp + JtiExtra # None
        BY <1>2, <1>3, <3>1, <4>1, NoneAssumption
      <4>3. jtis[k.jti] = k.exp + JtiExtra
        BY <1>0, <3>1, <4>2 DEF Remembered
      <4>4. Pruned[k.jti] = k.exp + JtiExtra
        BY <1>4, <3>1, <4>2, <4>3
      <4> QED
        BY <1>8, <4>2, <4>4
    <3> QED
      BY <3>1
  <2> DEFINE j == [at |-> "resolve", tok |-> k, used |-> FALSE]
  <2>2. j \in JobType /\ ~j.used
    BY DEF JobType
  <2>3. job' = [job EXCEPT ![r] = j]
    <3>1. (k \in verified) = FALSE
      BY <2>1
    <3> QED
      BY <1>8, <3>1
  <2> HIDE DEF j
  <2>4. Carries
    BY <1>0, <2>2, <2>3, StageCarries DEF Stage
  <2> QED
    BY <1>0, <1>5, <2>4, UnusedKept DEF ReplayInv
<1> QED
  BY <1>6, <1>7, <1>8 DEF JwtArrives

LEMMA VerifyReplays ==
  ASSUME UniqueJtis, Inv, ReplayInv, NEW r \in Callers, JwtVerify(r)
  PROVE  ReplayInv'
<1>0. TypedAuth /\ TypedWorld /\ CardDates /\ Remembered /\ Unused
  BY DEF Inv, Dated, ReplayInv
<1> PICK k : k = job[r].tok
  OBVIOUS
<1>1. /\ job[r].at = "verify" /\ Now' = Now
      /\ jtis' = IF k.genuine THEN Register(k) ELSE jtis
      /\ verified' = IF k.genuine THEN verified \cup {k} ELSE verified
  BY DEF JwtVerify, Now, Sec
<1>2. /\ k \in Tokens /\ k.jti \in Jtis
      /\ \A n \in Jtis : Register(k)[n] = IF n = k.jti THEN k.exp + JtiExtra ELSE jtis[n]
  BY <1>0, <1>1, VerifyFacts
<1>3. \A c \in verified : c \in Tokens /\ c.jti \in Jtis /\ c.genuine
  <2>1. \A c \in verified : c \in Tokens /\ c \in TokenType
    BY <1>0, A2aAssumption DEF TypedAuth
  <2> QED
    BY <1>0, <2>1 DEF TokenType, Remembered
<1>4. Remembered'
  <2>1. CASE k.genuine
    <3>1. ASSUME NEW c \in verified \cup {k}
          PROVE  c.genuine /\ (jtis'[c.jti] = c.exp + JtiExtra \/ c.exp + JtiExtra <= Now)
      <4>1. CASE c.jti = k.jti
        <5>1. c = k
          BY <1>2, <1>3, <2>1, <4>1 DEF UniqueJtis
        <5> QED
          BY <1>1, <1>2, <2>1, <5>1
      <4>2. CASE c.jti # k.jti
        BY <1>0, <1>1, <1>2, <1>3, <2>1, <4>2 DEF Remembered
      <4> QED
        BY <4>1, <4>2
    <3> QED
      BY <1>1, <2>1, <3>1 DEF Remembered
  <2>2. CASE ~k.genuine
    BY <1>0, <1>1, <2>2 DEF Remembered
  <2> QED
    BY <2>1, <2>2
<1>5. Carries
  <2>1. CASE Loaded(r, "drift")
    <3>1. job[r].at # "idle"
      BY <1>1
    <3> PICK j : Stage(r, j) /\ j.used = job[r].used
      BY <1>0, <2>1, <3>1, LoadedStage
    <3> QED
      BY <1>0, <3>1, StageCarries
  <2>2. CASE job' = [job EXCEPT ![r] = Idle]
    BY <1>0, <2>2, IdleStage, StageCarries
  <2> QED
    BY <2>1, <2>2 DEF JwtVerify
<1> QED
  BY <1>0, <1>4, <1>5, UnusedKept DEF ReplayInv

LEMMA FlightReplays ==
  ASSUME Inv, ReplayInv, NEW r \in Callers, [Next]_vars,
         ResolveKey(r) \/ CardAnswered(r) \/ CardFetched(r) \/ CardUnreachable(r) \/ DriftChecked(r)
  PROVE  ReplayInv'
<1>0. TypedAuth /\ TypedWorld /\ CardDates /\ Unused
  BY DEF Inv, Dated, ReplayInv
<1>1. Remembered' \/ jtis' # jtis \/ verified' # verified
  BY NowKept, ReplayKept
<1>2. UNCHANGED <<jtis, verified>>
  BY DEF ResolveKey, CardAnswered, CardFetched, CardUnreachable, DriftChecked, authVars
<1>3. Carries
  <2>1. CASE ResolveKey(r) /\ Loaded(r, "verify")
    <3>1. job[r].at # "idle"
      BY <2>1 DEF ResolveKey
    <3> PICK j : Stage(r, j) /\ j.used = job[r].used
      BY <1>0, <2>1, <3>1, LoadedStage
    <3> QED
      BY <1>0, <3>1, StageCarries
  <2>2. CASE job' = [job EXCEPT ![r] = Idle]
    BY <1>0, <2>2, IdleStage, StageCarries
  <2>3. CASE CardAnswered(r)
    <3>1. job' = [job EXCEPT ![r].seen = peer] /\ job[r].at = "fetch" /\ job \in [Callers -> JobType]
      BY <1>0, <2>3 DEF CardAnswered, TypedAuth
    <3>2. job'[r].used = job[r].used /\ \A s \in Callers \ {r} : job'[s] = job[s]
      <4>1. job[r] \in [at : {"fetch"}, tok : Tokens, used : BOOLEAN, next : {"verify", "drift"},
                        began : Nat, seen : (1 .. MaxCards) \cup {None}]
        BY <3>1 DEF JobType, FlightType
      <4> QED
        BY <3>1, <4>1
    <3> QED
      BY <3>1, <3>2 DEF Carries
  <2>4. CASE CardFetched(r)
    <3> PICK j : j = [at |-> job[r].next, tok |-> job[r].tok, used |-> job[r].used, version |-> job[r].seen]
      OBVIOUS
    <3>1. job' = [job EXCEPT ![r] = j] /\ job[r].at = "fetch" /\ j.used = job[r].used
      BY <2>4 DEF CardFetched
    <3>2. job'[r] = j /\ \A s \in Callers \ {r} : job'[s] = job[s]
      BY <1>0, <3>1 DEF TypedAuth
    <3> QED
      BY <3>1, <3>2 DEF Carries
  <2>5. CASE ResolveKey(r) /\ job' = [job EXCEPT ![r] = [at |-> "verify", tok |-> job[r].tok,
                                                        used |-> job[r].used, version |-> 0]]
    <3> PICK j : j = [at |-> "verify", tok |-> job[r].tok, used |-> job[r].used, version |-> 0]
      OBVIOUS
    <3>1. job' = [job EXCEPT ![r] = j] /\ job[r].at = "resolve" /\ j.used = job[r].used
      BY <2>5 DEF ResolveKey
    <3>2. job'[r] = j /\ \A s \in Callers \ {r} : job'[s] = job[s]
      BY <1>0, <3>1 DEF TypedAuth
    <3> QED
      BY <3>1, <3>2 DEF Carries
  <2> QED
    BY <2>1, <2>2, <2>3, <2>4, <2>5 DEF ResolveKey, CardUnreachable, DriftChecked
<1> QED
  BY <1>0, <1>1, <1>2, <1>3, UnusedKept DEF ReplayInv

LEMMA NextReplays ==
  ASSUME UniqueJtis, Inv, ReplayInv, [Next]_vars
  PROVE  ReplayInv'
<1>1. CASE UNCHANGED <<jtis, verified, job>>
  BY <1>1, NowKept, ReplayKept DEF ReplayInv, Unused
<1>2. CASE Restart
  <2>1. verified' = {} /\ job' = [r \in Callers |-> Idle]
    BY <1>2 DEF Restart
  <2>2. \A r \in Callers : job'[r].at = "idle"
    BY <2>1 DEF Idle
  <2> QED
    BY <2>1, <2>2 DEF ReplayInv, Remembered, Unused
<1>3. ASSUME NEW r \in Callers,
             \/ \E k \in Tokens : JwtArrives(r, k)
             \/ ResolveKey(r) \/ CardAnswered(r) \/ CardFetched(r) \/ CardUnreachable(r)
             \/ JwtVerify(r) \/ DriftChecked(r)
      PROVE  ReplayInv'
  BY <1>3, ArrivalReplays, VerifyReplays, FlightReplays
<1> QED
  BY <1>1, <1>2, <1>3 DEF Next, vars, BearerRequest, AutoExecuting, AutoCompleted, TaskDeadline,
                          Tick, RotateCard, authVars

-----------------------------------------------------------------------------
(* The theorems.                                                           *)

\* The inductive invariant holds in every reachable state (a2a/plugin.ts,
\* a2a/jwt.ts, a2a/signer-discovery.ts).
THEOREM Inductive == Spec => []Inv
<1>1. Init => Inv
  BY InitInv
<1>2. Inv /\ [Next]_vars => Inv'
  BY NextInv
<1> QED
  BY <1>1, <1>2, PTL DEF Spec

\* Whatever the deadline, the delay and the resolution of the clock, execution
\* completes 2N seconds after the first accepted transfer at the latest, and
\* the collision guard keeps it ahead of the deadline (plugin.ts 103-124 and
\* 172-197, server.ts 431-470).
THEOREM TimersHold == Spec => []TimerInv
<1>1. Inv => TimerInv
  <2> SUFFICES ASSUME Inv PROVE TimerInv
    OBVIOUS
  <2>1. TypedRegistry /\ TypedAuth /\ TypedWorld /\ Registry
    BY DEF Inv
  <2>2. TypeOK
    BY <2>1 DEF TypedRegistry, TypedAuth, TypedWorld, TypeOK
  <2>3. AutoExecuteCompletes
    <3> SUFFICES ASSUME NEW t \in Tasks, opt.auto > 0, begun[t] # None,
                        clock > begun[t] + 2 * opt.auto * TicksPerS + MaxLate
                 PROVE  Row(t).status = "completed"
      BY DEF AutoExecuteCompletes
    <3>1. Held(t)
      BY <2>1 DEF Registry
    <3>2. begun[t] \in Nat /\ clock \in Nat
      BY <2>1, RegistryFacts DEF Stamp
    <3>3. ~Paired(t)
      BY <2>1, <3>2, SpanFacts DEF Paired
    <3> QED
      BY <3>1, <3>3 DEF Held, Completed, Row
  <2>4. AutoBeatsDeadline
    BY <2>1 DEF Registry, Held, AutoBeatsDeadline
  <2> QED
    BY <2>2, <2>3, <2>4 DEF TimerInv
<1> QED
  BY <1>1, Inductive, PTL

\* A matching etag presents a card served less than the time to live and one
\* fetch ago, for any number of overlapping fetches (signer-discovery.ts 59-150
\* and 268-296).
THEOREM EtagsRecent == Spec => []EtagIsRecent
<1>1. Inv => EtagIsRecent
  <2> SUFFICES ASSUME Inv, NEW r \in Callers, job[r].at = "drift"
               PROVE  clock - current[job[r].version] < CardTtl * TicksPerS + FetchTimeout
    BY DEF EtagIsRecent
  <2> PICK ttl \in Nat : ttl = CardTtl * TicksPerS
    BY WorldFacts DEF Inv
  <2>1. job[r].version \in 1 .. MaxCards
    BY JobFacts DEF Inv
  <2> PICK c \in Nat : c = current[job[r].version]
    BY <2>1, WorldFacts DEF Inv
  <2>2. clock < c + ttl + FetchTimeout
    BY DEF Inv, Dated, InTime
  <2>3. clock \in Nat /\ FetchTimeout \in Nat
    BY WorldFacts DEF Inv
  <2> QED
    BY <2>2, <2>3
<1> QED
  BY <1>1, Inductive, PTL

\* When no two genuine tokens share a jti, a verified token is refused until it
\* expires, and nothing but a verification leads to a refusal (jwt.ts 83-111,
\* 232-236 and 265-267).
THEOREM JtisExact == UniqueJtis => (Spec => []JtiCacheExact)
<1> SUFFICES ASSUME UniqueJtis PROVE Spec => []JtiCacheExact
  OBVIOUS
<1>1. Init => ReplayInv
  <2>1. Idle.at = "idle"
    BY DEF Idle
  <2> QED
    BY <2>1 DEF Init, ReplayInv, Remembered, Unused
<1>2. Inv /\ ReplayInv /\ [Next]_vars => ReplayInv'
  BY NextReplays
<1>3. Inv /\ ReplayInv => JtiCacheExact
  <2> SUFFICES ASSUME Inv, ReplayInv PROVE JtiCacheExact
    OBVIOUS
  <2>1. VerifiedNotReplayed
    <3> SUFFICES ASSUME NEW r \in Callers, job[r] # Idle PROVE ~job[r].used
      BY DEF VerifiedNotReplayed
    <3>1. job[r].at # "idle"
      <4>1. job[r] \in JobType
        BY DEF Inv, TypedAuth
      <4>2. ASSUME job[r].at = "idle" PROVE job[r] = Idle
        <5>1. job[r] \in [at : {"idle"}]
          BY <4>1, <4>2 DEF JobType, FlightType
        <5> QED
          BY <5>1 DEF Idle
      <4> QED
        BY <4>2
    <3> QED
      BY <3>1 DEF ReplayInv, Unused
  <2>2. OnlyVerifiedBurnsJti
    BY DEF Inv, Burned, OnlyVerifiedBurnsJti
  <2> QED
    BY <2>1, <2>2 DEF JtiCacheExact
<1> QED
  BY <1>1, <1>2, <1>3, Inductive, PTL DEF Spec

\* Completed, once reported, stays; and SessionEnd(MaxTurns) is announced only
\* for a task whose deadline has passed and that was not returned (plugin.ts
\* 125-143, 437-471 and 648-667).
THEOREM EndsHold == Spec => TaskEnds
<1>1. ASSUME Inv, [Next]_vars
      PROVE  [\A t \in Tasks : told[t] = "completed" /\ crashes' = crashes
                               => told'[t] = "completed"]_vars
  <2> SUFFICES ASSUME Next, NEW t \in Tasks, told[t] = "completed", crashes' = crashes
               PROVE  told'[t] = "completed"
    BY <1>1
  <2>1. Completed(t)
    BY <1>1 DEF Inv, Registry, Held
  <2>2. Get(t) = "completed"
    BY <2>1 DEF Get, Row, Completed, Terminal
  <2>3. CASE told' = told
    BY <2>3
  <2>4. ASSUME NEW s \in Tasks, told' = [told EXCEPT ![s] = Get(s)] PROVE told'[t] = "completed"
    BY <1>1, <2>2, <2>4 DEF Inv, TypedRegistry
  <2>5. told' = told \/ (\E s \in Tasks : told' = [told EXCEPT ![s] = Get(s)]) \/ Restart
    BY DEF Next, BearerRequest, JwtArrives, ResolveKey, CardAnswered, CardFetched,
           CardUnreachable, JwtVerify, DriftChecked, AutoExecuting, AutoCompleted, TaskDeadline,
           Tick, RotateCard, historyVars, Dispatch, HandoffOffer, HandoffTransfer, HandoffStatus,
           HandoffReturn, AgentDescribe
  <2>6. ~Restart
    <3>1. crashes \in Nat
      BY <1>1, A2aAssumption DEF Inv, TypedWorld
    <3> QED
      BY <3>1 DEF Restart
  <2> QED
    BY <2>3, <2>4, <2>5, <2>6
<1>2. ASSUME Inv, [Next]_vars
      PROVE  [\A t \in Tasks : ended'[t] # ended[t] /\ crashes' = crashes
                => /\ t \notin returned
                   /\ clock >= accepted[t] + Deadline * TicksPerS]_vars
  <2> SUFFICES ASSUME Next, NEW t \in Tasks, ended'[t] # ended[t], crashes' = crashes
               PROVE  t \notin returned /\ clock >= accepted[t] + Deadline * TicksPerS
    BY <1>2
  <2>1. TypedRegistry /\ TypedWorld /\ Held(t)
    BY <1>2 DEF Inv, Registry
  <2>2. ~Restart
    <3>1. crashes \in Nat
      BY <1>2, A2aAssumption DEF Inv, TypedWorld
    <3> QED
      BY <3>1 DEF Restart
  <2>3. \E s \in Tasks : TaskDeadline(s)
    <3>1. ended' # ended
      OBVIOUS
    <3> QED
      BY <2>2, <3>1 DEF Next, BearerRequest, JwtArrives, ResolveKey, CardAnswered, CardFetched,
             CardUnreachable, JwtVerify, DriftChecked, AutoExecuting, AutoCompleted,
             Tick, RotateCard, historyVars, Dispatch, HandoffOffer, HandoffTransfer, HandoffStatus,
             HandoffReturn, AgentDescribe
  <2> PICK s \in Tasks : TaskDeadline(s)
    BY <2>3
  <2>4. s = t /\ ended' # ended
    <3>1. ended' = [ended EXCEPT ![s] = clock] \/ ended' = ended
      BY DEF TaskDeadline
    <3> QED
      BY <2>1, <3>1 DEF TypedRegistry
  <2>5. tasks[t] # None /\ Get(t) \notin Terminal /\ eager[t] # None /\ eager[t] <= clock
    BY <2>4 DEF TaskDeadline, Row
  <2>6. ~Completed(t)
    BY <2>5 DEF Get, Row, Completed, Terminal
  <2>7. eager[t] = accepted[t] + Deadline * TicksPerS /\ eager[t] \in Nat /\ clock \in Nat
    BY <2>1, <2>5, RegistryFacts DEF Held, Stamp
  <2> QED
    BY <2>1, <2>5, <2>6, <2>7 DEF Held
<1> QED
  BY <1>1, <1>2, Inductive, PTL DEF Spec, TaskEnds, CompletedStays, EndIsDue
=============================================================================

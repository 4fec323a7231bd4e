------------------------ MODULE TennisAbstractProofs ------------------------
(***************************************************************************)
(* The requests to Tennis Abstract, the files the fetchers leave on disk,  *)
(* and the commands that read them: for every number of goroutines, every  *)
(* interval and timer, every list of names and every sequence of runs and  *)
(* kills.                                                                  *)
(***************************************************************************)
EXTENDS RequestGate, TennisCommands, FiniteSetTheorems, SequenceTheorems, NaturalsInduction,
        WellFoundedInduction, TLAPS

-----------------------------------------------------------------------------
(* The spacing.  The stamp is as old as the last pass, so the one pass a    *)
(* full interval has not yet covered is the one the stamp remembers.        *)

\* The gate's clock, and what it knows of the passes within an interval.
GateInv ==
  /\ age \in 0 .. MinRequestInterval
  /\ passes \subseteq [by : Callers, age : Nat]
  /\ \A p \in passes : p.age = age /\ p.age < MinRequestInterval
  /\ OneRequestPerInterval

LEMMA GateAtStart == ASSUME GateInit PROVE GateInv
BY GateAssumption DEF GateInit, GateInv, OneRequestPerInterval

\* Passing: the stamp is a full interval old, so no pass is remembered.
LEMMA PassKeepsGate ==
  ASSUME GateInv, NEW c \in Callers, PassGate(c)
  PROVE  GateInv'
<1>1. passes = {}
  <2>1. age >= MinRequestInterval
    BY GateAssumption DEF PassGate, GateInv
  <2> QED BY <2>1, GateAssumption DEF GateInv
<1>2. passes' = {[by |-> c, age |-> 0]} /\ age' = 0
  BY <1>1 DEF PassGate
<1>3. MinRequestInterval > 0
  BY DEF PassGate
<1> QED BY <1>2, <1>3, GateAssumption DEF GateInv, OneRequestPerInterval

\* Time ages the stamp and the passes alike.
LEMMA TickKeepsGate ==
  ASSUME GateInv, Tick
  PROVE  GateInv'
<1> DEFINE older(p) == [by |-> p.by, age |-> p.age + 1]
<1>1. age' \in 0 .. MinRequestInterval
  BY GateAssumption DEF Tick, GateInv
<1>2. ASSUME NEW q \in passes'
      PROVE  \E p \in passes : q = older(p) /\ p.age + 1 < MinRequestInterval
  BY <1>2 DEF Tick
<1>3. ASSUME NEW p \in passes, p.age + 1 < MinRequestInterval
      PROVE  /\ older(p) \in [by : Callers, age : Nat]
             /\ older(p).age = age'
             /\ older(p).age < MinRequestInterval
  <2>1. p \in [by : Callers, age : Nat] /\ p.age = age
    BY DEF GateInv
  <2>2. age' = age + 1
    BY <1>3, <2>1, GateAssumption DEF Tick, GateInv
  <2> QED BY <1>3, <2>1, <2>2
<1>4. \A p, q \in passes : older(p) = older(q)
  BY DEF GateInv, OneRequestPerInterval
<1>5. OneRequestPerInterval'
  BY <1>2, <1>4 DEF OneRequestPerInterval
<1> QED BY <1>1, <1>2, <1>3, <1>5 DEF GateInv

LEMMA GateStep ==
  ASSUME GateInv, [GateNext]_gateVars
  PROVE  GateInv'
<1>1. CASE \E c \in Callers : PassGate(c)
  BY <1>1, PassKeepsGate
<1>2. CASE Tick
  BY <1>2, TickKeepsGate
<1>3. CASE UNCHANGED <<age, passes>>
  BY <1>3 DEF GateInv, OneRequestPerInterval
<1>4. ASSUME NEW c \in Callers, Call(c) \/ CallStep(c) \/ Cancel(c)
      PROVE  PassGate(c) \/ UNCHANGED <<age, passes>>
  BY <1>4 DEF CallStep, Call, Cancel, SkipGate, WaitAtGate, WakeAtGate, Answer, GiveUp,
              TooManyRequests, Retry, ReturnCancelled, ghosts
<1> QED BY <1>1, <1>2, <1>3, <1>4 DEF GateNext, gateVars

\* At most one throttled request passes the gate within the interval,
\* whatever the goroutines, the interval and the timers.
THEOREM Spaced == GateSpec => []OneRequestPerInterval
<1>1. GateInit => GateInv
  BY GateAtStart
<1>2. GateInv /\ [GateNext]_gateVars => GateInv'
  BY GateStep
<1>3. GateInv => OneRequestPerInterval
  BY DEF GateInv
<1> QED BY <1>1, <1>2, <1>3, PTL DEF GateSpec

-----------------------------------------------------------------------------
(* The retries.  A call has sent one request for each attempt it has begun, *)
(* and its timer runs at least as long as the server's Retry-After.         *)

Sent == {"inflight", "backoff"}

RetryInv ==
  /\ stage \in [Callers -> Stages]
  /\ attempt \in [Callers -> Nat]
  /\ sleep \in [Callers -> Nat]
  /\ cancelled \subseteq Callers
  /\ calls \in [Callers -> 0 .. MaxCalls]
  /\ asked \in [Callers -> Nat]
  /\ sent \in [Callers -> Nat]
  /\ \A c \in Callers :
       /\ attempt[c] <= effectiveHTTPMaxRetries
       /\ stage[c] # "idle" => sent[c] = attempt[c] + (IF stage[c] \in Sent THEN 1 ELSE 0)
       /\ stage[c] = "idle" => sent[c] <= attempt[c] + 1
       /\ stage[c] = "backoff" => asked[c] <= sleep[c] /\ attempt[c] < effectiveHTTPMaxRetries
       /\ stage[c] \in {"gate", "asleep", "inflight"} => asked[c] = 0

LEMMA RetriesType == effectiveHTTPMaxRetries \in Nat
BY GateAssumption DEF effectiveHTTPMaxRetries

\* The wait is a time, and never shorter than what the header asks for.
LEMMA WaitCovers ==
  ASSUME NEW n \in Nat, NEW retryAfter \in Nat
  PROVE  RetryWait(n, retryAfter) \in Int /\ retryAfter <= RetryWait(n, retryAfter)
<1>1. 2 ^ n \in Int
  BY SMT
<1>2. effectiveHTTPBackoffInitial \in Int /\ effectiveHTTPBackoffMax \in Int
  BY GateAssumption DEF effectiveHTTPBackoffInitial, effectiveHTTPBackoffMax
<1>3. effectiveHTTPBackoffInitial * 2 ^ n \in Int
  BY <1>1, <1>2
<1>4. retryBackoff(n) \in Int
  BY <1>2, <1>3 DEF retryBackoff
<1> QED BY <1>4 DEF RetryWait

LEMMA RetryInit == ASSUME GateInit PROVE RetryInv
BY RetriesType, GateAssumption DEF GateInit, RetryInv, Stages

LEMMA CallKeepsRetries ==
  ASSUME RetryInv, NEW c \in Callers, Call(c)
  PROVE  RetryInv'
BY RetriesType, GateAssumption DEF RetryInv, Call, Stages, Sent

LEMMA SendKeepsRetries ==
  ASSUME RetryInv, NEW c \in Callers, SkipGate(c) \/ PassGate(c)
  PROVE  RetryInv'
BY RetriesType DEF RetryInv, SkipGate, PassGate, clientVars, Stages, Sent

LEMMA WaitKeepsRetries ==
  ASSUME RetryInv, NEW c \in Callers, age \in Int, WaitAtGate(c) \/ WakeAtGate(c)
  PROVE  RetryInv'
BY RetriesType, GateAssumption
   DEF RetryInv, WaitAtGate, WakeAtGate, clientVars, ghosts, Stages, Sent

LEMMA ReturnKeepsRetries ==
  ASSUME RetryInv, NEW c \in Callers, Answer(c) \/ GiveUp(c) \/ ReturnCancelled(c)
  PROVE  RetryInv'
<1>1. /\ stage[c] # "idle"
      /\ stage' = [stage EXCEPT ![c] = "idle"]
      /\ sleep' = [sleep EXCEPT ![c] = 0]
      /\ UNCHANGED <<attempt, cancelled, calls, asked, sent>>
  BY DEF Answer, GiveUp, ReturnCancelled, EndCall, Waiting, clientVars, ghosts
<1> QED BY <1>1, RetriesType DEF RetryInv, Stages, Sent

LEMMA TooManyKeepsRetries ==
  ASSUME RetryInv, NEW c \in Callers, TooManyRequests(c)
  PROVE  RetryInv'
<1>1. PICK retryAfter \in RetryAfters :
        /\ asked' = [asked EXCEPT ![c] = retryAfter]
        /\ sleep' = [sleep EXCEPT ![c] = RetryWait(attempt[c], retryAfter)]
  BY DEF TooManyRequests
<1>2. retryAfter \in Nat /\ attempt[c] \in Nat
  BY GateAssumption DEF RetryInv
<1>3. RetryWait(attempt[c], retryAfter) \in Int /\ retryAfter <= RetryWait(attempt[c], retryAfter)
  BY <1>2, WaitCovers
<1>4. /\ stage[c] = "inflight"
      /\ attempt[c] < effectiveHTTPMaxRetries
      /\ stage' = [stage EXCEPT ![c] = "backoff"]
      /\ UNCHANGED <<attempt, cancelled, calls, sent>>
  BY DEF TooManyRequests, clientVars
<1> QED BY <1>1, <1>2, <1>3, <1>4, RetriesType DEF RetryInv, Stages, Sent

LEMMA RetryKeepsRetries ==
  ASSUME RetryInv, NEW c \in Callers, Retry(c)
  PROVE  RetryInv'
BY RetriesType DEF RetryInv, Retry, ghosts, Stages, Sent

LEMMA ElapseKeepsRetries ==
  ASSUME RetryInv, Tick
  PROVE  RetryInv'
<1>1. UNCHANGED <<stage, attempt, cancelled, calls, sent>>
  BY DEF Tick, clientVars
<1>2. /\ sleep' \in [Callers -> Nat]
      /\ asked' \in [Callers -> Nat]
      /\ \A c \in Callers : /\ asked[c] = 0 => asked'[c] = 0
                            /\ asked[c] <= sleep[c] => asked'[c] <= sleep'[c]
  BY DEF Tick, Elapse, RetryInv
<1> QED BY <1>1, <1>2 DEF RetryInv

LEMMA RetryStep ==
  ASSUME RetryInv, age \in Int, [GateNext]_gateVars
  PROVE  RetryInv'
<1>1. ASSUME NEW c \in Callers, Call(c) PROVE RetryInv'
  BY <1>1, CallKeepsRetries
<1>2. ASSUME NEW c \in Callers, CallStep(c) PROVE RetryInv'
  BY <1>2, SendKeepsRetries, WaitKeepsRetries, ReturnKeepsRetries, TooManyKeepsRetries,
     RetryKeepsRetries DEF CallStep
<1>3. ASSUME NEW c \in Callers, Cancel(c) PROVE RetryInv'
  BY <1>3 DEF Cancel, ghosts, RetryInv
<1>4. CASE UNCHANGED gateVars
  BY <1>4 DEF gateVars, RetryInv
<1> QED BY <1>1, <1>2, <1>3, <1>4, ElapseKeepsRetries DEF GateNext

LEMMA RetryInvSpares == ASSUME RetryInv PROVE ServerIsSpared
<1> SUFFICES ASSUME NEW c \in Callers
             PROVE  /\ sent[c] <= effectiveHTTPMaxRetries + 1
                    /\ stage[c] = "inflight" => asked[c] = 0
  BY DEF ServerIsSpared
<1>1. /\ sent[c] \in Nat /\ attempt[c] \in Nat
      /\ attempt[c] <= effectiveHTTPMaxRetries
  BY DEF RetryInv
<1>2. sent[c] <= attempt[c] + 1
  BY <1>1 DEF RetryInv
<1>3. stage[c] = "inflight" => asked[c] = 0
  BY DEF RetryInv
<1> QED BY <1>1, <1>2, <1>3, RetriesType

LEMMA RetryInvTypes == ASSUME GateInv, RetryInv PROVE GateTypeOK
BY RetriesType DEF GateInv, RetryInv, GateTypeOK

LEMMA CallsInvariant == GateSpec => [](GateInv /\ RetryInv)
<1>1. GateInit => GateInv /\ RetryInv
  BY GateAtStart, RetryInit
<1>2. GateInv /\ RetryInv /\ [GateNext]_gateVars => (GateInv /\ RetryInv)'
  <2>1. GateInv => age \in Int
    BY GateAssumption DEF GateInv
  <2> QED BY <2>1, GateStep, RetryStep
<1> QED BY <1>1, <1>2, PTL DEF GateSpec

\* Type correctness of the gate and the calls: a timer never runs backwards,
\* an attempt never passes the retries.
THEOREM GateTypeCorrect == GateSpec => []GateTypeOK
<1>1. GateInv /\ RetryInv => GateTypeOK
  BY RetryInvTypes
<1> QED BY <1>1, CallsInvariant, PTL

\* A call sends no more requests than the retries allow, and none before the
\* server's Retry-After has passed.
THEOREM Spared == GateSpec => []ServerIsSpared
<1>1. RetryInv => ServerIsSpared
  BY RetryInvSpares
<1> QED BY <1>1, CallsInvariant, PTL

-----------------------------------------------------------------------------
(* The fetchers: type correctness, that exit code 0 vouches for the files,  *)
(* and that -merge gives nothing up.                                        *)

Asking == {"get", "fetch", "set", "baseline"}
CareerSteps == {"classic", "more", "create"}
SlugAt(j) == Slug[Names[j]]
KeyAt(j) == Key[Slug[Names[j]]]

\* A player is only looked up, fetched or written while there is one; the
\* rates are written when there is none left.
InRange ==
  /\ pc = "open" => i = 1
  /\ pc \in Asking \cup CareerSteps => i \in 1 .. Len(Names)
  /\ pc = "writing" /\ tool = "fetchcareer" => i \in 1 .. Len(Names)
  /\ pc = "writing" /\ tool = "fetchrates" => i > Len(Names)

\* Which tool can be where, and what it holds there.
Placed ==
  /\ pc \in {"set", "baseline"} => stats \in Baselines
  /\ pc = "open" => tool = "fetchrates"
  /\ pc \in Asking => tool \in {"fetchrates", "getstats"}
  /\ pc \in CareerSteps => tool = "fetchcareer"
  /\ pc \in {"next", "writing"} => tool \in {"fetchrates", "fetchcareer"}
  /\ pc # "idle" => exit = NoCode

\* As long as no error was counted, every player passed has an entry.
RatesGathered ==
  tool = "fetchrates" /\ pc \notin {"idle", "open"} /\ ~fetchErrs =>
    \A j \in 1 .. Len(Names) : j < i => rates[SlugAt(j)] # "absent"

\* As long as no error was counted, every player passed has a file, unless it
\* is the one being written again under another spelling.
FilesWritten ==
  tool = "fetchcareer" /\ pc # "idle" /\ ~fetchErrs =>
    \A j \in 1 .. Len(Names) :
      j < i => careerFile[KeyAt(j)] = "whole" \/ (pc = "writing" /\ KeyAt(j) = key)

\* A merged run that is past its opening found a file that decodes.
OpenedWhole ==
  tool = "fetchrates" /\ flags.merge /\ pc \notin {"idle", "open", "writing"} =>
    ratesFile.state # "torn"

\* The map in memory keeps what was found, and only an entry that lacks a
\* ratio is looked up again.
KeepsBefore ==
  /\ tool = "fetchrates" /\ pc # "idle" =>
       \A s \in Slugs :
         /\ before[s] # "absent" => rates[s] # "absent"
         /\ before[s] = "full" => rates[s] = "full"
  /\ tool = "fetchrates" /\ pc \in Asking => rates[slug] # "full"

IInv ==
  /\ TypeOK
  /\ InRange
  /\ Placed
  /\ RatesGathered
  /\ FilesWritten
  /\ OpenedWhole
  /\ KeepsBefore
  /\ ExitZeroIsComplete

-----------------------------------------------------------------------------
\* Every position has a slug and a key, and every slug and key a position.
LEMMA Positions ==
  /\ \A j \in 1 .. Len(Names) : SlugAt(j) \in Slugs /\ KeyAt(j) \in Keys
  /\ \A s \in Slugs : \E j \in 1 .. Len(Names) : s = SlugAt(j)
  /\ \A k \in Keys : \E j \in 1 .. Len(Names) : k = KeyAt(j)
  /\ Len(Names) \in Nat
  /\ 1 \in 1 .. Len(Names)
<1>1. Len(Names) \in Nat /\ Len(Names) > 0
  BY FetchAssumption
<1> QED
  BY <1>1 DEF SlugAt, KeyAt, Slugs, Keys, NameSet

\* The constants of the tools have the types their names say.
LEMMA NoEntriesTyped ==
  /\ NoEntries \in [Slugs -> Entries]
  /\ NoFlags \in [merge : BOOLEAN, fillDR : BOOLEAN, caching : BOOLEAN]
<1>1. NoEntries \in [Slugs -> Entries]
  BY DEF NoEntries, Entries
<1>2. NoFlags \in [merge : BOOLEAN, fillDR : BOOLEAN, caching : BOOLEAN]
  BY DEF NoFlags
<1> QED
  BY <1>1, <1>2

\* The fetchers start as the invariant demands.
LEMMA InitInvariant == Init => IInv
<1> SUFFICES ASSUME Init PROVE IInv
  OBVIOUS
<1>1. cache \in [Keys -> {"empty", "stats", "undecodable"}]
  BY DEF Init
<1>2. ratesFile \in Files
  BY NoEntriesTyped DEF Init, Files
<1>3. careerFile \in [Keys -> {"missing", "torn", "whole"}]
  BY DEF Init
<1>4. i \in 1 .. Len(Names) + 1
  BY Positions DEF Init
<1>5. TypeOK
  BY <1>1, <1>2, <1>3, <1>4, NoEntriesTyped DEF Init, TypeOK, NoCode, Tools, Places, NoStats
<1> QED
  BY <1>5 DEF Init, IInv, InRange, Placed, RatesGathered, FilesWritten, OpenedWhole,
      KeepsBefore, ExitZeroIsComplete, Asking, CareerSteps, NoCode

\* A run that is over, or was killed, satisfies the invariant if the files
\* vouch for its exit code.
LEMMA StopInvariant ==
  ASSUME IInv, Stop, tool' = tool, exit' \in {0, 1, NoCode}, cache' = cache,
         careerFile' \in [Keys -> {"missing", "torn", "whole"}], ratesFile' \in Files,
         ExitZeroIsComplete'
  PROVE  IInv'
<1>1. i' \in 1 .. Len(Names) + 1
  BY Positions DEF Stop
<1>2. TypeOK'
  BY <1>1, NoEntriesTyped DEF Stop, IInv, TypeOK, Places, NoStats
<1> QED
  BY <1>2 DEF Stop, IInv, InRange, Placed, RatesGathered, FilesWritten, OpenedWhole,
      KeepsBefore, Asking, CareerSteps

\* A player that fails leaves everything as it was but the count of errors.
LEMMA FailedInvariant ==
  ASSUME IInv, Failed, UNCHANGED <<tool, cache, disk>>,
         pc \in Asking \cup CareerSteps \/ (pc = "writing" /\ tool = "fetchcareer")
  PROVE  IInv'
<1>1. CASE tool = "getstats"
  <2>1. exit' = 1 /\ Stop
    BY <1>1 DEF Failed, Return
  <2>2. ExitZeroIsComplete'
    BY <2>1 DEF ExitZeroIsComplete
  <2> QED
    BY <2>1, <2>2, StopInvariant DEF IInv, TypeOK, disk
<1>2. CASE tool # "getstats"
  <2>1. NextName /\ fetchErrs' = TRUE /\ UNCHANGED <<rates, exit>>
    BY <1>2 DEF Failed
  <2>2. i' \in 1 .. Len(Names) + 1
    <3>1. i \in 1 .. Len(Names)
      BY DEF IInv, InRange
    <3>2. i' = i + 1
      BY <2>1 DEF NextName
    <3>3. Len(Names) \in Nat
      BY Positions
    <3> QED
      BY <3>1, <3>2, <3>3
  <2>3. TypeOK'
    BY <2>1, <2>2, SMTT(30) DEF NextName, runVars, disk, IInv, TypeOK, Places
  <2>4. tool \in {"fetchrates", "fetchcareer"} /\ exit = NoCode
    BY <1>2 DEF IInv, Placed, Asking, CareerSteps
  <2>5. OpenedWhole'
    <3>1. CASE pc = "writing"
      BY <3>1, <2>1 DEF OpenedWhole, Asking, CareerSteps
    <3>2. CASE pc # "writing"
      BY <3>2, <2>1 DEF NextName, runVars, disk, IInv, OpenedWhole, Asking, CareerSteps
    <3> QED
      BY <3>1, <3>2
  <2> QED
    BY <2>1, <2>3, <2>4, <2>5
      DEF NextName, runVars, IInv, InRange, Placed, RatesGathered, FilesWritten,
          KeepsBefore, ExitZeroIsComplete, NoCode, Asking, CareerSteps
<1> QED
  BY <1>1, <1>2

\* The steps of a lookup move within it and touch neither map nor files.
LEMMA LookupInvariant ==
  ASSUME IInv, CacheHit \/ CacheMiss \/ PageLoaded \/ Store
  PROVE  IInv'
<1>1. /\ pc \in Asking
      /\ pc' \in Asking
      /\ stats' \in Baselines \cup {NoStats}
      /\ pc' \in {"set", "baseline"} => stats' \in Baselines
      /\ cache' \in [Keys -> {"empty", "stats", "undecodable"}]
      /\ UNCHANGED <<tool, flags, i, rates, fetchErrs, exit, careerFile, ratesFile, before>>
  <2>1. CASE CacheHit
    BY <2>1 DEF CacheHit, disk, Asking, IInv, TypeOK
  <2>2. CASE CacheMiss
    BY <2>2 DEF CacheMiss, disk, Asking, IInv, TypeOK
  <2>3. CASE PageLoaded
    BY <2>3 DEF PageLoaded, disk, Asking, IInv, TypeOK
  <2>4. CASE Store
    BY <2>4 DEF Store, disk, Asking, IInv, TypeOK, Placed
  <2> QED
    BY <2>1, <2>2, <2>3, <2>4
<1>2. TypeOK'
  BY <1>1 DEF IInv, TypeOK, Places, Asking
<1> QED
  BY <1>1, <1>2
    DEF IInv, InRange, Placed, RatesGathered, FilesWritten, OpenedWhole, KeepsBefore,
        ExitZeroIsComplete, NoCode, slug, Asking, CareerSteps

-----------------------------------------------------------------------------
(* The steps of fetchrates on its map and its file.                         *)

\* Opening: a merged run goes on with the entries found, and only if the file
\* decodes.
LEMMA OpenRatesInvariant == ASSUME IInv, OpenRates PROVE IInv'
<1>1. CASE flags.merge /\ ratesFile.state = "torn"
  <2>1. exit' = 1 /\ Stop /\ UNCHANGED <<tool, cache, disk>>
    BY <1>1 DEF OpenRates, Return
  <2>2. ExitZeroIsComplete'
    BY <2>1 DEF ExitZeroIsComplete
  <2> QED
    BY <2>1, <2>2, StopInvariant DEF IInv, TypeOK, disk
<1>2. CASE ~(flags.merge /\ ratesFile.state = "torn")
  <2>1. PICK existing \in [Slugs -> Entries] :
          /\ rates' = existing
          /\ before' = existing
          /\ pc = "open"
          /\ pc' = "next"
          /\ UNCHANGED <<tool, flags, i, stats, fetchErrs, exit, cache, disk>>
    BY <1>2, NoEntriesTyped DEF OpenRates, IInv, TypeOK, Files
  <2>2. TypeOK'
    BY <2>1 DEF disk, IInv, TypeOK, Places
  <2>3. tool = "fetchrates" /\ exit = NoCode
    BY <2>1 DEF IInv, Placed
  <2>4. i = 1
    BY <2>1 DEF IInv, InRange
  <2> QED
    BY <1>2, <2>1, <2>2, <2>3, <2>4
      DEF disk, IInv, InRange, Placed, RatesGathered, FilesWritten, OpenedWhole, KeepsBefore,
          ExitZeroIsComplete, NoCode, Asking, CareerSteps
<1> QED
  BY <1>1, <1>2

\* An entry that is complete, or need not be, is kept; any other is looked up.
LEMMA NextRatesInvariant == ASSUME IInv, NextRates PROVE IInv'
<1> i \in 1 .. Len(Names)
  BY Positions DEF NextRates, IInv, TypeOK
<1>1. CASE Keeps(rates[slug])
  <2>1. NextName /\ UNCHANGED <<tool, rates, fetchErrs, exit, cache, disk>>
    BY <1>1 DEF NextRates
  <2>2. i' \in 1 .. Len(Names) + 1 /\ i' = i + 1
    BY <2>1, Positions DEF NextName
  <2>3. TypeOK'
    BY <2>1, <2>2, SMTT(30) DEF NextName, runVars, disk, IInv, TypeOK, Places
  <2>4. RatesGathered'
    BY <1>1, <2>1, <2>2 DEF NextRates, Keeps, IInv, RatesGathered, slug, SlugAt
  <2> QED
    BY <2>1, <2>2, <2>3, <2>4
      DEF NextRates, NextName, runVars, disk, IInv, InRange, Placed, FilesWritten, OpenedWhole,
          KeepsBefore, ExitZeroIsComplete, NoCode, Asking, CareerSteps
<1>2. CASE ~Keeps(rates[slug])
  <2>1. /\ pc' = "get"
        /\ UNCHANGED <<tool, flags, i, stats, rates, fetchErrs, exit, cache, careerFile,
                       ratesFile, before>>
    BY <1>2 DEF NextRates, disk, runVars
  <2>2. TypeOK'
    BY <2>1 DEF IInv, TypeOK, Places
  <2>3. rates[slug] # "full"
    BY <1>2 DEF Keeps
  <2> QED
    BY <2>1, <2>2, <2>3
      DEF NextRates, IInv, InRange, Placed, RatesGathered, FilesWritten, OpenedWhole,
          KeepsBefore, ExitZeroIsComplete, NoCode, slug, Asking, CareerSteps
<1> QED
  BY <1>1, <1>2

\* A baseline is entered; what it replaces had no ratio.
LEMMA SetRatesInvariant == ASSUME IInv, SetRates PROVE IInv'
<1> pc = "baseline" /\ tool = "fetchrates" /\ UNCHANGED <<tool, cache, disk>>
  BY DEF SetRates
<1>1. CASE stats = "noSeason"
  BY <1>1, FailedInvariant DEF SetRates, Asking
<1>2. CASE stats # "noSeason"
  <2>1. /\ rates' = [rates EXCEPT ![slug] = stats]
        /\ NextName
        /\ UNCHANGED <<fetchErrs, exit>>
    BY <1>2 DEF SetRates
  <2>2. stats \in Entries \ {"absent"}
    BY <1>2 DEF IInv, Placed, Baselines, Entries
  <2>3. i \in 1 .. Len(Names) /\ i' = i + 1
    BY <2>1 DEF IInv, InRange, NextName, Asking
  <2>4. i' \in 1 .. Len(Names) + 1
    BY <2>3, Positions
  <2>5. rates' \in [Slugs -> Entries] /\ slug \in Slugs
    BY <2>1, <2>2, <2>3, Positions DEF IInv, TypeOK, slug, SlugAt
  <2>6. TypeOK'
    BY <2>1, <2>4, <2>5, SMTT(30) DEF NextName, runVars, disk, IInv, TypeOK, Places
  <2>7. RatesGathered'
    BY <2>1, <2>2, <2>3, <2>5, Positions
      DEF IInv, TypeOK, RatesGathered, SlugAt, slug
  <2>8. KeepsBefore'
    BY <2>1, <2>2, <2>5 DEF NextName, runVars, IInv, TypeOK, KeepsBefore, Asking
  <2> QED
    BY <2>1, <2>3, <2>6, <2>7, <2>8
      DEF NextName, runVars, disk, IInv, InRange, Placed, FilesWritten, OpenedWhole,
          ExitZeroIsComplete, NoCode, Asking, CareerSteps
<1> QED
  BY <1>1, <1>2

\* The file is emptied once every player was passed.
LEMMA TruncateRatesInvariant == ASSUME IInv, TruncateRates PROVE IInv'
<1>1. ratesFile' \in Files
  BY NoEntriesTyped DEF TruncateRates, Files
<1>2. TypeOK'
  BY <1>1 DEF TruncateRates, IInv, TypeOK, Places
<1> QED
  BY <1>2
    DEF TruncateRates, IInv, InRange, Placed, RatesGathered, FilesWritten, OpenedWhole,
        KeepsBefore, ExitZeroIsComplete, NoCode, Asking, CareerSteps

\* What is written holds every player, if no error was counted.
LEMMA WriteRatesInvariant == ASSUME IInv, WriteRates PROVE IInv'
<1>1. Stop /\ UNCHANGED <<tool, cache, careerFile>>
  BY DEF WriteRates, Return
<1>2. /\ exit' \in {0, 1}
      /\ exit' = 0 => ~fetchErrs /\ ratesFile' = [state |-> "whole", entries |-> rates]
      /\ ratesFile' \in {ratesFile, [state |-> "whole", entries |-> rates]}
  BY DEF WriteRates, Return
<1>3. ratesFile' \in Files
  BY <1>2 DEF IInv, TypeOK, Files
<1>4. ASSUME exit' = 0 PROVE \A s \in Slugs : rates[s] # "absent"
  <2>1. i > Len(Names) /\ i \in Nat
    BY Positions DEF WriteRates, IInv, InRange, TypeOK
  <2>2. \A j \in 1 .. Len(Names) : rates[SlugAt(j)] # "absent"
    BY <1>2, <1>4, <2>1, Positions DEF WriteRates, IInv, RatesGathered
  <2> QED
    BY <2>2, Positions
<1>5. ExitZeroIsComplete'
  BY <1>1, <1>2, <1>4 DEF WriteRates, ExitZeroIsComplete
<1> QED
  BY <1>1, <1>2, <1>3, <1>5, StopInvariant DEF IInv, TypeOK

-----------------------------------------------------------------------------
(* The steps of fetchcareer.                                                *)

\* A whole file is skipped, a torn one ends the run.
LEMMA NextCareerInvariant == ASSUME IInv, NextCareer PROVE IInv'
<1> i \in 1 .. Len(Names) /\ pc = "next" /\ tool = "fetchcareer"
  BY Positions DEF NextCareer, IInv, TypeOK
<1>1. CASE flags.merge /\ careerFile[key] = "torn"
  <2>1. exit' = 1 /\ Stop /\ UNCHANGED <<tool, cache, disk>>
    BY <1>1 DEF NextCareer, Return
  <2>2. ExitZeroIsComplete'
    BY <2>1 DEF ExitZeroIsComplete
  <2> QED
    BY <2>1, <2>2, StopInvariant DEF IInv, TypeOK, disk
<1>2. CASE flags.merge /\ careerFile[key] = "whole"
  <2>1. NextName /\ UNCHANGED <<tool, rates, fetchErrs, exit, cache, disk>>
    BY <1>2 DEF NextCareer
  <2>2. i' \in 1 .. Len(Names) + 1 /\ i' = i + 1
    BY <2>1, Positions DEF NextName
  <2>3. TypeOK'
    BY <2>1, <2>2, SMTT(30) DEF NextName, runVars, disk, IInv, TypeOK, Places
  <2>4. FilesWritten'
    BY <1>2, <2>1, <2>2 DEF NextName, disk, IInv, FilesWritten, slug, key, KeyAt
  <2> QED
    BY <2>1, <2>2, <2>3, <2>4
      DEF NextName, runVars, disk, IInv, InRange, Placed, RatesGathered, OpenedWhole,
          KeepsBefore, ExitZeroIsComplete, NoCode, Asking, CareerSteps
<1>3. CASE ~(flags.merge /\ careerFile[key] \in {"torn", "whole"})
  <2>1. /\ pc' = "classic"
        /\ UNCHANGED <<tool, flags, i, stats, rates, fetchErrs, exit, cache, careerFile,
                       ratesFile, before>>
    BY <1>3 DEF NextCareer, runVars, disk
  <2>2. TypeOK'
    BY <2>1 DEF IInv, TypeOK, Places
  <2> QED
    BY <2>1, <2>2
      DEF IInv, InRange, Placed, RatesGathered, FilesWritten, OpenedWhole, KeepsBefore,
          ExitZeroIsComplete, NoCode, Asking, CareerSteps
<1> QED
  BY <1>1, <1>2, <1>3

\* The requests for a career touch nothing unless they fail.
LEMMA CareerRequestInvariant ==
  ASSUME IInv, ClassicPage \/ CareerJS PROVE IInv'
<1>1. CASE Failed
  BY <1>1, FailedInvariant DEF ClassicPage, CareerJS, CareerSteps
<1>2. CASE ~Failed
  <2>1. /\ pc \in CareerSteps
        /\ pc' \in CareerSteps
        /\ UNCHANGED <<tool, flags, i, stats, rates, fetchErrs, exit, cache, careerFile,
                       ratesFile, before>>
    BY <1>2 DEF ClassicPage, CareerJS, runVars, disk, CareerSteps
  <2>2. TypeOK'
    BY <2>1 DEF IInv, TypeOK, Places, CareerSteps
  <2> QED
    BY <2>1, <2>2
      DEF IInv, InRange, Placed, RatesGathered, FilesWritten, OpenedWhole, KeepsBefore,
          ExitZeroIsComplete, NoCode, Asking, CareerSteps
<1> QED
  BY <1>1, <1>2

\* The file of the present player is emptied, of no other.
LEMMA TruncateCareerInvariant == ASSUME IInv, TruncateCareer PROVE IInv'
<1> pc = "create" /\ tool = "fetchcareer" /\ i \in 1 .. Len(Names)
  BY DEF TruncateCareer, IInv, InRange, Placed, CareerSteps
<1>1. key \in Keys /\ \A j \in 1 .. Len(Names) : KeyAt(j) \in Keys
  BY Positions DEF key, slug, KeyAt
<1>2. careerFile' \in [Keys -> {"missing", "torn", "whole"}]
  BY DEF TruncateCareer, IInv, TypeOK
<1>3. TypeOK'
  BY <1>2 DEF TruncateCareer, IInv, TypeOK, Places
<1>4. FilesWritten'
  BY <1>1 DEF TruncateCareer, IInv, TypeOK, FilesWritten, slug, key
<1> QED
  BY <1>3, <1>4
    DEF TruncateCareer, IInv, InRange, Placed, RatesGathered, OpenedWhole, KeepsBefore,
        ExitZeroIsComplete, NoCode, Asking, CareerSteps

\* The file of the present player is whole again, or an error is counted.
LEMMA WriteCareerInvariant == ASSUME IInv, WriteCareer PROVE IInv'
<1> pc = "writing" /\ tool = "fetchcareer" /\ i \in 1 .. Len(Names)
  BY DEF WriteCareer, IInv, InRange
<1>1. CASE Failed /\ UNCHANGED careerFile
  BY <1>1, FailedInvariant DEF WriteCareer, disk
<1>2. CASE ~(Failed /\ UNCHANGED careerFile)
  <2>1. /\ careerFile' = [careerFile EXCEPT ![key] = "whole"]
        /\ NextName
        /\ UNCHANGED <<tool, rates, fetchErrs, exit, cache, ratesFile>>
    BY <1>2 DEF WriteCareer
  <2>2. i' \in 1 .. Len(Names) + 1 /\ i' = i + 1
    BY <2>1, Positions DEF NextName
  <2>3. careerFile' \in [Keys -> {"missing", "torn", "whole"}]
    BY <2>1 DEF IInv, TypeOK
  <2>4. TypeOK'
    BY <2>1, <2>2, <2>3, SMTT(30) DEF NextName, runVars, IInv, TypeOK, Places
  <2>5. key \in Keys /\ \A j \in 1 .. Len(Names) : KeyAt(j) \in Keys
    BY Positions DEF key, slug, KeyAt
  <2>6. \A j \in 1 .. Len(Names) : j < i' => j < i \/ KeyAt(j) = key
    BY <2>2 DEF KeyAt, key, slug
  <2>7. FilesWritten'
    BY <2>1, <2>5, <2>6 DEF NextName, IInv, TypeOK, FilesWritten
  <2> QED
    BY <2>1, <2>2, <2>4, <2>7
      DEF NextName, runVars, IInv, InRange, Placed, RatesGathered, OpenedWhole, KeepsBefore,
          ExitZeroIsComplete, NoCode, Asking, CareerSteps
<1> QED
  BY <1>1, <1>2

\* A run that ends well has passed every player.
LEMMA EndCareerInvariant == ASSUME IInv, EndCareer PROVE IInv'
<1>1. Stop /\ exit' = (IF fetchErrs THEN 1 ELSE 0) /\ UNCHANGED <<tool, cache, disk>>
  BY DEF EndCareer, Return
<1>2. ASSUME exit' = 0 PROVE \A k \in Keys : careerFile[k] = "whole"
  <2>1. i > Len(Names) /\ i \in Nat /\ ~fetchErrs
    BY <1>1, <1>2, Positions DEF EndCareer, IInv, TypeOK
  <2>2. \A j \in 1 .. Len(Names) : careerFile[KeyAt(j)] = "whole"
    BY <2>1, Positions DEF EndCareer, IInv, FilesWritten
  <2> QED
    BY <2>2, Positions
<1>3. ExitZeroIsComplete'
  BY <1>1, <1>2 DEF EndCareer, ExitZeroIsComplete, disk
<1> QED
  BY <1>1, <1>3, StopInvariant DEF IInv, TypeOK, disk

-----------------------------------------------------------------------------
(* Runs begin, end and are killed; the theorems.                            *)

\* A run begins with nothing looked up and no exit code.
LEMMA StartInvariant == ASSUME IInv, Start PROVE IInv'
<1>1. PICK f \in [merge : BOOLEAN, fillDR : BOOLEAN, caching : BOOLEAN] :
        \/ Run("fetchrates", f, "open")
        \/ Run("fetchcareer", f, "next")
        \/ Run("getstats", f, "get")
  BY DEF Start
<1>2. /\ flags' = f
      /\ exit' = NoCode
      /\ stats' = NoStats
      /\ rates' = NoEntries
      /\ before' = NoEntries
      /\ fetchErrs' = FALSE
      /\ UNCHANGED <<cache, careerFile, ratesFile>>
      /\ i' \in 1 .. Len(Names)
      /\ \/ tool' = "fetchrates" /\ pc' = "open" /\ i' = 1
         \/ tool' = "fetchcareer" /\ pc' = "next" /\ i' = 1
         \/ tool' = "getstats" /\ pc' = "get"
  BY <1>1, Positions DEF Run, disk
<1>3. i' \in 1 .. Len(Names) + 1
  BY <1>2, Positions
<1>4. TypeOK'
  BY <1>2, <1>3, NoEntriesTyped DEF IInv, TypeOK, Tools, Places, NoStats, NoCode
<1> QED
  BY <1>2, <1>4
    DEF IInv, InRange, Placed, RatesGathered, FilesWritten, OpenedWhole, KeepsBefore,
        ExitZeroIsComplete, NoCode, Asking, CareerSteps

\* A run that is killed keeps its exit code open.
LEMMA KillInvariant == ASSUME IInv, Kill PROVE IInv'
<1>1. Stop /\ exit' = NoCode /\ UNCHANGED <<tool, cache, disk>>
  BY DEF Kill, IInv, Placed
<1>2. ExitZeroIsComplete'
  BY <1>1 DEF ExitZeroIsComplete, NoCode
<1> QED
  BY <1>1, <1>2, StopInvariant DEF IInv, TypeOK, disk

\* The invariant does not say what Redis holds.
LEMMA ExpireInvariant == ASSUME IInv, NEW k \in Keys, Expire(k) PROVE IInv'
<1>1. TypeOK'
  BY DEF Expire, disk, IInv, TypeOK
<1> QED
  BY <1>1
    DEF Expire, disk, IInv, InRange, Placed, RatesGathered, FilesWritten, OpenedWhole,
        KeepsBefore, ExitZeroIsComplete, slug, key

\* Every step of a tool keeps the invariant.
LEMMA StepInvariant == ASSUME IInv, Step PROVE IInv'
<1>1. CASE CacheFails \/ PageFails \/ StoreFails \/ CreateFails
  BY <1>1, FailedInvariant
    DEF CacheFails, PageFails, StoreFails, CreateFails, Asking, CareerSteps
<1>2. CASE CacheHit \/ CacheMiss \/ PageLoaded \/ Store
  BY <1>2, LookupInvariant
<1>3. CASE PrintStats
  <2>1. Stop /\ exit' \in {0, 1} /\ tool = "getstats" /\ UNCHANGED <<tool, cache, disk>>
    BY <1>3 DEF PrintStats, Return
  <2>2. ExitZeroIsComplete'
    BY <2>1 DEF ExitZeroIsComplete
  <2> QED
    BY <2>1, <2>2, StopInvariant DEF IInv, TypeOK, disk
<1>4. CASE WriteRatesFails
  <2>1. Stop /\ exit' = 1 /\ UNCHANGED <<tool, cache, disk>>
    BY <1>4 DEF WriteRatesFails, Return
  <2>2. ExitZeroIsComplete'
    BY <2>1 DEF ExitZeroIsComplete
  <2> QED
    BY <2>1, <2>2, StopInvariant DEF IInv, TypeOK, disk
<1>5. CASE OpenRates \/ NextRates \/ SetRates \/ TruncateRates \/ WriteRates
  BY <1>5, OpenRatesInvariant, NextRatesInvariant, SetRatesInvariant, TruncateRatesInvariant,
     WriteRatesInvariant
<1>6. CASE NextCareer \/ ClassicPage \/ CareerJS \/ TruncateCareer \/ WriteCareer \/ EndCareer
  BY <1>6, NextCareerInvariant, CareerRequestInvariant, TruncateCareerInvariant,
     WriteCareerInvariant, EndCareerInvariant
<1> QED
  BY <1>1, <1>2, <1>3, <1>4, <1>5, <1>6 DEF Step

LEMMA NextInvariant == ASSUME IInv, [Next]_vars PROVE IInv'
<1>1. CASE Next
  BY <1>1, StartInvariant, StepInvariant, KillInvariant, ExpireInvariant DEF Next
<1>2. CASE UNCHANGED vars
  BY <1>2
    DEF vars, IInv, TypeOK, InRange, Placed, RatesGathered, FilesWritten, OpenedWhole,
        KeepsBefore, ExitZeroIsComplete, slug, key
<1> QED
  BY <1>1, <1>2

\* The invariant of the fetchers, whatever fails and whenever they are killed.
THEOREM FetchInvariant == Spec => []IInv
BY InitInvariant, NextInvariant, PTL DEF Spec

\* Type correctness of the fetchers, their caches and their files.
THEOREM FetchTypeCorrect == Spec => []TypeOK
<1>1. IInv => TypeOK
  BY DEF IInv
<1> QED
  BY <1>1, FetchInvariant, PTL

\* Exit code 0 vouches for the files, for every list of names and every history
\* of runs, kills and full disks.
THEOREM ExitZeroVouches == Spec => []ExitZeroIsComplete
<1>1. IInv => ExitZeroIsComplete
  BY DEF IInv
<1> QED
  BY <1>1, FetchInvariant, PTL

\* No step on the rates file gives up what a merged run found in it.
LEMMA StepMerges == ASSUME IInv, [Next]_vars PROVE [MergeStep]_ratesFile
<1>1. CASE TruncateRates
  <2>1. flags.merge => ratesFile.state # "torn"
    BY <1>1 DEF TruncateRates, IInv, OpenedWhole
  <2> QED
    BY <1>1, <2>1 DEF TruncateRates, MergeStep
<1>2. CASE WriteRates
  BY <1>2 DEF WriteRates, IInv, KeepsBefore, MergeStep
<1>3. CASE ~TruncateRates /\ ~WriteRates
  BY <1>3
    DEF Next, vars, disk, Start, Run, Kill, Expire, Step, CacheFails, CacheHit, CacheMiss,
        PageLoaded, PageFails, Store, StoreFails, PrintStats, OpenRates, NextRates, SetRates,
        WriteRatesFails, NextCareer, ClassicPage, CareerJS, CreateFails, TruncateCareer,
        WriteCareer, EndCareer
<1> QED
  BY <1>1, <1>2, <1>3

\* A run with -merge gives up no entry and no ratio, and never takes a torn file
\* for an empty one, for every list of names.
THEOREM MergeGivesNothingUp == Spec => MergeKeepsEntries
BY FetchInvariant, StepMerges, PTL DEF Spec, MergeKeepsEntries

-----------------------------------------------------------------------------
(* The commands: their sessions share the fetchers' files and nothing else, *)
(* and calibrateform scores each match on what was known before it.         *)

RecentOf(player, day) == RecentResultsBefore(Careers[player], day, RecentLimit)

\* While calibrateform runs, each cached entry and each match preloaded holds
\* what was known before its own day.
PreloadInv ==
  /\ phase \in {"load", "preload", "grid", "write", "exited"}
  /\ perMatch \in Seq({perMatch[k] : k \in DOMAIN perMatch})
  /\ \A entry \in DOMAIN recentOf : recentOf[entry] = RecentOf(entry[1], entry[2])
  /\ \A k \in 1 .. Len(perMatch) : perMatch[k].ok =>
       /\ perMatch[k].a = RecentOf(eligible[k].a, eligible[k].date)
       /\ perMatch[k].b = RecentOf(eligible[k].b, eligible[k].date)

SearchInv == search = "form" => PreloadInv

\* The matches of a surface depend on the surface alone.
LEMMA SurfaceStands == ASSUME surface' = surface PROVE eligible' = eligible
  BY DEF eligible

\* A sequence is one of its own values.
LEMMA SameSequence ==
  ASSUME NEW s, NEW S, s \in Seq(S)
  PROVE  s \in Seq({s[k] : k \in DOMAIN s})
  OBVIOUS

\* Nothing is preloaded when a surface begins.
LEMMA FreshPreload ==
  ASSUME phase' \in {"load", "preload", "grid", "write", "exited"},
         perMatch' = <<>>, recentOf' = <<>>
  PROVE  PreloadInv'
  BY DEF PreloadInv

\* A step that touches neither surface nor cache keeps the preload.
LEMMA SamePreload ==
  ASSUME PreloadInv, phase' \in {"load", "preload", "grid", "write", "exited"},
         UNCHANGED <<surface, preloadVars>>
  PROVE  PreloadInv'
<1>1. eligible' = eligible
  BY SurfaceStands
<1> HIDE DEF eligible
<1> QED
  BY <1>1 DEF PreloadInv, preloadVars

\* One match more: its two lookups add entries of their own day only, and its
\* results come from such entries, its own or those of an earlier match.
LEMMA PreloadAsOf ==
  ASSUME PreloadInv, Preload
  PROVE  PreloadInv'
<1> DEFINE m == eligible[Len(perMatch) + 1]
           PlayerDay(player) == <<player, m.date>>
           Looked(cash, player, found) ==
             IF PlayerDay(player) \in DOMAIN cash \/ ~found THEN cash
             ELSE [k \in DOMAIN cash \cup {PlayerDay(player)} |->
                     IF k \in DOMAIN cash THEN cash[k] ELSE RecentOf(player, m.date)]
           Good(cash) == \A entry \in DOMAIN cash : cash[entry] = RecentOf(entry[1], entry[2])
<1>1. PICK foundA, foundB \in BOOLEAN :
        LET both == Looked(Looked(recentOf, m.a, foundA), m.b, foundB)
            Of(player) == IF PlayerDay(player) \in DOMAIN both THEN both[PlayerDay(player)] ELSE <<>>
        IN  /\ recentOf' = both
            /\ perMatch' = Append(perMatch, [a |-> Of(m.a), b |-> Of(m.b),
                                             ok |-> {PlayerDay(m.a), PlayerDay(m.b)} \subseteq DOMAIN both])
  BY DEF Preload, RecentOf
<1>2. ASSUME NEW cash, Good(cash), NEW player, NEW found \in BOOLEAN
      PROVE  Good(Looked(cash, player, found))
  BY <1>2
<1> DEFINE both == Looked(Looked(recentOf, m.a, foundA), m.b, foundB)
           Of(player) == IF PlayerDay(player) \in DOMAIN both THEN both[PlayerDay(player)] ELSE <<>>
           entry == [a |-> Of(m.a), b |-> Of(m.b),
                     ok |-> {PlayerDay(m.a), PlayerDay(m.b)} \subseteq DOMAIN both]
<1>3. Good(both)
  <2>1. Good(recentOf)
    BY DEF PreloadInv
  <2> HIDE DEF Looked, Good
  <2> QED BY <1>2, <2>1
<1>4. recentOf' = both /\ perMatch' = Append(perMatch, entry)
  BY <1>1
<1>5. entry.ok => entry.a = RecentOf(m.a, m.date) /\ entry.b = RecentOf(m.b, m.date)
  <2> HIDE DEF both
  <2> QED BY <1>3
<1>6. eligible' = eligible /\ phase' = phase
  BY SurfaceStands DEF Preload, inputs
<1> HIDE DEF m, both, entry, Looked
<1> DEFINE S == {perMatch[k] : k \in DOMAIN perMatch}
<1>7. perMatch \in Seq(S)
  BY DEF PreloadInv
<1> HIDE DEF S
<1>8. /\ perMatch' \in Seq(S \cup {entry})
      /\ Len(perMatch') = Len(perMatch) + 1
      /\ \A k \in 1 .. Len(perMatch) : perMatch'[k] = perMatch[k]
      /\ perMatch'[Len(perMatch) + 1] = entry
  BY <1>4, <1>7
<1>9. perMatch' \in Seq({perMatch'[k] : k \in DOMAIN perMatch'})
  BY <1>8, SameSequence
<1>10. ASSUME NEW k \in 1 .. Len(perMatch'), perMatch'[k].ok
       PROVE  /\ perMatch'[k].a = RecentOf(eligible[k].a, eligible[k].date)
              /\ perMatch'[k].b = RecentOf(eligible[k].b, eligible[k].date)
  <2>1. CASE k = Len(perMatch) + 1
    BY <1>5, <1>8, <1>10, <2>1 DEF m
  <2>2. CASE k # Len(perMatch) + 1
    <3>1. k \in 1 .. Len(perMatch)
      BY <1>7, <1>8, <2>2
    <3> QED BY <1>8, <1>10, <3>1 DEF PreloadInv
  <2> QED BY <2>1, <2>2
<1>11. Good(recentOf')
  BY <1>3, <1>4
<1> QED
  BY <1>6, <1>9, <1>10, <1>11 DEF PreloadInv

\* A surface that is done leaves nothing preloaded.
LEMMA SurfaceDoneKeepsPreload ==
  ASSUME NEW sorted, SurfaceDone(sorted), search = "form"
  PROVE  PreloadInv'
<1>1. phase' \in {"write", "preload"}
  BY DEF SurfaceDone, FirstPhase
<1>2. perMatch' = <<>> /\ recentOf' = <<>>
  BY DEF SurfaceDone, Begin
<1> QED
  BY <1>1, <1>2, FreshPreload

\* The steps of the grid leave the preload alone.
LEMMA GridKeepsPreload ==
  ASSUME PreloadInv, NEW p \in Points, calibrationTask(p)
  PROVE  PreloadInv'
<1>1. UNCHANGED <<phase, surface, preloadVars>>
  BY DEF calibrationTask, Evaluate, EvaluateFails, RecordError
<1> QED
  BY <1>1, SamePreload DEF PreloadInv

\* The steps of the main goroutine.
LEMMA MainKeepsPreload ==
  ASSUME search = "form", PreloadInv, calibrationMain
  PROVE  PreloadInv'
<1>1. CASE Load
  BY <1>1, SamePreload DEF Load, Exit, FirstPhase
<1>2. CASE Preload
  BY <1>2, PreloadAsOf
<1>3. CASE PreloadEnds \/ Launch \/ AcquireFails
  <2>1. UNCHANGED <<surface, preloadVars>> /\ phase' \in {"grid", "exited"}
    BY <1>3 DEF PreloadEnds, Launch, AcquireFails, Exit
  <2> QED BY <2>1, SamePreload
<1>4. CASE Wait
  <2>1. CASE stopped
    BY <1>4, <2>1, SamePreload DEF Wait, Exit
  <2>2. CASE ~stopped
    BY <1>4, <2>2, SurfaceDoneKeepsPreload DEF Wait
  <2> QED BY <2>1, <2>2
<1>5. CASE AlphaMatch \/ AlphaDone \/ SortAlphas
  BY <1>5 DEF AlphaMatch, AlphaDone, SortAlphas, PreloadInv
<1>6. CASE WriteReport
  BY <1>6, SamePreload DEF WriteReport, Exit
<1> QED
  BY <1>1, <1>2, <1>3, <1>4, <1>5, <1>6 DEF calibrationMain

LEMMA SearchAtStart == ASSUME CommandsInit PROVE SearchInv
<1>1. search = "form" => phase = "load" /\ perMatch = <<>> /\ recentOf = <<>>
  BY DEF CommandsInit, calibrationInit, calibrationIdle
<1> QED
  BY <1>1 DEF SearchInv, PreloadInv

LEMMA SearchStep == ASSUME SearchInv, [CommandsNext]_commandVars PROVE SearchInv'
<1> SUFFICES ASSUME search' = "form"
             PROVE  PreloadInv'
  BY DEF SearchInv
<1>1. CASE UNCHANGED calibrationVars
  BY <1>1, SamePreload DEF SearchInv, PreloadInv, calibrationVars, inputs
<1>2. CASE SearchSession
  <2>1. search = "form"
    <3>1. UNCHANGED inputs
      BY <1>2 DEF SearchSession, calibrationNext, calibrationMain, calibrationTask, Load,
                  Preload, PreloadEnds, Launch, AcquireFails, Wait, AlphaMatch, AlphaDone,
                  SortAlphas, WriteReport, Evaluate, EvaluateFails, RecordError
    <3> QED BY <3>1 DEF inputs
  <2> QED
    BY <1>2, <2>1, MainKeepsPreload, GridKeepsPreload DEF SearchSession, calibrationNext, SearchInv
<1> QED
  BY <1>1, <1>2 DEF CommandsNext, FetchSession, JoinSession, AdjustSession, commandVars

\* What is preloaded for a match is what was known before its day, whatever
\* the matches, the careers, the limit and the lookups that fail.
THEOREM PreloadsAreAsOf == CommandsSpec => []PreloadedIsAsOf
<1>1. SearchInv => PreloadedIsAsOf
  BY DEF SearchInv, PreloadInv, PreloadedIsAsOf, RecentOf
<1> QED
  BY <1>1, SearchAtStart, SearchStep, PTL DEF CommandsSpec

\* A session of the fetchers among the commands is one of the fetchers.
THEOREM CommandsFetch == CommandsSpec => Spec
<1>1. CommandsInit => Init
  BY DEF CommandsInit
<1>2. [CommandsNext]_commandVars => [Next]_vars
  BY DEF CommandsNext, FetchSession, JoinSession, SearchSession, AdjustSession, commandVars, fetchVars
<1> QED
  BY <1>1, <1>2, PTL DEF CommandsSpec, Spec

-----------------------------------------------------------------------------
(* No look-ahead.  Newest first gives each result a place, its rank among   *)
(* those it is sorted with; results struck from the list, of the day or     *)
(* after it, leave the ranks of the results before the day as they were.    *)

\* The place of p among the elements of S in the order R.
Place(S, R, p) == Cardinality({q \in S : <<q, p>> \in R})

\* R orders S.
TotalOrder(S, R) ==
  /\ \A p \in S : <<p, p>> \in R
  /\ \A p, q \in S : <<p, q>> \in R \/ <<q, p>> \in R
  /\ \A p, q \in S : <<p, q>> \in R /\ <<q, p>> \in R => p = q
  /\ \A p, q, r \in S : <<p, q>> \in R /\ <<q, r>> \in R => <<p, r>> \in R

\* The places are those of a list of all of S.
EachAPlace(S, R) ==
  /\ Cardinality(S) \in Nat
  /\ \A p \in S : Place(S, R, p) \in 1 .. Cardinality(S)
  /\ \A p, q \in S : Place(S, R, p) = Place(S, R, q) => p = q
  /\ \A k \in 1 .. Cardinality(S) : \E p \in S : Place(S, R, p) = k

\* In a total order of a finite set every place is taken, and by one element.
LEMMA PlacesTaken ==
  ASSUME NEW S, NEW R, IsFiniteSet(S), TotalOrder(S, R)
  PROVE  EachAPlace(S, R)
<1> USE DEF TotalOrder
<1> DEFINE Below(p) == {q \in S : <<q, p>> \in R}
           n == Cardinality(S)
           f == [p \in S |-> Place(S, R, p)]
<1>1. n \in Nat
  BY FS_CardinalityType
<1>2. \A p \in S : IsFiniteSet(Below(p)) /\ Cardinality(Below(p)) \in Nat /\ Cardinality(Below(p)) <= n
  <2> SUFFICES ASSUME NEW p \in S
               PROVE  IsFiniteSet(Below(p)) /\ Cardinality(Below(p)) \in Nat /\ Cardinality(Below(p)) <= n
    OBVIOUS
  <2>1. Below(p) \in SUBSET S
    OBVIOUS
  <2> QED BY <2>1, FS_Subset, FS_CardinalityType
<1>3. \A p \in S : Place(S, R, p) \in 1 .. n
  <2> SUFFICES ASSUME NEW p \in S
               PROVE  Place(S, R, p) \in 1 .. n
    OBVIOUS
  <2>1. Below(p) # {}
    OBVIOUS
  <2>2. Cardinality(Below(p)) # 0
    BY <1>2, <2>1, FS_EmptySet
  <2> QED BY <1>1, <1>2, <2>2 DEF Place
<1>4. ASSUME NEW p \in S, NEW q \in S, Place(S, R, p) = Place(S, R, q), <<p, q>> \in R
      PROVE  p = q
  <2>1. Below(p) \in SUBSET Below(q)
    BY <1>4
  <2>2. Cardinality(Below(p)) = Cardinality(Below(q))
    BY <1>4 DEF Place
  <2>3. Below(p) = Below(q)
    BY <1>2, <2>1, <2>2, FS_Subset
  <2>4. <<q, p>> \in R
    BY <2>3
  <2> QED BY <1>4, <2>4
<1>5. \A p, q \in S : Place(S, R, p) = Place(S, R, q) => p = q
  BY <1>4
<1> HIDE DEF n
<1>6. f \in Injection(S, 1 .. n)
  BY <1>3, <1>5 DEF Injection, IsInjective
<1>7. IsFiniteSet(1 .. n) /\ Cardinality(1 .. n) = n
  BY <1>1, FS_Interval
<1>8. f \in Surjection(S, 1 .. n)
  BY <1>6, <1>7, FS_Injection DEF n
<1>9. \A k \in 1 .. n : \E p \in S : Place(S, R, p) = k
  BY <1>8 DEF Surjection
<1> QED BY <1>1, <1>3, <1>5, <1>9 DEF n, EachAPlace

\* What a career list holds.
Results == [date : Int, dr : [n : Int, d : Int]]

\* The places of the results, newest first.
Rank(results, positions, p) == Cardinality({q \in positions : Newer(results, q, p)})

\* Newest first is such an order, older positions first within a day.
LEMMA Ranks ==
  ASSUME NEW s \in Seq(Results), NEW S \in SUBSET (1 .. Len(s))
  PROVE  /\ IsFiniteSet(S) /\ Cardinality(S) \in Nat
         /\ \A p \in S : Rank(s, S, p) \in 1 .. Cardinality(S)
         /\ \A p, q \in S : Rank(s, S, p) = Rank(s, S, q) => p = q
         /\ \A k \in 1 .. Cardinality(S) : \E p \in S : Rank(s, S, p) = k
<1> DEFINE R == {e \in S \X S : Newer(s, e[1], e[2])}
<1>1. IsFiniteSet(S)
  <2>1. IsFiniteSet(1 .. Len(s))
    BY FS_Interval
  <2> QED BY <2>1, FS_Subset
<1>2. \A p \in S : s[p].date \in Int /\ p \in Int
  <2>1. \A p \in S : p \in 1 .. Len(s)
    OBVIOUS
  <2>2. \A p \in 1 .. Len(s) : s[p] \in Results /\ p \in Int
    OBVIOUS
  <2> QED BY <2>1, <2>2 DEF Results
<1>3. \A p, q \in S : <<p, q>> \in R <=> Newer(s, p, q)
  OBVIOUS
<1>4. /\ \A p \in S : Newer(s, p, p)
      /\ \A p, q \in S : Newer(s, p, q) \/ Newer(s, q, p)
      /\ \A p, q \in S : Newer(s, p, q) /\ Newer(s, q, p) => p = q
      /\ \A p, q, r \in S : Newer(s, p, q) /\ Newer(s, q, r) => Newer(s, p, r)
  BY <1>2 DEF Newer
<1>5. \A p \in S : Place(S, R, p) = Rank(s, S, p)
  <2> SUFFICES ASSUME NEW p \in S
               PROVE  Place(S, R, p) = Rank(s, S, p)
    OBVIOUS
  <2>1. {q \in S : <<q, p>> \in R} = {q \in S : Newer(s, q, p)}
    BY <1>3
  <2> QED BY <2>1 DEF Place, Rank
<1> HIDE DEF R
<1>6. TotalOrder(S, R)
  BY <1>3, <1>4 DEF TotalOrder
<1>7. EachAPlace(S, R)
  BY <1>1, <1>6, PlacesTaken
<1> QED BY <1>1, <1>5, <1>7 DEF EachAPlace

\* The result at a place, and the results by their places.
PlaceOf(s, S, k) == s[CHOOSE p \in S : Rank(s, S, p) = k]

LEMMA NewestPlaces ==
  ASSUME NEW s, NEW S
  PROVE  NewestOf(s, S) = [k \in 1 .. Cardinality(S) |-> PlaceOf(s, S, k)]
  BY DEF NewestOf, PlaceOf, Rank

\* A list that leaves out results other than those at S, and keeps the order,
\* gives the same results newest first.
LEMMA Struck ==
  ASSUME NEW s \in Seq(Results), NEW kept \in SUBSET (1 .. Len(s)), NEW S \in SUBSET kept,
         NEW g \in [1 .. Cardinality(kept) -> kept],
         \A j, k \in DOMAIN g : j < k => g[j] < g[k]
  PROVE  LET t == [k \in DOMAIN g |-> s[g[k]]]
         IN  NewestOf(t, {k \in DOMAIN g : g[k] \in S}) = NewestOf(s, S)
<1> DEFINE m == Cardinality(kept)
           t == [k \in DOMAIN g |-> s[g[k]]]
           T == {k \in DOMAIN g : g[k] \in S}
<1>1. IsFiniteSet(kept) /\ m \in Nat
  BY Ranks
<1>2. DOMAIN g = 1 .. m
  OBVIOUS
<1> HIDE DEF m
<1>12. \A p \in kept : p \in Int /\ p \in 1 .. Len(s)
  OBVIOUS
<1>13. \A j \in 1 .. m : g[j] \in kept
  BY <1>2
<1>14. \A j \in 1 .. m : g[j] \in Int
  BY <1>12, <1>13
<1>3. \A j, k \in 1 .. m : j <= k <=> g[j] <= g[k]
  <2> SUFFICES ASSUME NEW j \in 1 .. m, NEW k \in 1 .. m
               PROVE  j <= k <=> g[j] <= g[k]
    OBVIOUS
  <2>1. g[j] \in Int /\ g[k] \in Int /\ j \in Int /\ k \in Int
    BY <1>14
  <2>2. (j < k => g[j] < g[k]) /\ (k < j => g[k] < g[j])
    BY <1>2
  <2> QED BY <2>1, <2>2
<1>4. \A j, k \in 1 .. m : g[j] = g[k] => j = k
  <2> SUFFICES ASSUME NEW j \in 1 .. m, NEW k \in 1 .. m, g[j] = g[k]
               PROVE  j = k
    OBVIOUS
  <2>1. g[j] \in Int /\ g[k] \in Int /\ j \in Int /\ k \in Int
    BY <1>14
  <2>2. j <= k /\ k <= j
    BY <1>3, <2>1
  <2> QED BY <2>1, <2>2
<1>5. \A p \in kept : \E k \in 1 .. m : g[k] = p
  <2>1. g \in Injection(1 .. m, kept)
    BY <1>4 DEF Injection, IsInjective, m
  <2>2. IsFiniteSet(1 .. m) /\ Cardinality(1 .. m) = m
    BY <1>1, FS_Interval
  <2>3. g \in Surjection(1 .. m, kept)
    BY <1>1, <2>1, <2>2, FS_Injection DEF m
  <2> QED BY <2>3 DEF Surjection
<1>6. t \in Seq(Results) /\ T \in SUBSET (1 .. Len(t))
  <2>1. \A k \in 1 .. m : s[g[k]] \in Results
    <3>1. \A p \in 1 .. Len(s) : s[p] \in Results
      BY LenProperties
    <3> QED BY <1>12, <1>13, <3>1
  <2>2. t \in [1 .. m -> Results]
    BY <1>2, <2>1
  <2>3. t \in Seq(Results)
    <3> HIDE DEF t
    <3> QED BY <1>1, <2>2, SeqDef
  <2>4. DOMAIN t = 1 .. m
    BY <2>2
  <2>5. Len(t) = m
    BY ONLY <1>1, <2>3, <2>4, LenProperties
  <2> QED BY <1>2, <2>3, <2>5
<1>7. \A j, k \in T : Newer(t, j, k) <=> Newer(s, g[j], g[k])
  BY <1>2, <1>3 DEF Newer
\* g maps the positions before k to those before g[k].
<1>8. ASSUME NEW k \in T
      PROVE  Rank(t, T, k) = Rank(s, S, g[k])
  <2> DEFINE A == {j \in T : Newer(t, j, k)}
             B == {q \in S : Newer(s, q, g[k])}
             h == [j \in A |-> g[j]]
  <2>1. \A j \in A : h[j] \in B
    BY <1>7
  <2>2. \A r, j \in A : h[r] = h[j] => r = j
    BY <1>2, <1>4
  <2>3. \A q \in B : \E j \in A : h[j] = q
    BY <1>2, <1>5, <1>7
  <2>4. h \in Bijection(A, B)
    BY <2>1, <2>2, <2>3 DEF Bijection, Injection, Surjection, IsInjective
  <2>5. IsFiniteSet(A)
    <3>1. A \in SUBSET T /\ IsFiniteSet(T)
      BY <1>6, Ranks
    <3> QED BY <3>1, FS_Subset
  <2> HIDE DEF A, B, h
  <2>6. Cardinality(A) = Cardinality(B)
    BY <2>4, <2>5, FS_Bijection DEF ExistsBijection
  <2> QED BY <2>6 DEF A, B, Rank
<1>9. Cardinality(T) = Cardinality(S)
  <2> DEFINE h == [j \in T |-> g[j]]
  <2>1. h \in Bijection(T, S)
    BY <1>2, <1>4, <1>5 DEF Bijection, Injection, Surjection, IsInjective
  <2>2. IsFiniteSet(T)
    BY <1>6, Ranks
  <2> HIDE DEF T, h
  <2> QED BY <2>1, <2>2, FS_Bijection DEF ExistsBijection
<1>10. ASSUME NEW k \in 1 .. Cardinality(S)
       PROVE  t[CHOOSE j \in T : Rank(t, T, j) = k] = s[CHOOSE p \in S : Rank(s, S, p) = k]
  <2> DEFINE j == CHOOSE j \in T : Rank(t, T, j) = k
             p == CHOOSE p \in S : Rank(s, S, p) = k
  <2>1. j \in T /\ Rank(t, T, j) = k
    <3> HIDE DEF t, T
    <3>1. \A l \in 1 .. Cardinality(T) : \E r \in T : Rank(t, T, r) = l
      BY <1>6, Ranks
    <3>2. \E r \in T : Rank(t, T, r) = k
      BY <1>9, <3>1
    <3> QED BY <3>2
  <2>2. p \in S /\ Rank(s, S, p) = k
    BY Ranks
  <2>3. g[j] \in S /\ Rank(s, S, g[j]) = k
    BY <1>8, <2>1
  <2>4. g[j] = p
    BY <2>2, <2>3, Ranks
  <2> QED BY <2>1, <2>4
<1>11. NewestOf(t, T) = NewestOf(s, S)
  <2>1. \A k \in 1 .. Cardinality(S) : PlaceOf(t, T, k) = PlaceOf(s, S, k)
    BY <1>10 DEF PlaceOf
  <2> HIDE DEF t, T
  <2>2. /\ NewestOf(t, T) = [k \in 1 .. Cardinality(T) |-> PlaceOf(t, T, k)]
        /\ NewestOf(s, S) = [k \in 1 .. Cardinality(S) |-> PlaceOf(s, S, k)]
    BY NewestPlaces
  <2> QED BY <1>9, <2>1, <2>2
<1> QED BY <1>11

\* kept holds the positions of all results before a day, and g lists it in order.
Strikes(g, kept, s, day) ==
  /\ kept \in SUBSET (1 .. Len(s))
  /\ \A p \in 1 .. Len(s) : s[p].date < day => p \in kept
  /\ g \in [1 .. Cardinality(kept) -> kept]
  /\ \A j, k \in DOMAIN g : j < k => g[j] < g[k]

\* The elements of s at the positions g lists.
At(s, g) == [k \in DOMAIN g |-> s[g[k]]]

\* The results before a day are the same in a list that keeps them all in
\* their order.
LEMMA SameBefore ==
  ASSUME NEW s \in Seq(Results), NEW kept, NEW g, NEW day, NEW limit, Strikes(g, kept, s, day)
  PROVE  RecentResultsBefore(At(s, g), day, limit) = RecentResultsBefore(s, day, limit)
<1> USE DEF Strikes
<1> DEFINE t == [k \in DOMAIN g |-> s[g[k]]]
           S == {p \in 1 .. Len(s) : s[p].date < day}
           T == {k \in 1 .. Len(t) : t[k].date < day}
<1>1. NewestOf(t, {k \in DOMAIN g : g[k] \in S}) = NewestOf(s, S)
  <2>1. S \in SUBSET kept
    OBVIOUS
  <2> HIDE DEF S
  <2> QED BY <2>1, Struck
<1>2. 1 .. Len(t) = DOMAIN g
  <2>1. Cardinality(kept) \in Nat
    BY Ranks
  <2>2. DOMAIN t = 1 .. Cardinality(kept)
    OBVIOUS
  <2>3. t = [k \in DOMAIN t |-> t[k]]
    OBVIOUS
  <2> HIDE DEF t
  <2> DEFINE V == {t[k] : k \in DOMAIN t}
  <2>4. t \in [1 .. Cardinality(kept) -> V]
    BY <2>2, <2>3
  <2> HIDE DEF V
  <2>5. t \in Seq(V)
    BY <2>1, <2>4, SeqDef
  <2>6. DOMAIN t = 1 .. Len(t)
    BY <2>5, LenProperties
  <2> QED BY <2>2, <2>6
<1>3. T = {k \in DOMAIN g : g[k] \in S}
  BY <1>2
<1> HIDE DEF t, S, T
<1>4. NewestOf(t, T) = NewestOf(s, S)
  BY <1>1, <1>3
<1> QED BY <1>4 DEF RecentResultsBefore, At, t, S, T

\* The rates a match is judged by: none without a season.
RatesAsOf(baseline) ==
  IF baseline.err THEN ErrNoSeasonData
  ELSE playerRatesWithForm(baseline, profile.stats.recent, profile.date,
         FormOptionsFromEnv(profile.surfaceEnv, profile.env), profile.env)

\* What the rates of a past match were computed from.
AdjustInv ==
  profile.kind = "historical" =>
    /\ profile \in Profiles
    /\ adjusted # NoRates =>
         adjusted = RatesAsOf(SeasonBaseline(profile.stats, YearOf(profile.date) - 1, profile.env))

\* Nothing is adjusted before a question is asked.
LEMMA AdjustAtStart == ASSUME CommandsInit PROVE AdjustInv
BY DEF CommandsInit, adjustIdle, adjustInit, AdjustInv, NoProfile

\* The rates of a past match come from its player's career list, whole.
LEMMA AdjustStep == ASSUME AdjustInv, [CommandsNext]_commandVars PROVE AdjustInv'
<1>1. CASE UNCHANGED formVars
  BY <1>1 DEF AdjustInv, formVars, RatesAsOf
<1>2. CASE AdjustLive
  BY <1>2 DEF AdjustLive, AdjustInv
<1>3. CASE AdjustAsOf
  BY <1>3 DEF AdjustAsOf, AdjustInv, RatesAsOf
<1> QED
  BY <1>1, <1>2, <1>3 DEF CommandsNext, FetchSession, JoinSession, SearchSession, AdjustSession,
                          AdjustNext, commandVars

\* No match is judged by a result of its day or after it, whatever the career
\* list, its order, the tuning and the environment.
THEOREM NothingAhead == CommandsSpec => []NoLookAhead
<1>1. ASSUME AdjustInv
      PROVE  NoLookAhead
  <2> DEFINE recent == profile.stats.recent
             baseline == SeasonBaseline(profile.stats, YearOf(profile.date) - 1, profile.env)
             opts == FormOptionsFromEnv(profile.surfaceEnv, profile.env)
             Rates(list) == playerRatesWithForm(baseline, list, profile.date, opts, profile.env)
  <2> SUFFICES ASSUME Adjusted, profile.kind = "historical",
                      NEW kept \in SUBSET (1 .. Len(recent)),
                      \A p \in 1 .. Len(recent) : recent[p].date < profile.date => p \in kept,
                      NEW g \in [1 .. Cardinality(kept) -> kept],
                      \A j, k \in DOMAIN g : j < k => g[j] < g[k]
               PROVE  adjusted = Rates([k \in DOMAIN g |-> recent[g[k]]])
    BY DEF NoLookAhead
  <2>1. recent \in Seq(Results)
    BY <1>1, ProfilesAssumption DEF AdjustInv, Results
  <2>2. adjusted = RatesAsOf(baseline)
    BY <1>1 DEF AdjustInv, Adjusted
  <2>3. ~baseline.err
    BY <2>2 DEF RatesAsOf, Adjusted, ErrNoSeasonData
  <2>4. adjusted = Rates(recent)
    BY <2>2, <2>3 DEF RatesAsOf
  <2>5. Strikes(g, kept, recent, profile.date)
    BY DEF Strikes
  <2> HIDE DEF recent, baseline, opts
  <2>6. \A limit : RecentResultsBefore(At(recent, g), profile.date, limit)
                     = RecentResultsBefore(recent, profile.date, limit)
    BY ONLY <2>1, <2>5, SameBefore
  <2>7. Rates(At(recent, g)) = Rates(recent)
    BY <2>6 DEF playerRatesWithForm
  <2> QED BY <2>4, <2>7 DEF At
<1> QED
  BY <1>1, AdjustAtStart, AdjustStep, PTL DEF CommandsSpec

-----------------------------------------------------------------------------
(* The report of a search: what each row was scored on, with what, and from *)
(* which stream, however the goroutines of the grid came and went.          *)

OnSamePool(rows) == \A k \in DOMAIN rows : rows[k].scoredOn = rows[1].scoredOn
Own(row) == /\ \A f \in Tuned : row.with[f] = combos[row.at][f]
            /\ row = Metrics(row.at, row.with, score[row.at], row.scoredOn)

\* What ReportIsReproducible says of the rows of one surface.
RowsRight(rows) ==
  /\ \A k \in DOMAIN rows : rows[1].accuracy >= rows[k].accuracy
  /\ search = "form" =>
       /\ OnSamePool(rows)
       /\ {rows[k].at : k \in DOMAIN rows} = Points
       /\ \A k \in DOMAIN rows : Own(rows[k])
  /\ search = "alpha" =>
       /\ ~useForm => OnSamePool(rows)
       /\ {rows[k].at : k \in DOMAIN rows} = alphas[1] .. alphas[2]

InputsInv ==
  /\ search \in {"none", "form", "alpha"}
  /\ search = "form" => combos = FormGridCombos(Bounds)
  /\ score \in [Points -> Scores] \/ search = "none"
  /\ search = "alpha" => alphas \in AlphaRanges

\* The surfaces done, in the order of the pools.
ReportInv ==
  /\ report \in Seq({report[s] : s \in DOMAIN report})
  /\ \A s \in 1 .. Len(report) : RowsRight(report[s])
  /\ surface \in Nat /\ surface > 0
  /\ phase \in {"load", "preload", "grid", "alpha"} =>
       /\ surface <= Len(Pools) /\ Len(report) = surface - 1
       /\ searchExit # 0
  /\ phase = "write" => Len(report) = Len(Pools) /\ searchExit # 0
  /\ searchExit = 0 => Len(report) = Len(Pools)

\* Unless a goroutine has failed, every point that has ended has the metrics
\* of its own index on the matches preloaded.
GridInv ==
  /\ phase \in {"load", "preload", "grid", "write", "exited"}
  /\ phase \in {"load", "preload"} => task = NoTasks /\ grid = NoGrid
  /\ phase = "grid" =>
       /\ task \in [Points -> {"none", "running", "failed", "ended"}]
       /\ DOMAIN grid = Points
       /\ \A p \in Points : task[p] = "ended" /\ ~stopped => grid[p] = FormMetrics(p)

\* One alpha after the other; without form each on all the matches.
AlphaInv ==
  /\ phase \in {"load", "alpha", "write", "exited"}
  /\ phase = "load" => grid = <<>> /\ perMatch = <<>>
  /\ phase = "alpha" =>
       /\ alphas[1] <= alphas[2]
       /\ perMatch \in Seq({perMatch[k] : k \in DOMAIN perMatch})
       /\ ~useForm => \A k \in 1 .. Len(perMatch) : perMatch[k].ok
       /\ grid \in Seq({grid[j] : j \in DOMAIN grid})
       /\ \A j \in 1 .. Len(grid) :
            /\ grid[j].at = alphas[1] + j - 1
            /\ grid[j].accuracy \in Nat
            /\ ~useForm => grid[j].scoredOn = 1 .. Len(eligible)

CalibrationInv ==
  /\ InputsInv /\ ReportInv
  /\ search = "none" => phase = "load" /\ searchExit = NotSearched
  /\ search = "form" => GridInv
  /\ search = "alpha" => AlphaInv

\* The rows are the same in every order.
SameRows(n, rows, sorted) ==
  /\ DOMAIN sorted = 1 .. n
  /\ \A k \in 1 .. n : \E j \in 1 .. n : sorted[k] = rows[j]
  /\ \A j \in 1 .. n : \E k \in 1 .. n : sorted[k] = rows[j]

LEMMA Reordered ==
  ASSUME NEW n \in Nat, NEW perm \in Bijection(1 .. n, 1 .. n), NEW rows,
         NEW sorted, sorted = [k \in 1 .. n |-> rows[perm[k]]]
  PROVE  SameRows(n, rows, sorted)
<1>1. /\ perm \in [1 .. n -> 1 .. n]
      /\ \A j \in 1 .. n : \E k \in 1 .. n : perm[k] = j
  BY DEF Bijection, Surjection, Injection
<1> QED BY <1>1 DEF SameRows

\* A row of a higher accuracy comes first, in either search.
LEMMA AccuracyFirst ==
  ASSUME NEW r, NEW s, r.accuracy \in Nat, s.accuracy \in Nat, r.accuracy > s.accuracy
  PROVE  FormLess(r, s) /\ AlphaLess(r, s)
<1>1. ASSUME NEW a, NEW b, a[1] < b[1], 1 \in 1 .. Len(a)
      PROVE  Lexical(a, b)
  BY <1>1 DEF Lexical
<1>2. -r.accuracy < -s.accuracy
  OBVIOUS
<1>3. FormLess(r, s)
  BY <1>1, <1>2 DEF FormLess, FormOrder
<1>4. AlphaLess(r, s)
  BY <1>1, <1>2 DEF AlphaLess
<1> QED BY <1>3, <1>4

LEMMA FormSorted ==
  ASSUME NEW n \in Nat, NEW rows, DOMAIN rows = 1 .. n,
         \A k \in 1 .. n : rows[k].accuracy \in Nat,
         NEW sorted \in sortFormMetrics(rows)
  PROVE  /\ SameRows(n, rows, sorted)
         /\ \A k \in 1 .. n : sorted[1].accuracy >= sorted[k].accuracy
<1>1. PICK perm \in Bijection(1 .. n, 1 .. n) : sorted = [k \in 1 .. n |-> rows[perm[k]]]
  BY DEF sortFormMetrics, Rearranged
<1>2. \A j, k \in 1 .. n : j < k => ~FormLess(sorted[k], sorted[j])
  BY DEF sortFormMetrics, Rearranged
<1>3. SameRows(n, rows, sorted)
  BY <1>1, Reordered
<1>4. ASSUME NEW k \in 1 .. n
      PROVE  sorted[1].accuracy >= sorted[k].accuracy
  <2>1. \A p \in 1 .. n : sorted[p].accuracy \in Nat
    <3>1. ASSUME NEW p \in 1 .. n PROVE sorted[p].accuracy \in Nat
      <4>1. PICK j \in 1 .. n : sorted[p] = rows[j]
        BY <1>3 DEF SameRows
      <4> QED BY <4>1
    <3> QED BY <3>1
  <2>2. CASE k = 1
    BY <2>1, <2>2
  <2>3. CASE k # 1
    <3>1. 1 \in 1 .. n /\ 1 < k
      BY <2>3
    <3> QED BY <1>2, <2>1, <3>1, AccuracyFirst
  <2> QED BY <2>2, <2>3
<1> QED BY <1>3, <1>4

LEMMA AlphaSorted ==
  ASSUME NEW n \in Nat \ {0}, NEW rows, DOMAIN rows = 1 .. n,
         \A k \in 1 .. n : rows[k].accuracy \in Nat,
         NEW sorted \in sortAlphas(rows)
  PROVE  /\ SameRows(n, rows, sorted)
         /\ \A k \in 1 .. n : sorted[1].accuracy >= sorted[k].accuracy
<1>1. PICK perm \in Bijection(1 .. n, 1 .. n) : sorted = [k \in 1 .. n |-> rows[perm[k]]]
  BY DEF sortAlphas, Rearranged
<1>2. \A j, k \in 1 .. n : j < k => ~AlphaLess(sorted[k], sorted[j])
  BY DEF sortAlphas, Rearranged
<1>3. SameRows(n, rows, sorted)
  BY <1>1, Reordered
<1>4. ASSUME NEW k \in 1 .. n
      PROVE  sorted[1].accuracy >= sorted[k].accuracy
  <2>1. \A p \in 1 .. n : sorted[p].accuracy \in Nat
    <3>1. ASSUME NEW p \in 1 .. n PROVE sorted[p].accuracy \in Nat
      <4>1. PICK j \in 1 .. n : sorted[p] = rows[j]
        BY <1>3 DEF SameRows
      <4> QED BY <4>1
    <3> QED BY <3>1
  <2>2. CASE k = 1
    BY <2>1, <2>2
  <2>3. CASE k # 1
    <3>1. 1 \in 1 .. n /\ 1 < k
      BY <2>3
    <3> QED BY <1>2, <2>1, <3>1, AccuracyFirst
  <2> QED BY <2>2, <2>3
<1> QED BY <1>3, <1>4

\* The fields of a row; it is that of its own index, stream and tuning.
LEMMA RowFields ==
  ASSUME NEW at, NEW with, NEW metrics, NEW judged, metrics.accuracy \in Nat
  PROVE  LET row == Metrics(at, with, metrics, judged)
         IN  /\ row.at = at /\ row.with = with /\ row.scoredOn = judged
             /\ row.accuracy \in Nat
BY DEF Metrics

\* The options of a point set what the point tunes, a weight of zero included.
LEMMA PointTunes ==
  ASSUME combos = FormGridCombos(Bounds), NEW p \in Points, NEW f \in Tuned
  PROVE  PointOptions(p)[f] = combos[p][f]
<1> DEFINE o == [g \in DOMAIN Defaults |-> IF g \in Tuned THEN combos[p][g] ELSE 0]
<1>1. \A g \in Tuned : o[g] = combos[p][g] /\ o[g] \in Nat
  BY GridPointsAssumption, SearchAssumption
<1>2. \A g \in Tuned \ {"weightMax"} : o[g] > 0
  BY GridPointsAssumption, SearchAssumption
<1> HIDE DEF o
<1>3. \A g \in Tuned : o[g] > 0 => FirstSet(o[g], SearchEnv[g], Defaults[g]) = o[g]
  BY <1>1 DEF FirstSet
<1>4. o.weightMax = 0 => formWeightMaxExplicitZero(o, FirstSet(o["halfLife"], SearchEnv["halfLife"], Defaults["halfLife"]))
  BY <1>2, <1>3 DEF formWeightMaxExplicitZero, Tuned
<1>5. f \in DOMAIN Defaults
  BY SearchAssumption
<1>6. withDefaults(o, SearchEnv)[f] = o[f]
  <2>1. CASE f = "weightMax" /\ o[f] = 0
    BY <1>4, <1>5, <2>1 DEF withDefaults
  <2>2. CASE f = "weightMax" /\ o[f] > 0
    <3>1. ~(o.weightMax = 0)
      BY <1>1, <2>2
    <3> QED BY <1>3, <1>5, <2>2, <3>1 DEF withDefaults, formWeightMaxExplicitZero
  <2>3. CASE f # "weightMax"
    BY <1>2, <1>3, <1>5, <2>3 DEF withDefaults
  <2> QED BY <1>1, <2>1, <2>2, <2>3
<1> QED BY <1>1, <1>6 DEF PointOptions, o

\* A point's row is of the point, on the matches preloaded.
LEMMA PointRow ==
  ASSUME InputsInv, search = "form", NEW p \in Points
  PROVE  /\ FormMetrics(p).at = p /\ FormMetrics(p).scoredOn = evaluable
         /\ FormMetrics(p).accuracy \in Nat /\ Own(FormMetrics(p))
<1>1. score[p] \in Scores /\ score[p].accuracy \in Nat
  BY SearchAssumption DEF InputsInv
<1>2. FormMetrics(p) = Metrics(p, PointOptions(p), score[p], evaluable)
  BY DEF FormMetrics, gridSeed
<1>3. /\ FormMetrics(p).at = p /\ FormMetrics(p).with = PointOptions(p)
      /\ FormMetrics(p).scoredOn = evaluable /\ FormMetrics(p).accuracy \in Nat
  BY <1>1, <1>2, RowFields
<1>4. \A f \in Tuned : PointOptions(p)[f] = combos[p][f]
  BY PointTunes DEF InputsInv
<1> QED BY <1>2, <1>3, <1>4 DEF Own

-----------------------------------------------------------------------------
(* A surface done.                                                          *)

\* When every point has ended and none has failed, the sorted rows are right.
LEMMA GridIsRight ==
  ASSUME InputsInv, GridInv, search = "form", phase = "grid", ~stopped,
         \A p \in Points : task[p] = "ended",
         NEW sorted \in sortFormMetrics(grid)
  PROVE  RowsRight(sorted)
<1>1. GridPoints \in Nat /\ Points = 1 .. GridPoints
  BY GridPointsAssumption DEF Points
<1>2. DOMAIN grid = 1 .. GridPoints
  BY <1>1 DEF GridInv
<1>3. \A p \in 1 .. GridPoints :
        /\ grid[p].at = p /\ grid[p].scoredOn = evaluable
        /\ grid[p].accuracy \in Nat /\ Own(grid[p])
  BY <1>1, PointRow DEF GridInv
<1>4. /\ SameRows(GridPoints, grid, sorted)
      /\ \A k \in 1 .. GridPoints : sorted[1].accuracy >= sorted[k].accuracy
  BY <1>1, <1>2, <1>3, FormSorted
<1>5. \A k \in 1 .. GridPoints : /\ sorted[k].at \in 1 .. GridPoints
                                 /\ sorted[k].scoredOn = evaluable
                                 /\ Own(sorted[k])
  <2>1. ASSUME NEW k \in 1 .. GridPoints
        PROVE  /\ sorted[k].at \in 1 .. GridPoints
               /\ sorted[k].scoredOn = evaluable
               /\ Own(sorted[k])
    <3>1. PICK j \in 1 .. GridPoints : sorted[k] = grid[j]
      BY <1>4 DEF SameRows
    <3> HIDE DEF evaluable
    <3> QED BY <1>3, <3>1
  <2> QED BY <2>1
<1>6. OnSamePool(sorted)
  <2>1. ASSUME NEW k \in DOMAIN sorted PROVE sorted[k].scoredOn = sorted[1].scoredOn
    <3>1. k \in 1 .. GridPoints /\ 1 \in 1 .. GridPoints
      BY <1>1, <1>4 DEF SameRows
    <3>2. sorted[k].scoredOn = evaluable /\ sorted[1].scoredOn = evaluable
      BY <1>5, <3>1
    <3> QED BY <3>2
  <2> QED BY <2>1 DEF OnSamePool
<1>7. {sorted[k].at : k \in DOMAIN sorted} = Points
  <2>1. ASSUME NEW j \in 1 .. GridPoints
        PROVE  \E k \in 1 .. GridPoints : sorted[k].at = j
    <3>1. PICK k \in 1 .. GridPoints : sorted[k] = grid[j]
      BY <1>4 DEF SameRows
    <3> QED BY <1>3, <3>1
  <2> QED BY <1>1, <1>4, <1>5, <2>1 DEF SameRows
<1> QED
  BY <1>4, <1>5, <1>6, <1>7 DEF RowsRight, SameRows

\* The sorted alphas are right, without form on all matches.
LEMMA AlphasAreRight ==
  ASSUME InputsInv, AlphaInv, search = "alpha", phase = "alpha", Len(grid) = AlphaCount,
         NEW sorted \in sortAlphas(grid)
  PROVE  RowsRight(sorted)
<1> DEFINE n == AlphaCount
<1>1. /\ alphas[1] \in Int /\ alphas[2] \in Int /\ alphas[1] <= alphas[2]
      /\ n \in Nat \ {0} /\ n = alphas[2] - alphas[1] + 1
  BY SearchAssumption DEF InputsInv, AlphaInv, AlphaCount
<1> HIDE DEF n
<1>2. DOMAIN grid = 1 .. n
  BY DEF AlphaInv, n
<1>3. \A j \in 1 .. n : /\ grid[j].at = alphas[1] + j - 1
                        /\ grid[j].accuracy \in Nat
                        /\ ~useForm => grid[j].scoredOn = 1 .. Len(eligible)
  BY DEF AlphaInv, n
<1>4. /\ SameRows(n, grid, sorted)
      /\ \A k \in 1 .. n : sorted[1].accuracy >= sorted[k].accuracy
  BY <1>1, <1>2, <1>3, AlphaSorted
<1>5. ~useForm => OnSamePool(sorted)
  <2>1. ASSUME ~useForm, NEW k \in 1 .. n
        PROVE  sorted[k].scoredOn = 1 .. Len(eligible)
    <3>1. PICK j \in 1 .. n : sorted[k] = grid[j]
      BY <1>4 DEF SameRows
    <3> QED BY <1>3, <2>1, <3>1
  <2>2. 1 \in 1 .. n
    BY <1>1
  <2> QED BY <1>4, <2>1, <2>2 DEF OnSamePool, SameRows
<1>6. {sorted[k].at : k \in DOMAIN sorted} = alphas[1] .. alphas[2]
  <2>1. ASSUME NEW k \in 1 .. n PROVE sorted[k].at \in alphas[1] .. alphas[2]
    <3>1. PICK j \in 1 .. n : sorted[k] = grid[j]
      BY <1>4 DEF SameRows
    <3> QED BY <1>1, <1>3, <3>1
  <2>2. ASSUME NEW a \in alphas[1] .. alphas[2] PROVE \E k \in 1 .. n : sorted[k].at = a
    <3>1. a - alphas[1] + 1 \in 1 .. n
      BY <1>1
    <3>2. grid[a - alphas[1] + 1].at = a
      BY <1>1, <1>3, <3>1
    <3>3. PICK k \in 1 .. n : sorted[k] = grid[a - alphas[1] + 1]
      BY <1>4, <3>1 DEF SameRows
    <3> QED BY <3>2, <3>3
  <2>3. DOMAIN sorted = 1 .. n
    BY <1>4 DEF SameRows
  <2>4. {sorted[k].at : k \in 1 .. n} = alphas[1] .. alphas[2]
    BY <2>1, <2>2, Zenon
  <2> QED BY <2>3, <2>4
<1> QED
  BY <1>4, <1>5, <1>6 DEF RowsRight, SameRows

\* The inputs stand, and with them what is said of rows.
LEMMA RowsStand ==
  ASSUME UNCHANGED inputs, NEW rows
  PROVE  RowsRight(rows)' <=> RowsRight(rows)
BY DEF inputs, RowsRight, Own, OnSamePool

\* A surface is reported behind those before it.
LEMMA ReportGrows ==
  ASSUME ReportInv, phase \in {"grid", "alpha"}, UNCHANGED <<inputs, searchExit>>,
         NEW sorted, SurfaceDone(sorted), RowsRight(sorted)
  PROVE  ReportInv'
<1> DEFINE S == {report[s] : s \in DOMAIN report}
<1>1. /\ report \in Seq(S) /\ surface \in Nat /\ surface > 0
      /\ surface <= Len(Pools) /\ Len(report) = surface - 1 /\ searchExit # 0
      /\ Len(Pools) \in Nat
  BY SearchAssumption DEF ReportInv
<1>2. /\ report' = Append(report, sorted) /\ surface' = surface + 1
      /\ phase' = IF surface = Len(Pools) THEN "write" ELSE FirstPhase
      /\ searchExit' = searchExit
  BY DEF SurfaceDone
<1> HIDE DEF S
<1>3. /\ report' \in Seq(S \cup {sorted})
      /\ Len(report') = Len(report) + 1
      /\ \A s \in 1 .. Len(report) : report'[s] = report[s]
      /\ report'[Len(report) + 1] = sorted
  BY <1>1, <1>2
<1>4. report' \in Seq({report'[s] : s \in DOMAIN report'})
  BY <1>3, SameSequence
<1>5. ASSUME NEW s \in 1 .. Len(report') PROVE RowsRight(report'[s])
  <2>1. s \in 1 .. Len(report) \/ s = Len(report) + 1
    BY <1>1, <1>3
  <2> QED BY <1>3, <2>1 DEF ReportInv
<1>6. (\A s \in 1 .. Len(report) : RowsRight(report[s]))'
  BY <1>5 DEF inputs, RowsRight, Own, OnSamePool
<1>7. phase' = "write" => Len(report') = Len(Pools) /\ searchExit' # 0
  BY <1>1, <1>2, <1>3 DEF FirstPhase
<1>8. phase' \in {"load", "preload", "grid", "alpha"} =>
        surface' <= Len(Pools) /\ Len(report') = surface' - 1 /\ searchExit' # 0
  BY <1>1, <1>2, <1>3
<1>9. surface' \in Nat /\ surface' > 0 /\ searchExit' # 0
  BY <1>1, <1>2
<1> QED
  BY <1>4, <1>6, <1>7, <1>8, <1>9 DEF ReportInv

\* Other steps leave the report alone; success is only had with a full one.
LEMMA ReportStands ==
  ASSUME ReportInv, UNCHANGED <<inputs, surface, report>>,
         \/ /\ phase' = phase \/ (phase \in {"load", "preload"} /\ phase' \in {"preload", "grid", "alpha"})
            /\ searchExit' = searchExit
         \/ phase' = "exited" /\ (searchExit' # 0 \/ phase = "write")
  PROVE  ReportInv'
<1>1. \A s \in 1 .. Len(report) : RowsRight(report[s])'
  BY DEF ReportInv, inputs, RowsRight, Own, OnSamePool
<1> QED
  BY <1>1 DEF ReportInv

\* What the points have reached rests on the inputs and the preload.
LEMMA MetricsStand ==
  ASSUME UNCHANGED <<inputs, preloadVars>>, NEW p \in Points
  PROVE  FormMetrics(p)' = FormMetrics(p)
BY DEF inputs, preloadVars, FormMetrics, Metrics, PointOptions, gridSeed, evaluable

LEMMA TaskKeepsGrid ==
  ASSUME GridInv, NEW p \in Points, calibrationTask(p)
  PROVE  GridInv'
<1>1. /\ phase = "grid" /\ phase' = "grid" /\ UNCHANGED <<inputs, preloadVars>>
      /\ task \in [Points -> {"none", "running", "failed", "ended"}]
      /\ DOMAIN grid = Points
      /\ \A q \in Points : task[q] = "ended" /\ ~stopped => grid[q] = FormMetrics(q)
  BY DEF calibrationTask, Evaluate, EvaluateFails, RecordError, GridInv
<1>2. \A q \in Points : FormMetrics(q)' = FormMetrics(q)
  BY <1>1, MetricsStand
<1>3. CASE Evaluate(p)
  <2>1. /\ grid' = [grid EXCEPT ![p] = FormMetrics(p)] /\ stopped' = stopped
        /\ task' = [task EXCEPT ![p] = "ended"]
    BY <1>3 DEF Evaluate
  <2> HIDE DEF FormMetrics
  <2>2. \A q \in Points : task'[q] = "ended" /\ ~stopped' => grid'[q] = FormMetrics(q)
    BY <1>1, <2>1
  <2>3. /\ task' \in [Points -> {"none", "running", "failed", "ended"}]
        /\ DOMAIN grid' = Points
    BY <1>1, <2>1
  <2> QED BY <1>1, <1>2, <2>2, <2>3 DEF GridInv
<1>4. CASE EvaluateFails(p) \/ RecordError(p)
  <2>1. /\ grid' = grid
        /\ \/ task' = [task EXCEPT ![p] = "failed"] /\ stopped' = stopped
           \/ task' = [task EXCEPT ![p] = "ended"] /\ stopped' = TRUE
    BY <1>4 DEF EvaluateFails, RecordError
  <2>2. \A q \in Points : task'[q] = "ended" /\ ~stopped' => grid'[q] = FormMetrics(q)
    BY <1>1, <2>1
  <2>3. /\ task' \in [Points -> {"none", "running", "failed", "ended"}]
        /\ DOMAIN grid' = Points
    BY <1>1, <2>1
  <2> QED BY <1>1, <1>2, <2>2, <2>3 DEF GridInv
<1> QED BY <1>3, <1>4 DEF calibrationTask

\* Nothing has ended when a grid is made.
LEMMA FreshGrid ==
  ASSUME phase' \in {"load", "preload", "grid", "write", "exited"},
         phase' \in {"load", "preload", "grid"} => task' = NoTasks /\ grid' = NoGrid
  PROVE  GridInv'
BY DEF GridInv, NoTasks, NoGrid

LEMMA LaunchKeepsGrid ==
  ASSUME GridInv, Launch
  PROVE  GridInv'
<1>1. /\ phase = "grid" /\ phase' = "grid" /\ UNCHANGED <<inputs, preloadVars, stopped, grid>>
      /\ task' = [task EXCEPT ![launched + 1] = "running"]
      /\ task \in [Points -> {"none", "running", "failed", "ended"}]
      /\ DOMAIN grid = Points
      /\ \A q \in Points : task[q] = "ended" /\ ~stopped => grid[q] = FormMetrics(q)
  BY DEF Launch, GridInv
<1>2. \A q \in Points : FormMetrics(q)' = FormMetrics(q)
  BY <1>1, MetricsStand
<1>3. task' \in [Points -> {"none", "running", "failed", "ended"}]
  BY <1>1
<1>4. \A q \in Points : task'[q] = "ended" => task[q] = "ended"
  BY <1>1
<1> QED BY <1>1, <1>2, <1>3, <1>4 DEF GridInv

\* One match more is judged for an alpha; without form none is left out.
LEMMA AlphaMatchKeeps ==
  ASSUME AlphaInv, AlphaMatch
  PROVE  AlphaInv'
<1>1. /\ phase = "alpha" /\ alphas[1] <= alphas[2]
      /\ perMatch \in Seq({perMatch[k] : k \in DOMAIN perMatch})
      /\ ~useForm => \A k \in 1 .. Len(perMatch) : perMatch[k].ok
      /\ UNCHANGED <<alphas, useForm, surface, grid>>
  BY DEF AlphaMatch, AlphaInv, inputs, gridVars
<1>2. eligible' = eligible
  BY <1>1, SurfaceStands
<1> HIDE DEF eligible
<1>3. CASE phase' = "exited"
  BY <1>3 DEF AlphaInv
<1>4. CASE phase' # "exited"
  <2>1. PICK found \in {TRUE, ~useForm} : perMatch' = Append(perMatch, [NoMatch EXCEPT !.ok = found])
    BY <1>4 DEF AlphaMatch, Exit
  <2>2. phase' = "alpha"
    BY <1>1, <1>4 DEF AlphaMatch, Exit
  <2> DEFINE new == [NoMatch EXCEPT !.ok = found]
             S == {perMatch[k] : k \in DOMAIN perMatch}
  <2>3. ~useForm => new.ok
    BY DEF NoMatch
  <2> HIDE DEF new, S
  <2>4. perMatch \in Seq(S) /\ perMatch' = Append(perMatch, new)
    BY <1>1, <2>1 DEF new, S
  <2>5. /\ perMatch' \in Seq(S \cup {new})
        /\ Len(perMatch') = Len(perMatch) + 1
        /\ \A k \in 1 .. Len(perMatch) : perMatch'[k] = perMatch[k]
        /\ perMatch'[Len(perMatch) + 1] = new
    BY <2>4
  <2>6. perMatch' \in Seq({perMatch'[k] : k \in DOMAIN perMatch'})
    BY <2>5, SameSequence
  <2>7. ASSUME ~useForm, NEW k \in 1 .. Len(perMatch') PROVE perMatch'[k].ok
    <3>1. k \in 1 .. Len(perMatch) \/ k = Len(perMatch) + 1
      BY <2>4, <2>5
    <3> QED BY <1>1, <2>3, <2>5, <2>7, <3>1
  <2> QED BY <1>1, <1>2, <2>2, <2>6, <2>7 DEF AlphaInv
<1> QED BY <1>3, <1>4

\* An alpha is done when every match has been judged.
LEMMA AlphaDoneKeeps ==
  ASSUME AlphaInv, InputsInv, search = "alpha", AlphaDone
  PROVE  AlphaInv'
<1>1. /\ phase = "alpha" /\ alphas[1] <= alphas[2] /\ alphas[1] \in Int
      /\ grid \in Seq({grid[j] : j \in DOMAIN grid})
      /\ Len(perMatch) = Len(eligible)
      /\ ~useForm => \A k \in 1 .. Len(perMatch) : perMatch[k].ok
      /\ UNCHANGED <<alphas, useForm, surface, phase>> /\ perMatch' = <<>>
  BY SearchAssumption DEF AlphaDone, AlphaInv, InputsInv, inputs
<1>2. eligible' = eligible
  BY <1>1, SurfaceStands
<1>3. ~useForm => evaluable = 1 .. Len(eligible)
  BY <1>1 DEF evaluable
<1> HIDE DEF eligible, evaluable
<1> DEFINE with == IF useForm THEN FormOptionsFromEnv(Unset, SearchEnv) ELSE Unset
<1>4. PICK metrics \in Scores :
        grid' = Append(grid, Metrics(alphas[1] + Len(grid), with, metrics, evaluable))
  BY DEF AlphaDone
<1> HIDE DEF with
<1> DEFINE new == Metrics(alphas[1] + Len(grid), with, metrics, evaluable)
           S == {grid[j] : j \in DOMAIN grid}
<1>5. /\ new.at = alphas[1] + Len(grid) /\ new.accuracy \in Nat
      /\ ~useForm => new.scoredOn = 1 .. Len(eligible)
  BY <1>3, RowFields, SearchAssumption
<1>6. grid' = Append(grid, new)
  BY <1>4
<1> HIDE DEF new, S
<1>7. grid \in Seq(S)
  BY <1>1 DEF S
<1>8. /\ grid' \in Seq(S \cup {new})
      /\ Len(grid') = Len(grid) + 1
      /\ \A j \in 1 .. Len(grid) : grid'[j] = grid[j]
      /\ grid'[Len(grid) + 1] = new
  BY <1>6, <1>7
<1>9. grid' \in Seq({grid'[j] : j \in DOMAIN grid'})
  BY <1>8, SameSequence
<1>10. ASSUME NEW j \in 1 .. Len(grid')
       PROVE  /\ grid'[j].at = alphas[1] + j - 1
              /\ grid'[j].accuracy \in Nat
              /\ ~useForm => grid'[j].scoredOn = 1 .. Len(eligible)
  <2>1. CASE j = Len(grid) + 1
    BY <1>1, <1>5, <1>7, <1>8, <2>1
  <2>2. CASE j # Len(grid) + 1
    <3>1. j \in 1 .. Len(grid)
      BY <1>7, <1>8, <2>2
    <3> QED BY <1>1, <1>8, <3>1 DEF AlphaInv
  <2> QED BY <2>1, <2>2
<1>11. /\ perMatch' \in Seq({perMatch'[k] : k \in DOMAIN perMatch'})
       /\ \A k \in 1 .. Len(perMatch') : perMatch'[k].ok
  BY <1>1
<1> QED BY <1>1, <1>2, <1>9, <1>10, <1>11 DEF AlphaInv

\* Nothing is judged when a surface begins.
LEMMA FreshAlphas ==
  ASSUME phase' \in {"load", "alpha", "write", "exited"},
         phase' \in {"load", "alpha"} => grid' = <<>> /\ perMatch' = <<>>,
         phase' = "alpha" => alphas'[1] <= alphas'[2]
  PROVE  AlphaInv'
<1>1. phase' = "alpha" =>
        /\ perMatch' \in Seq({perMatch'[k] : k \in DOMAIN perMatch'})
        /\ grid' \in Seq({grid'[j] : j \in DOMAIN grid'})
        /\ Len(perMatch') = 0 /\ Len(grid') = 0
  OBVIOUS
<1> QED BY <1>1 DEF AlphaInv

-----------------------------------------------------------------------------
(* The steps of the searches.                                               *)

LEMMA CalibrationAtStart == ASSUME CommandsInit PROVE CalibrationInv
<1>1. /\ calibrationInit \/ calibrationIdle
      /\ surface = 1 /\ phase = "load" /\ report = <<>> /\ searchExit # 0
      /\ task = NoTasks /\ perMatch = <<>>
  <2>1. calibrationInit \/ calibrationIdle
    BY DEF CommandsInit
  <2>2. Searching # 0 /\ NotSearched # 0
    BY DEF Searching, NotSearched
  <2> QED BY <2>1, <2>2 DEF calibrationInit, calibrationIdle
<1>2. ReportInv
  BY <1>1, SearchAssumption DEF ReportInv
<1>3. InputsInv
  BY <1>1 DEF InputsInv, calibrationInit, calibrationIdle
<1>4. search = "none" => phase = "load" /\ searchExit = NotSearched
  BY <1>1 DEF calibrationInit, calibrationIdle
<1>5. search = "form" => GridInv
  BY <1>1 DEF GridInv, calibrationInit, calibrationIdle
<1>6. search = "alpha" => AlphaInv
  BY <1>1 DEF AlphaInv, calibrationInit, calibrationIdle
<1> QED BY <1>2, <1>3, <1>4, <1>5, <1>6 DEF CalibrationInv

LEMMA InputsStand == ASSUME InputsInv, UNCHANGED inputs PROVE InputsInv'
  BY DEF InputsInv, inputs

\* A search that goes on reads its files, preloads, waits, judges or ends.
LEMMA FormMainKeeps ==
  ASSUME CalibrationInv, search = "form", calibrationMain
  PROVE  GridInv' /\ ReportInv'
<1>1. /\ InputsInv /\ ReportInv /\ GridInv
      /\ phase \in {"load", "preload", "grid", "write", "exited"}
  BY DEF CalibrationInv, GridInv
<1>2. CASE Load
  <2>1. /\ UNCHANGED <<inputs, surface, report, task, grid>> /\ phase = "load"
        /\ \/ phase' = "exited" /\ searchExit' = 1
           \/ phase' = "preload" /\ searchExit' = searchExit
    BY <1>2 DEF Load, Exit, FirstPhase, gridVars
  <2>2. task = NoTasks /\ grid = NoGrid /\ NoTasks' = NoTasks /\ NoGrid' = NoGrid
    BY <1>1, <2>1 DEF GridInv, NoTasks, NoGrid
  <2> QED BY <1>1, <2>1, <2>2, FreshGrid, ReportStands
<1>3. CASE Preload
  <2>1. /\ UNCHANGED <<inputs, surface, report, task, grid, phase, searchExit>>
        /\ phase = "preload"
    BY <1>3 DEF Preload, gridVars
  <2>2. task = NoTasks /\ grid = NoGrid /\ NoTasks' = NoTasks /\ NoGrid' = NoGrid
    BY <1>1, <2>1 DEF GridInv, NoTasks, NoGrid
  <2> QED BY <1>1, <2>1, <2>2, FreshGrid, ReportStands
<1>4. CASE PreloadEnds
  <2>1. /\ UNCHANGED <<inputs, surface, report, task, grid, searchExit>>
        /\ phase = "preload" /\ phase' = "grid"
    BY <1>4 DEF PreloadEnds, gridVars
  <2>2. task = NoTasks /\ grid = NoGrid /\ NoTasks' = NoTasks /\ NoGrid' = NoGrid
    BY <1>1, <2>1 DEF GridInv, NoTasks, NoGrid
  <2> QED BY <1>1, <2>1, <2>2, FreshGrid, ReportStands
<1>5. CASE Launch
  <2>1. UNCHANGED <<inputs, surface, report, phase, searchExit>>
    BY <1>5 DEF Launch
  <2> QED BY <1>1, <1>5, <2>1, LaunchKeepsGrid, ReportStands
<1>6. CASE AcquireFails \/ (Wait /\ stopped)
  <2>1. /\ UNCHANGED <<inputs, surface, report>>
        /\ phase' = "exited" /\ searchExit' = 1
    BY <1>6 DEF AcquireFails, Wait, Exit
  <2> QED BY <1>1, <2>1, FreshGrid, ReportStands
<1>7. CASE Wait /\ ~stopped
  <2>1. PICK sorted \in sortFormMetrics(grid) : SurfaceDone(sorted)
    BY <1>7 DEF Wait
  <2>2. /\ phase = "grid" /\ UNCHANGED <<inputs, searchExit>>
        /\ \A p \in Points : task[p] = "ended"
    BY <1>7 DEF Wait
  <2>3. RowsRight(sorted)
    BY <1>1, <1>7, <2>2, GridIsRight
  <2>4. ReportInv'
    BY <1>1, <2>1, <2>2, <2>3, ReportGrows
  <2>5. phase' \in {"preload", "write"} /\ task' = NoTasks /\ grid' = NoGrid
    BY <2>1 DEF SurfaceDone, Begin, FirstPhase
  <2>6. NoTasks' = NoTasks /\ NoGrid' = NoGrid
    BY DEF NoTasks, NoGrid
  <2> QED BY <2>4, <2>5, <2>6, FreshGrid
<1>8. CASE WriteReport
  <2>1. /\ UNCHANGED <<inputs, surface, report>> /\ phase = "write" /\ phase' = "exited"
    BY <1>8 DEF WriteReport, Exit
  <2> QED BY <1>1, <2>1, FreshGrid, ReportStands
<1>9. ~(AlphaMatch \/ AlphaDone \/ SortAlphas)
  BY <1>1 DEF AlphaMatch, AlphaDone, SortAlphas
<1> QED
  BY <1>2, <1>3, <1>4, <1>5, <1>6, <1>7, <1>8, <1>9 DEF calibrationMain

LEMMA AlphaMainKeeps ==
  ASSUME CalibrationInv, search = "alpha", calibrationMain
  PROVE  AlphaInv' /\ ReportInv'
<1>1. /\ InputsInv /\ ReportInv /\ AlphaInv
      /\ phase \in {"load", "alpha", "write", "exited"}
  BY DEF CalibrationInv, AlphaInv
<1>2. CASE Load
  <2>1. /\ UNCHANGED <<inputs, surface, report, grid, perMatch>> /\ phase = "load"
        /\ \/ phase' = "exited" /\ searchExit' = 1
           \/ phase' = "alpha" /\ searchExit' = searchExit /\ alphas[1] <= alphas[2]
    BY <1>2 DEF Load, Exit, FirstPhase, gridVars, preloadVars
  <2>2. grid = <<>> /\ perMatch = <<>> /\ alphas' = alphas
    BY <1>1, <2>1 DEF AlphaInv, inputs
  <2> QED BY <1>1, <2>1, <2>2, FreshAlphas, ReportStands
<1>3. CASE AlphaMatch
  <2>1. /\ UNCHANGED <<inputs, surface, report>>
        /\ \/ phase' = "exited" /\ searchExit' = 1
           \/ UNCHANGED <<phase, searchExit>>
    BY <1>3 DEF AlphaMatch, Exit
  <2> QED BY <1>1, <1>3, <2>1, AlphaMatchKeeps, ReportStands
<1>4. CASE AlphaDone
  <2>1. UNCHANGED <<inputs, surface, report, phase, searchExit>>
    BY <1>4 DEF AlphaDone
  <2> QED BY <1>1, <1>4, <2>1, AlphaDoneKeeps, ReportStands
<1>5. CASE SortAlphas
  <2>1. PICK sorted \in sortAlphas(grid) : SurfaceDone(sorted)
    BY <1>5 DEF SortAlphas
  <2>2. /\ phase = "alpha" /\ Len(grid) = AlphaCount /\ UNCHANGED <<inputs, searchExit>>
    BY <1>5 DEF SortAlphas
  <2>3. RowsRight(sorted)
    BY <1>1, <2>2, AlphasAreRight
  <2>4. ReportInv'
    BY <1>1, <2>1, <2>2, <2>3, ReportGrows
  <2>5. phase' \in {"alpha", "write"} /\ grid' = <<>> /\ perMatch' = <<>>
    BY <2>1 DEF SurfaceDone, Begin, FirstPhase
  <2>6. alphas'[1] <= alphas'[2]
    BY <1>1, <2>2 DEF AlphaInv, inputs
  <2> QED BY <2>4, <2>5, <2>6, FreshAlphas
<1>6. CASE WriteReport
  <2>1. /\ UNCHANGED <<inputs, surface, report>> /\ phase = "write" /\ phase' = "exited"
    BY <1>6 DEF WriteReport, Exit
  <2> QED BY <1>1, <2>1, FreshAlphas, ReportStands
<1>7. ~(Preload \/ PreloadEnds \/ Launch \/ AcquireFails \/ Wait)
  BY <1>1 DEF Preload, PreloadEnds, Launch, AcquireFails, Wait
<1> QED
  BY <1>2, <1>3, <1>4, <1>5, <1>6, <1>7 DEF calibrationMain

\* Outside of a search nothing can happen to one.
LEMMA NoSearchStep == ASSUME CalibrationInv, search = "none" PROVE ~calibrationNext
<1>1. phase = "load" /\ searchExit # Searching
  BY DEF CalibrationInv, NotSearched, Searching
<1> QED
  BY <1>1 DEF calibrationNext, calibrationMain, calibrationTask, Load, Preload, PreloadEnds,
              Launch, AcquireFails, Wait, AlphaMatch, AlphaDone, SortAlphas, WriteReport,
              Evaluate, EvaluateFails, RecordError

LEMMA CalibrationStep ==
  ASSUME CalibrationInv, [CommandsNext]_commandVars
  PROVE  CalibrationInv'
<1>1. CASE UNCHANGED calibrationVars
  <2>1. InputsInv'
    BY <1>1, InputsStand DEF CalibrationInv, calibrationVars
  <2>2. ReportInv'
    BY <1>1, ReportStands DEF CalibrationInv, calibrationVars
  <2>3. search = "form" => GridInv'
    <3> SUFFICES ASSUME search = "form" PROVE GridInv'
      OBVIOUS
    <3>1. \A p \in Points : FormMetrics(p)' = FormMetrics(p)
      BY <1>1, MetricsStand DEF calibrationVars
    <3> HIDE DEF FormMetrics
    <3> QED
      BY <1>1, <3>1 DEF CalibrationInv, GridInv, calibrationVars, gridVars, NoTasks, NoGrid
  <2>4. search = "alpha" => AlphaInv'
    <3>1. eligible' = eligible
      BY <1>1, SurfaceStands DEF calibrationVars
    <3> HIDE DEF eligible
    <3> QED
      BY <1>1, <3>1 DEF CalibrationInv, AlphaInv, calibrationVars, inputs, gridVars, preloadVars
  <2> QED
    BY <1>1, <2>1, <2>2, <2>3, <2>4 DEF CalibrationInv, calibrationVars, inputs
<1>2. CASE SearchSession
  <2>1. UNCHANGED inputs
    BY <1>2 DEF SearchSession, calibrationNext, calibrationMain, calibrationTask, Load,
                Preload, PreloadEnds, Launch, AcquireFails, Wait, AlphaMatch, AlphaDone,
                SortAlphas, WriteReport, Evaluate, EvaluateFails, RecordError
  <2>2. calibrationNext /\ search' = search /\ InputsInv'
    BY <1>2, <2>1, InputsStand DEF SearchSession, CalibrationInv, inputs
  <2>3. search # "none"
    BY <2>2, NoSearchStep
  <2>4. CASE search = "form"
    <3>1. ASSUME NEW p \in Points, calibrationTask(p) PROVE GridInv' /\ ReportInv'
      <4>1. UNCHANGED <<inputs, surface, report, phase, searchExit>>
        BY <3>1 DEF calibrationTask, Evaluate, EvaluateFails, RecordError
      <4> QED BY <2>4, <3>1, <4>1, TaskKeepsGrid, ReportStands DEF CalibrationInv
    <3>2. GridInv' /\ ReportInv'
      BY <2>2, <2>4, <3>1, FormMainKeeps DEF calibrationNext
    <3> QED BY <2>2, <2>4, <3>2 DEF CalibrationInv
  <2>5. CASE search = "alpha"
    <3>1. ASSUME NEW p \in Points PROVE ~calibrationTask(p)
      BY <2>5 DEF CalibrationInv, AlphaInv, calibrationTask, Evaluate, EvaluateFails, RecordError
    <3>2. AlphaInv' /\ ReportInv'
      BY <2>2, <2>5, <3>1, AlphaMainKeeps DEF calibrationNext
    <3> QED BY <2>2, <2>5, <3>2 DEF CalibrationInv
  <2> QED BY <2>2, <2>3, <2>4, <2>5 DEF CalibrationInv, InputsInv
<1> QED
  BY <1>1, <1>2 DEF CommandsNext, FetchSession, JoinSession, AdjustSession, commandVars

\* The report of a search that succeeds is complete, comparable and that of its
\* own streams and points, for every pool, grid, number of workers and range of
\* alphas, and whichever goroutines fail.
THEOREM ReportsAreReproducible == CommandsSpec => []ReportIsReproducible
<1>1. CalibrationInv => ReportIsReproducible
  BY DEF CalibrationInv, ReportInv, ReportIsReproducible, RowsRight, Own, OnSamePool
<1> QED
  BY <1>1, CalibrationAtStart, CalibrationStep, PTL DEF CommandsSpec

-----------------------------------------------------------------------------
(* The loaders keep rows of a file by their positions.                      *)

\* The positions of a set in ascending order: each has its place.
Ascending(S) ==
  /\ IsFiniteSet(S) /\ Cardinality(S) \in Nat
  /\ \A k \in 1 .. Cardinality(S) :
       Nth(S, k) \in S /\ Cardinality({q \in S : q <= Nth(S, k)}) = k
  /\ \A p \in S : /\ Cardinality({q \in S : q <= p}) \in 1 .. Cardinality(S)
                  /\ Nth(S, Cardinality({q \in S : q <= p})) = p

LEMMA AllPlaced ==
  ASSUME NEW n \in Nat, NEW S \in SUBSET (1 .. n)
  PROVE  Ascending(S)
<1> DEFINE R == {e \in S \X S : e[1] <= e[2]}
           Spot(p) == Cardinality({q \in S : q <= p})
<1>1. IsFiniteSet(S)
  <2>1. IsFiniteSet(1 .. n)
    BY FS_Interval
  <2> QED BY <2>1, FS_Subset
<1>2. \A p \in S : p \in Int
  OBVIOUS
<1>3. \A p, q \in S : <<p, q>> \in R <=> p <= q
  OBVIOUS
<1>4. \A p \in S : Place(S, R, p) = Spot(p)
  <2> SUFFICES ASSUME NEW p \in S PROVE Place(S, R, p) = Spot(p)
    OBVIOUS
  <2>1. {q \in S : <<q, p>> \in R} = {q \in S : q <= p}
    BY <1>3
  <2> QED BY <2>1 DEF Place
<1> HIDE DEF R, Spot
<1>5. TotalOrder(S, R)
  BY <1>2, <1>3 DEF TotalOrder
<1>6. EachAPlace(S, R)
  BY <1>1, <1>5, PlacesTaken
<1>7. /\ Cardinality(S) \in Nat
      /\ \A p \in S : Spot(p) \in 1 .. Cardinality(S)
      /\ \A p, q \in S : Spot(p) = Spot(q) => p = q
      /\ \A k \in 1 .. Cardinality(S) : \E p \in S : Spot(p) = k
  BY <1>4, <1>6 DEF EachAPlace
<1>8. \A k : Nth(S, k) = CHOOSE p \in S : Spot(p) = k
  BY DEF Nth, Spot
<1>9. \A k \in 1 .. Cardinality(S) : Nth(S, k) \in S /\ Spot(Nth(S, k)) = k
  <2> SUFFICES ASSUME NEW k \in 1 .. Cardinality(S)
               PROVE  Nth(S, k) \in S /\ Spot(Nth(S, k)) = k
    OBVIOUS
  <2>1. \E p \in S : Spot(p) = k
    BY <1>7
  <2> QED BY <1>8, <2>1
<1>10. \A p \in S : Nth(S, Spot(p)) = p
  BY <1>7, <1>9
<1> QED BY <1>1, <1>7, <1>9, <1>10 DEF Ascending, Spot

\* The order of places is that of positions.
LEMMA PlacesAscend ==
  ASSUME NEW n \in Nat, NEW S \in SUBSET (1 .. n)
  PROVE  \A j, k \in 1 .. Cardinality(S) : j <= k <=> Nth(S, j) <= Nth(S, k)
<1> DEFINE Upto(p) == {q \in S : q <= p}
<1>1. Ascending(S)
  BY AllPlaced
<1>2. ASSUME NEW p \in S, NEW r \in S, p <= r
      PROVE  Cardinality(Upto(p)) <= Cardinality(Upto(r))
  <2>1. Upto(p) \in SUBSET Upto(r)
    <3>1. \A q \in S : q \in Int
      OBVIOUS
    <3>2. ASSUME NEW q \in S, q <= p PROVE q <= r
      BY <1>2, <3>1, <3>2
    <3> QED BY <3>2
  <2>2. Upto(r) \in SUBSET S
    OBVIOUS
  <2>3. IsFiniteSet(Upto(r))
    BY <1>1, <2>2, FS_Subset DEF Ascending
  <2> HIDE DEF Upto
  <2> QED BY <2>1, <2>3, FS_Subset
<1> SUFFICES ASSUME NEW j \in 1 .. Cardinality(S), NEW k \in 1 .. Cardinality(S)
             PROVE  j <= k <=> Nth(S, j) <= Nth(S, k)
  OBVIOUS
<1>3. /\ Nth(S, j) \in S /\ Cardinality(Upto(Nth(S, j))) = j
      /\ Nth(S, k) \in S /\ Cardinality(Upto(Nth(S, k))) = k
      /\ Cardinality(S) \in Nat
  BY <1>1 DEF Ascending
<1>4. Nth(S, j) \in Int /\ Nth(S, k) \in Int
  <2>1. \A q \in S : q \in Int
    OBVIOUS
  <2> QED BY <1>3, <2>1
<1> HIDE DEF Upto
<1>5. Nth(S, j) <= Nth(S, k) => j <= k
  BY <1>2, <1>3
<1>6. Nth(S, k) <= Nth(S, j) => k <= j
  BY <1>2, <1>3
<1>7. j = k => Nth(S, j) = Nth(S, k)
  OBVIOUS
<1> QED BY <1>3, <1>4, <1>5, <1>6, <1>7

\* A part of the rows kept: its places among them.
LEMMA PlacesOfPart ==
  ASSUME NEW n \in Nat, NEW S \in SUBSET (1 .. n), NEW part \in SUBSET S
  PROVE  LET T == {k \in 1 .. Cardinality(S) : Nth(S, k) \in part}
         IN  /\ Cardinality(T) = Cardinality(part)
             /\ \A k \in 1 .. Cardinality(part) : Nth(S, Nth(T, k)) = Nth(part, k)
<1> DEFINE m == Cardinality(S)
           T == {k \in 1 .. m : Nth(S, k) \in part}
<1>1. Ascending(S) /\ m \in Nat
  BY AllPlaced DEF Ascending
<1>2. Ascending(T)
  BY <1>1, AllPlaced
<1>3. Ascending(part)
  <2>1. part \in SUBSET (1 .. n)
    OBVIOUS
  <2> QED BY <2>1, AllPlaced
<1>4. \A j, k \in 1 .. m : j <= k <=> Nth(S, j) <= Nth(S, k)
  BY PlacesAscend
<1>5. \A j, k \in 1 .. m : Nth(S, j) = Nth(S, k) => j = k
  BY <1>1 DEF Ascending
<1>6. \A p \in S : \E k \in 1 .. m : Nth(S, k) = p
  BY <1>1 DEF Ascending
<1> HIDE DEF m
<1>7. Cardinality(T) = Cardinality(part)
  <2> DEFINE h == [k \in T |-> Nth(S, k)]
  <2>1. h \in Bijection(T, part)
    BY <1>5, <1>6 DEF Bijection, Injection, Surjection, IsInjective
  <2> HIDE DEF T, h
  <2> QED BY <1>2, <2>1, FS_Bijection DEF ExistsBijection, Ascending
<1>8. ASSUME NEW k \in T
      PROVE  Cardinality({j \in T : j <= k}) = Cardinality({q \in part : q <= Nth(S, k)})
  <2> DEFINE A == {j \in T : j <= k}
             B == {q \in part : q <= Nth(S, k)}
             h == [j \in A |-> Nth(S, j)]
  <2>1. \A j \in A : h[j] \in B
    BY <1>4
  <2>2. \A r, j \in A : h[r] = h[j] => r = j
    BY <1>5
  <2>3. \A q \in B : \E j \in A : h[j] = q
    BY <1>4, <1>6
  <2>4. h \in Bijection(A, B)
    BY <2>1, <2>2, <2>3 DEF Bijection, Injection, Surjection, IsInjective
  <2>5. IsFiniteSet(A)
    <3>1. A \in SUBSET T
      OBVIOUS
    <3> QED BY <1>2, <3>1, FS_Subset DEF Ascending
  <2> HIDE DEF A, B, h
  <2>6. Cardinality(A) = Cardinality(B)
    BY <2>4, <2>5, FS_Bijection DEF ExistsBijection
  <2> QED BY <2>6 DEF A, B
<1>9. ASSUME NEW k \in 1 .. Cardinality(part)
      PROVE  Nth(S, Nth(T, k)) = Nth(part, k)
  <2>1. Nth(T, k) \in T /\ Cardinality({j \in T : j <= Nth(T, k)}) = k
    BY <1>2, <1>7 DEF Ascending
  <2>2. Cardinality({q \in part : q <= Nth(S, Nth(T, k))}) = k
    BY <1>8, <2>1
  <2>3. Nth(S, Nth(T, k)) \in part
    BY <2>1
  <2> HIDE DEF T
  <2> QED BY <1>3, <2>2, <2>3 DEF Ascending
<1> QED BY <1>7, <1>9 DEF m

\* T holds the places that the positions of a part have in S.
Among(T, S, part) ==
  /\ part \in SUBSET S
  /\ T \in SUBSET (1 .. Cardinality(S))
  /\ \A k \in 1 .. Cardinality(S) : k \in T <=> Nth(S, k) \in part

\* Rows kept of rows kept are those of the file at the positions of both.
LEMMA KeptOfKept ==
  ASSUME NEW n, n \in Nat, NEW rows, NEW S \in SUBSET (1 .. n), NEW part, NEW T,
         Among(T, S, part)
  PROVE  RowsAt(RowsAt(rows, S), T) = RowsAt(rows, part)
<1> USE DEF Among
<1> DEFINE kept == RowsAt(rows, S)
<1>1. /\ Cardinality(T) = Cardinality(part)
      /\ \A k \in 1 .. Cardinality(part) : Nth(S, Nth(T, k)) = Nth(part, k)
  <2>1. T = {k \in 1 .. Cardinality(S) : Nth(S, k) \in part}
    OBVIOUS
  <2> QED BY <2>1, PlacesOfPart
<1>2. Ascending(S) /\ Ascending(T)
  <2>1. Ascending(S)
    BY AllPlaced
  <2>2. Cardinality(S) \in Nat /\ T \in SUBSET (1 .. Cardinality(S))
    BY <2>1 DEF Ascending
  <2> QED BY <2>1, <2>2, AllPlaced
<1>3. \A k \in 1 .. Cardinality(part) : kept[Nth(T, k)] = rows[Nth(part, k)]
  <2> SUFFICES ASSUME NEW k \in 1 .. Cardinality(part)
               PROVE  kept[Nth(T, k)] = rows[Nth(part, k)]
    OBVIOUS
  <2>1. Nth(T, k) \in 1 .. Cardinality(S)
    BY <1>1, <1>2 DEF Ascending
  <2>2. \A j \in 1 .. Cardinality(S) : kept[j] = rows[Nth(S, j)]
    BY DEF RowsAt
  <2> QED BY <1>1, <2>1, <2>2
<1> HIDE DEF kept
<1>4. RowsAt(kept, T) = RowsAt(rows, part)
  BY <1>1, <1>3 DEF RowsAt
<1> QED BY <1>4 DEF kept

\* What is kept is a sequence of rows of the file.
LEMMA KeptRows ==
  ASSUME NEW n \in Nat, NEW rows, NEW S \in SUBSET (1 .. n)
  PROVE  /\ Len(RowsAt(rows, S)) = Cardinality(S)
         /\ DOMAIN RowsAt(rows, S) = 1 .. Cardinality(S)
         /\ Cardinality(S) \in Nat
         /\ \A k \in 1 .. Cardinality(S) : RowsAt(rows, S)[k] = rows[Nth(S, k)] /\ Nth(S, k) \in S
<1> DEFINE kept == RowsAt(rows, S)
           V == {rows[p] : p \in S}
<1>1. Ascending(S)
  BY AllPlaced
<1>2. kept \in [1 .. Cardinality(S) -> V]
  BY <1>1 DEF RowsAt, Ascending
<1>3. \A k \in 1 .. Cardinality(S) : kept[k] = rows[Nth(S, k)] /\ Nth(S, k) \in S
  BY <1>1 DEF RowsAt, Ascending
<1>4. Cardinality(S) \in Nat
  BY <1>1 DEF Ascending
<1> HIDE DEF kept, V
<1>5. kept \in Seq(V)
  BY <1>2, <1>4, SeqDef
<1>6. DOMAIN kept = 1 .. Cardinality(S) /\ Len(kept) = Cardinality(S)
  <2>1. DOMAIN kept = 1 .. Cardinality(S)
    BY <1>2
  <2> QED BY ONLY <1>4, <1>5, <2>1, LenProperties
<1> QED BY <1>3, <1>4, <1>6 DEF kept

-----------------------------------------------------------------------------
(* The join, and the two ways from its files to a pool of matches.          *)

Counters == [written : Nat, matched : Nat, unmatched : Nat]

\* While the join runs, and when it has succeeded, the output is the rows read
\* so far with their odds, and the counters are about them.
JoinedRows ==
  /\ Len(out) = nextRow - 1 /\ nextRow - 1 <= Len(matches)
  /\ joinExit = 0 => nextRow > Len(matches)
  /\ \A p \in 1 .. Len(out) : out[p] = Joined(odds, matches[p])
  /\ joinStats \in Counters
  /\ joinStats.written = Len(out)
  /\ joinStats.matched + joinStats.unmatched = Len(out)

JoinInv ==
  /\ matches \in Seq({matches[p] : p \in DOMAIN matches})
  /\ out \in Seq({out[p] : p \in DOMAIN out})
  /\ nextRow \in Nat \ {0}
  /\ joinExit \in {Joining, 0} => JoinedRows

LEMMA JoinAtStart == ASSUME CommandsInit PROVE JoinInv
<1>1. JoinInit \/ JoinIdle
  BY DEF CommandsInit
<1>2. /\ matches \in Seq({matches[p] : p \in DOMAIN matches})
      /\ nextRow = 1 /\ out = <<>> /\ joinStats = NoJoinStats /\ joinExit # 0
  <2>1. CASE JoinInit
    BY <2>1, TablesAssumption DEF JoinInit, Joining
  <2>2. CASE JoinIdle
    BY <2>2 DEF JoinIdle, NotJoined
  <2> QED BY <1>1, <2>1, <2>2
<1>3. Len(matches) \in Nat
  BY <1>2
<1>4. JoinedRows
  BY <1>2, <1>3 DEF JoinedRows, NoJoinStats, Counters
<1> QED BY <1>2, <1>4 DEF JoinInv

\* One row more: it is written, and counted on one side.
LEMMA RowJoined ==
  ASSUME JoinInv, JoinRow
  PROVE  JoinInv'
<1> DEFINE row == Joined(odds, matches[nextRow])
           priced == row.avgW # NoOdds /\ row.avgL # NoOdds
           S == {out[p] : p \in DOMAIN out}
<1>1. /\ joinExit = Joining /\ nextRow <= Len(matches) /\ UNCHANGED <<matches, odds, joinExit>>
      /\ out' = Append(out, row) /\ nextRow' = nextRow + 1
      /\ joinStats' = [joinStats EXCEPT !.written = @ + 1,
                                !.matched = IF priced THEN @ + 1 ELSE @,
                                !.unmatched = IF priced THEN @ ELSE @ + 1]
  BY DEF JoinRow
<1>2. /\ JoinedRows /\ out \in Seq(S) /\ nextRow \in Nat \ {0} /\ Len(matches) \in Nat
      /\ matches \in Seq({matches[p] : p \in DOMAIN matches})
  BY <1>1 DEF JoinInv
<1> HIDE DEF row, S
<1>3. /\ out' \in Seq(S \cup {row}) /\ Len(out') = Len(out) + 1
      /\ \A p \in 1 .. Len(out) : out'[p] = out[p]
      /\ out'[Len(out) + 1] = row
  BY <1>1, <1>2
<1>4. out' \in Seq({out'[p] : p \in DOMAIN out'})
  BY <1>3, SameSequence
<1>5. ASSUME NEW p \in 1 .. Len(out') PROVE out'[p] = Joined(odds, matches[p])
  <2>1. p \in 1 .. Len(out) \/ (p = Len(out) + 1 /\ p = nextRow)
    BY <1>2, <1>3 DEF JoinedRows
  <2>2. CASE p \in 1 .. Len(out)
    BY <1>2, <1>3, <2>2 DEF JoinedRows
  <2>3. CASE p = Len(out) + 1 /\ p = nextRow
    BY <1>3, <2>3 DEF row
  <2> QED BY <2>1, <2>2, <2>3
<1>6. /\ joinStats' \in Counters
      /\ joinStats'.written = Len(out) + 1
      /\ joinStats'.matched + joinStats'.unmatched = Len(out) + 1
  <2> HIDE DEF priced
  <2>1. /\ joinStats \in Counters
        /\ joinStats.written = Len(out)
        /\ joinStats.matched + joinStats.unmatched = Len(out)
    BY <1>2 DEF JoinedRows
  <2>4. joinStats.written \in Nat /\ joinStats.matched \in Nat /\ joinStats.unmatched \in Nat
    BY <2>1 DEF Counters
  <2> DEFINE d == IF priced THEN joinStats.matched + 1 ELSE joinStats.matched
             e == IF priced THEN joinStats.unmatched ELSE joinStats.unmatched + 1
  <2>2. joinStats' = [joinStats EXCEPT !.written = joinStats.written + 1, !.matched = d, !.unmatched = e]
    BY <1>1
  <2>3. /\ joinStats.written + 1 \in Nat /\ d \in Nat /\ e \in Nat
        /\ d + e = joinStats.matched + joinStats.unmatched + 1
    BY <2>4
  <2> HIDE DEF d, e
  <2>5. /\ joinStats'.written = joinStats.written + 1
        /\ joinStats'.matched = d /\ joinStats'.unmatched = e
        /\ joinStats' \in Counters
    <3>1. /\ joinStats'.written = joinStats.written + 1
          /\ joinStats'.matched = d /\ joinStats'.unmatched = e
          /\ DOMAIN joinStats' = {"written", "matched", "unmatched"}
      BY <2>1, <2>2 DEF Counters
    <3>2. joinStats' = [written |-> joinStats'.written, matched |-> joinStats'.matched,
                        unmatched |-> joinStats'.unmatched]
      BY <2>1, <2>2, <3>1 DEF Counters
    <3>3. joinStats' = [written |-> joinStats.written + 1, matched |-> d, unmatched |-> e]
      BY <3>1, <3>2
    <3> QED BY <2>3, <3>1, <3>3 DEF Counters
  <2> QED BY <2>1, <2>3, <2>5
<1>7. (\A p \in 1 .. Len(out) : out[p] = Joined(odds, matches[p]))'
  <2>1. odds' = odds /\ matches' = matches
    BY <1>1
  <2> QED BY <1>5, <2>1
<1>8. Len(out') = nextRow' - 1 /\ nextRow' - 1 <= Len(matches') /\ joinExit' # 0
  BY <1>1, <1>2, <1>3 DEF JoinedRows, Joining
<1>9. JoinedRows'
  BY <1>3, <1>6, <1>7, <1>8 DEF JoinedRows
<1>10. nextRow' \in Nat \ {0} /\ matches' \in Seq({matches'[p] : p \in DOMAIN matches'})
  BY <1>1, <1>2
<1> QED BY <1>4, <1>9, <1>10 DEF JoinInv

LEMMA JoinStep == ASSUME JoinInv, [CommandsNext]_commandVars PROVE JoinInv'
<1>1. CASE UNCHANGED joinVars
  BY <1>1 DEF joinVars, JoinInv, JoinedRows
<1>2. CASE JoinRow
  BY <1>2, RowJoined
<1>3. CASE JoinFails
  <2> DEFINE S == {out[p] : p \in DOMAIN out}
  <2>1. PICK flushed \in 0 .. Len(out) : out' = SubSeq(out, 1, flushed)
    BY <1>3 DEF JoinFails
  <2>2. out \in Seq(S)
    BY DEF JoinInv
  <2> HIDE DEF S
  <2>3. out' \in Seq(S)
    BY <2>1, <2>2
  <2>4. out' \in Seq({out'[p] : p \in DOMAIN out'})
    BY <2>3, SameSequence
  <2>5. joinExit' = 1 /\ UNCHANGED <<matches, nextRow>>
    BY <1>3 DEF JoinFails
  <2> QED BY <2>4, <2>5 DEF JoinInv, Joining
<1>4. CASE JoinEnds
  <2>1. /\ joinExit = Joining /\ joinExit' = 0 /\ nextRow > Len(matches)
        /\ UNCHANGED <<matches, odds, nextRow, out, joinStats>>
    BY <1>4 DEF JoinEnds
  <2> QED BY <2>1 DEF JoinInv, JoinedRows
<1> QED
  BY <1>1, <1>2, <1>3, <1>4
     DEF CommandsNext, FetchSession, JoinSession, JoinNext, SearchSession, AdjustSession,
         commandVars

\* The join changes nothing of a row but its odds.
LEMMA JoinedKeeps ==
  ASSUME NEW rows, NEW m
  PROVE  LET row == Joined(rows, m)
         IN  /\ row.winner = m.winner /\ row.loser = m.loser /\ row.surface = m.surface
             /\ row.score = m.score /\ row.bestOf = m.bestOf /\ row.date = m.date
             /\ row.num = m.num
             /\ WithOdds(row, NoOdds, NoOdds) = WithOdds(m, NoOdds, NoOdds)
             /\ skipReason(row) = skipReason(m)
<1>1. PICK avgW, avgL : Joined(rows, m) = WithOdds(m, avgW, avgL)
  BY DEF Joined
<1>2. LET row == WithOdds(m, avgW, avgL)
      IN  /\ row.winner = m.winner /\ row.loser = m.loser /\ row.surface = m.surface
          /\ row.score = m.score /\ row.bestOf = m.bestOf /\ row.date = m.date
          /\ row.num = m.num
  BY DEF WithOdds
<1> HIDE DEF Joined
<1>3. skipReason(WithOdds(m, avgW, avgL)) = skipReason(m)
  BY <1>2 DEF skipReason, Loadable
<1>4. WithOdds(WithOdds(m, avgW, avgL), NoOdds, NoOdds) = WithOdds(m, NoOdds, NoOdds)
  BY <1>2 DEF WithOdds
<1> QED BY <1>1, <1>2, <1>3, <1>4

\* Every row is loaded, incomplete or invalid.
LEMMA LoaderAccounts ==
  ASSUME NEW rows, NEW n \in Nat, Len(rows) = n
  PROVE  LET load == LoadCalibrationMatches(rows)
         IN  Len(load.matches) + load.SkippedIncomplete + load.SkippedInvalid = n
<1> DEFINE With(reason) == {p \in 1 .. Len(rows) : skipReason(rows[p]) = reason}
           A == With("none")
           B == With("incomplete")
           C == With("invalid")
<1>1. /\ Len(LoadCalibrationMatches(rows).matches) = Len(RowsAt(rows, A))
      /\ LoadCalibrationMatches(rows).SkippedIncomplete = Cardinality(B)
      /\ LoadCalibrationMatches(rows).SkippedInvalid = Cardinality(C)
  BY DEF LoadCalibrationMatches
<1>2. A \cup B \cup C = 1 .. n /\ A \cap B = {} /\ (A \cup B) \cap C = {}
  BY DEF skipReason
<1>3. A \in SUBSET (1 .. n) /\ B \in SUBSET (1 .. n) /\ C \in SUBSET (1 .. n)
  OBVIOUS
<1> HIDE DEF A, B, C
<1>4. Len(RowsAt(rows, A)) = Cardinality(A)
  BY <1>3, KeptRows
<1>5. IsFiniteSet(1 .. n) /\ Cardinality(1 .. n) = n
  BY FS_Interval
<1>6. IsFiniteSet(A) /\ IsFiniteSet(B) /\ IsFiniteSet(C)
  BY <1>3, <1>5, FS_Subset
<1>9. Cardinality({}) = 0
  BY FS_EmptySet
<1>7. /\ IsFiniteSet(A \cup B)
      /\ Cardinality(A \cup B) = Cardinality(A) + Cardinality(B)
  <2>1. Cardinality(A) \in Nat /\ Cardinality(B) \in Nat
    BY <1>6, FS_CardinalityType
  <2>2. /\ IsFiniteSet(A \cup B)
        /\ Cardinality(A \cup B) = Cardinality(A) + Cardinality(B) - Cardinality(A \cap B)
    BY <1>6, FS_Union
  <2>3. Cardinality(A \cap B) = 0
    BY <1>2, <1>9, Zenon
  <2> QED BY <2>1, <2>2, <2>3
<1>8. Cardinality((A \cup B) \cup C) = Cardinality(A \cup B) + Cardinality(C)
  <2>1. Cardinality(A \cup B) \in Nat /\ Cardinality(C) \in Nat
    BY <1>6, <1>7, FS_CardinalityType
  <2>2. Cardinality((A \cup B) \cup C)
          = Cardinality(A \cup B) + Cardinality(C) - Cardinality((A \cup B) \cap C)
    BY <1>6, <1>7, FS_Union
  <2>3. Cardinality((A \cup B) \cap C) = 0
    BY <1>2, <1>9, Zenon
  <2> QED BY <2>1, <2>2, <2>3
<1> QED BY <1>1, <1>2, <1>4, <1>5, <1>7, <1>8

\* What is bet on is the calibration's pool without the matches that have no
\* odds or rates: both paths keep the same positions of the output.
LEMMA BetsArePriced ==
  ASSUME NEW rows, Len(rows) \in Nat
  PROVE  LET pool == LoadCalibrationMatches(rows).matches
             Bet(m) == HasRates(m) /\ m.avgW > 0 /\ m.avgL > 0 /\ m.num >= 0
         IN  FilterBacktestMatches(LoadMatchesWithOdds(rows))
               = RowsAt(pool, {k \in 1 .. Len(pool) : Bet(pool[k])})
<1> DEFINE Bet(m) == HasRates(m) /\ m.avgW > 0 /\ m.avgL > 0 /\ m.num >= 0
           A == {p \in 1 .. Len(rows) : skipReason(rows[p]) = "none"}
           B == {p \in 1 .. Len(rows) : Loadable(rows[p]) /\ rows[p].num >= 0}
           betA == {p \in A : Bet(rows[p])}
           betB == {p \in B : backtestMatchEligible(rows[p])}
           pool == RowsAt(rows, A)
           loaded == RowsAt(rows, B)
           T == {k \in 1 .. Len(pool) : Bet(pool[k])}
           U == {k \in 1 .. Len(loaded) : backtestMatchEligible(loaded[k])}
<1>1. betA = betB
  BY DEF skipReason, backtestMatchEligible
<1>2. /\ A \in SUBSET (1 .. Len(rows)) /\ B \in SUBSET (1 .. Len(rows))
      /\ betA \in SUBSET A /\ betB \in SUBSET B
  OBVIOUS
<1>3. /\ LoadCalibrationMatches(rows).matches = pool
      /\ FilterBacktestMatches(LoadMatchesWithOdds(rows)) = RowsAt(loaded, U)
  BY DEF LoadCalibrationMatches, LoadMatchesWithOdds, FilterBacktestMatches
<1>4. Among(T, A, betA)
  <2>1. /\ Len(pool) = Cardinality(A)
        /\ \A k \in 1 .. Cardinality(A) : pool[k] = rows[Nth(A, k)] /\ Nth(A, k) \in A
    <3> HIDE DEF A
    <3> QED BY <1>2, KeptRows
  <2> HIDE DEF A, pool, Bet
  <2> QED BY <2>1 DEF Among
<1>5. Among(U, B, betB)
  <2>1. /\ Len(loaded) = Cardinality(B)
        /\ \A k \in 1 .. Cardinality(B) : loaded[k] = rows[Nth(B, k)] /\ Nth(B, k) \in B
    <3> HIDE DEF B
    <3> QED BY <1>2, KeptRows
  <2> HIDE DEF B, loaded
  <2> QED BY <2>1 DEF Among
<1>6. RowsAt(pool, T) = RowsAt(rows, betA)
  <2> HIDE DEF A, T, betA
  <2>1. A \in SUBSET (1 .. Len(rows))
    BY <1>2
  <2> QED BY <1>4, <2>1, KeptOfKept
<1>7. RowsAt(loaded, U) = RowsAt(rows, betB)
  <2> HIDE DEF B, U, betB
  <2>1. B \in SUBSET (1 .. Len(rows))
    BY <1>2
  <2> QED BY <1>5, <2>1, KeptOfKept
<1> QED BY <1>1, <1>3, <1>6, <1>7

\* Both loaders read their rows from the two files at the same positions, and
\* what is bet on is of the matches file.
LEMMA SamePool ==
  ASSUME JoinInv, joinExit = 0
  PROVE  LET pool == LoadCalibrationMatches(out).matches
             load == LoadCalibrationMatches(matches).matches
             Plain(m) == WithOdds(m, NoOdds, NoOdds)
         IN  [p \in 1 .. Len(pool) |-> Plain(pool[p])] = [p \in 1 .. Len(load) |-> Plain(load[p])]
<1> DEFINE A == {p \in 1 .. Len(out) : skipReason(out[p]) = "none"}
           B == {p \in 1 .. Len(matches) : skipReason(matches[p]) = "none"}
           pool == RowsAt(out, A)
           load == RowsAt(matches, B)
           Plain(m) == WithOdds(m, NoOdds, NoOdds)
<1>1. /\ Len(matches) \in Nat /\ Len(out) = Len(matches)
      /\ \A p \in 1 .. Len(out) : out[p] = Joined(odds, matches[p])
  BY DEF JoinInv, JoinedRows, Joining
<1>2. \A p \in 1 .. Len(out) : /\ skipReason(out[p]) = skipReason(matches[p])
                               /\ Plain(out[p]) = Plain(matches[p])
  <2>1. ASSUME NEW p \in 1 .. Len(out)
        PROVE  skipReason(out[p]) = skipReason(matches[p]) /\ Plain(out[p]) = Plain(matches[p])
    <3>1. out[p] = Joined(odds, matches[p])
      BY <1>1
    <3>2. /\ skipReason(Joined(odds, matches[p])) = skipReason(matches[p])
          /\ Plain(Joined(odds, matches[p])) = Plain(matches[p])
      BY JoinedKeeps
    <3> QED BY <3>1, <3>2, Zenon
  <2> QED BY <2>1
<1>3. A = B /\ A \in SUBSET (1 .. Len(matches))
  BY <1>1, <1>2
<1>4. /\ LoadCalibrationMatches(out).matches = pool
      /\ LoadCalibrationMatches(matches).matches = load
  BY DEF LoadCalibrationMatches
<1> HIDE DEF A, B
<1>5. /\ Len(pool) = Cardinality(A) /\ Len(load) = Cardinality(A)
      /\ \A k \in 1 .. Cardinality(A) :
           pool[k] = out[Nth(A, k)] /\ load[k] = matches[Nth(A, k)] /\ Nth(A, k) \in A
  <2> DEFINE n == Len(matches)
  <2>1. n \in Nat /\ A \in SUBSET (1 .. n) /\ load = RowsAt(matches, A)
    BY <1>1, <1>3
  <2> HIDE DEF n, load
  <2>2. /\ Len(pool) = Cardinality(A)
        /\ \A k \in 1 .. Cardinality(A) : pool[k] = out[Nth(A, k)] /\ Nth(A, k) \in A
    BY <2>1, KeptRows
  <2>3. /\ Len(load) = Cardinality(A)
        /\ \A k \in 1 .. Cardinality(A) : load[k] = matches[Nth(A, k)]
    BY <2>1, KeptRows
  <2> QED BY <2>2, <2>3
<1> HIDE DEF pool, load, Plain
<1>6. ASSUME NEW k \in 1 .. Cardinality(A) PROVE Plain(pool[k]) = Plain(load[k])
  <2>1. pool[k] = out[Nth(A, k)] /\ load[k] = matches[Nth(A, k)] /\ Nth(A, k) \in 1 .. Len(out)
    BY <1>1, <1>3, <1>5
  <2>2. Plain(out[Nth(A, k)]) = Plain(matches[Nth(A, k)])
    BY <1>2, <2>1
  <2> QED BY <2>1, <2>2, Zenon
<1>7. [p \in 1 .. Len(pool) |-> Plain(pool[p])] = [p \in 1 .. Len(load) |-> Plain(load[p])]
  BY <1>5, <1>6
<1> QED BY <1>4, <1>7 DEF Plain

LEMMA BetsAreOfTheFile ==
  ASSUME JoinInv, joinExit = 0
  PROVE  {m.winner : m \in Range(FilterBacktestMatches(LoadMatchesWithOdds(out)))}
           \subseteq UniquePlayerNames(matches)
<1> DEFINE B == {p \in 1 .. Len(out) : Loadable(out[p]) /\ out[p].num >= 0}
           loaded == RowsAt(out, B)
           U == {k \in 1 .. Len(loaded) : backtestMatchEligible(loaded[k])}
           bets == RowsAt(loaded, U)
<1>1. /\ Len(matches) \in Nat /\ Len(out) = Len(matches)
      /\ \A p \in 1 .. Len(out) : out[p] = Joined(odds, matches[p])
  BY DEF JoinInv, JoinedRows, Joining
<1>2. FilterBacktestMatches(LoadMatchesWithOdds(out)) = bets
  BY DEF LoadMatchesWithOdds, FilterBacktestMatches
<1>3. \A p \in B : out[p].winner # NoName /\ p \in 1 .. Len(matches)
  BY <1>1 DEF Loadable
<1>4. B \in SUBSET (1 .. Len(matches))
  BY <1>3
<1> HIDE DEF B
<1>5. /\ Len(loaded) = Cardinality(B) /\ Cardinality(B) \in Nat
      /\ \A k \in 1 .. Cardinality(B) : loaded[k] = out[Nth(B, k)] /\ Nth(B, k) \in B
  BY <1>1, <1>4, KeptRows
<1>6. U \in SUBSET (1 .. Cardinality(B))
  BY <1>5
<1> HIDE DEF loaded, U
<1>7. /\ DOMAIN bets = 1 .. Cardinality(U)
      /\ \A k \in 1 .. Cardinality(U) : bets[k] = loaded[Nth(U, k)] /\ Nth(U, k) \in U
  BY <1>5, <1>6, KeptRows
<1> HIDE DEF bets
<1>8. ASSUME NEW m \in Range(bets) PROVE m.winner \in UniquePlayerNames(matches)
  <2>1. PICK k \in 1 .. Cardinality(U) : m = bets[k]
    BY <1>7, <1>8 DEF Range
  <2>2. PICK p \in B : m = out[p]
    BY <1>5, <1>6, <1>7, <2>1
  <2>3. m.winner = matches[p].winner /\ m.winner # NoName
    BY <1>1, <1>3, <2>2, JoinedKeeps
  <2>4. m.winner \in {matches[p].winner, matches[p].loser} /\ p \in 1 .. Len(matches)
    BY <1>3, <2>3
  <2>5. m.winner \in UNION {{matches[q].winner, matches[q].loser} : q \in 1 .. Len(matches)}
    BY <2>4, Zenon
  <2>6. m.winner \in (UNION {{matches[q].winner, matches[q].loser} : q \in 1 .. Len(matches)}) \ {NoName}
    BY <2>3, <2>5, Zenon
  <2> QED BY <2>6, Zenon DEF UniquePlayerNames
<1> QED BY <1>2, <1>8

\* The bets and the calibration are about the same matches, and every row of
\* the files is accounted for, whatever the files hold.
THEOREM BothPoolsAgree == CommandsSpec => []PoolsAgree
<1>1. ASSUME JoinInv
      PROVE  PoolsAgree
  <2> SUFFICES ASSUME joinExit = 0
               PROVE  PoolsAgree
    BY DEF PoolsAgree
  <2>1. /\ Len(matches) \in Nat /\ Len(out) = Len(matches) /\ joinStats.written = Len(matches)
        /\ joinStats.matched + joinStats.unmatched = Len(matches)
    BY <1>1 DEF JoinInv, JoinedRows, Joining
  <2> QED
    BY <1>1, <2>1, BetsArePriced, SamePool, BetsAreOfTheFile, LoaderAccounts DEF PoolsAgree
<1> QED
  BY <1>1, JoinAtStart, JoinStep, PTL DEF CommandsSpec

-----------------------------------------------------------------------------
(* The odds of a row.                                                       *)

Less == {pair \in Nat \X Nat : pair[1] < pair[2]}

LEMMA LessIsWellFounded == IsWellFoundedOn(Less, Nat)
  BY NatLessThanWellFounded DEF OpToRel, Less

LEMMA LeastNatural ==
  ASSUME NEW S \in SUBSET Nat, S # {}
  PROVE  \E n \in S : \A m \in S : n <= m
<1>1. PICK n \in S : \A m \in S : <<m, n>> \notin Less
  BY LessIsWellFounded, WFMin
<1>2. ASSUME NEW m \in S PROVE n <= m
  <2>1. <<m, n>> \notin Less /\ <<m, n>> \in Nat \X Nat
    BY <1>1
  <2>2. ~(<<m, n>>[1] < <<m, n>>[2])
    BY <2>1, Zenon DEF Less
  <2> QED BY <2>2
<1> QED BY <1>2

\* Of the rows that are near enough, the first of the nearest.
Near(rows, m) ==
  {p \in Bucket(rows, m) : daysApart(m.date, rows[p].date) <= MatchJoinMaxDateDiff}

LEMMA BestRow ==
  ASSUME NEW rows, Len(rows) \in Nat, NEW m, m.date \in Nat,
         \A p \in 1 .. Len(rows) : rows[p].date \in Nat
  PROVE  LET best == findBestOddsMatch(rows, m)
         IN  \/ best = 0 /\ Near(rows, m) = {}
             \/ /\ best \in Near(rows, m)
                /\ \A q \in Near(rows, m) :
                     daysApart(m.date, rows[best].date) <= daysApart(m.date, rows[q].date)
<1> DEFINE near == Near(rows, m)
           Days(p) == daysApart(m.date, rows[p].date)
           nearest == {p \in near : \A q \in near : Days(p) <= Days(q)}
<1>1. findBestOddsMatch(rows, m) = IF near = {} THEN 0 ELSE Min(nearest)
  BY DEF findBestOddsMatch, Near
<1>2. near \in SUBSET (1 .. Len(rows))
  BY DEF Near, Bucket
<1>3. \A p \in near : Days(p) \in Nat
  BY <1>2 DEF daysApart
<1> HIDE DEF near, Days
<1>4. CASE near # {}
  <2>1. {Days(p) : p \in near} \in SUBSET Nat /\ {Days(p) : p \in near} # {}
    BY <1>3, <1>4
  <2>2. PICK d \in {Days(p) : p \in near} : \A e \in {Days(p) : p \in near} : d <= e
    BY <2>1, LeastNatural
  <2>3. PICK p \in near : \A q \in near : Days(p) <= Days(q)
    BY <2>2
  <2>4. nearest \in SUBSET Nat /\ nearest # {}
    <3>1. p \in nearest
      BY <2>3, Zenon
    <3>2. ASSUME NEW q \in nearest PROVE q \in Nat
      BY <1>2, <3>2
    <3> QED BY <3>1, <3>2
  <2>5. PICK n \in nearest : \A q \in nearest : n <= q
    BY <2>4, LeastNatural
  <2>6. Min(nearest) \in nearest
    BY <2>5 DEF Min
  <2> QED BY <1>1, <1>4, <2>6 DEF near, Days
<1> QED BY <1>1, <1>4 DEF near

\* The rows written are those read with their odds, whether or not the join
\* came to its end.
OutputInv ==
  /\ Len(out) \in Nat /\ Len(matches) \in Nat /\ Len(out) <= Len(matches)
  /\ \A p \in 1 .. Len(out) : out[p] = Joined(odds, matches[p])
  /\ (matches \in MatchTables /\ odds \in OddsTables) \/ Len(matches) = 0

LEMMA OutputAtStart == ASSUME CommandsInit PROVE OutputInv
<1>1. JoinInit \/ JoinIdle
  BY DEF CommandsInit
<1>2. /\ out = <<>>
      /\ (matches \in MatchTables /\ odds \in OddsTables) \/ matches = <<>>
  BY <1>1 DEF JoinInit, JoinIdle
<1>3. Len(matches) \in Nat
  BY <1>2, TablesAssumption
<1> QED BY <1>2, <1>3 DEF OutputInv

LEMMA OutputStep ==
  ASSUME JoinInv, OutputInv, [CommandsNext]_commandVars
  PROVE  OutputInv'
<1> DEFINE S == {out[p] : p \in DOMAIN out}
<1>1. CASE UNCHANGED joinVars
  BY <1>1 DEF joinVars, OutputInv
<1>2. out \in Seq(S)
  BY DEF JoinInv
<1>3. CASE JoinRow
  <2> DEFINE row == Joined(odds, matches[nextRow])
  <2>1. /\ joinExit = Joining /\ nextRow <= Len(matches) /\ UNCHANGED <<matches, odds>>
        /\ out' = Append(out, row)
    BY <1>3 DEF JoinRow
  <2>2. Len(out) = nextRow - 1 /\ nextRow \in Nat \ {0}
    BY <2>1 DEF JoinInv, JoinedRows
  <2> HIDE DEF row, S
  <2>3. /\ Len(out') = Len(out) + 1
        /\ \A p \in 1 .. Len(out) : out'[p] = out[p]
        /\ out'[Len(out) + 1] = row
    BY <1>2, <2>1
  <2>4. ASSUME NEW p \in 1 .. Len(out') PROVE out'[p] = Joined(odds, matches[p])
    <3>1. p \in 1 .. Len(out) \/ (p = Len(out) + 1 /\ p = nextRow)
      BY <2>2, <2>3 DEF OutputInv
    <3>2. CASE p \in 1 .. Len(out)
      BY <2>3, <3>2 DEF OutputInv
    <3>3. CASE p = Len(out) + 1 /\ p = nextRow
      BY <2>3, <3>3 DEF row
    <3> QED BY <3>1, <3>2, <3>3
  <2>5. Len(out') \in Nat /\ Len(matches') \in Nat /\ Len(out') <= Len(matches')
    BY <2>1, <2>2, <2>3 DEF OutputInv
  <2>6. matches' \in MatchTables /\ odds' \in OddsTables
    BY <2>1, <2>2 DEF OutputInv
  <2> QED BY <2>1, <2>4, <2>5, <2>6 DEF OutputInv
<1>4. CASE JoinFails
  <2>1. PICK flushed \in 0 .. Len(out) : out' = SubSeq(out, 1, flushed)
    BY <1>4 DEF JoinFails
  <2>2. UNCHANGED <<matches, odds>>
    BY <1>4 DEF JoinFails
  <2> HIDE DEF S
  <2>3. Len(out') = flushed /\ \A p \in 1 .. flushed : out'[p] = out[p]
    BY <1>2, <2>1 DEF OutputInv
  <2> QED BY <2>1, <2>2, <2>3 DEF OutputInv
<1>5. CASE JoinEnds
  BY <1>5 DEF JoinEnds, OutputInv
<1> QED
  BY <1>1, <1>3, <1>4, <1>5
     DEF CommandsNext, FetchSession, JoinSession, JoinNext, SearchSession, AdjustSession,
         commandVars

\* What a row is given is of the nearest meeting, and none is left out.
Meets(m, o) ==
  /\ Indexed(o)
  /\ o.of = <<m.winner, m.loser>>
  /\ o.surface = m.surface
  /\ daysApart(m.date, o.date) <= MatchJoinMaxDateDiff
Meetings(rows, m) == {q \in 1 .. Len(rows) : m.date # NoDate /\ Meets(m, rows[q])}

OfTheMeeting(rows, m, row) ==
  LET Nearest(q) == \A r \in Meetings(rows, m) :
                      daysApart(m.date, rows[q].date) <= daysApart(m.date, rows[r].date)
  IN  IF row.avgW = NoOdds \/ row.avgL = NoOdds
      THEN {m.winner, m.loser} \cap Compound = {} => Meetings(rows, m) = {}
      ELSE \E q \in Meetings(rows, m) :
             Nearest(q) /\ row.avgW = rows[q].avgW /\ row.avgL = rows[q].avgL

LEMMA NearAreMeetings ==
  ASSUME NEW rows, NEW m, Joinable(m),
         \A q \in 1 .. Len(rows) : ToldApart(m, rows[q])
  PROVE  Near(rows, m) \subseteq Meetings(rows, m)
<1>1. ASSUME NEW q \in Near(rows, m) PROVE q \in Meetings(rows, m)
  <2>1. /\ q \in 1 .. Len(rows) /\ Indexed(rows[q]) /\ oddsMatchKey(rows[q]) = matchKey(m)
        /\ daysApart(m.date, rows[q].date) <= MatchJoinMaxDateDiff
    BY DEF Near, Bucket
  <2>2. rows[q].of = <<m.winner, m.loser>>
    BY <2>1, Zenon DEF ToldApart
  <2>3. rows[q].surface = m.surface
    BY <2>1 DEF oddsMatchKey, matchKey
  <2>4. m.date # NoDate
    BY Zenon DEF Joinable
  <2> QED BY <2>1, <2>2, <2>3, <2>4, Zenon DEF Meetings, Meets
<1> QED BY <1>1

LEMMA MeetingsAreNear ==
  ASSUME NEW rows, NEW m, {m.winner, m.loser} \cap Compound = {},
         \A q \in 1 .. Len(rows) : ToldApart(m, rows[q])
  PROVE  /\ Meetings(rows, m) \subseteq Near(rows, m)
         /\ Meetings(rows, m) # {} => Joinable(m)
<1>1. ASSUME NEW q \in Meetings(rows, m) PROVE q \in Near(rows, m) /\ Joinable(m)
  <2>1. /\ q \in 1 .. Len(rows) /\ m.date # NoDate /\ Indexed(rows[q])
        /\ rows[q].of = <<m.winner, m.loser>> /\ rows[q].surface = m.surface
        /\ daysApart(m.date, rows[q].date) <= MatchJoinMaxDateDiff
    BY DEF Meetings, Meets
  <2>2. /\ m.winner # NoName /\ m.loser # NoName /\ m.surface # ""
        /\ oddsMatchKey(rows[q]) = matchKey(m)
    BY <2>1, Zenon DEF ToldApart
  <2> QED BY <2>1, <2>2, Zenon DEF Joinable, Near, Bucket
<1> QED BY <1>1

\* A row near enough is of players without a compound surname.
LEMMA NearIsPlain ==
  ASSUME NEW rows, NEW m, NEW best \in Near(rows, m), Joinable(m),
         \A q \in 1 .. Len(rows) : ToldApart(m, rows[q])
  PROVE  {m.winner, m.loser} \cap Compound = {}
<1>1. best \in 1 .. Len(rows) /\ Indexed(rows[best]) /\ oddsMatchKey(rows[best]) = matchKey(m)
  BY DEF Near, Bucket
<1>2. rows[best].surface = m.surface
  BY <1>1 DEF oddsMatchKey, matchKey
<1>3. rows[best].of = <<m.winner, m.loser>>
  BY <1>1, Zenon DEF ToldApart
<1> QED BY <1>1, <1>2, <1>3, Zenon DEF ToldApart

LEMMA NearIsIndexed ==
  ASSUME NEW rows, NEW m, NEW best \in Near(rows, m)
  PROVE  best # 0 /\ rows[best].avgW # NoOdds /\ rows[best].avgL # NoOdds
<1>1. best \in 1 .. Len(rows) /\ Indexed(rows[best])
  BY Zenon DEF Near, Bucket
<1>2. best # 0
  BY <1>1
<1> QED BY <1>1, <1>2, Zenon DEF Indexed

LEMMA RowOfTheMeeting ==
  ASSUME NEW rows, Len(rows) \in Nat, NEW m, m.date \in Nat,
         \A q \in 1 .. Len(rows) : rows[q].date \in Nat,
         \A q \in 1 .. Len(rows) : ToldApart(m, rows[q])
  PROVE  OfTheMeeting(rows, m, Joined(rows, m))
<1> DEFINE best == findBestOddsMatch(rows, m)
           row == Joined(rows, m)
           Days(q) == daysApart(m.date, rows[q].date)
<1>1. \/ best = 0 /\ Near(rows, m) = {}
      \/ best \in Near(rows, m) /\ \A q \in Near(rows, m) : Days(best) <= Days(q)
  BY BestRow
<1>2. ASSUME best \in Near(rows, m)
      PROVE  best # 0 /\ rows[best].avgW # NoOdds /\ rows[best].avgL # NoOdds
  BY <1>2, NearIsIndexed
<1>3. \/ /\ row.avgW = NoOdds /\ row.avgL = NoOdds
         /\ ~Joinable(m) \/ Near(rows, m) = {}
      \/ /\ Joinable(m) /\ best \in Near(rows, m)
         /\ row.avgW = rows[best].avgW /\ row.avgL = rows[best].avgL
  <2>1. \A avgW, avgL : /\ WithOdds(m, avgW, avgL).avgW = avgW
                        /\ WithOdds(m, avgW, avgL).avgL = avgL
    BY DEF WithOdds
  <2>2. row = IF ~Joinable(m) \/ best = 0 THEN WithOdds(m, NoOdds, NoOdds)
              ELSE WithOdds(m, rows[best].avgW, rows[best].avgL)
    BY DEF Joined
  <2> HIDE DEF best, row, Days
  <2> QED BY <1>1, <1>2, <2>1, <2>2
<1> HIDE DEF best, row, Days
<1>4. CASE row.avgW = NoOdds /\ row.avgL = NoOdds /\ (~Joinable(m) \/ Near(rows, m) = {})
  <2>1. ASSUME {m.winner, m.loser} \cap Compound = {} PROVE Meetings(rows, m) = {}
    <3>1. /\ Meetings(rows, m) \subseteq Near(rows, m)
          /\ Meetings(rows, m) # {} => Joinable(m)
      BY <2>1, MeetingsAreNear, Zenon
    <3> QED BY <1>4, <3>1, Zenon
  <2> QED BY <1>4, <2>1, Zenon DEF row, OfTheMeeting
<1>5. CASE /\ Joinable(m) /\ best \in Near(rows, m)
           /\ row.avgW = rows[best].avgW /\ row.avgL = rows[best].avgL
  <2>1. Near(rows, m) = Meetings(rows, m)
    <3>1. {m.winner, m.loser} \cap Compound = {}
      BY <1>5, NearIsPlain, Zenon
    <3>2. /\ Near(rows, m) \subseteq Meetings(rows, m)
          /\ Meetings(rows, m) \subseteq Near(rows, m)
      BY <1>5, <3>1, NearAreMeetings, MeetingsAreNear, Zenon
    <3> QED BY <3>2, Zenon
  <2>2. best \in Meetings(rows, m) /\ \A r \in Meetings(rows, m) : Days(best) <= Days(r)
    BY <1>1, <1>2, <1>5, <2>1
  <2>3. ~(row.avgW = NoOdds \/ row.avgL = NoOdds)
    BY <1>2, <1>5
  <2> QED BY <1>5, <2>2, <2>3, Zenon DEF row, Days, OfTheMeeting
<1> QED BY <1>3, <1>4, <1>5

\* Where the keys of the two files tell the players apart, every row of the
\* output, of a join that ended or broke off, has the odds of the nearest
\* meeting, and lacks them only where there is none.
THEOREM OddsOfTheMeeting ==
  ASSUME KeysTellApart
  PROVE  CommandsSpec => []OddsAreOfTheMeeting
<1>1. ASSUME OutputInv
      PROVE  OddsAreOfTheMeeting
  <2>1. ASSUME NEW p \in 1 .. Len(out)
        PROVE  /\ out[p] = Joined(odds, matches[p]) /\ matches[p].date \in Nat
               /\ Len(odds) \in Nat /\ \A q \in 1 .. Len(odds) : odds[q].date \in Nat
               /\ \A q \in 1 .. Len(odds) : ToldApart(matches[p], odds[q])
    <3>1. Len(out) # 0 /\ Len(matches) # 0
      BY <1>1, <2>1 DEF OutputInv
    <3>2. matches \in MatchTables /\ odds \in OddsTables
      BY <1>1, <3>1 DEF OutputInv
    <3>3. DOMAIN matches = 1 .. Len(matches) /\ DOMAIN odds = 1 .. Len(odds) /\ Len(odds) \in Nat
      BY <3>2, TablesAssumption
    <3>4. p \in DOMAIN matches
      BY <1>1, <2>1, <3>3 DEF OutputInv
    <3>5. \A q \in 1 .. Len(odds) : ToldApart(matches[p], odds[q])
      BY <3>2, <3>3, <3>4, KeysTellApart, Zenon DEF KeysTellApart
    <3>6. matches[p].date \in Nat /\ \A q \in 1 .. Len(odds) : odds[q].date \in Nat
      BY <3>2, <3>3, <3>4, TablesAssumption
    <3> QED BY <1>1, <2>1, <3>3, <3>5, <3>6 DEF OutputInv
  <2>2. OddsAreOfTheMeeting <=> \A p \in 1 .. Len(out) : OfTheMeeting(odds, matches[p], out[p])
    BY Zenon DEF OddsAreOfTheMeeting, OfTheMeeting, Meetings, Meets
  <2> QED BY <2>1, <2>2, RowOfTheMeeting, Zenon
<1> QED
  BY <1>1, JoinAtStart, JoinStep, OutputAtStart, OutputStep, PTL DEF CommandsSpec

-----------------------------------------------------------------------------
(* Fractions.  The code computes rates as quotients; the model keeps them   *)
(* in lowest terms, so what an operation is worth (Worth) and how the order *)
(* of fractions carries through it rest on the greatest common divisor.     *)

Divides(k, n) == \E q \in Nat : n = k * q

LEMMA Remainder ==
  ASSUME NEW a \in Nat, NEW b \in Nat \ {0}
  PROVE  /\ a % b \in Nat /\ a % b < b /\ a \div b \in Nat
         /\ a % b = a - b * (a \div b)
OBVIOUS

LEMMA ProductGrows ==
  ASSUME NEW a \in Nat, NEW b \in Nat, NEW c \in Nat, a <= b
  PROVE  c * a <= c * b /\ c * a \in Nat
OBVIOUS

\* What divides b and the rest divides a, and the other way round.
LEMMA DividesRest ==
  ASSUME NEW a \in Nat, NEW b \in Nat \ {0}, NEW k \in Nat \ {0}, Divides(k, b)
  PROVE  Divides(k, a) <=> Divides(k, a % b)
<1> DEFINE z == a \div b
           r == a % b
<1>1. r \in Nat /\ z \in Nat /\ r = a - b * z
  BY Remainder
<1> HIDE DEF z, r
<1>2. PICK q \in Nat : b = k * q
  BY DEF Divides
<1>3. b * z = k * (q * z) /\ q * z \in Nat
  BY <1>1, <1>2
<1>4. ASSUME Divides(k, a) PROVE Divides(k, r)
  <2>1. PICK x \in Nat : a = k * x
    BY <1>4 DEF Divides
  <2> DEFINE y == q * z
  <2>2. y \in Nat /\ r = k * x - k * y
    BY <1>1, <1>3, <2>1
  <2> HIDE DEF y
  <2>3. r = k * (x - y)
    BY <2>2
  <2>4. x - y \in Nat
    <3>1. CASE x >= y
      BY <2>2, <3>1
    <3>2. CASE x < y
      <4>1. k * (x - y) < 0
        BY <2>2, <3>2
      <4> QED BY <1>1, <2>3, <4>1
    <3> QED BY <2>2, <3>1, <3>2
  <2> QED BY <2>3, <2>4 DEF Divides
<1>5. ASSUME Divides(k, r) PROVE Divides(k, a)
  <2>1. PICK x \in Nat : r = k * x
    BY <1>5 DEF Divides
  <2> DEFINE y == q * z
  <2>2. y \in Nat /\ a = k * x + k * y
    BY <1>1, <1>3, <2>1
  <2> HIDE DEF y
  <2>3. a = k * (x + y) /\ x + y \in Nat
    BY <2>2
  <2> QED BY <2>3 DEF Divides
<1> QED BY <1>4, <1>5 DEF r

\* The greatest common divisor is a function that the recursion describes.
Common(a, b) == {k \in Nat \ {0} : Divides(k, a) /\ Divides(k, b)}
Greatest(S) == CHOOSE m \in S : \A k \in S : k <= m
GcdOf(a, b) == IF b = 0 THEN a ELSE Greatest(Common(a, b))

LEMMA DividesSelf == ASSUME NEW b \in Nat \ {0} PROVE Divides(b, b) /\ Divides(b, 0)
<1>1. b = b * 1 /\ 0 = b * 0
  OBVIOUS
<1> QED BY <1>1 DEF Divides

LEMMA DividesBounds ==
  ASSUME NEW b \in Nat \ {0}, NEW k \in Nat, Divides(k, b)
  PROVE  k <= b
<1>1. PICK q \in Nat : b = k * q
  BY DEF Divides
<1>2. q >= 1
  BY <1>1
<1>3. k * 1 <= k * q
  BY <1>2, ProductGrows
<1> QED BY <1>1, <1>3

LEMMA GcdOfRest ==
  ASSUME NEW a \in Nat, NEW b \in Nat
  PROVE  GcdOf(a, b) = IF b = 0 THEN a ELSE GcdOf(b, a % b)
<1> SUFFICES ASSUME b # 0
             PROVE  Greatest(Common(a, b)) = GcdOf(b, a % b)
  BY DEF GcdOf
<1>1. a % b \in Nat
  BY Remainder
<1>2. Common(a, b) = Common(b, a % b)
  BY <1>1, DividesRest DEF Common
<1>3. CASE a % b = 0
  <2>1. b \in Common(a, b)
    BY <1>2, <1>3, DividesSelf DEF Common
  <2>2. \A k \in Common(a, b) : k <= b /\ k \in Nat
    BY DividesBounds DEF Common
  <2>3. Greatest(Common(a, b)) = b
    <3> HIDE DEF Common
    <3>1. \A m \in Common(a, b) : (\A k \in Common(a, b) : k <= m) <=> m = b
      BY <2>1, <2>2
    <3> QED BY <2>1, <3>1 DEF Greatest
  <2> QED BY <1>3, <2>3 DEF GcdOf
<1>4. CASE a % b # 0
  BY <1>2, <1>4 DEF GcdOf
<1> QED BY <1>3, <1>4

GcdFunction(f) ==
  f = [p \in Nat \X Nat |-> IF p[2] = 0 THEN p[1] ELSE f[<<p[2], p[1] % p[2]>>]]

LEMMA GcdRecursion ==
  \A a, b \in Nat : gcd[<<a, b>>] = IF b = 0 THEN a ELSE gcd[<<b, a % b>>]
<1> DEFINE G == [p \in Nat \X Nat |-> GcdOf(p[1], p[2])]
<1>1. ASSUME NEW p \in Nat \X Nat
      PROVE  G[p] = IF p[2] = 0 THEN p[1] ELSE G[<<p[2], p[1] % p[2]>>]
  <2>1. p[1] \in Nat /\ p[2] \in Nat /\ G[p] = GcdOf(p[1], p[2])
    OBVIOUS
  <2>2. CASE p[2] = 0
    BY <2>1, <2>2, GcdOfRest
  <2>3. CASE p[2] # 0
    <3>1. p[1] % p[2] \in Nat
      BY <2>1, <2>3, Remainder
    <3>2. G[<<p[2], p[1] % p[2]>>] = GcdOf(p[2], p[1] % p[2])
      BY <2>1, <3>1
    <3> QED BY <2>1, <2>3, <3>2, GcdOfRest
  <2> QED BY <2>2, <2>3
<1>2. GcdFunction(G)
  <2>1. G = [p \in Nat \X Nat |-> G[p]]
    OBVIOUS
  <2> HIDE DEF G
  <2> QED BY <1>1, <2>1 DEF GcdFunction
<1>3. GcdFunction(gcd)
  <2>1. gcd = CHOOSE f : GcdFunction(f)
    BY DEF gcd, GcdFunction
  <2> QED BY <1>2, <2>1
<1>4. ASSUME NEW f, GcdFunction(f), NEW a \in Nat, NEW b \in Nat
      PROVE  f[<<a, b>>] = IF b = 0 THEN a ELSE f[<<b, a % b>>]
  BY <1>4 DEF GcdFunction
<1> QED BY <1>3, <1>4

\* It divides both, by induction on the second.
DividesBoth(a, b) ==
  /\ gcd[<<a, b>>] \in Nat \ {0}
  /\ Divides(gcd[<<a, b>>], a)
  /\ Divides(gcd[<<a, b>>], b)

LEMMA GcdDivides ==
  ASSUME NEW a \in Nat, NEW b \in Nat, a # 0 \/ b # 0
  PROVE  DividesBoth(a, b)
<1> DEFINE Good(k) == \A j \in Nat : j # 0 \/ k # 0 => DividesBoth(j, k)
           S == {k \in Nat : ~Good(k)}
<1>1. ASSUME S # {} PROVE FALSE
  <2>1. PICK k \in S : \A m \in S : k <= m
    BY <1>1, LeastNatural
  <2>2. k \in Nat /\ ~Good(k)
    OBVIOUS
  <2>3. \A m \in Nat : m < k => Good(m)
    <3> SUFFICES ASSUME NEW m \in Nat, m < k, ~Good(m)
                 PROVE  FALSE
      OBVIOUS
    <3>1. m \in S
      OBVIOUS
    <3> QED BY <2>1, <2>2, <3>1
  <2>4. PICK j \in Nat : (j # 0 \/ k # 0) /\ ~DividesBoth(j, k)
    BY <2>2
  <2> HIDE DEF Good, S
  <2>5. CASE k = 0
    <3>1. gcd[<<j, k>>] = j /\ j \in Nat \ {0}
      BY <2>2, <2>4, <2>5, GcdRecursion
    <3>2. Divides(j, j) /\ Divides(j, k)
      BY <2>5, <3>1, DividesSelf
    <3> QED BY <2>4, <3>1, <3>2 DEF DividesBoth
  <2>6. CASE k # 0
    <3>1. k \in Nat \ {0} /\ j % k \in Nat /\ j % k < k
      BY <2>2, <2>4, <2>6, Remainder
    <3>2. gcd[<<j, k>>] = gcd[<<k, j % k>>]
      BY <2>4, <2>6, <3>1, GcdRecursion
    <3>3. DividesBoth(k, j % k)
      BY <2>3, <3>1 DEF Good
    <3> HIDE DEF DividesBoth
    <3> DEFINE g == gcd[<<j, k>>]
    <3>4. g \in Nat \ {0} /\ Divides(g, k) /\ Divides(g, j % k)
      BY <3>2, <3>3 DEF DividesBoth
    <3> HIDE DEF g
    <3>5. Divides(g, j)
      BY <2>4, <3>1, <3>4, DividesRest
    <3> QED BY <2>4, <3>4, <3>5 DEF DividesBoth, g
  <2> QED BY <2>5, <2>6
<1>2. Good(b)
  BY <1>1
<1> QED BY <1>2

\* What a ratio of two numbers is worth.
Worth(f, n, d) == f \in Fractions /\ f.n * d = n * f.d

LEMMA Quotient ==
  ASSUME NEW g \in Nat \ {0}, NEW q \in Nat
  PROVE  (g * q) \div g = q
OBVIOUS

LEMMA FracIs ==
  ASSUME NEW n \in Nat, NEW d \in Nat \ {0}
  PROVE  Worth(Frac(n, d), n, d)
<1> DEFINE g == gcd[<<n, d>>]
<1>1. g \in Nat \ {0} /\ Divides(g, n) /\ Divides(g, d)
  BY GcdDivides DEF DividesBoth
<1>2. Frac(n, d) = [n |-> n \div g, d |-> d \div g]
  BY DEF Frac, Lowest
<1>5. n = 0 => g = d
  <2> SUFFICES ASSUME n = 0 PROVE g = d
    OBVIOUS
  <2>1. n % d = 0
    OBVIOUS
  <2> QED BY <2>1, GcdRecursion
<1> HIDE DEF g
<1>3. PICK x \in Nat : n = g * x
  BY <1>1 DEF Divides
<1>4. PICK y \in Nat : d = g * y
  BY <1>1 DEF Divides
<1>6. n \div g = x /\ d \div g = y
  BY <1>1, <1>3, <1>4, Quotient
<1>7. y # 0
  BY <1>1, <1>4
<1>8. x * d = n * y
  BY <1>1, <1>3, <1>4
<1>9. x = 0 => y = 1
  <2> SUFFICES ASSUME x = 0 PROVE y = 1
    OBVIOUS
  <2>1. g = d
    BY <1>1, <1>3, <1>5
  <2>2. d * y = d * 1 
    BY <1>4, <2>1
  <2> QED BY <2>2
<1> QED BY <1>2, <1>6, <1>7, <1>8, <1>9 DEF Worth, Fractions

\* A fraction over 1 is a whole number.
LEMMA FracOfWhole ==
  ASSUME NEW n \in Nat
  PROVE  Frac(n, 1).d = 1 /\ Frac(n, 1).n = n
<1>1. gcd[<<n, 1>>] \in Nat \ {0} /\ Divides(gcd[<<n, 1>>], 1)
  BY GcdDivides DEF DividesBoth
<1>2. gcd[<<n, 1>>] <= 1
  BY <1>1, DividesBounds
<1>3. gcd[<<n, 1>>] = 1
  BY <1>1, <1>2
<1> QED BY <1>3 DEF Frac, Lowest

\* The order of two fractions is that of what they are worth.
LEMMA Cancels ==
  ASSUME NEW a \in Nat, NEW b \in Nat, NEW c \in Nat \ {0}
  PROVE  a * c <= b * c <=> a <= b
<1>1. a <= b => a * c <= b * c
  BY ProductGrows
<1>2. b < a => b * c < a * c
  <2> SUFFICES ASSUME b < a PROVE b * c < a * c
    OBVIOUS
  <2>1. c * (b + 1) <= c * a
    BY ProductGrows
  <2> QED BY <2>1
<1> QED BY <1>1, <1>2

LEMMA WorthOrder ==
  ASSUME NEW p, NEW q, NEW a \in Nat, NEW b \in Nat \ {0}, NEW c \in Nat, NEW d \in Nat \ {0},
         Worth(p, a, b), Worth(q, c, d)
  PROVE  Leq(p, q) <=> a * d <= c * b
<1>1. PICK m \in Nat, n \in Nat \ {0} : p.n = m /\ p.d = n
  BY DEF Worth, Fractions
<1>2. PICK u \in Nat, v \in Nat \ {0} : q.n = u /\ q.d = v
  BY DEF Worth, Fractions
<1>3. m * b = a * n /\ u * d = c * v
  BY <1>1, <1>2 DEF Worth
<1>4. m * v <= u * n <=> (m * v) * (b * d) <= (u * n) * (b * d)
  <2>1. m * v \in Nat /\ u * n \in Nat /\ b * d \in Nat \ {0}
    OBVIOUS
  <2> QED BY <2>1, Cancels
<1>5. (m * v) * (b * d) = (m * b) * (v * d) /\ (u * n) * (b * d) = (u * d) * (n * b)
  OBVIOUS
<1>6. (m * v) * (b * d) = (a * d) * (n * v) /\ (u * n) * (b * d) = (c * b) * (n * v)
  <2>1. (a * n) * (v * d) = (a * d) * (n * v) /\ (c * v) * (n * b) = (c * b) * (n * v)
    OBVIOUS
  <2> QED BY <1>3, <1>5, <2>1
<1>7. (a * d) * (n * v) <= (c * b) * (n * v) <=> a * d <= c * b
  <2>1. a * d \in Nat /\ c * b \in Nat /\ n * v \in Nat \ {0}
    OBVIOUS
  <2> QED BY <2>1, Cancels
<1> QED BY <1>1, <1>2, <1>4, <1>6, <1>7 DEF Leq

LEMMA WorthOfItself ==
  ASSUME NEW p \in Fractions
  PROVE  p.n \in Nat /\ p.d \in Nat \ {0} /\ Worth(p, p.n, p.d) /\ (p.n = 0 => p.d = 1)
BY DEF Worth, Fractions

LEMMA TimesIs ==
  ASSUME NEW p \in Fractions, NEW q \in Fractions
  PROVE  Worth(Times(p, q), p.n * q.n, p.d * q.d)
<1> DEFINE A == Frac(p.n, q.d)
           B == Frac(q.n, p.d)
<1>1. Worth(A, p.n, q.d) /\ Worth(B, q.n, p.d)
  BY WorthOfItself, FracIs
<1>2. /\ p.n = 0 => p.d = 1 /\ B.d = 1
      /\ q.n = 0 => q.d = 1 /\ A.d = 1
  BY WorthOfItself, FracOfWhole
<1>3. Times(p, q) = [n |-> A.n * B.n, d |-> A.d * B.d]
  BY DEF Times, Cross
<1> HIDE DEF A, B
<1>4. PICK m \in Nat, n \in Nat \ {0} : A.n = m /\ A.d = n
  BY <1>1 DEF Worth, Fractions
<1>5. PICK u \in Nat, v \in Nat \ {0} : B.n = u /\ B.d = v
  BY <1>1 DEF Worth, Fractions
<1>6. PICK a \in Nat, b \in Nat \ {0} : p.n = a /\ p.d = b
  BY WorthOfItself
<1>7. PICK c \in Nat, d \in Nat \ {0} : q.n = c /\ q.d = d
  BY WorthOfItself
<1>8. m * d = a * n /\ u * b = c * v
  BY <1>1, <1>4, <1>5, <1>6, <1>7 DEF Worth
<1>9. (m * u) * (b * d) = (a * c) * (n * v)
  <2>1. (m * u) * (b * d) = (m * d) * (u * b) /\ (a * n) * (c * v) = (a * c) * (n * v)
    OBVIOUS
  <2> QED BY <1>8, <2>1
<1>10. m * u = 0 => n * v = 1
  <2> SUFFICES ASSUME m * u = 0 PROVE n * v = 1
    OBVIOUS
  <2>1. m = 0 \/ u = 0
    OBVIOUS
  <2>2. CASE m = 0
    <3>1. a * n = 0
      BY <1>8, <2>2
    <3>2. a = 0
      BY <3>1
    <3>3. v = 1
      BY <1>2, <1>5, <1>6, <3>2
    <3>4. n = 1
      BY <1>1, <1>4, <2>2 DEF Worth, Fractions
    <3> QED BY <3>3, <3>4
  <2>3. CASE u = 0
    <3>1. c * v = 0
      BY <1>8, <2>3
    <3>2. c = 0
      BY <3>1
    <3>3. n = 1
      BY <1>2, <1>4, <1>7, <3>2
    <3>4. v = 1
      BY <1>1, <1>5, <2>3 DEF Worth, Fractions
    <3> QED BY <3>3, <3>4
  <2> QED BY <2>1, <2>2, <2>3
<1>11. m * u \in Nat /\ n * v \in Nat \ {0}
  OBVIOUS
<1>12. Times(p, q) = [n |-> m * u, d |-> n * v]
  BY <1>3, <1>4, <1>5
<1>13. [n |-> m * u, d |-> n * v] \in Fractions
  BY <1>10, <1>11 DEF Fractions
<1> QED BY <1>6, <1>7, <1>9, <1>12, <1>13 DEF Worth

LEMMA PlusIs ==
  ASSUME NEW p \in Fractions, NEW q \in Fractions
  PROVE  Worth(Plus(p, q), p.n * q.d + q.n * p.d, p.d * q.d)
<1>1. p.n * q.d + q.n * p.d \in Nat /\ p.d * q.d \in Nat \ {0}
  BY WorthOfItself
<1> QED BY <1>1, FracIs DEF Plus

LEMMA TimesRises ==
  ASSUME NEW p \in Fractions, NEW q \in Fractions, NEW r \in Fractions, Leq(p, q)
  PROVE  /\ Times(p, r) \in Fractions /\ Times(q, r) \in Fractions
         /\ Times(r, p) \in Fractions /\ Times(r, q) \in Fractions
         /\ Leq(Times(p, r), Times(q, r))
         /\ Leq(Times(r, p), Times(r, q))
<1>1. PICK a \in Nat, b \in Nat \ {0} : p.n = a /\ p.d = b
  BY WorthOfItself
<1>2. PICK c \in Nat, d \in Nat \ {0} : q.n = c /\ q.d = d
  BY WorthOfItself
<1>3. PICK m \in Nat, n \in Nat \ {0} : r.n = m /\ r.d = n
  BY WorthOfItself
<1>4. a * d <= c * b
  BY <1>1, <1>2 DEF Leq
<1>5. /\ Worth(Times(p, r), a * m, b * n) /\ Worth(Times(q, r), c * m, d * n)
      /\ Worth(Times(r, p), m * a, n * b) /\ Worth(Times(r, q), m * c, n * d)
  BY <1>1, <1>2, <1>3, TimesIs
<1>6. (a * m) * (d * n) <= (c * m) * (b * n)
  <2>1. (a * d) * (m * n) <= (c * b) * (m * n)
    BY <1>4, ProductGrows
  <2>2. (a * m) * (d * n) = (a * d) * (m * n) /\ (c * m) * (b * n) = (c * b) * (m * n)
    OBVIOUS
  <2> QED BY <2>1, <2>2
<1>7. m * a = a * m /\ m * c = c * m /\ n * b = b * n /\ n * d = d * n
  OBVIOUS
<1>8. a * m \in Nat /\ c * m \in Nat /\ b * n \in Nat \ {0} /\ d * n \in Nat \ {0}
  OBVIOUS
<1> QED BY <1>5, <1>6, <1>7, <1>8, WorthOrder DEF Worth

LEMMA PlusRises ==
  ASSUME NEW p \in Fractions, NEW q \in Fractions, NEW r \in Fractions, NEW s \in Fractions,
         Leq(p, q), Leq(r, s)
  PROVE  /\ Plus(p, r) \in Fractions /\ Plus(q, s) \in Fractions
         /\ Leq(Plus(p, r), Plus(q, s))
<1>1. PICK a \in Nat, b \in Nat \ {0} : p.n = a /\ p.d = b
  BY WorthOfItself
<1>2. PICK c \in Nat, d \in Nat \ {0} : q.n = c /\ q.d = d
  BY WorthOfItself
<1>3. PICK m \in Nat, n \in Nat \ {0} : r.n = m /\ r.d = n
  BY WorthOfItself
<1>4. PICK u \in Nat, v \in Nat \ {0} : s.n = u /\ s.d = v
  BY WorthOfItself
<1>5. a * d <= c * b /\ m * v <= u * n
  BY <1>1, <1>2, <1>3, <1>4 DEF Leq
<1>6. Worth(Plus(p, r), a * n + m * b, b * n) /\ Worth(Plus(q, s), c * v + u * d, d * v)
  BY <1>1, <1>2, <1>3, <1>4, PlusIs
<1>7. (a * d) * (n * v) <= (c * b) * (n * v) /\ (m * v) * (b * d) <= (u * n) * (b * d)
  BY <1>5, ProductGrows
<1>8. /\ (a * n + m * b) * (d * v) = (a * d) * (n * v) + (m * v) * (b * d)
      /\ (c * v + u * d) * (b * n) = (c * b) * (n * v) + (u * n) * (b * d)
  OBVIOUS
<1> DEFINE x == a * n + m * b
           y == b * n
           z == c * v + u * d
           t == d * v
<1>9. x * t <= z * y
  BY <1>7, <1>8
<1>10. x \in Nat /\ z \in Nat /\ y \in Nat \ {0} /\ t \in Nat \ {0}
  OBVIOUS
<1>11. Worth(Plus(p, r), x, y) /\ Worth(Plus(q, s), z, t)
  BY <1>6
<1> HIDE DEF x, y, z, t
<1>12. Leq(Plus(p, r), Plus(q, s))
  BY <1>9, <1>10, <1>11, WorthOrder
<1> QED BY <1>11, <1>12 DEF Worth

LEMMA LeqOrders ==
  ASSUME NEW p \in Fractions, NEW q \in Fractions
  PROVE  Leq(p, p) /\ (Leq(p, q) \/ Leq(q, p))
BY WorthOfItself DEF Leq

LEMMA LeqTransitive ==
  ASSUME NEW p \in Fractions, NEW q \in Fractions, NEW r \in Fractions, Leq(p, q), Leq(q, r)
  PROVE  Leq(p, r)
<1>1. PICK a \in Nat, b \in Nat \ {0} : p.n = a /\ p.d = b
  BY WorthOfItself
<1>2. PICK c \in Nat, d \in Nat \ {0} : q.n = c /\ q.d = d
  BY WorthOfItself
<1>3. PICK m \in Nat, n \in Nat \ {0} : r.n = m /\ r.d = n
  BY WorthOfItself
<1>4. a * d <= c * b /\ c * n <= m * d
  BY <1>1, <1>2, <1>3 DEF Leq
<1>5. (a * d) * n <= (c * b) * n /\ (c * n) * b <= (m * d) * b
  BY <1>4, ProductGrows
<1>6. (a * n) * d <= (m * b) * d
  <2>1. /\ (a * n) * d = (a * d) * n /\ (c * b) * n = (c * n) * b
        /\ (m * b) * d = (m * d) * b
    OBVIOUS
  <2> QED BY <1>5, <2>1
<1>7. a * n <= m * b
  <2>1. a * n \in Nat /\ m * b \in Nat
    OBVIOUS
  <2> QED BY <1>6, <2>1, Cancels
<1> QED BY <1>1, <1>3, <1>7 DEF Leq

\* The weight of a mean is at most 1.
Share(w) == w \in Fractions /\ w.n <= w.d

LEMMA OverRises ==
  ASSUME NEW p \in Fractions, NEW q \in Fractions, NEW r \in Fractions, Leq(p, q), r.n # 0
  PROVE  /\ Over(p, r) \in Fractions /\ Over(q, r) \in Fractions
         /\ Leq(Over(p, r), Over(q, r))
<1>1. [n |-> r.d, d |-> r.n] \in Fractions
  BY DEF Fractions
<1> QED BY <1>1, TimesRises DEF Over

LEMMA MixRises ==
  ASSUME NEW w, Share(w), NEW p \in Fractions, NEW q \in Fractions, NEW r \in Fractions, Leq(p, q)
  PROVE  /\ Mix(w, p, r) \in Fractions /\ Mix(w, q, r) \in Fractions
         /\ Leq(Mix(w, p, r), Mix(w, q, r))
<1> DEFINE rest == Times(Frac(w.d - w.n, w.d), r)
<1>1. w \in Fractions /\ w.d - w.n \in Nat /\ w.d \in Nat \ {0}
  BY WorthOfItself DEF Share
<1>2. rest \in Fractions
  <2>1. Frac(w.d - w.n, w.d) \in Fractions
    BY <1>1, FracIs DEF Worth
  <2> QED BY <2>1, TimesIs DEF Worth
<1>3. Leq(rest, rest)
  BY <1>2, LeqOrders
<1>4. Mix(w, p, r) = Plus(Times(w, p), rest) /\ Mix(w, q, r) = Plus(Times(w, q), rest)
  BY DEF Mix
<1> HIDE DEF rest
<1> QED BY <1>1, <1>2, <1>3, <1>4, TimesRises, PlusRises

LEMMA ClampRises ==
  ASSUME NEW lo \in Fractions, NEW hi \in Fractions, NEW p \in Fractions, NEW q \in Fractions,
         Leq(p, q)
  PROVE  /\ Between(lo, hi, p) \in Fractions /\ Between(lo, hi, q) \in Fractions
         /\ Leq(Between(lo, hi, p), Between(lo, hi, q))
         /\ Leq(Between(lo, hi, p), hi)
         /\ Leq(lo, hi) => Leq(lo, Between(lo, hi, p))
<1> DEFINE Above(x) == IF Leq(x, lo) THEN lo ELSE x
           Below(x) == IF Leq(hi, x) THEN hi ELSE x
<1>1. \A x \in {p, q} : Between(lo, hi, x) = Below(Above(x)) /\ Above(x) \in Fractions
  BY DEF Between
<1>2. Leq(Above(p), Above(q)) /\ Leq(lo, Above(p))
  BY LeqOrders, LeqTransitive
<1> HIDE DEF Above
<1>3. \A x \in Fractions : Below(x) \in Fractions /\ Leq(Below(x), hi)
  BY LeqOrders
<1>4. Leq(Below(Above(p)), Below(Above(q)))
  BY <1>1, <1>2, LeqOrders, LeqTransitive
<1>5. Leq(lo, hi) => Leq(lo, Below(Above(p)))
  BY <1>2
<1> QED BY <1>1, <1>3, <1>4, <1>5

LEMMA UnitRises ==
  ASSUME NEW p \in Fractions, NEW q \in Fractions, Leq(p, q)
  PROVE  Leq(clampUnitInterval(p), clampUnitInterval(q))
<1>1. One \in Fractions
  BY FracIs DEF One, Worth
<1> QED BY <1>1, LeqOrders, LeqTransitive DEF clampUnitInterval

-----------------------------------------------------------------------------
(* The mean of the recent results: a list with better ratios (Better) keeps *)
(* its places newest first, and its weighted mean is no lower.              *)

Sums(sum, terms, n) ==
  sum = [k \in 0 .. n |-> IF k = 0 THEN Zero ELSE Plus(sum[k - 1], terms[k])]

LEMMA SumExists ==
  ASSUME NEW terms, NEW n \in Nat
  PROVE  \E sum : Sums(sum, terms, n)
<1> DEFINE S == {k \in Nat : ~\E sum : Sums(sum, terms, k)}
<1>1. ASSUME S # {} PROVE FALSE
  <2>1. PICK k \in S : \A m \in S : k <= m
    BY <1>1, LeastNatural
  <2>2. k \in Nat /\ ~\E sum : Sums(sum, terms, k)
    OBVIOUS
  <2>3. CASE k = 0
    <3>1. Sums([j \in 0 .. 0 |-> Zero], terms, 0)
      <4>1. \A j \in 0 .. 0 : j = 0
        OBVIOUS
      <4> QED BY <4>1 DEF Sums
    <3> QED BY <2>2, <2>3, <3>1
  <2>4. CASE k # 0
    <3>1. k - 1 \in Nat /\ k - 1 \notin S
      BY <2>1, <2>2, <2>4
    <3>2. PICK f : Sums(f, terms, k - 1)
      BY <3>1
    <3> DEFINE g == [j \in 0 .. k |-> IF j = k THEN Plus(f[k - 1], terms[k]) ELSE f[j]]
    <3>3. ASSUME NEW j \in 0 .. k
          PROVE  g[j] = IF j = 0 THEN Zero ELSE Plus(g[j - 1], terms[j])
      <4>1. CASE j = k
        <5>1. g[j] = Plus(f[k - 1], terms[k]) /\ g[k - 1] = f[k - 1]
          BY <2>2, <2>4, <4>1
        <5> QED BY <2>4, <4>1, <5>1
      <4>2. CASE j # k
        <5>1. j \in 0 .. (k - 1) /\ g[j] = f[j]
          BY <2>2, <4>2
        <5>2. f[j] = IF j = 0 THEN Zero ELSE Plus(f[j - 1], terms[j])
          BY <3>2, <5>1 DEF Sums
        <5>3. j # 0 => g[j - 1] = f[j - 1]
          BY <2>2, <5>1
        <5> QED BY <5>1, <5>2, <5>3
      <4> QED BY <4>1, <4>2
    <3>4. g = [j \in 0 .. k |-> g[j]]
      OBVIOUS
    <3> HIDE DEF g
    <3>5. Sums(g, terms, k)
      BY <3>3, <3>4 DEF Sums
    <3> QED BY <2>2, <3>5
  <2> QED BY <2>3, <2>4
<1> QED BY <1>1

\* The sums of the first terms, none of them and all of them.
LEMMA SumsOfTerms ==
  ASSUME NEW terms, NEW n \in Nat
  PROVE  \E sum :
           /\ sum[0] = Zero /\ sum[n] = SumOf(terms, n)
           /\ \A k \in 1 .. n : sum[k] = Plus(sum[k - 1], terms[k])
<1> DEFINE sum == CHOOSE f : Sums(f, terms, n)
<1>1. SumOf(terms, n) = sum[n]
  BY DEF SumOf, Sums
<1>2. Sums(sum, terms, n)
  BY SumExists
<1> HIDE DEF sum
<1>3. \A k \in 0 .. n : sum[k] = IF k = 0 THEN Zero ELSE Plus(sum[k - 1], terms[k])
  BY <1>2 DEF Sums
<1> QED BY <1>1, <1>3

\* Sums of greater terms are greater.
LEMMA SumRises ==
  ASSUME NEW x, NEW y, NEW n \in Nat,
         \A k \in 1 .. n : x[k] \in Fractions /\ y[k] \in Fractions /\ Leq(x[k], y[k])
  PROVE  /\ SumOf(x, n) \in Fractions /\ SumOf(y, n) \in Fractions
         /\ Leq(SumOf(x, n), SumOf(y, n))
<1>1. PICK f : /\ f[0] = Zero /\ f[n] = SumOf(x, n)
               /\ \A k \in 1 .. n : f[k] = Plus(f[k - 1], x[k])
  BY SumsOfTerms
<1>2. PICK g : /\ g[0] = Zero /\ g[n] = SumOf(y, n)
               /\ \A k \in 1 .. n : g[k] = Plus(g[k - 1], y[k])
  BY SumsOfTerms
<1> DEFINE Rises(k) == f[k] \in Fractions /\ g[k] \in Fractions /\ Leq(f[k], g[k])
           S == {k \in Nat : k <= n /\ ~Rises(k)}
<1>3. ASSUME S # {} PROVE FALSE
  <2>1. PICK k \in S : \A m \in S : k <= m
    BY <1>3, LeastNatural
  <2>2. k \in 0 .. n /\ ~Rises(k)
    OBVIOUS
  <2>3. CASE k = 0
    <3>1. Zero \in Fractions
      BY FracIs DEF Zero, Worth
    <3> QED BY <1>1, <1>2, <2>2, <2>3, <3>1, LeqOrders
  <2>4. CASE k # 0
    <3>1. k \in 1 .. n /\ k - 1 \in 0 .. n
      BY <2>2, <2>4
    <3>2. Rises(k - 1)
      <4>1. ASSUME ~Rises(k - 1) PROVE FALSE
        <5>1. k - 1 \in S
          BY <3>1, <4>1
        <5> QED BY <2>1, <2>2, <5>1
      <4> QED BY <4>1
    <3>3. f[k] = Plus(f[k - 1], x[k]) /\ g[k] = Plus(g[k - 1], y[k])
      BY <1>1, <1>2, <3>1
    <3>4. x[k] \in Fractions /\ y[k] \in Fractions /\ Leq(x[k], y[k])
      BY <3>1
    <3>5. Rises(k)
      BY <3>2, <3>3, <3>4, PlusRises
    <3> QED BY <2>2, <3>5
  <2> QED BY <2>3, <2>4
<1>4. Rises(n)
  BY <1>3
<1> QED BY <1>1, <1>2, <1>4

\* A sum of positive terms is positive.
LEMMA SumPositive ==
  ASSUME NEW x, NEW n \in Nat \ {0},
         \A k \in 1 .. n : x[k] \in Fractions /\ x[k].n # 0
  PROVE  SumOf(x, n) \in Fractions /\ SumOf(x, n).n # 0
<1>1. PICK f : /\ f[0] = Zero /\ f[n] = SumOf(x, n)
               /\ \A k \in 1 .. n : f[k] = Plus(f[k - 1], x[k])
  BY SumsOfTerms
<1> DEFINE Good(k) == f[k] \in Fractions /\ (k # 0 => f[k].n # 0)
           S == {k \in Nat : k <= n /\ ~Good(k)}
<1>2. ASSUME NEW p \in Fractions, NEW q \in Fractions, q.n # 0
      PROVE  Plus(p, q) \in Fractions /\ Plus(p, q).n # 0
  <2>1. Worth(Plus(p, q), p.n * q.d + q.n * p.d, p.d * q.d)
    BY PlusIs
  <2>2. PICK a \in Nat, b \in Nat \ {0} : p.n = a /\ p.d = b
    BY WorthOfItself
  <2>3. PICK c \in Nat \ {0}, d \in Nat \ {0} : q.n = c /\ q.d = d
    BY <1>2, WorthOfItself
  <2>4. PICK u \in Nat, v \in Nat \ {0} : Plus(p, q).n = u /\ Plus(p, q).d = v
    BY <2>1, WorthOfItself DEF Worth
  <2>5. u * (b * d) = (a * d + c * b) * v
    BY <2>1, <2>2, <2>3, <2>4 DEF Worth
  <2>6. (a * d + c * b) * v # 0
    <3>1. a * d \in Nat /\ c * b \in Nat \ {0}
      OBVIOUS
    <3> DEFINE w == a * d + c * b
    <3>2. w \in Nat \ {0}
      BY <3>1
    <3> HIDE DEF w
    <3>3. w * v # 0
      BY <3>2
    <3> QED BY <3>3 DEF w
  <2>7. u # 0
    BY <2>5, <2>6
  <2> QED BY <2>1, <2>4, <2>7 DEF Worth
<1>3. ASSUME S # {} PROVE FALSE
  <2>1. PICK k \in S : \A m \in S : k <= m
    BY <1>3, LeastNatural
  <2>2. k \in 0 .. n /\ ~Good(k)
    OBVIOUS
  <2>3. CASE k = 0
    BY <1>1, <2>2, <2>3, FracIs DEF Zero, Worth
  <2>4. CASE k # 0
    <3>1. k \in 1 .. n /\ k - 1 \in 0 .. n
      BY <2>2, <2>4
    <3>2. Good(k - 1)
      <4>1. ASSUME ~Good(k - 1) PROVE FALSE
        <5>1. k - 1 \in S
          BY <3>1, <4>1
        <5> QED BY <2>1, <2>2, <5>1
      <4> QED BY <4>1
    <3>3. Good(k)
      BY <1>1, <1>2, <3>1, <3>2
    <3> QED BY <2>2, <3>3
  <2> QED BY <2>3, <2>4
<1>4. Good(n)
  BY <1>3
<1> QED BY <1>1, <1>4

\* Two lists of the same matches, of which one has the better dominance ratios.
BetterRow(r, u) ==
  /\ u.date = r.date /\ (u.dr = NoDR <=> r.dr = NoDR)
  /\ r.dr # NoDR => Leq(r.dr, u.dr)
Better(s, t) ==
  /\ s \in Seq(PageResults) /\ t \in Seq(PageResults) /\ Len(s) = Len(t)
  /\ \A p \in 1 .. Len(s) : BetterRow(s[p], t[p])

LEMMA PagesHoldResults == PageResults \subseteq Results
BY DEF PageResults, Results, NoDR, Fractions

\* Newest first, both lists have the same matches at the same places.
LEMMA NewestBetter ==
  ASSUME NEW s, NEW t, Better(s, t), NEW P \in SUBSET (1 .. Len(s))
  PROVE  /\ Better(NewestOf(s, P), NewestOf(t, P))
         /\ \A k \in 1 .. Len(NewestOf(s, P)) : \E p \in P :
              NewestOf(s, P)[k] = s[p] /\ NewestOf(t, P)[k] = t[p]
<1> DEFINE n == Cardinality(P)
<1>1. s \in Seq(Results) /\ t \in Seq(Results) /\ P \in SUBSET (1 .. Len(t))
  <2>1. s \in Seq(PageResults) /\ t \in Seq(PageResults) /\ Len(s) = Len(t)
    BY DEF Better
  <2>2. \A p \in 1 .. Len(s) : s[p] \in Results /\ t[p] \in Results
    BY <2>1, PagesHoldResults
  <2>3. s \in [1 .. Len(s) -> Results] /\ t \in [1 .. Len(t) -> Results]
    BY <2>1, <2>2, LenProperties
  <2> QED BY <2>1, <2>3, SeqDef, LenProperties
<1>2. \A p \in P : Rank(t, P, p) = Rank(s, P, p)
  <2>1. \A p, q \in P : Newer(t, q, p) <=> Newer(s, q, p)
    BY DEF Better, BetterRow, Newer
  <2> SUFFICES ASSUME NEW p \in P PROVE Rank(t, P, p) = Rank(s, P, p)
    OBVIOUS
  <2>2. {q \in P : Newer(t, q, p)} = {q \in P : Newer(s, q, p)}
    BY <2>1
  <2> QED BY <2>2 DEF Rank
<1>3. ASSUME NEW k \in 1 .. n
      PROVE  \E p \in P : PlaceOf(s, P, k) = s[p] /\ PlaceOf(t, P, k) = t[p]
  <2> DEFINE j == CHOOSE p \in P : Rank(s, P, p) = k
             l == CHOOSE p \in P : Rank(t, P, p) = k
  <2>1. j \in P /\ Rank(s, P, j) = k
    BY <1>1, Ranks
  <2>2. l \in P /\ Rank(t, P, l) = k
    BY <1>1, Ranks
  <2>3. PlaceOf(s, P, k) = s[j] /\ PlaceOf(t, P, k) = t[l]
    BY DEF PlaceOf
  <2> HIDE DEF j, l
  <2>4. j = l
    <3>1. Rank(s, P, l) = k
      BY <1>2, <2>2
    <3>2. \A p, q \in P : Rank(s, P, p) = Rank(s, P, q) => p = q
      BY <1>1, Ranks
    <3> QED BY <2>1, <2>2, <3>1, <3>2, Zenon
  <2> QED BY <2>1, <2>3, <2>4
<1>4. n \in Nat
  BY <1>1, Ranks
<1> DEFINE u == NewestOf(s, P)
           v == NewestOf(t, P)
<1>5. /\ u = [k \in 1 .. n |-> PlaceOf(s, P, k)]
      /\ v = [k \in 1 .. n |-> PlaceOf(t, P, k)]
  BY NewestPlaces
<1> HIDE DEF n, u, v
<1>6. \A k \in 1 .. n : \E p \in P : u[k] = s[p] /\ v[k] = t[p]
  BY <1>3, <1>5
<1>7. ASSUME NEW k \in 1 .. n
      PROVE  u[k] \in PageResults /\ v[k] \in PageResults /\ BetterRow(u[k], v[k])
  <2>1. PICK p \in P : u[k] = s[p] /\ v[k] = t[p]
    BY <1>6
  <2>2. p \in 1 .. Len(s) /\ p \in 1 .. Len(t)
    BY <1>1
  <2>3. s[p] \in PageResults /\ t[p] \in PageResults /\ BetterRow(s[p], t[p])
    BY <2>2, LenProperties DEF Better
  <2> QED BY <2>1, <2>3
<1>8. u \in [1 .. n -> PageResults] /\ v \in [1 .. n -> PageResults]
  BY <1>5, <1>7
<1>9. u \in Seq(PageResults) /\ v \in Seq(PageResults) /\ Len(u) = n /\ Len(v) = n
  BY <1>4, <1>8, SeqDef, LenProperties
<1>10. Better(u, v)
  BY <1>7, <1>9 DEF Better
<1> QED BY <1>6, <1>9, <1>10 DEF u, v

LEMMA UpToBetter ==
  ASSUME NEW s, NEW t, Better(s, t), NEW limit \in Nat
  PROVE  /\ Better(UpTo(limit, s), UpTo(limit, t))
         /\ Len(UpTo(limit, s)) <= limit /\ Len(UpTo(limit, s)) <= Len(s)
         /\ \A k \in 1 .. Len(UpTo(limit, s)) :
              UpTo(limit, s)[k] = s[k] /\ UpTo(limit, t)[k] = t[k]
<1> DEFINE m == Min({limit, Len(s)})
<1>1. s \in Seq(PageResults) /\ t \in Seq(PageResults) /\ Len(s) = Len(t) /\ Len(s) \in Nat
  BY DEF Better
<1>2. m \in 0 .. Len(s) /\ m <= limit
  BY <1>1 DEF Min
<1>3. UpTo(limit, s) = SubSeq(s, 1, m) /\ UpTo(limit, t) = SubSeq(t, 1, m)
  BY <1>1 DEF UpTo
<1> HIDE DEF m
<1>4. /\ SubSeq(s, 1, m) \in Seq(PageResults) /\ Len(SubSeq(s, 1, m)) = m
      /\ SubSeq(t, 1, m) \in Seq(PageResults) /\ Len(SubSeq(t, 1, m)) = m
      /\ \A k \in 1 .. m : SubSeq(s, 1, m)[k] = s[k] /\ SubSeq(t, 1, m)[k] = t[k]
  BY <1>1, <1>2
<1>5. \A k \in 1 .. m : BetterRow(s[k], t[k])
  BY <1>1, <1>2 DEF Better
<1> QED BY <1>2, <1>3, <1>4, <1>5 DEF Better

LEMMA BeforeBetter ==
  ASSUME NEW s, NEW t, Better(s, t), NEW day, NEW limit \in Nat
  PROVE  Better(RecentResultsBefore(s, day, limit), RecentResultsBefore(t, day, limit))
<1> DEFINE P == {p \in 1 .. Len(s) : s[p].date < day}
<1>1. {p \in 1 .. Len(t) : t[p].date < day} = P
  BY DEF Better, BetterRow
<1>2. Better(NewestOf(s, P), NewestOf(t, P))
  BY NewestBetter
<1> HIDE DEF P
<1> QED BY <1>1, <1>2, UpToBetter DEF RecentResultsBefore, P

LEMMA FracShare ==
  ASSUME NEW n \in Nat, NEW d \in Nat \ {0}, n <= d
  PROVE  Share(Frac(n, d))
<1>1. Worth(Frac(n, d), n, d)
  BY FracIs
<1>2. PICK u \in Nat, v \in Nat \ {0} : Frac(n, d).n = u /\ Frac(n, d).d = v
  BY <1>1, WorthOfItself DEF Worth
<1>3. u * d = n * v
  BY <1>1, <1>2 DEF Worth
<1>4. v * n <= v * d
  BY ProductGrows
<1>5. u * d <= v * d
  BY <1>3, <1>4
<1>6. u <= v
  BY <1>5, Cancels
<1> QED BY <1>1, <1>2, <1>6 DEF Share, Worth

\* A share of a fraction is no more, and a share of a share is one.
LEMMA ShareOf ==
  ASSUME NEW p \in Fractions, NEW w, Share(w)
  PROVE  /\ Times(p, w) \in Fractions /\ Leq(Times(p, w), p)
         /\ Share(p) => Share(Times(p, w))
<1>1. PICK a \in Nat, b \in Nat \ {0} : p.n = a /\ p.d = b
  BY WorthOfItself
<1>2. PICK c \in Nat, d \in Nat \ {0} : w.n = c /\ w.d = d /\ c <= d
  BY WorthOfItself DEF Share
<1>3. Worth(Times(p, w), a * c, b * d) /\ Worth(p, a, b)
  BY <1>1, <1>2, TimesIs, WorthOfItself DEF Share
<1>4. PICK u \in Nat, v \in Nat \ {0} : Times(p, w).n = u /\ Times(p, w).d = v
  BY <1>3, WorthOfItself DEF Worth
<1>5. (a * c) * b <= a * (b * d)
  <2>1. (a * b) * c <= (a * b) * d
    BY <1>2, ProductGrows
  <2>2. (a * c) * b = (a * b) * c /\ a * (b * d) = (a * b) * d
    OBVIOUS
  <2> QED BY <2>1, <2>2
<1>6. a * c \in Nat /\ b * d \in Nat \ {0}
  OBVIOUS
<1>7. Leq(Times(p, w), p)
  BY <1>3, <1>5, <1>6, WorthOrder
<1>8. ASSUME a <= b PROVE u <= v
  <2>1. u * b <= a * v
    BY <1>1, <1>4, <1>7 DEF Leq
  <2>2. v * a <= v * b
    BY <1>8, ProductGrows
  <2>3. u * b <= v * b
    BY <2>1, <2>2
  <2> QED BY <2>3, Cancels
<1> QED BY <1>1, <1>3, <1>4, <1>7, <1>8 DEF Share, Worth

LEMMA NothingIs ==
  /\ Zero = [n |-> 0, d |-> 1] /\ One = [n |-> 1, d |-> 1]
  /\ Zero \in Fractions /\ One \in Fractions
  /\ \A p \in Fractions : p.n = 0 => p = Zero
  /\ \A p \in Fractions : Times(p, Zero) = Zero
<1>1. /\ Zero.n = 0 /\ Zero.d = 1 /\ Zero \in Fractions
      /\ One.n = 1 /\ One.d = 1 /\ One \in Fractions
  BY FracOfWhole, FracIs DEF Zero, One, Worth
<1>2. Zero = [n |-> 0, d |-> 1] /\ One = [n |-> 1, d |-> 1]
  BY <1>1 DEF Fractions
<1>3. ASSUME NEW p \in Fractions, p.n = 0 PROVE p = Zero
  BY <1>2, <1>3 DEF Fractions
<1>4. ASSUME NEW p \in Fractions PROVE Times(p, Zero) = Zero
  <2>1. Worth(Times(p, Zero), p.n * Zero.n, p.d * Zero.d)
    BY <1>1, TimesIs
  <2>2. PICK u \in Nat, v \in Nat \ {0} : Times(p, Zero).n = u /\ Times(p, Zero).d = v
    BY <2>1, WorthOfItself DEF Worth
  <2>3. PICK a \in Nat, b \in Nat \ {0} : p.n = a /\ p.d = b
    BY WorthOfItself
  <2>4. u * (b * 1) = (a * 0) * v
    BY <1>1, <2>1, <2>2, <2>3 DEF Worth
  <2>5. u = 0
    BY <2>4
  <2> QED BY <1>3, <2>1, <2>2, <2>5 DEF Worth
<1> QED BY <1>1, <1>2, <1>3, <1>4

\* Better results have the better mean, of as many of them.
LEMMA FormRises ==
  ASSUME NEW s, NEW t, Better(s, t), NEW limit \in Nat \ {0}, NEW halfLife,
         \A k \in 1 .. limit : Decay[halfLife][k] \in Nat \ {0}
  PROVE  LET f == recentDRForm(s, limit, halfLife)
             g == recentDRForm(t, limit, halfLife)
         IN  /\ f.nValid \in 0 .. limit /\ g.nValid = f.nValid
             /\ f.mean \in Fractions /\ g.mean \in Fractions /\ Leq(f.mean, g.mean)
<1> DEFINE P == {p \in 1 .. Len(s) : s[p].dr # NoDR}
           u == UpTo(limit, NewestOf(s, P))
           v == UpTo(limit, NewestOf(t, P))
           n == Len(u)
           Weight(k) == Frac(Decay[halfLife][k], 1)
           W == [k \in 1 .. n |-> Weight(k)]
           X == [k \in 1 .. n |-> Times(Weight(k), u[k].dr)]
           Y == [k \in 1 .. n |-> Times(Weight(k), v[k].dr)]
<1>1. P = {p \in 1 .. Len(t) : t[p].dr # NoDR} /\ P \in SUBSET (1 .. Len(s))
  BY DEF Better, BetterRow
<1>2. \A p \in P : s[p].dr # NoDR
  OBVIOUS
<1> HIDE DEF P
<1>3. /\ Better(NewestOf(s, P), NewestOf(t, P))
      /\ \A k \in 1 .. Len(NewestOf(s, P)) : \E p \in P : NewestOf(s, P)[k] = s[p]
  <2>1. P \in SUBSET (1 .. Len(s))
    BY <1>1
  <2>2. /\ Better(NewestOf(s, P), NewestOf(t, P))
        /\ \A k \in 1 .. Len(NewestOf(s, P)) : \E p \in P :
             NewestOf(s, P)[k] = s[p] /\ NewestOf(t, P)[k] = t[p]
    BY <2>1, NewestBetter
  <2> QED BY <2>2
<1>4. /\ Better(u, v) /\ n <= limit /\ n <= Len(NewestOf(s, P))
      /\ \A k \in 1 .. n : u[k] = NewestOf(s, P)[k]
  BY <1>3, UpToBetter
<1>5. n \in Nat /\ Len(v) = n /\ Len(NewestOf(s, P)) \in Nat
  BY <1>3, <1>4 DEF Better
<1>6. \A k \in 1 .. n : u[k].dr # NoDR
  <2> SUFFICES ASSUME NEW k \in 1 .. n PROVE u[k].dr # NoDR
    OBVIOUS
  <2>1. k \in 1 .. Len(NewestOf(s, P))
    BY <1>4, <1>5
  <2> QED BY <1>2, <1>3, <1>4, <2>1
<1>7. /\ recentDRForm(s, limit, halfLife) =
           [mean |-> IF n = 0 THEN Zero ELSE Over(SumOf(X, n), SumOf(W, n)), nValid |-> n]
      /\ recentDRForm(t, limit, halfLife) =
           [mean |-> IF n = 0 THEN Zero ELSE Over(SumOf(Y, n), SumOf(W, n)), nValid |-> n]
  BY <1>1, <1>5 DEF recentDRForm, P
<1> HIDE DEF u, v
<1>8. \A k \in 1 .. n : u[k].dr \in Fractions /\ v[k].dr \in Fractions /\ Leq(u[k].dr, v[k].dr)
  <2> SUFFICES ASSUME NEW k \in 1 .. n
               PROVE  u[k].dr \in Fractions /\ v[k].dr \in Fractions /\ Leq(u[k].dr, v[k].dr)
    OBVIOUS
  <2>1. BetterRow(u[k], v[k]) /\ u[k].dr # NoDR
    BY <1>4, <1>6 DEF Better
  <2>2. u[k] \in PageResults /\ v[k] \in PageResults
    BY <1>4, <1>5, LenProperties DEF Better
  <2> QED BY <2>1, <2>2 DEF BetterRow, PageResults
<1>9. \A k \in 1 .. n : Weight(k) \in Fractions /\ Weight(k).n # 0
  <2> SUFFICES ASSUME NEW k \in 1 .. n PROVE Weight(k) \in Fractions /\ Weight(k).n # 0
    OBVIOUS
  <2>1. k \in 1 .. limit
    BY <1>4, <1>5
  <2>2. Decay[halfLife][k] \in Nat \ {0}
    BY <2>1
  <2> QED BY <2>2, FracIs, FracOfWhole DEF Worth
<1> HIDE DEF Weight
<1>10. \A k \in 1 .. n : X[k] \in Fractions /\ Y[k] \in Fractions /\ Leq(X[k], Y[k])
  BY <1>8, <1>9, TimesRises
<1>11. \A k \in 1 .. n : W[k] \in Fractions /\ W[k].n # 0
  BY <1>9
<1> HIDE DEF X, Y, W, n
<1>12. CASE n = 0
  BY <1>4, <1>5, <1>7, <1>12, NothingIs, LeqOrders
<1>13. CASE n # 0
  <2>1. SumOf(W, n) \in Fractions /\ SumOf(W, n).n # 0
    BY <1>5, <1>11, <1>13, SumPositive
  <2>2. SumOf(X, n) \in Fractions /\ SumOf(Y, n) \in Fractions /\ Leq(SumOf(X, n), SumOf(Y, n))
    BY <1>5, <1>10, SumRises
  <2> QED BY <1>4, <1>5, <1>7, <1>13, <2>1, <2>2, OverRises
<1> QED BY <1>12, <1>13

-----------------------------------------------------------------------------
(* The rates of a season and its form: the adjustment of a live player and  *)
(* of a past match, as one season scaled by one list of results.            *)

SoundOptions(opts) ==
  /\ opts.minSeason \in Nat \ {0} /\ opts.chalWeight \in Nat \ {0} /\ opts.limit \in Nat \ {0}
  /\ opts.weightMax \in 1 .. 10
  /\ opts.ratioMin \in Nat \ {0} /\ opts.ratioMax \in Nat \ {0} /\ opts.ratioMin <= opts.ratioMax
  /\ \A k \in 1 .. opts.limit : Decay[opts.halfLife][k] \in Nat \ {0}

Rated(row) == row.hold \in Fractions /\ row.brk \in Fractions /\ row.dr \in Fractions

\* What the form does to a baseline.
ScaledFrom(made, base, opts) ==
  /\ made.seasonHold = base.hold /\ made.seasonBreak = base.brk
  /\ made.hold = clampUnitInterval(Mix(made.weight, Times(base.hold, made.ratio), base.hold))
  /\ made.brk = clampUnitInterval(Mix(made.weight, Times(base.brk, made.ratio), base.brk))
  /\ Leq(made.weight, Tenths(opts.weightMax))
  /\ Leq(made.ratio, Tenths(opts.ratioMax)) \/ made.weight = Zero
  /\ Leq(Tenths(opts.ratioMin), made.ratio) \/ made.weight = Zero
RatesRise(made, redone) == Leq(made.hold, redone.hold) /\ Leq(made.brk, redone.brk)

BetterForm(f, g, limit) ==
  /\ f.nValid \in 0 .. limit /\ g.nValid = f.nValid
  /\ f.mean \in Fractions /\ g.mean \in Fractions /\ Leq(f.mean, g.mean)

LEMMA WeightBound ==
  ASSUME NEW f, NEW opts, SoundOptions(opts), f.nValid \in 0 .. opts.limit
  PROVE  /\ Share(FormWeight(f, opts)) /\ Leq(FormWeight(f, opts), Tenths(opts.weightMax))
         /\ f.nValid = 0 => FormWeight(f, opts) = Zero
<1> DEFINE p == Frac(opts.weightMax, 10)
           w == Frac(f.nValid, opts.limit)
<1>1. Share(p) /\ Share(w)
  BY FracShare DEF SoundOptions
<1>2. FormWeight(f, opts) = Times(p, w) /\ Tenths(opts.weightMax) = p
  BY DEF FormWeight, Tenths
<1>3. f.nValid = 0 => w = Zero
  <2> SUFFICES ASSUME f.nValid = 0 PROVE w = Zero
    OBVIOUS
  <2>1. PICK d \in Nat \ {0} : opts.limit = d
    BY DEF SoundOptions
  <2>2. Worth(w, 0, d)
    BY <2>1, FracIs
  <2> HIDE DEF w
  <2>3. w.n * d = 0 /\ w.n \in Nat /\ w \in Fractions
    BY <2>2, WorthOfItself DEF Worth
  <2>4. w.n = 0
    BY <2>3
  <2> QED BY <2>3, <2>4, NothingIs
<1> HIDE DEF p, w
<1>4. Share(Times(p, w)) /\ Leq(Times(p, w), p)
  BY <1>1, ShareOf DEF Share
<1>5. Times(p, Zero) = Zero
  BY <1>1, NothingIs DEF Share
<1> QED BY <1>2, <1>3, <1>4, <1>5

LEMMA RatioBounds ==
  ASSUME NEW f, NEW g, NEW opts, SoundOptions(opts), BetterForm(f, g, opts.limit), NEW dr0 \in Fractions
  PROVE  /\ FormRatio(f, dr0, opts) \in Fractions /\ FormRatio(g, dr0, opts) \in Fractions
         /\ Leq(FormRatio(f, dr0, opts), FormRatio(g, dr0, opts))
         /\ f.nValid # 0 =>
              /\ Leq(FormRatio(f, dr0, opts), Tenths(opts.ratioMax))
              /\ Leq(Tenths(opts.ratioMin), FormRatio(f, dr0, opts))
<1> DEFINE lo == Tenths(opts.ratioMin)
           hi == Tenths(opts.ratioMax)
           x == IF dr0 = Zero THEN f.mean ELSE Over(f.mean, dr0)
           y == IF dr0 = Zero THEN g.mean ELSE Over(g.mean, dr0)
<1>1. CASE f.nValid = 0
  BY <1>1, NothingIs, LeqOrders DEF BetterForm, FormRatio
<1>2. CASE f.nValid # 0
  <2>1. FormRatio(f, dr0, opts) = Between(lo, hi, x) /\ FormRatio(g, dr0, opts) = Between(lo, hi, y)
    BY <1>2 DEF BetterForm, FormRatio
  <2>2. lo \in Fractions /\ hi \in Fractions /\ Leq(lo, hi)
    <3>1. PICK a \in Nat, b \in Nat : opts.ratioMin = a /\ opts.ratioMax = b /\ a <= b
      BY DEF SoundOptions
    <3>2. Worth(lo, a, 10) /\ Worth(hi, b, 10)
      BY <3>1, FracIs DEF Tenths
    <3> HIDE DEF lo, hi
    <3>3. a * 10 <= b * 10
      BY <3>1
    <3>4. Leq(lo, hi)
      BY <3>2, <3>3, WorthOrder
    <3> QED BY <3>2, <3>4 DEF Worth
  <2>3. x \in Fractions /\ y \in Fractions /\ Leq(x, y)
    <3>1. dr0 # Zero => dr0.n # 0
      BY NothingIs
    <3> QED BY <3>1, OverRises DEF BetterForm
  <2> HIDE DEF lo, hi, x, y
  <2>4. /\ Between(lo, hi, x) \in Fractions /\ Between(lo, hi, y) \in Fractions
        /\ Leq(Between(lo, hi, x), Between(lo, hi, y))
        /\ Leq(Between(lo, hi, x), hi) /\ Leq(lo, Between(lo, hi, x))
    BY <2>2, <2>3, ClampRises
  <2> QED BY <2>1, <2>4 DEF lo, hi
<1> QED BY <1>1, <1>2

LEMMA ScaledRises ==
  ASSUME NEW base, Rated(base), NEW f, NEW g, NEW opts, SoundOptions(opts),
         BetterForm(f, g, opts.limit), NEW m
  PROVE  LET Rates(form) ==
               Scaled(base, FormWeight(form, opts), FormRatio(form, base.dr, opts), m)
         IN  ScaledFrom(Rates(f), base, opts) /\ RatesRise(Rates(f), Rates(g))
<1> DEFINE w == FormWeight(f, opts)
           r == FormRatio(f, base.dr, opts)
           q == FormRatio(g, base.dr, opts)
           Rate(rate, ratio) == clampUnitInterval(Mix(w, Times(rate, ratio), rate))
<1>1. /\ Share(w) /\ Leq(w, Tenths(opts.weightMax))
      /\ f.nValid = 0 => w = Zero
  BY WeightBound DEF BetterForm
<1>2. /\ r \in Fractions /\ q \in Fractions /\ Leq(r, q)
      /\ f.nValid # 0 => Leq(r, Tenths(opts.ratioMax)) /\ Leq(Tenths(opts.ratioMin), r)
  BY RatioBounds DEF Rated
<1>3. FormWeight(g, opts) = w
  BY DEF FormWeight, BetterForm
<1> HIDE DEF w, r, q
<1>4. ASSUME NEW rate \in Fractions
      PROVE  Leq(Rate(rate, r), Rate(rate, q))
  <2>1. /\ Times(rate, r) \in Fractions /\ Times(rate, q) \in Fractions
        /\ Leq(Times(rate, r), Times(rate, q))
    BY <1>2, TimesRises
  <2>2. /\ Mix(w, Times(rate, r), rate) \in Fractions /\ Mix(w, Times(rate, q), rate) \in Fractions
        /\ Leq(Mix(w, Times(rate, r), rate), Mix(w, Times(rate, q), rate))
    BY <1>1, <2>1, MixRises
  <2> QED BY <2>2, UnitRises
<1>5. Leq(Rate(base.hold, r), Rate(base.hold, q)) /\ Leq(Rate(base.brk, r), Rate(base.brk, q))
  BY <1>4 DEF Rated
<1> HIDE DEF Rate
<1>6. \A ratio : LET made == Scaled(base, w, ratio, m)
                 IN  /\ made.hold = Rate(base.hold, ratio) /\ made.brk = Rate(base.brk, ratio)
                     /\ made.weight = w /\ made.ratio = ratio
                     /\ made.seasonHold = base.hold /\ made.seasonBreak = base.brk
  BY DEF Scaled, Rate
<1>7. RatesRise(Scaled(base, w, r, m), Scaled(base, w, q, m))
  BY <1>5, <1>6 DEF RatesRise
<1>8. ScaledFrom(Scaled(base, w, r, m), base, opts)
  BY <1>1, <1>2, <1>6 DEF ScaledFrom, Rate
<1> QED BY <1>3, <1>7, <1>8 DEF w, r, q

\* The rows of a page stay rows, and no row is the missing one.
LEMMA NoSeasonIsNoRow == NoSeason \notin SeasonRows /\ \A row \in SeasonRows : Rated(row)
BY DEF NoSeason, SeasonRows, Rated

LEMMA SeasonFound ==
  ASSUME NEW seasons \in Seq(SeasonRows), NEW year
  PROVE  findSeason(seasons, year) \in SeasonRows \cup {NoSeason}
<1> DEFINE at == {p \in 1 .. Len(seasons) : ~seasons[p].career /\ seasons[p].year = year}
<1>1. findSeason(seasons, year) = IF at = {} THEN NoSeason ELSE seasons[Min(at)]
  BY DEF findSeason
<1>2. at \in SUBSET (1 .. Len(seasons)) /\ at \in SUBSET Nat
  BY LenProperties
<1> HIDE DEF at
<1>3. CASE at # {}
  <2>1. PICK n \in at : \A m \in at : n <= m
    BY <1>2, <1>3, LeastNatural
  <2>2. Min(at) \in at
    BY <2>1 DEF Min
  <2>3. \A k \in 1 .. Len(seasons) : seasons[k] \in SeasonRows
    BY LenProperties
  <2>4. seasons[Min(at)] \in SeasonRows
    BY <1>2, <2>2, <2>3
  <2> QED BY <1>1, <1>3, <2>4
<1> QED BY <1>1, <1>3

LEMMA MixIs ==
  ASSUME NEW w, Share(w), NEW p \in Fractions, NEW q \in Fractions
  PROVE  Mix(w, p, q) \in Fractions
BY LeqOrders, MixRises

LEMMA BlendedIsRow ==
  ASSUME NEW s \in SeasonRows, NEW t \in SeasonRows
  PROVE  Blended(s, t) \in SeasonRows
<1> DEFINE w == Frac(s.matches, s.matches + t.matches)
           h == Mix(w, s.hold, t.hold)
           b == Mix(w, s.brk, t.brk)
           r == Mix(w, s.dr, t.dr)
<1>1. Share(w)
  <2>1. s.matches \in Nat /\ s.matches + t.matches \in Nat \ {0} /\ s.matches <= s.matches + t.matches
    BY DEF SeasonRows
  <2> QED BY <2>1, FracShare
<1>2. Blended(s, t) = [s EXCEPT !.hold = h, !.brk = b, !.dr = r]
  BY DEF Blended, Weighted
<1> HIDE DEF w
<1>3. h \in Fractions /\ b \in Fractions /\ r \in Fractions
  BY <1>1, MixIs DEF SeasonRows
<1> HIDE DEF h, b, r
<1> QED BY <1>2, <1>3 DEF SeasonRows

LEMMA ScaledIsRow ==
  ASSUME NEW s \in SeasonRows, NEW w \in Fractions
  PROVE  scaleChallengerSeason(s, w) \in SeasonRows
<1> DEFINE h == Times(s.hold, w)
           b == Times(s.brk, w)
           r == Times(s.dr, w)
<1>1. scaleChallengerSeason(s, w) = [s EXCEPT !.hold = h, !.brk = b, !.dr = r]
  BY DEF scaleChallengerSeason
<1>2. h \in Fractions /\ b \in Fractions /\ r \in Fractions
  BY TimesIs DEF SeasonRows, Worth
<1> HIDE DEF h, b, r
<1> QED BY <1>1, <1>2 DEF SeasonRows

LEMMA EffectiveIsRow ==
  ASSUME NEW tour \in Seq(SeasonRows), NEW challenger \in Seq(SeasonRows), NEW year, NEW n,
         NEW w \in Fractions
  PROVE  buildEffectiveCurrentSeason(tour, challenger, year, n, w) \in SeasonRows \cup {NoSeason}
<1> DEFINE row == findSeason(challenger, year)
           tourRow == findSeason(tour, year)
           chal == scaleChallengerSeason(row, w)
           useChal == mostRecentChallengerYear(challenger) = year /\ row # NoSeason
           both == [Blended(tourRow, chal) EXCEPT !.matches = @ + chal.matches]
           season == buildEffectiveCurrentSeason(tour, challenger, year, n, w)
<1>1. row \in SeasonRows \cup {NoSeason} /\ tourRow \in SeasonRows \cup {NoSeason}
  BY SeasonFound
<1>2. season =
        CASE tourRow # NoSeason /\ (tourRow.matches >= n \/ ~useChal) -> tourRow
          [] tourRow # NoSeason /\ tourRow.matches < n /\ useChal -> both
          [] tourRow = NoSeason /\ useChal -> chal
          [] OTHER -> NoSeason
  BY DEF buildEffectiveCurrentSeason
<1>3. useChal => chal \in SeasonRows
  BY <1>1, ScaledIsRow
<1>4. ASSUME useChal, tourRow # NoSeason PROVE both \in SeasonRows
  <2>1. chal \in SeasonRows /\ tourRow \in SeasonRows
    BY <1>1, <1>3, <1>4
  <2>2. Blended(tourRow, chal) \in SeasonRows
    BY <2>1, BlendedIsRow
  <2> DEFINE m == Blended(tourRow, chal).matches + chal.matches
  <2>3. both = [Blended(tourRow, chal) EXCEPT !.matches = m] /\ m \in Nat \ {0}
    BY <2>1, <2>2 DEF SeasonRows
  <2> HIDE DEF m, chal, tourRow
  <2> QED BY <2>2, <2>3 DEF SeasonRows
<1> HIDE DEF row, tourRow, chal, useChal, both, season
<1>5. season \in SeasonRows \cup {NoSeason}
  BY <1>1, <1>2, <1>3, <1>4
<1> QED BY <1>5 DEF season

\* The options of a surface are all set, so they pass withDefaults unchanged;
\* what no surface sets is the same in the options of fetchrates.
LEMMA OptionsSettled ==
  ASSUME NEW p \in Profiles
  PROVE  LET opts == FormOptionsFromEnv(p.surfaceEnv, p.env)
             stored == withDefaults(Unset, p.env)
         IN  /\ SoundOptions(opts) /\ withDefaults(opts, p.env) = opts
             /\ stored.minSeason = opts.minSeason /\ stored.chalWeight = opts.chalWeight
<1> DEFINE Fields == Tuned \cup {"minSeason", "limit", "chalWeight"}
           own == [f \in Fields |->
                     IF f \in Tuned THEN FirstSet(p.surfaceEnv[f], p.env[f], Defaults[f]) ELSE 0]
           opts == FormOptionsFromEnv(p.surfaceEnv, p.env)
<1>1. /\ Defaults \in [Fields -> Nat \ {0}] /\ DOMAIN Defaults = Fields
      /\ p.env \in [Fields -> Nat] /\ p.surfaceEnv \in [Fields -> Nat]
  BY PagesAssumption, TuningAssumption
<1>2. opts = withDefaults(own, p.env)
  BY <1>1 DEF FormOptionsFromEnv
<1>3. \A a \in Nat, b \in Nat, c \in Nat \ {0} :
        FirstSet(a, b, c) \in Nat \ {0} /\ (a # 0 => FirstSet(a, b, c) = a)
  BY DEF FirstSet
<1>4. \A f \in Fields : own[f] \in Nat /\ (f \in Tuned => own[f] # 0)
  BY <1>1, <1>3
<1>5. /\ "weightMax" \in Tuned /\ "minSeason" \notin Tuned /\ "chalWeight" \notin Tuned
      /\ {"minSeason", "limit", "chalWeight", "weightMax", "ratioMin", "ratioMax"} \subseteq Fields
  BY DEF Tuned
<1>6. own.minSeason = 0 /\ own.chalWeight = 0
  BY <1>5
<1> HIDE DEF Fields, own, opts
\* An environment with every tuned field set leaves each field by itself.
<1>7. ASSUME NEW o, o.weightMax # 0
      PROVE  withDefaults(o, p.env) = [f \in Fields |-> FirstSet(o[f], p.env[f], Defaults[f])]
  BY <1>1, <1>7 DEF withDefaults, formWeightMaxExplicitZero
<1>8. opts = [f \in Fields |-> FirstSet(own[f], p.env[f], Defaults[f])]
  BY <1>2, <1>4, <1>5, <1>7
<1>9. \A f \in Fields : opts[f] \in Nat \ {0}
  BY <1>1, <1>3, <1>4, <1>8
<1>10. withDefaults(opts, p.env) = opts
  <2>1. opts.weightMax # 0
    BY <1>5, <1>9
  <2>2. \A f \in Fields : FirstSet(opts[f], p.env[f], Defaults[f]) = opts[f]
    BY <1>1, <1>3, <1>9
  <2>3. opts = [f \in Fields |-> opts[f]]
    BY <1>8
  <2>4. withDefaults(opts, p.env) = [f \in Fields |-> FirstSet(opts[f], p.env[f], Defaults[f])]
    BY <1>7, <2>1
  <2> QED BY <2>2, <2>3, <2>4
<1>11. SoundOptions(opts)
  <2>1. /\ opts.weightMax <= 10 /\ opts.ratioMin <= opts.ratioMax
        /\ \A k \in 1 .. opts.limit : Decay[opts.halfLife][k] \in Nat \ {0}
    BY TuningAssumption DEF opts
  <2>2. \A f \in {"minSeason", "limit", "chalWeight", "weightMax", "ratioMin", "ratioMax"} :
          opts[f] \in Nat \ {0}
    BY <1>5, <1>9
  <2> QED BY <2>1, <2>2 DEF SoundOptions
<1>12. ASSUME NEW f \in {"minSeason", "chalWeight"}
       PROVE  withDefaults(Unset, p.env)[f] = opts[f]
  <2>1. f \in Fields /\ f # "weightMax" /\ own[f] = 0 /\ Unset[f] = 0
    BY <1>1, <1>5, <1>6 DEF Unset
  <2>2. withDefaults(Unset, p.env)[f] = FirstSet(Unset[f], p.env[f], Defaults[f])
    BY <1>1, <2>1 DEF withDefaults
  <2> QED BY <1>8, <2>1, <2>2
<1> QED BY <1>10, <1>11, <1>12 DEF opts

\* The baseline: the season, with the one before it when it is short.
CurrOf(page, year, opts) ==
  buildEffectiveCurrentSeason(page.tour, page.challenger, year, opts.minSeason, Tenths(opts.chalWeight))
PrevOf(page, year) == findSeason(page.tour, year - 1)
BaseOf(curr, prev, opts) ==
  IF curr.matches < opts.minSeason /\ prev # NoSeason THEN Blended(curr, prev) ELSE curr

LEMMA BaseIsRow ==
  ASSUME NEW curr \in SeasonRows, NEW prev \in SeasonRows \cup {NoSeason}, NEW opts
  PROVE  BaseOf(curr, prev, opts) \in SeasonRows
BY BlendedIsRow DEF BaseOf

LEMMA SeasonScales ==
  ASSUME NEW curr \in SeasonRows, NEW prev \in SeasonRows \cup {NoSeason}, NEW opts, SoundOptions(opts),
         NEW s, NEW t, Better(s, t)
  PROVE  /\ ScaledFrom(AdjustedSeason(curr, prev, s, opts), BaseOf(curr, prev, opts), opts)
         /\ RatesRise(AdjustedSeason(curr, prev, s, opts), AdjustedSeason(curr, prev, t, opts))
<1> DEFINE base == BaseOf(curr, prev, opts)
           f == recentDRForm(s, opts.limit, opts.halfLife)
           g == recentDRForm(t, opts.limit, opts.halfLife)
           m == IF curr.matches < opts.minSeason /\ prev # NoSeason
                THEN curr.matches + prev.matches ELSE curr.matches
           Rates(form) == Scaled(base, FormWeight(form, opts), FormRatio(form, base.dr, opts), m)
<1>1. curr # NoSeason
  BY NoSeasonIsNoRow
<1>2. AdjustedSeason(curr, prev, s, opts) = Rates(f) /\ AdjustedSeason(curr, prev, t, opts) = Rates(g)
  BY <1>1 DEF AdjustedSeason, BaseOf
<1>3. BetterForm(f, g, opts.limit)
  BY FormRises DEF BetterForm, SoundOptions
<1>4. Rated(base)
  BY BaseIsRow, NoSeasonIsNoRow
<1> HIDE DEF base, f, g, m
<1>5. ScaledFrom(Rates(f), base, opts) /\ RatesRise(Rates(f), Rates(g))
  BY <1>3, <1>4, ScaledRises
<1> QED BY <1>2, <1>5 DEF base

\* A better result makes a better list.
LEMMA Improves ==
  ASSUME NEW s \in Seq(PageResults), NEW k \in 1 .. Len(s), s[k].dr # NoDR
  PROVE  Better(s, [s EXCEPT ![k].dr = Plus(@, One)])
<1> DEFINE x == s[k].dr
           y == Plus(x, One)
           t == [s EXCEPT ![k].dr = Plus(@, One)]
<1>1. \A p \in 1 .. Len(s) : s[p] \in PageResults
  BY LenProperties
<1>2. x \in Fractions
  BY <1>1 DEF PageResults
<1>3. y \in Fractions /\ Leq(x, y)
  <2>1. PICK a \in Nat, b \in Nat \ {0} : x.n = a /\ x.d = b
    BY <1>2, WorthOfItself
  <2>2. Worth(x, a, b) /\ Worth(y, a * 1 + 1 * b, b * 1)
    BY <1>2, <2>1, WorthOfItself, NothingIs, PlusIs
  <2>3. a * (b * 1) <= (a * 1 + 1 * b) * b
    <3>1. (a * 1 + 1 * b) * b = a * b + b * b /\ a * (b * 1) = a * b /\ b * b \in Nat
      OBVIOUS
    <3> QED BY <3>1
  <2>4. a * 1 + 1 * b \in Nat /\ b * 1 \in Nat \ {0}
    OBVIOUS
  <2> HIDE DEF x, y
  <2>5. Leq(x, y)
    BY <2>2, <2>3, <2>4, WorthOrder
  <2> QED BY <2>2, <2>5 DEF Worth
<1>4. y # NoDR
  BY <1>3 DEF Fractions, NoDR
<1>5. t = [s EXCEPT ![k] = [s[k] EXCEPT !.dr = y]]
  OBVIOUS
<1> HIDE DEF x, y, t
<1>6. [s[k] EXCEPT !.dr = y] \in PageResults /\ BetterRow(s[k], [s[k] EXCEPT !.dr = y])
  <2>1. s[k] \in PageResults /\ s[k].dr = x
    BY <1>1 DEF x
  <2> QED BY <1>3, <1>4, <2>1 DEF PageResults, BetterRow
<1>7. t \in Seq(PageResults) /\ Len(t) = Len(s)
  BY <1>5, <1>6
<1>8. ASSUME NEW p \in 1 .. Len(s) PROVE BetterRow(s[p], t[p])
  <2>1. CASE p = k
    <3>1. t[p] = [s[k] EXCEPT !.dr = y]
      BY <1>5, <2>1, LenProperties
    <3> QED BY <1>6, <2>1, <3>1
  <2>2. CASE p # k
    <3>1. t[p] = s[p] /\ s[p] \in PageResults
      BY <1>1, <1>5, <2>2, LenProperties
    <3> QED BY <3>1, LeqOrders DEF BetterRow, PageResults
  <2> QED BY <2>1, <2>2
<1> QED BY <1>7, <1>8 DEF Better, t

\* What fetchrates stores is that baseline.
LEMMA StoredBaseline ==
  ASSUME NEW p \in Profiles, NEW year
  PROVE  LET opts == FormOptionsFromEnv(p.surfaceEnv, p.env)
             curr == CurrOf(p.stats, year, opts)
             prev == PrevOf(p.stats, year)
             base == BaseOf(curr, prev, opts)
         IN  /\ curr \in SeasonRows \cup {NoSeason} /\ prev \in SeasonRows \cup {NoSeason}
             /\ SeasonBaseline(p.stats, year, p.env) =
                  IF curr = NoSeason THEN ErrNoSeasonData
                  ELSE [err |-> FALSE, hold |-> base.hold, brk |-> base.brk, dr |-> base.dr]
<1> DEFINE opts == FormOptionsFromEnv(p.surfaceEnv, p.env)
           o == withDefaults(Unset, p.env)
           curr == CurrOf(p.stats, year, opts)
           prev == PrevOf(p.stats, year)
           base == BaseOf(curr, prev, opts)
<1>1. SoundOptions(opts) /\ o.minSeason = opts.minSeason /\ o.chalWeight = opts.chalWeight
  BY OptionsSettled
<1> HIDE DEF opts, o
<1>2. p.stats.tour \in Seq(SeasonRows) /\ p.stats.challenger \in Seq(SeasonRows)
  BY PagesAssumption
<1>3. Tenths(opts.chalWeight) \in Fractions
  BY <1>1, FracIs DEF SoundOptions, Tenths, Worth
<1>4. curr \in SeasonRows \cup {NoSeason} /\ prev \in SeasonRows \cup {NoSeason}
  BY <1>2, <1>3, EffectiveIsRow, SeasonFound DEF CurrOf, PrevOf
<1>5. buildEffectiveCurrentSeason(p.stats.tour, p.stats.challenger, year, o.minSeason,
                                  Tenths(o.chalWeight)) = curr
  BY <1>1 DEF CurrOf
<1>6. findSeason(p.stats.tour, year - 1) = prev
  BY DEF PrevOf
<1> HIDE DEF curr, prev
<1>7. SeasonBaseline(p.stats, year, p.env) =
        CASE curr = NoSeason -> ErrNoSeasonData
          [] curr # NoSeason /\ curr.matches < o.minSeason /\ prev # NoSeason ->
               [err |-> FALSE, hold |-> Blended(curr, prev).hold, brk |-> Blended(curr, prev).brk,
                dr |-> Blended(curr, prev).dr]
          [] OTHER -> [err |-> FALSE, hold |-> curr.hold, brk |-> curr.brk, dr |-> curr.dr]
  BY <1>5, <1>6 DEF SeasonBaseline, o
<1>8. SeasonBaseline(p.stats, year, p.env) =
        IF curr = NoSeason THEN ErrNoSeasonData
        ELSE [err |-> FALSE, hold |-> base.hold, brk |-> base.brk, dr |-> base.dr]
  BY <1>1, <1>7 DEF BaseOf
<1> QED BY <1>4, <1>8 DEF opts, curr, prev

\* An entry of the rates file is the one row of the season a match is judged
\* by: the challengers and the season before have no part in it.
FileRow(date, stored) ==
  [year |-> YearOf(date), career |-> FALSE, matches |-> SeasonMatchCount,
   hold |-> stored.hold, brk |-> stored.brk, dr |-> stored.dr]

LEMMA OneRow ==
  ASSUME NEW date \in Nat, NEW stored, Rated(stored), NEW n, NEW w
  PROVE  LET row == FileRow(date, stored)
         IN  /\ row \in SeasonRows
             /\ findSeason(<<row>>, YearOf(date) - 1) = NoSeason
             /\ buildEffectiveCurrentSeason(<<row>>, <<>>, YearOf(date), n, w) = row
<1> DEFINE row == FileRow(date, stored)
           year == YearOf(date)
<1>1. year \in Nat /\ row.year = year /\ row.career = FALSE
  BY DEF YearOf, FileRow
<1>2. row \in SeasonRows
  BY <1>1 DEF FileRow, SeasonRows, SeasonMatchCount, Rated
<1> HIDE DEF row, year
<1>3. Len(<<row>>) = 1 /\ <<row>>[1] = row /\ 1 .. 1 = {1}
  OBVIOUS
<1>4. findSeason(<<row>>, year) = row
  <2>1. {p \in 1 .. Len(<<row>>) : ~<<row>>[p].career /\ <<row>>[p].year = year} = {1}
    BY <1>1, <1>3
  <2>2. Min({1}) = 1
    BY DEF Min
  <2> QED BY <1>3, <2>1, <2>2 DEF findSeason
<1>5. findSeason(<<row>>, year - 1) = NoSeason
  <2>1. {p \in 1 .. Len(<<row>>) : ~<<row>>[p].career /\ <<row>>[p].year = year - 1} = {}
    BY <1>1, <1>3
  <2> QED BY <2>1 DEF findSeason
<1>6. findSeason(<<>>, year) = NoSeason
  BY DEF findSeason
<1>7. row # NoSeason
  BY <1>2, NoSeasonIsNoRow
<1>8. buildEffectiveCurrentSeason(<<row>>, <<>>, year, n, w) = row
  BY <1>4, <1>6, <1>7 DEF buildEffectiveCurrentSeason
<1> QED BY <1>2, <1>5, <1>8 DEF row, year

LEMMA HistoricalRates ==
  ASSUME NEW opts, NEW env, withDefaults(opts, env) = opts, NEW date \in Nat,
         NEW stored, Rated(stored), NEW career
  PROVE  playerRatesWithForm(stored, career, date, opts, env) =
           AdjustedSeason(FileRow(date, stored), NoSeason,
             RecentResultsBefore(RecentResultsBefore(career, date, opts.limit), date, opts.limit), opts)
<1> DEFINE row == FileRow(date, stored)
           file == PlayerStatsForBacktestForm(date, stored)
           once == RecentResultsBefore(career, date, opts.limit)
           twice == RecentResultsBefore(once, date, opts.limit)
           page == [file EXCEPT !.recent = twice]
<1>1. file = [tour |-> <<row>>, challenger |-> <<>>, recent |-> <<>>]
  BY DEF PlayerStatsForBacktestForm, FileRow
<1>2. playerRatesWithForm(stored, career, date, opts, env) =
        AdjustedHoldBreakAsOf(file, once, date, opts, env)
  BY DEF playerRatesWithForm
<1>3. AdjustedHoldBreakAsOf(file, once, date, opts, env) = AdjustedHoldBreak(page, date, opts, env)
  BY DEF AdjustedHoldBreakAsOf
<1> HIDE DEF file, row, once
<1>4. page.tour = <<row>> /\ page.challenger = <<>> /\ page.recent = twice
  BY <1>1
<1> HIDE DEF page, twice
<1>5. AdjustedHoldBreak(page, date, opts, env) =
        AdjustedSeason(buildEffectiveCurrentSeason(<<row>>, <<>>, YearOf(date), opts.minSeason,
                                                   Tenths(opts.chalWeight)),
                       findSeason(<<row>>, YearOf(date) - 1), twice, opts)
  BY <1>4 DEF AdjustedHoldBreak
<1>6. AdjustedHoldBreak(page, date, opts, env) = AdjustedSeason(row, NoSeason, twice, opts)
  BY <1>5, OneRow DEF row
<1> QED BY <1>2, <1>3, <1>6 DEF row, once, twice

\* What the rates of a player were computed from.
LiveRates ==
  AdjustedHoldBreak(profile.stats, profile.date,
                    FormOptionsFromEnv(profile.surfaceEnv, profile.env), profile.env)
FormInv ==
  /\ profile \in Profiles \cup {NoProfile}
  /\ profile = NoProfile => adjusted = NoRates
  /\ profile.kind = "live" /\ adjusted # NoRates => adjusted = LiveRates

LEMMA FormAtStart == ASSUME CommandsInit PROVE FormInv
BY DEF CommandsInit, adjustIdle, adjustInit, FormInv, NoProfile

LEMMA FormStep == ASSUME FormInv, [CommandsNext]_commandVars PROVE FormInv'
<1>1. CASE UNCHANGED formVars
  BY <1>1 DEF FormInv, formVars, LiveRates
<1>2. CASE AdjustLive
  BY <1>2 DEF AdjustLive, FormInv, LiveRates, NoProfile
<1>3. CASE AdjustAsOf
  BY <1>3 DEF AdjustAsOf, FormInv, NoProfile
<1> QED
  BY <1>1, <1>2, <1>3 DEF CommandsNext, FetchSession, JoinSession, SearchSession, AdjustSession,
                          AdjustNext, commandVars

\* The rates of a live player, and with a better recent result.
LEMMA LiveScales ==
  ASSUME NEW p \in Profiles, p.kind = "live",
         NEW opts, opts = FormOptionsFromEnv(p.surfaceEnv, p.env),
         NEW stored, stored = SeasonBaseline(p.stats, YearOf(p.date), p.env),
         NEW made, made = AdjustedHoldBreak(p.stats, p.date, opts, p.env), ~made.err
  PROVE  /\ ScaledFrom(made, [hold |-> stored.hold, brk |-> stored.brk], opts)
         /\ \A k \in 1 .. Len(p.stats.recent) : p.stats.recent[k].dr # NoDR =>
              RatesRise(made, AdjustedHoldBreak([p.stats EXCEPT !.recent[k].dr = Plus(@, One)],
                                                p.date, opts, p.env))
<1> DEFINE year == YearOf(p.date)
           curr == CurrOf(p.stats, year, opts)
           prev == PrevOf(p.stats, year)
           base == BaseOf(curr, prev, opts)
<1>1. SoundOptions(opts) /\ withDefaults(opts, p.env) = opts
  BY OptionsSettled
<1>2. /\ curr \in SeasonRows \cup {NoSeason} /\ prev \in SeasonRows \cup {NoSeason}
      /\ stored = IF curr = NoSeason THEN ErrNoSeasonData
                  ELSE [err |-> FALSE, hold |-> base.hold, brk |-> base.brk, dr |-> base.dr]
  BY StoredBaseline
<1>3. \A page : page.tour = p.stats.tour /\ page.challenger = p.stats.challenger =>
        AdjustedHoldBreak(page, p.date, opts, p.env) = AdjustedSeason(curr, prev, page.recent, opts)
  BY <1>1 DEF AdjustedHoldBreak, CurrOf, PrevOf
<1> HIDE DEF year, curr, prev
<1>4. made = AdjustedSeason(curr, prev, p.stats.recent, opts)
  BY <1>3
<1>5. curr \in SeasonRows
  BY <1>2, <1>4 DEF AdjustedSeason, ErrNoSeasonData
<1>6. stored.hold = base.hold /\ stored.brk = base.brk
  BY <1>2, <1>5, NoSeasonIsNoRow
<1>7. /\ p.stats.recent \in Seq(PageResults)
      /\ p.stats \in [tour : Seq(SeasonRows), challenger : Seq(SeasonRows), recent : Seq(PageResults)]
  BY PagesAssumption
<1>8. Better(p.stats.recent, p.stats.recent)
  <2>1. \A k \in 1 .. Len(p.stats.recent) : p.stats.recent[k] \in PageResults
    BY <1>7, LenProperties
  <2> QED BY <1>7, <2>1, LeqOrders DEF Better, BetterRow, PageResults
<1>9. ScaledFrom(made, base, opts)
  BY <1>1, <1>2, <1>4, <1>5, <1>8, SeasonScales
<1>10. ScaledFrom(made, [hold |-> stored.hold, brk |-> stored.brk], opts)
  BY <1>6, <1>9 DEF ScaledFrom
<1>11. ASSUME NEW k \in 1 .. Len(p.stats.recent), p.stats.recent[k].dr # NoDR
       PROVE  RatesRise(made, AdjustedHoldBreak([p.stats EXCEPT !.recent[k].dr = Plus(@, One)],
                                                p.date, opts, p.env))
  <2> DEFINE better == [p.stats.recent EXCEPT ![k].dr = Plus(@, One)]
             page == [p.stats EXCEPT !.recent[k].dr = Plus(@, One)]
  <2>1. page.tour = p.stats.tour /\ page.challenger = p.stats.challenger /\ page.recent = better
    BY <1>7
  <2>2. Better(p.stats.recent, better)
    BY <1>7, <1>11, Improves
  <2> HIDE DEF better, page
  <2>3. AdjustedHoldBreak(page, p.date, opts, p.env) = AdjustedSeason(curr, prev, better, opts)
    BY <1>3, <2>1
  <2>4. RatesRise(made, AdjustedHoldBreak(page, p.date, opts, p.env))
    BY <1>1, <1>2, <1>4, <1>5, <2>2, <2>3, SeasonScales
  <2> QED BY <2>4 DEF page
<1> QED BY <1>10, <1>11

\* The rates of a past match, from the entry of the rates file, and with a
\* better result in the career list.
LEMMA HistoricalScales ==
  ASSUME NEW p \in Profiles, p.kind = "historical",
         NEW opts, opts = FormOptionsFromEnv(p.surfaceEnv, p.env),
         NEW stored, stored = SeasonBaseline(p.stats, YearOf(p.date) - 1, p.env), ~stored.err,
         NEW made, made = playerRatesWithForm(stored, p.stats.recent, p.date, opts, p.env)
  PROVE  /\ ScaledFrom(made, [hold |-> stored.hold, brk |-> stored.brk], opts)
         /\ \A k \in 1 .. Len(p.stats.recent) : p.stats.recent[k].dr # NoDR =>
              LET page == [p.stats EXCEPT !.recent[k].dr = Plus(@, One)]
              IN  RatesRise(made, playerRatesWithForm(stored, page.recent, p.date, opts, p.env))
<1> DEFINE Known(l) ==
             RecentResultsBefore(RecentResultsBefore(l, p.date, opts.limit), p.date, opts.limit)
           row == FileRow(p.date, stored)
           recent == p.stats.recent
<1>1. SoundOptions(opts) /\ withDefaults(opts, p.env) = opts /\ opts.limit \in Nat
  BY OptionsSettled DEF SoundOptions
<1>2. Rated(stored)
  <2> DEFINE curr == CurrOf(p.stats, YearOf(p.date) - 1, opts)
             prev == PrevOf(p.stats, YearOf(p.date) - 1)
             base == BaseOf(curr, prev, opts)
  <2>1. /\ curr \in SeasonRows \cup {NoSeason} /\ prev \in SeasonRows \cup {NoSeason}
        /\ stored = IF curr = NoSeason THEN ErrNoSeasonData
                    ELSE [err |-> FALSE, hold |-> base.hold, brk |-> base.brk, dr |-> base.dr]
    BY StoredBaseline
  <2> HIDE DEF curr, prev
  <2>2. curr \in SeasonRows
    BY <2>1 DEF ErrNoSeasonData
  <2>3. Rated(base)
    BY <2>1, <2>2, BaseIsRow, NoSeasonIsNoRow
  <2> HIDE DEF base
  <2> QED BY <2>1, <2>2, <2>3, NoSeasonIsNoRow DEF Rated
<1>3. /\ recent \in Seq(PageResults) /\ p.date \in Nat
      /\ p.stats \in [tour : Seq(SeasonRows), challenger : Seq(SeasonRows), recent : Seq(PageResults)]
  BY PagesAssumption
<1>4. /\ row \in SeasonRows /\ BaseOf(row, NoSeason, opts) = row
      /\ row.hold = stored.hold /\ row.brk = stored.brk
  BY <1>2, <1>3, OneRow DEF BaseOf, FileRow
<1>5. \A l : playerRatesWithForm(stored, l, p.date, opts, p.env) =
              AdjustedSeason(row, NoSeason, Known(l), opts)
  BY <1>1, <1>2, <1>3, HistoricalRates
<1> HIDE DEF row
<1>6. ASSUME NEW l, Better(recent, l)
      PROVE  /\ ScaledFrom(AdjustedSeason(row, NoSeason, Known(recent), opts), row, opts)
             /\ RatesRise(AdjustedSeason(row, NoSeason, Known(recent), opts),
                          AdjustedSeason(row, NoSeason, Known(l), opts))
  <2>1. Better(Known(recent), Known(l))
    BY <1>1, <1>6, BeforeBetter
  <2> HIDE DEF Known
  <2> QED BY <1>1, <1>4, <2>1, SeasonScales
<1>7. Better(recent, recent)
  <2>1. \A k \in 1 .. Len(recent) : recent[k] \in PageResults
    BY <1>3, LenProperties
  <2> QED BY <1>3, <2>1, LeqOrders DEF Better, BetterRow, PageResults
<1> HIDE DEF Known
<1>8. ScaledFrom(made, [hold |-> stored.hold, brk |-> stored.brk], opts)
  BY <1>4, <1>5, <1>6, <1>7 DEF ScaledFrom
<1>9. ASSUME NEW k \in 1 .. Len(recent), recent[k].dr # NoDR
      PROVE  LET page == [p.stats EXCEPT !.recent[k].dr = Plus(@, One)]
             IN  RatesRise(made, playerRatesWithForm(stored, page.recent, p.date, opts, p.env))
  <2> DEFINE better == [recent EXCEPT ![k].dr = Plus(@, One)]
             page == [p.stats EXCEPT !.recent[k].dr = Plus(@, One)]
  <2>1. page.recent = better
    BY <1>3
  <2>2. Better(recent, better)
    BY <1>3, <1>9, Improves
  <2> HIDE DEF better, page
  <2>3. RatesRise(made, playerRatesWithForm(stored, better, p.date, opts, p.env))
    BY <1>5, <1>6, <2>2
  <2> QED BY <2>1, <2>3 DEF page
<1> QED BY <1>8, <1>9

\* Form scales the baseline that is stored, within the bounds of its tuning,
\* and a better recent result never lowers hold or break: for every page,
\* career list, date and environment.
THEOREM FormOnlyScales == CommandsSpec => []FormScalesBaseline
<1>1. ASSUME FormInv, AdjustInv
      PROVE  FormScalesBaseline
  <2> DEFINE live == profile.kind = "live"
             recent == profile.stats.recent
             opts == FormOptionsFromEnv(profile.surfaceEnv, profile.env)
             stored == SeasonBaseline(profile.stats, YearOf(profile.date) - (IF live THEN 0 ELSE 1),
                                      profile.env)
             Improved(k) == [profile.stats EXCEPT !.recent[k].dr = Plus(@, One)]
             Redone(page) ==
               IF live THEN AdjustedHoldBreak(page, profile.date, opts, profile.env)
               ELSE playerRatesWithForm(stored, page.recent, profile.date, opts, profile.env)
  <2>1. SUFFICES ASSUME Adjusted
                 PROVE  /\ ScaledFrom(adjusted, [hold |-> stored.hold, brk |-> stored.brk], opts)
                        /\ \A k \in 1 .. Len(recent) : recent[k].dr # NoDR =>
                             RatesRise(adjusted, Redone(Improved(k)))
    BY DEF FormScalesBaseline, ScaledFrom, RatesRise
  <2>2. profile \in Profiles /\ profile.kind \in {"live", "historical"} /\ ~adjusted.err
    BY <1>1, <2>1, PagesAssumption DEF FormInv, Adjusted
  <2>3. profile.date \in Nat
    BY <2>2, PagesAssumption
  <2>4. CASE live
    <3>1. adjusted = AdjustedHoldBreak(profile.stats, profile.date, opts, profile.env)
      BY <1>1, <2>1, <2>4 DEF FormInv, Adjusted, LiveRates
    <3>2. stored = SeasonBaseline(profile.stats, YearOf(profile.date), profile.env)
      <4>1. YearOf(profile.date) - 0 = YearOf(profile.date)
        BY <2>3 DEF YearOf
      <4> QED BY <2>4, <4>1
    <3>3. \A k : Redone(Improved(k)) = AdjustedHoldBreak(Improved(k), profile.date, opts, profile.env)
      BY <2>4
    <3> HIDE DEF opts, stored, Redone
    <3> QED BY <2>2, <2>4, <3>1, <3>2, <3>3, LiveScales DEF opts
  <2>5. CASE ~live
    <3>1. profile.kind = "historical"
      BY <2>2, <2>5
    <3>2. stored = SeasonBaseline(profile.stats, YearOf(profile.date) - 1, profile.env)
      BY <2>5
    <3>3. adjusted = RatesAsOf(stored)
      BY <1>1, <2>1, <3>1, <3>2 DEF AdjustInv, Adjusted
    <3>4. ~stored.err /\ adjusted = playerRatesWithForm(stored, recent, profile.date, opts, profile.env)
      BY <2>2, <3>3 DEF RatesAsOf, ErrNoSeasonData
    <3>5. \A k : Redone(Improved(k)) =
                   playerRatesWithForm(stored, Improved(k).recent, profile.date, opts, profile.env)
      BY <2>5
    <3> HIDE DEF opts, stored, Redone
    <3> QED BY <2>2, <3>1, <3>2, <3>4, <3>5, HistoricalScales DEF opts
  <2> QED BY <2>4, <2>5
<1> QED
  BY <1>1, FormAtStart, FormStep, AdjustAtStart, AdjustStep, PTL DEF CommandsSpec
=============================================================================

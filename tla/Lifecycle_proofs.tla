---- MODULE Lifecycle_proofs ----
(***************************************************************************)
(* Proofs about Lifecycle for every scrape timeout, number of attempts and *)
(* grace of the shutdown, and any choice of the databases: no call and no  *)
(* backoff of a scrape outlasts its deadline, up is sent once and truly,   *)
(* the connection outlives the calls, and no download corrupts a database. *)
(***************************************************************************)
EXTENDS Lifecycle, FiniteSetTheorems, SequenceTheorems, TLAPS

----------------------------------------------------------------------------
(* The invariant of one scrape.  It waits for nothing without waiting for  *)
(* its context too, which is why time cannot pass its deadline.  Nothing   *)
(* is sent before the calls are over, up is known by then, and it is the   *)
(* last thing that is sent.                                                *)

SentNothing == stage = 0 /\ ups = <<>>

SentUp ==
    /\ stage = Len(Stages)
    /\ ups = <<0>> \/ (ups = <<1>> /\ answered = Calls)

ScrapeInv ==
    /\ scrapeTimeout \in Nat /\ clock \in Nat /\ clock <= scrapeTimeout
    /\ sc \in {"idle", "calling", "backoff", "collecting"}
    /\ sc = "idle" => clock = 0 /\ SentNothing /\ call = "sys"
    /\ sc \in {"calling", "backoff"} =>
           /\ At(scrapeTimeout, "ctx") \in timers
           /\ SentNothing /\ call \in Calls /\ (call = "query" => "sys" \in answered)
    /\ sc = "collecting" =>
           /\ up = 0 \/ (up = 1 /\ answered = Calls)
           /\ stage \in 0..Len(Stages)
           /\ SentUp \/ (stage < Len(Stages) /\ ups = <<>>)
    /\ answered \subseteq Calls

(* The last of the five stages, and no other, sends up.                    *)
LEMMA UpIsLast ==
    /\ Len(Stages) = 5 /\ \A i \in 1..5 : Stages[i] = "up" <=> i = 5
  <1>1. /\ Len(Stages) = 5 /\ Stages[1] = "log" /\ Stages[2] = "domain"
        /\ Stages[3] = "outbound" /\ Stages[4] = "geo" /\ Stages[5] = "up"
    BY DEF Stages
  <1>2. \A i \in 1..5 : i = 1 \/ i = 2 \/ i = 3 \/ i = 4 \/ i = 5
    OBVIOUS
  <1> QED BY <1>1, <1>2

(* An attempt that failed leaves the scrape in a backoff or at its metrics. *)
LEMMA AttemptErrorKeeps ==
    ASSUME ScrapeInv, sc = "calling", AttemptError, scrapeTimeout' = scrapeTimeout
    PROVE  ScrapeInv'
  <1>1. CASE try = callRetries - 1
    BY <1>1, UpIsLast DEF ScrapeInv, AttemptError, CallGivesUp, Scraped, SentNothing, SentUp, Calls
  <1>2. CASE try # callRetries - 1
    <2>1. /\ sc' = "backoff" /\ At(scrapeTimeout, "ctx")' \in timers'
          /\ UNCHANGED <<scrapeTimeout, clock, call, answered, stage, ups>>
      BY <1>2 DEF AttemptError, Backoff, Context, At
    <2> QED BY <2>1 DEF ScrapeInv, SentNothing
  <1> QED BY <1>1, <1>2

(* Every step of a scrape keeps the invariant.                             *)
ScrapeMoves ==
    \/ BeginScrape \/ SysAnswers \/ QueryAnswers \/ CallFails \/ CallTimesOut \/ BackoffEnds
    \/ BackoffCut \/ Elapse \/ CollectStage \/ CollectPanics \/ Idle
    \/ UNCHANGED scrapeVars

LEMMA ScrapeKept == ASSUME ScrapeInv, ScrapeMoves PROVE ScrapeInv'
  <1>1. CASE BeginScrape
    BY <1>1 DEF BeginScrape, Context, At, ScrapeInv, SentNothing, Calls
  <1>2. CASE SysAnswers
    <2>1. /\ sc = "calling" /\ call' = "query" /\ answered' = answered \cup {"sys"}
          /\ At(scrapeTimeout, "ctx")' \in timers'
          /\ UNCHANGED <<scrapeTimeout, sc, clock, stage, ups>>
      BY <1>2 DEF SysAnswers, Answers, Context, At
    <2> QED BY <2>1 DEF ScrapeInv, SentNothing, Calls
  <1>3. CASE QueryAnswers
    <2>1. /\ sc = "calling" /\ call = "query" /\ answered' = answered \cup {"query"}
          /\ sc' = "collecting" /\ up' = 1
          /\ UNCHANGED <<scrapeTimeout, clock, stage, ups>>
      BY <1>3 DEF QueryAnswers, Answers, Scraped
    <2>2. answered' = Calls BY <2>1 DEF ScrapeInv, Calls
    <2> QED BY <2>1, <2>2, UpIsLast DEF ScrapeInv, SentNothing
  <1>4. CASE CallFails \/ CallTimesOut
    BY <1>4, AttemptErrorKeeps DEF CallFails, CallTimesOut, AttemptError
  <1>5. CASE BackoffEnds
    BY <1>5 DEF BackoffEnds, Context, At, ScrapeInv, SentNothing
  <1>6. CASE BackoffCut
    BY <1>6, UpIsLast DEF BackoffCut, CallGivesUp, Scraped, ScrapeInv, SentNothing
  <1>7. CASE Elapse
    <2>1. /\ sc \in {"calling", "backoff"} /\ clock' = clock + 1
          /\ \A t \in timers : clock < t.at
          /\ UNCHANGED <<scrapeTimeout, sc, call, timers, answered, stage, ups>>
      BY <1>7 DEF Elapse
    <2>2. At(scrapeTimeout, "ctx") \in timers BY <2>1 DEF ScrapeInv
    <2>3. clock < scrapeTimeout BY <2>1, <2>2 DEF At
    <2>4. At(scrapeTimeout, "ctx")' \in timers' BY <2>1, <2>2 DEF At
    <2> QED BY <2>1, <2>3, <2>4 DEF ScrapeInv, SentNothing
  <1>8. CASE CollectStage
    <2>1. /\ sc = "collecting" /\ stage < Len(Stages) /\ stage' = stage + 1
          /\ ups' = IF Stages[stage'] = "up" THEN Append(ups, up) ELSE ups
          /\ UNCHANGED <<scrapeTimeout, sc, clock, answered, up>>
      BY <1>8 DEF CollectStage
    <2>2. stage \in 0..5 /\ ups = <<>> /\ (up = 0 \/ (up = 1 /\ answered = Calls))
      BY <2>1, UpIsLast DEF ScrapeInv, SentUp
    <2>3. stage' \in 1..5 BY <2>1, <2>2, UpIsLast
    <2>4. CASE stage' = 5
      <3>1. ups' = Append(<<>>, up) BY <2>1, <2>2, <2>3, <2>4, UpIsLast
      <3>2. ups' = <<0>> \/ (ups' = <<1>> /\ answered = Calls) BY <2>2, <3>1
      <3>3. SentUp' BY <2>1, <2>4, <3>2, UpIsLast DEF SentUp
      <3> QED BY <2>1, <2>2, <2>3, <3>3, UpIsLast DEF ScrapeInv
    <2>5. CASE stage' # 5
      <3>1. ups' = <<>> BY <2>1, <2>2, <2>3, <2>5, UpIsLast
      <3>2. stage' < 5 BY <2>3, <2>5
      <3> QED BY <2>1, <2>2, <2>3, <3>1, <3>2, UpIsLast DEF ScrapeInv
    <2> QED BY <2>4, <2>5
  <1>9. CASE CollectPanics
    <2>1. /\ sc = "collecting" /\ stage < Len(Stages) /\ stage' = Len(Stages)
          /\ ups' = Append(ups, 0)
          /\ UNCHANGED <<scrapeTimeout, sc, clock, answered, up>>
      BY <1>9 DEF CollectPanics
    <2>2. ups = <<>> /\ (up = 0 \/ (up = 1 /\ answered = Calls))
      BY <2>1, UpIsLast DEF ScrapeInv, SentUp
    <2>3. ups' = <<0>> BY <2>1, <2>2
    <2>4. SentUp' BY <2>1, <2>3 DEF SentUp
    <2> QED BY <2>1, <2>2, <2>4, UpIsLast DEF ScrapeInv
  <1>10. CASE Idle
    BY <1>10, UpIsLast DEF Idle, ScrapeInv, SentNothing
  <1>11. CASE UNCHANGED scrapeVars
    BY <1>11 DEF scrapeVars, ownVars, ScrapeInv, SentNothing, SentUp
  <1> QED BY <1>1, <1>2, <1>3, <1>4, <1>5, <1>6, <1>7, <1>8, <1>9, <1>10, <1>11 DEF ScrapeMoves

(* Every step of the process is one of these for the scrape.               *)
LEMMA StepsOfScrape == [Next]_vars => ScrapeMoves
  <1> SUFFICES ASSUME [Next]_vars PROVE ScrapeMoves
    OBVIOUS
  <1>1. CASE Main
    BY <1>1 DEF Main, Download, NewExporter, Gone, ShutdownDone, ShutdownExpires,
                MoveMain, Close, Exit, ScrapeMoves
  <1>2. CASE Parser
    BY <1>2 DEF Parser, BeginPass, EndPass, ParserStops, BeginLookup, EndLookup,
                MoveParser, ScrapeMoves
  <1>3. CASE Scraper
    BY <1>3 DEF Scraper, TakeScrape, XrayAnswers, XrayFails, ScrapeProgress, EndScrape,
                ScrapeMoves
  <1>4. CASE Tick
    BY <1>4 DEF Tick, ScrapeWaits, ShutdownWaits, ScrapeMoves
  <1>5. CASE Environment
    BY <1>5 DEF Environment, Start, Fatal, Signal, ServerFails, MoveMain, Kill, Gone,
                Fault, Age, ScrapeMoves
  <1>6. CASE UNCHANGED vars
    BY <1>6 DEF vars, ScrapeMoves
  <1> QED BY <1>1, <1>2, <1>3, <1>4, <1>5, <1>6 DEF Next

LEMMA InitScrapeInv == Init => ScrapeInv
  BY ScrapeAssumption, UpIsLast DEF Init, ScrapeInit, ScrapeInv, SentNothing, Calls

(* All attempts and backoffs of a scrape end by its deadline, since each   *)
(* of them waits for the one context of the scrape too.                    *)
THEOREM DeadlineKept == Spec => []ScrapeKeepsDeadline
  <1>1. ScrapeInv => ScrapeKeepsDeadline BY DEF ScrapeInv, ScrapeKeepsDeadline
  <1>2. ScrapeInv /\ [Next]_vars => ScrapeInv' BY ScrapeKept, StepsOfScrape
  <1> QED BY <1>1, <1>2, InitScrapeInv, PTL DEF Spec

(* A scrape sends up once, whatever fails or panics, and 1 only when Xray  *)
(* has answered both calls.                                                *)
THEOREM UpSentOnceAndTrue == Spec => []UpMeansAnswered
  <1>1. ScrapeInv => UpMeansAnswered
    <2> SUFFICES ASSUME ScrapeInv PROVE UpMeansAnswered
      OBVIOUS
    <2>1. ups = <<>> \/ ups = <<0>> \/ (ups = <<1>> /\ answered = Calls)
      BY DEF ScrapeInv, SentNothing, SentUp
    <2>2. sc = "collecting" /\ stage = Len(Stages) => ups = <<0>> \/ ups = <<1>>
      BY UpIsLast DEF ScrapeInv, SentUp
    <2>3. CASE ups = <<>> BY <2>2, <2>3 DEF UpMeansAnswered, Collected
    <2>4. CASE ups = <<0>> BY <2>4 DEF UpMeansAnswered, Collected
    <2>5. CASE ups = <<1>> /\ answered = Calls BY <2>5 DEF UpMeansAnswered, Collected
    <2> QED BY <2>1, <2>3, <2>4, <2>5
  <1>2. ScrapeInv /\ [Next]_vars => ScrapeInv' BY ScrapeKept, StepsOfScrape
  <1> QED BY <1>1, <1>2, InitScrapeInv, PTL DEF Spec

----------------------------------------------------------------------------
(* The invariant of the process, for the connection.  The grace exceeds    *)
(* the time of the scrape that the shutdown waits for by lateArrival at    *)
(* most, since no scrape begins later; a shutdown that gives up waiting    *)
(* for one has therefore outlasted the sum of both.                        *)

Calling == sc \in {"calling", "backoff"}

LifeInv ==
    /\ phase \in {"off", "download", "serving", "shutdown", "closing"}
    /\ grace \in Nat
    /\ phase \in {"off", "download", "serving"} => grace = 0
    /\ phase # "closing" => conn # "closed"
    /\ phase = "shutdown" /\ Calling => grace <= clock + lateArrival
    /\ phase = "closing" /\ ~failed /\ scrapeTimeout + lateArrival < shutdownGrace => ~Calling

ProcessInv == ScrapeInv /\ LifeInv

(* When the process is gone nothing is open, closed or under way.          *)
LEMMA GoneKeeps == ASSUME NEW how, Gone(how) PROVE LifeInv'
  BY DEF Gone, Idle, LifeInv

(* main's steps.                                                           *)
LEMMA MainKeeps == ASSUME ProcessInv, Main PROVE LifeInv'
  <1> USE DEF ProcessInv, Calling
  <1>1. CASE Download
    BY <1>1 DEF Download, scrapeVars, ownVars, lifeVars, partVars, LifeInv
  <1>2. CASE NewExporter
    BY <1>2 DEF NewExporter, scrapeVars, ownVars, LifeInv
  <1>3. CASE ShutdownDone
    BY <1>3 DEF ShutdownDone, MoveMain, scrapeVars, ownVars, partVars, LifeInv
  <1>4. CASE ShutdownExpires
    <2>1. /\ phase = "shutdown" /\ phase' = "closing" /\ grace >= shutdownGrace
          /\ UNCHANGED <<scrapeTimeout, sc, clock, conn, grace, failed>>
      BY <1>4 DEF ShutdownExpires, MoveMain, scrapeVars, ownVars, partVars
    <2>2. scrapeTimeout + lateArrival < shutdownGrace => ~Calling
      BY <2>1, LifecycleAssumption DEF LifeInv, ScrapeInv
    <2> QED BY <2>1, <2>2 DEF LifeInv
  <1>5. CASE Close
    BY <1>5 DEF Close, scrapeVars, ownVars, LifeInv
  <1>6. CASE Exit
    BY <1>6, GoneKeeps DEF Exit
  <1> QED BY <1>1, <1>2, <1>3, <1>4, <1>5, <1>6 DEF Main

(* The parser has no part in it.                                           *)
LEMMA ParserKeeps == ASSUME LifeInv, Parser PROVE LifeInv'
  <1>1. UNCHANGED <<scrapeTimeout, sc, clock, phase, conn, grace, failed>>
    BY DEF Parser, BeginPass, EndPass, ParserStops, BeginLookup, EndLookup, MoveParser,
           scrapeVars, ownVars
  <1> QED BY <1>1 DEF LifeInv, Calling

(* A scrape that begins after the signal does so early, and its steps take *)
(* time only together with the grace.                                      *)
LEMMA ScraperKeeps == ASSUME ProcessInv, Scraper \/ Tick PROVE LifeInv'
  <1> USE DEF ProcessInv, Calling
  <1>1. CASE TakeScrape
    <2>1. /\ sc = "idle" /\ RequestArrives
          /\ UNCHANGED <<scrapeTimeout, clock, phase, conn, grace, failed>>
      BY <1>1 DEF TakeScrape, BeginScrape, lifeVars, partVars
    <2>2. clock = 0 BY <2>1 DEF ScrapeInv
    <2>3. phase = "shutdown" => grace <= clock + lateArrival
      BY <2>1, <2>2, LifecycleAssumption DEF RequestArrives
    <2>4. phase = "closing" => failed BY <2>1 DEF RequestArrives
    <2> QED BY <2>1, <2>3, <2>4 DEF LifeInv
  <1>2. CASE XrayAnswers \/ XrayFails \/ ScrapeProgress
    <2>1. UNCHANGED <<scrapeTimeout, phase, conn, grace, failed>>
      BY <1>2 DEF XrayAnswers, XrayFails, ScrapeProgress, SysAnswers, QueryAnswers,
                  CallFails, CallTimesOut, AttemptError, CallGivesUp, BackoffEnds, BackoffCut,
                  CollectStage, CollectPanics, EndScrape, Idle, lifeVars, partVars
    <2>2. Calling' => Calling /\ clock' = clock
      BY <1>2 DEF XrayAnswers, XrayFails, ScrapeProgress, SysAnswers, QueryAnswers, Answers,
                  CallFails, CallTimesOut, AttemptError, CallGivesUp, Scraped, BackoffEnds,
                  BackoffCut, CollectStage, CollectPanics, EndScrape, Idle
    <2> QED BY <2>1, <2>2 DEF LifeInv
  <1>3. CASE ScrapeWaits
    <2>1. /\ clock' = clock + 1 /\ UNCHANGED <<scrapeTimeout, sc, phase, conn, failed>>
      BY <1>3 DEF ScrapeWaits, Elapse, partVars
    <2>2. IF phase = "shutdown" THEN grace' = grace + 1 ELSE grace' = grace
      BY <1>3 DEF ScrapeWaits
    <2>3. clock \in Nat BY DEF ScrapeInv
    <2> QED BY <2>1, <2>2, <2>3, LifecycleAssumption DEF LifeInv
  <1>4. CASE ShutdownWaits
    <2>1. /\ phase = "shutdown" /\ ~Calling /\ grace' = grace + 1
          /\ UNCHANGED <<scrapeTimeout, sc, clock, phase, conn, failed>>
      BY <1>4 DEF ShutdownWaits, scrapeVars, ownVars, partVars
    <2> QED BY <2>1 DEF LifeInv
  <1> QED BY <1>1, <1>2, <1>3, <1>4 DEF Scraper, Tick

(* What comes from outside.                                                *)
LEMMA EnvironmentKeeps == ASSUME ProcessInv, Environment PROVE LifeInv'
  <1> USE DEF ProcessInv, Calling
  <1>1. CASE Start
    BY <1>1 DEF Start, scrapeVars, ownVars, partVars, LifeInv
  <1>2. CASE Signal
    <2>1. /\ phase = "serving" /\ phase' = "shutdown"
          /\ UNCHANGED <<scrapeTimeout, sc, clock, conn, grace, failed>>
      BY <1>2 DEF Signal, MoveMain, scrapeVars, ownVars, partVars
    <2>2. clock \in Nat BY DEF ScrapeInv
    <2> QED BY <2>1, <2>2, LifecycleAssumption DEF LifeInv
  <1>3. CASE ServerFails
    <2>1. /\ phase = "serving" /\ phase' = "closing" /\ failed'
          /\ UNCHANGED <<conn, grace>>
      BY <1>3 DEF ServerFails, MoveMain, partVars
    <2> QED BY <2>1 DEF LifeInv
  <1>4. CASE Fatal \/ Kill \/ \E d \in Dbs : Fault(d)
    BY <1>4, GoneKeeps DEF Fatal, Kill, Fault
  <1>5. CASE \E d \in Dbs : Age(d)
    BY <1>5 DEF Age, scrapeVars, ownVars, lifeVars, partVars, LifeInv
  <1> QED BY <1>1, <1>2, <1>3, <1>4, <1>5 DEF Environment

(* The invariant of the process is inductive.                              *)
LEMMA ProcessKept == ASSUME ProcessInv, [Next]_vars PROVE ProcessInv'
  <1>1. ScrapeInv' BY ScrapeKept, StepsOfScrape DEF ProcessInv
  <1>2. CASE UNCHANGED vars
    BY <1>1, <1>2 DEF vars, scrapeVars, ownVars, lifeVars, partVars, ProcessInv, LifeInv,
                      Calling
  <1>3. CASE Next
    BY <1>1, <1>3, MainKeeps, ParserKeeps, ScraperKeeps, EnvironmentKeeps
    DEF Next, ProcessInv
  <1> QED BY <1>2, <1>3

LEMMA InitProcessInv == Init => ProcessInv
  BY InitScrapeInv DEF Init, ScrapeInit, ProcessInv, LifeInv, Calling

(* The connection outlives the calls of every scrape, for any timeout,     *)
(* grace and time in which requests still arrive that fit each other:      *)
(* while a scrape still waits for Xray, main waits for the scrape.         *)
THEOREM ConnectionKept == Spec => []ConnectionOutlivesScrapes
  <1>1. ProcessInv => ConnectionOutlivesScrapes
    BY DEF ProcessInv, LifeInv, Calling, ConnectionOutlivesScrapes
  <1>2. ProcessInv /\ [Next]_vars => ProcessInv' BY ProcessKept
  <1> QED BY <1>1, <1>2, InitProcessInv, PTL DEF Spec

----------------------------------------------------------------------------
(* The invariant of the download: its types, and that what is renamed over *)
(* a database is a body that has arrived whole.                            *)

DownloadInv ==
    /\ DownloadTypeOK
    /\ dl = "rename" => tmp \in Bodies

AgeOf(d) ==
    /\ files' = [files EXCEPT ![d] = [body |-> files[d].body, recent |-> FALSE]]
    /\ UNCHANGED <<dl, at, attempt, tmp>>

\* The exporter is there, and the download forgotten.
Booted == dl' = "done" /\ UNCHANGED <<files, at, attempt, tmp>>

(* Every step of the process is one of these for the download.             *)
DownloadMoves ==
    \/ StartDownload \/ DownloadStep \/ DownloadLost \/ Booted \/ UNCHANGED downloadVars
    \/ \E d \in Dbs : AgeOf(d)

LEMMA StepsOfDownload == [Next]_vars => DownloadMoves
  <1> SUFFICES ASSUME [Next]_vars PROVE DownloadMoves
    OBVIOUS
  <1>1. CASE Main
    BY <1>1 DEF Main, Download, NewExporter, Booted, Gone, ShutdownDone, ShutdownExpires,
                MoveMain, Close, Exit, DownloadMoves
  <1>2. CASE Parser
    BY <1>2 DEF Parser, BeginPass, EndPass, ParserStops, BeginLookup, EndLookup,
                MoveParser, DownloadMoves
  <1>3. CASE Scraper
    BY <1>3 DEF Scraper, TakeScrape, XrayAnswers, XrayFails, ScrapeProgress, DownloadMoves
  <1>4. CASE Tick
    BY <1>4 DEF Tick, ScrapeWaits, ShutdownWaits, DownloadMoves
  <1>5. CASE Environment
    BY <1>5 DEF Environment, Start, Fatal, Signal, ServerFails, MoveMain, Kill, Gone,
                Fault, Age, AgeOf, DownloadMoves
  <1>6. CASE UNCHANGED vars
    BY <1>6 DEF vars, DownloadMoves
  <1> QED BY <1>1, <1>2, <1>3, <1>4, <1>5, <1>6 DEF Next

(* The list of databases, as the indices of a sequence.                    *)
LEMMA DatabasesIndexed ==
    /\ Len(Databases) \in Nat \ {0} /\ DOMAIN Databases = 1..Len(Databases)
    /\ \A i \in DOMAIN Databases : Databases[i] \in Dbs
  BY DownloadAssumption DEF Dbs

(* Where the next database, or the end of the download, leaves off.        *)
LEMMA NextDatabaseTyped ==
    ASSUME DownloadInv, NextDatabase \/ Finished("failed")
    PROVE  /\ dl' \in {"check", "done", "failed"}
           /\ at' \in DOMAIN Databases /\ attempt' \in 1..maxRetries
  <1> DEFINE n == Len(Databases)
  <1>1. n \in Nat \ {0} /\ DOMAIN Databases = 1..n BY DatabasesIndexed
  <1>2. at \in 1..n BY <1>1 DEF DownloadInv, DownloadTypeOK
  <1>3. \/ dl' \in {"done", "failed"} /\ at' = 1 /\ attempt' = 1
        \/ dl' = "check" /\ at # n /\ at' = at + 1 /\ attempt' = 1
    BY DEF NextDatabase, Finished
  <1>4. attempt' \in 1..maxRetries BY <1>3, DownloadAssumption
  <1> HIDE DEF n
  <1>5. at' \in 1..n BY <1>1, <1>2, <1>3
  <1> QED BY <1>1, <1>3, <1>4, <1>5

(* The steps that leave the files alone.                                   *)
LEMMA FilesUntouched ==
    ASSUME DownloadInv, UNCHANGED files,
           StartDownload \/ DownloadStep \/ DownloadLost \/ Booted \/ UNCHANGED downloadVars,
           ~Rename
    PROVE  DownloadInv'
  <1> USE DEF DownloadInv, DownloadTypeOK
  <1>1. CASE StartDownload \/ MkdirAll \/ Booted \/ UNCHANGED downloadVars
    BY <1>1, DatabasesIndexed DEF StartDownload, MkdirAll, Booted, downloadVars
  <1>2. CASE MkdirFails \/ Skip \/ GiveUp
    <2>1. /\ dl' \in {"check", "done", "failed"} /\ at' \in DOMAIN Databases
          /\ attempt' \in 1..maxRetries /\ tmp' = tmp
      BY <1>2, NextDatabaseTyped DEF MkdirFails, Skip, GiveUp
    <2> QED BY <2>1
  <1>3. CASE BeginRetries \/ DownloadLost
    BY <1>3, DatabasesIndexed, DownloadAssumption DEF BeginRetries, DownloadLost
  <1>4. CASE Request \/ AttemptFails
    BY <1>4 DEF Request, AttemptFails
  <1>5. CASE \E body \in Bodies : Copy(body)
    BY <1>5 DEF Copy
  <1>6. CASE Retry
    BY <1>6, DownloadAssumption DEF Retry
  <1> QED BY <1>1, <1>2, <1>3, <1>4, <1>5, <1>6 DEF DownloadStep

(* A rename puts a whole body in place of one database.                    *)
LEMMA RenameReplaces ==
    ASSUME DownloadInv, Rename
    PROVE  /\ DownloadInv'
           /\ \A d \in Dbs : files'[d] # files[d] => d = Databases[at] /\ files'[d].body = tmp
  <1>1. /\ Databases[at] \in Dbs /\ tmp \in Bodies
        /\ files' = [files EXCEPT ![Databases[at]] = [body |-> tmp, recent |-> TRUE]]
    BY DatabasesIndexed DEF Rename, DownloadInv, DownloadTypeOK
  <1>2. /\ dl' \in {"check", "done", "failed"} /\ tmp' = "none"
        /\ at' \in DOMAIN Databases /\ attempt' \in 1..maxRetries
    BY NextDatabaseTyped DEF Rename
  <1>3. files \in [Dbs -> [body : Bodies \cup {"none"}, recent : BOOLEAN]]
    BY DEF DownloadInv, DownloadTypeOK
  <1>4. files' \in [Dbs -> [body : Bodies \cup {"none"}, recent : BOOLEAN]]
    BY <1>1, <1>3
  <1> QED BY <1>1, <1>2, <1>3, <1>4 DEF DownloadInv, DownloadTypeOK

(* Age changes how old a file is, not what is in it.                       *)
LEMMA AgeKeepsBodies ==
    ASSUME DownloadInv, NEW d \in Dbs, AgeOf(d)
    PROVE  DownloadInv' /\ \A o \in Dbs : files'[o].body = files[o].body
  <1>1. files \in [Dbs -> [body : Bodies \cup {"none"}, recent : BOOLEAN]]
    BY DEF DownloadInv, DownloadTypeOK
  <1>2. /\ files' \in [Dbs -> [body : Bodies \cup {"none"}, recent : BOOLEAN]]
        /\ \A o \in Dbs : files'[o].body = files[o].body
    BY <1>1 DEF AgeOf
  <1> QED BY <1>2 DEF AgeOf, DownloadInv, DownloadTypeOK

(* Only a rename and the passing of time touch the files.                  *)
LEMMA DownloadKept ==
    ASSUME DownloadInv, DownloadMoves
    PROVE  DownloadInv' /\ (Rename \/ \A d \in Dbs : files'[d].body = files[d].body)
  <1>1. CASE Rename BY <1>1, RenameReplaces
  <1>2. CASE ~Rename /\ (StartDownload \/ DownloadStep \/ DownloadLost \/ Booted
                            \/ UNCHANGED downloadVars)
    <2>1. UNCHANGED files
      BY <1>2 DEF Booted, StartDownload, DownloadStep, MkdirAll, MkdirFails, Skip, BeginRetries, Request,
                  Copy, AttemptFails, Retry, GiveUp, DownloadLost, downloadVars
    <2> QED BY <1>2, <2>1, FilesUntouched
  <1>3. CASE \E d \in Dbs : AgeOf(d) BY <1>3, AgeKeepsBodies
  <1> QED BY <1>1, <1>2, <1>3 DEF DownloadMoves

LEMMA InitDownloadInv == Init => DownloadInv
  BY DatabasesIndexed, DownloadAssumption
  DEF Init, DownloadInit, NoFile, DownloadInv, DownloadTypeOK

(* A usable database stays usable through failed downloads and kills, for  *)
(* any databases, number of attempts and answers of the servers.           *)
THEOREM DownloadsKeepUsable == Spec => UsableStaysUsable
  <1>1. DownloadInv /\ [Next]_vars => DownloadInv' BY DownloadKept, StepsOfDownload
  <1>2. DownloadInv /\ [Next]_vars =>
            [\A d \in Dbs :
                files[d].body = "db" /\ files'[d].body # "db" =>
                    /\ dl = "rename" /\ Databases[at] = d
                    /\ tmp \in Bodies \ {"db"}]_downloadVars
    <2> SUFFICES ASSUME DownloadInv, [Next]_vars, NEW d \in Dbs,
                        files[d].body = "db", files'[d].body # "db"
                 PROVE  dl = "rename" /\ Databases[at] = d /\ tmp \in Bodies \ {"db"}
      OBVIOUS
    <2>1. Rename BY DownloadKept, StepsOfDownload
    <2>2. dl = "rename" /\ tmp \in Bodies BY <2>1 DEF Rename, DownloadInv
    <2>3. d = Databases[at] /\ files'[d].body = tmp BY <2>1, RenameReplaces
    <2> QED BY <2>2, <2>3
  <1> QED BY <1>1, <1>2, InitDownloadInv, PTL DEF Spec, UsableStaysUsable

----------------------------------------------------------------------------
(* The types.  Those of the scrape need that a call in its backoff has an  *)
(* attempt left; the rest of the process has its bounds in the guards.     *)

ScrapeTyped == ScrapeTypeOK /\ (sc = "backoff" => try < callRetries - 1)

ProcessTyped == DownloadInv /\ ScrapeTyped /\ LifeTypeOK

(* The backoff doubles from attempt to attempt and is a natural number: as *)
(* many as a set of n elements has subsets.                                *)
LEMMA DelayNatural == \A n \in Nat : 2^n \in Nat
  <1> SUFFICES ASSUME NEW n \in Nat PROVE 2^n \in Nat
    OBVIOUS
  <1>1. IsFiniteSet(1..n) /\ Cardinality(1..n) = n
    BY FS_Interval
  <1>2. IsFiniteSet(SUBSET (1..n)) /\ Cardinality(SUBSET (1..n)) = 2^n
    BY <1>1, FS_SUBSET
  <1> QED BY <1>2, FS_CardinalityType

(* The end of a scrape's context is a time.                                *)
LEMMA ContextTyped ==
    ASSUME ScrapeTyped, NEW now
    PROVE  Context(now) \in [for : {"ctx", "sleep"}, at : Nat]
  BY ScrapeAssumption DEF Context, At, ScrapeTyped, ScrapeTypeOK

(* The scrape is back at its metrics, or before its first attempt.         *)
LEMMA ScrapedTyped ==
    ASSUME NEW result \in {0, 1}, ScrapeTyped, Scraped(result),
           UNCHANGED <<scrapeTimeout, clock, stage, ups>>, answered' \subseteq Calls
    PROVE  ScrapeTyped'
  <1>1. 0 \in 0..(callRetries - 1) /\ "sys" \in Calls BY ScrapeAssumption DEF Calls
  <1> QED BY <1>1 DEF Scraped, ScrapeTyped, ScrapeTypeOK

LEMMA AttemptErrorTyped ==
    ASSUME ScrapeTyped, AttemptError PROVE ScrapeTyped'
  <1>1. CASE try = callRetries - 1
    <2>1. Scraped(0) /\ UNCHANGED <<scrapeTimeout, clock, answered, stage, ups>>
      BY <1>1 DEF AttemptError, CallGivesUp
    <2>2. answered' \subseteq Calls BY <2>1 DEF ScrapeTyped, ScrapeTypeOK
    <2> QED BY <2>1, <2>2, ScrapedTyped
  <1>2. CASE try # callRetries - 1
    <2>1. /\ sc' = "backoff" /\ timers' = {At(clock + 2^try, "sleep"), Context(clock)}
          /\ UNCHANGED <<scrapeTimeout, clock, call, try, answered, stage, up, ups>>
      BY <1>2 DEF AttemptError, Backoff, delay
    <2>2. try \in 0..(callRetries - 1) /\ clock \in Nat /\ callRetries \in Nat
      BY ScrapeAssumption DEF ScrapeTyped, ScrapeTypeOK
    <2>3. try \in Nat /\ try < callRetries - 1 BY <1>2, <2>2
    <2>4. 2^try \in Nat BY <2>3, DelayNatural
    <2>5. clock + 2^try \in Nat BY <2>2, <2>4
    <2>6. At(clock + 2^try, "sleep") \in [for : {"ctx", "sleep"}, at : Nat] BY <2>5 DEF At
    <2>7. timers' \subseteq [for : {"ctx", "sleep"}, at : Nat] BY <2>1, <2>6, ContextTyped
    <2> QED BY <2>1, <2>3, <2>7 DEF ScrapeTyped, ScrapeTypeOK
  <1> QED BY <1>1, <1>2

(* Every step of a scrape keeps its types.                                 *)
LEMMA ScrapeTypesKept == ASSUME ScrapeTyped, ScrapeMoves PROVE ScrapeTyped'
  <1>0. 0 \in 0..(callRetries - 1) /\ callRetries \in Nat BY ScrapeAssumption
  <1>1. CASE BeginScrape
    BY <1>1, ContextTyped DEF BeginScrape, ScrapeTyped, ScrapeTypeOK
  <1>2. CASE SysAnswers
    BY <1>0, <1>2, ContextTyped DEF SysAnswers, Answers, ScrapeTyped, ScrapeTypeOK, Calls
  <1>3. CASE QueryAnswers
    <2>1. /\ Scraped(1) /\ answered' = answered \cup {"query"}
          /\ UNCHANGED <<scrapeTimeout, clock, stage, ups>>
      BY <1>3 DEF QueryAnswers, Answers
    <2>2. answered' \subseteq Calls BY <2>1 DEF ScrapeTyped, ScrapeTypeOK, Calls
    <2> QED BY <2>1, <2>2, ScrapedTyped
  <1>4. CASE CallFails \/ CallTimesOut
    BY <1>4, AttemptErrorTyped DEF CallFails, CallTimesOut
  <1>5. CASE BackoffEnds
    <2>1. /\ sc = "backoff" /\ sc' = "calling" /\ try' = try + 1 /\ timers' = {Context(clock)}
          /\ UNCHANGED <<scrapeTimeout, clock, call, answered, stage, up, ups>>
      BY <1>5 DEF BackoffEnds
    <2>2. try' \in 0..(callRetries - 1)
      BY <1>0, <2>1 DEF ScrapeTyped, ScrapeTypeOK
    <2> QED BY <2>1, <2>2, ContextTyped DEF ScrapeTyped, ScrapeTypeOK
  <1>6. CASE BackoffCut
    <2>1. Scraped(0) /\ UNCHANGED <<scrapeTimeout, clock, answered, stage, ups>>
      BY <1>6 DEF BackoffCut, CallGivesUp
    <2>2. answered' \subseteq Calls BY <2>1 DEF ScrapeTyped, ScrapeTypeOK
    <2> QED BY <2>1, <2>2, ScrapedTyped
  <1>7. CASE Elapse
    BY <1>7 DEF Elapse, ScrapeTyped, ScrapeTypeOK
  <1>8. CASE CollectStage
    <2>1. /\ sc = "collecting" /\ stage < Len(Stages) /\ stage' = stage + 1
          /\ ups' = Append(ups, up) \/ ups' = ups
          /\ UNCHANGED <<scrapeTimeout, sc, clock, call, try, timers, answered, up>>
      BY <1>8 DEF CollectStage
    <2>2. up \in {0, 1} /\ ups \in Seq({0, 1}) BY DEF ScrapeTyped, ScrapeTypeOK
    <2>3. ups' \in Seq({0, 1}) BY <2>1, <2>2
    <2>4. stage' \in 0..Len(Stages) BY <2>1, UpIsLast DEF ScrapeTyped, ScrapeTypeOK
    <2> QED BY <2>1, <2>3, <2>4 DEF ScrapeTyped, ScrapeTypeOK
  <1>9. CASE CollectPanics
    <2>1. /\ sc = "collecting" /\ stage' = Len(Stages) /\ ups' = Append(ups, 0)
          /\ UNCHANGED <<scrapeTimeout, sc, clock, call, try, timers, answered, up>>
      BY <1>9 DEF CollectPanics
    <2>2. ups' \in Seq({0, 1})
      BY <2>1 DEF ScrapeTyped, ScrapeTypeOK
    <2>3. stage' \in 0..Len(Stages) BY <2>1, UpIsLast
    <2> QED BY <2>1, <2>2, <2>3 DEF ScrapeTyped, ScrapeTypeOK
  <1>10. CASE Idle
    <2>1. <<>> \in Seq({0, 1}) OBVIOUS
    <2> QED BY <1>0, <1>10, <2>1, UpIsLast DEF Idle, ScrapeTyped, ScrapeTypeOK, Calls
  <1>11. CASE UNCHANGED scrapeVars
    BY <1>11 DEF scrapeVars, ownVars, ScrapeTyped, ScrapeTypeOK
  <1> QED BY <1>1, <1>2, <1>3, <1>4, <1>5, <1>6, <1>7, <1>8, <1>9, <1>10, <1>11 DEF ScrapeMoves

(* Close has five parts to go through.                                     *)
LEMMA FiveParts == Len(CloseOrder) = 5
  BY DEF CloseOrder

(* When the process is gone every variable of it is at its start again.    *)
LEMMA GoneTyped == ASSUME NEW how \in {"kill", "fault", "config", "exit"}, Gone(how) PROVE LifeTypeOK'
  <1>1. 0 \in 0..shutdownGrace BY LifecycleAssumption
  <1>2. /\ phase' = "off" /\ readers' = AllAbsent /\ conn' = "absent" /\ parser' = "none"
        /\ stopping' = FALSE /\ closed' = 0 /\ grace' = 0 /\ failed' = FALSE
        /\ ended' \in {"kill", "fault", "config", "exit"}
    BY DEF Gone
  <1>3. AllAbsent \in [Dbs -> {"absent", "open", "closed"}] BY DEF AllAbsent
  <1>4. closed' \in 0..Len(CloseOrder) BY <1>2, FiveParts
  <1>5. stopping' \in BOOLEAN /\ failed' \in BOOLEAN BY <1>2
  <1> QED BY <1>1, <1>2, <1>3, <1>4, <1>5 DEF LifeTypeOK

(* Every step of the process keeps its types.                              *)
LEMMA LifeTypesKept == ASSUME LifeTypeOK, Next PROVE LifeTypeOK'
  <1> USE DEF LifeTypeOK
  <1>1. CASE Download \/ Scraper
    <2>1. UNCHANGED lifeVars
      BY <1>1 DEF Download, Scraper, TakeScrape, XrayAnswers, XrayFails, ScrapeProgress
    <2> QED BY <2>1 DEF lifeVars, partVars
  <1>2. CASE NewExporter
    <2>1. /\ phase' = "serving" /\ conn' = "open" /\ parser' \in {"none", "waiting"}
          /\ readers' = [d \in Dbs |-> IF files[d].body = "db" THEN "open" ELSE "absent"]
          /\ UNCHANGED <<stopping, closed, grace, failed, ended>>
      BY <1>2 DEF NewExporter
    <2>2. readers' \in [Dbs -> {"absent", "open", "closed"}] BY <2>1
    <2> QED BY <2>1, <2>2
  <1>3. CASE Fatal \/ Exit \/ Kill \/ \E d \in Dbs : Fault(d)
    BY <1>3, GoneTyped DEF Fatal, Exit, Kill, Fault
  <1>4. CASE ShutdownDone \/ ShutdownExpires \/ Signal \/ ServerFails
    BY <1>4 DEF ShutdownDone, ShutdownExpires, Signal, ServerFails, MoveMain, partVars
  <1>5. CASE Close
    <2>1. /\ closed < Len(CloseOrder) /\ closed' = closed + 1
          /\ readers' = [d \in Dbs |-> IF d = CloseOrder[closed'] THEN IfOpen(readers[d])
                                                                 ELSE readers[d]]
          /\ conn' \in {conn, IfOpen(conn)}
          /\ stopping' = (parser # "none") \/ stopping' = stopping
          /\ UNCHANGED <<phase, parser, grace, failed, ended>>
      BY <1>5 DEF Close, StopParser
    <2>2. readers' \in [Dbs -> {"absent", "open", "closed"}] BY <2>1 DEF IfOpen
    <2>3. conn' \in {"absent", "open", "closed"} BY <2>1 DEF IfOpen
    <2>4. closed' \in 0..Len(CloseOrder) BY <2>1, FiveParts
    <2>5. stopping' \in BOOLEAN BY <2>1, Zenon
    <2> QED BY <2>1, <2>2, <2>3, <2>4, <2>5
  <1>6. CASE Parser
    <2>1. /\ parser' \in {"waiting", "pass", "stopped"} \cup Dbs
          /\ UNCHANGED <<phase, readers, conn, stopping, closed, grace, failed, ended>>
      BY <1>6 DEF Parser, BeginPass, EndPass, ParserStops, BeginLookup, EndLookup, MoveParser
    <2> QED BY <2>1
  <1>7. CASE Tick
    <2>1. /\ UNCHANGED <<phase, readers, conn, parser, stopping, closed, failed, ended>>
          /\ grace' = grace \/ (grace < shutdownGrace /\ grace' = grace + 1)
      BY <1>7, LifecycleAssumption DEF Tick, ScrapeWaits, ShutdownWaits, partVars
    <2>2. grace' \in 0..shutdownGrace BY <2>1, LifecycleAssumption
    <2> QED BY <2>1, <2>2
  <1>8. CASE Start \/ \E d \in Dbs : Age(d)
    BY <1>8 DEF Start, Age, lifeVars, partVars
  <1> QED BY <1>1, <1>2, <1>3, <1>4, <1>5, <1>6, <1>7, <1>8 DEF Next, Main, Environment

(* Whatever fails, is closed or is killed, every variable of the process   *)
(* keeps its type: no attempt beyond the last, no part after the last one  *)
(* to close, no grace beyond that of the shutdown.                         *)
THEOREM ProcessTypeCorrect == Spec => []TypeOK
  <1>1. Init => ProcessTyped
    <2> SUFFICES ASSUME Init PROVE ScrapeTyped /\ LifeTypeOK
      BY InitDownloadInv DEF ProcessTyped
    <2>1. 0 \in 0..(callRetries - 1) /\ 0 \in 0..shutdownGrace /\ <<>> \in Seq({0, 1})
      BY ScrapeAssumption, LifecycleAssumption
    <2>2. ScrapeTyped
      BY <2>1, UpIsLast DEF Init, ScrapeInit, ScrapeTyped, ScrapeTypeOK, Calls
    <2>3. LifeTypeOK
      <3>1. AllAbsent \in [Dbs -> {"absent", "open", "closed"}] BY DEF AllAbsent
      <3>2. 0 \in 0..Len(CloseOrder) BY FiveParts
      <3> QED BY <2>1, <3>1, <3>2 DEF Init, LifeTypeOK
    <2> QED BY <2>2, <2>3
  <1>2. ProcessTyped /\ [Next]_vars => ProcessTyped'
    <2> SUFFICES ASSUME ProcessTyped, [Next]_vars PROVE ProcessTyped'
      OBVIOUS
    <2>1. DownloadInv' BY DownloadKept, StepsOfDownload DEF ProcessTyped
    <2>2. ScrapeTyped' BY ScrapeTypesKept, StepsOfScrape DEF ProcessTyped
    <2>3. CASE Next BY <2>1, <2>2, <2>3, LifeTypesKept DEF ProcessTyped
    <2>4. CASE UNCHANGED vars
      BY <2>1, <2>2, <2>4 DEF vars, lifeVars, partVars, ProcessTyped, LifeTypeOK
    <2> QED BY <2>3, <2>4
  <1>3. ProcessTyped => TypeOK
    BY DEF ProcessTyped, DownloadInv, ScrapeTyped, TypeOK
  <1> QED BY <1>1, <1>2, <1>3, PTL DEF Spec
====

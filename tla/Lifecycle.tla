---- MODULE Lifecycle ----
(***************************************************************************)
(* The process from its start to its end (src/main.go, NewExporter and     *)
(* Close in src/exporter.go): the GeoIP download, the exporter with its    *)
(* readers, its connection and the goroutine of the log parser, scrapes by *)
(* HTTP, and the shutdown, after which Close takes the parts down.  Files  *)
(* outlive the process, so a later start finds what an earlier one left.   *)
(*                                                                         *)
(* Of a pass of the parser only its lookups in the GeoIP readers are kept  *)
(* (LogTail, ConnWindow and Counters have the rest).  What a Close does to *)
(* a lookup that is under way is up to the library and the scheduler: the  *)
(* lookup may end well or in an error, or the process may fault, since the *)
(* database is unmapped.                                                   *)
(***************************************************************************)
EXTENDS GeoIPDownload, Scrape

CONSTANTS shutdownGrace,    \* the 30 seconds of Shutdown
          lateArrival       \* net/http: how long after the signal a request
                            \* may still come on a connection that is open

ASSUME LifecycleAssumption ==
    /\ shutdownGrace \in Nat /\ lateArrival \in Nat
    /\ lateArrival < shutdownGrace

VARIABLES
    phase,      \* of main: off, download, serving, shutdown, closing
    readers,    \* database -> absent, open or closed
    conn,       \* the connection to Xray: the same
    parser,     \* its goroutine: none, waiting, pass, stopped, or the
                \* database in which it looks an address up
    stopping,   \* its context is cancelled
    closed,     \* how many of the parts Close has dealt with
    grace,      \* time since Shutdown was called
    failed,     \* the server has stopped with an error
    ended       \* history: how the process came to its end: kill, fault,
                \* config or exit, none while it is there

partVars == <<readers, conn, parser, stopping, closed>>
lifeVars == <<phase, partVars, grace, failed, ended>>
vars == <<downloadVars, scrapeVars, lifeVars>>

AllAbsent == [d \in Dbs |-> "absent"]

----------------------------------------------------------------------------
\* main, up to the server

Start ==
    /\ phase = "off" /\ phase' = "download" /\ ended' = "none"
    /\ StartDownload
    /\ UNCHANGED <<scrapeVars, partVars, grace, failed>>

Download == phase = "download" /\ DownloadStep /\ UNCHANGED <<scrapeVars, lifeVars>>

\* A download that failed is a warning.
\* (mutant: it is fatal)
MutantDownloaded == dl = "done"
Downloaded == dl \in {"done", "failed"}

\* A database that cannot be opened is left out; so is the parser if there
\* is no log.
NewExporter ==
    /\ phase = "download" /\ Downloaded /\ phase' = "serving"
    /\ conn' = "open"
    /\ readers' = [d \in Dbs |-> IF files[d].body = "db" THEN "open" ELSE "absent"]
    /\ parser' \in {"none", "waiting"}
    /\ dl' = "done" /\ UNCHANGED <<files, at, attempt, tmp>>
    /\ UNCHANGED <<scrapeVars, stopping, closed, grace, failed, ended>>

\* The memory of the process is gone.
Gone(how) ==
    /\ phase' = "off" /\ ended' = how /\ DownloadLost /\ Idle
    /\ readers' = AllAbsent /\ conn' = "absent" /\ parser' = "none"
    /\ stopping' = FALSE /\ closed' = 0 /\ grace' = 0 /\ failed' = FALSE

\* The connection's target is not valid, or the snapshot store unreadable.
Fatal == phase = "download" /\ Downloaded /\ Gone("config")

----------------------------------------------------------------------------
\* The goroutines of the parser and of a scrape

MoveParser(from, to) ==
    /\ parser = from /\ parser' = to
    /\ UNCHANGED <<downloadVars, scrapeVars, phase, readers, conn, stopping, closed,
                   grace, failed, ended>>

\* The select of parseLoop may take a tick although the context is done.
BeginPass == MoveParser("waiting", "pass")
BeginLookup(d) == readers[d] = "open" /\ MoveParser("pass", d)
EndLookup(d) == MoveParser(d, "pass")
EndPass == MoveParser("pass", "waiting")
ParserStops == stopping /\ MoveParser("waiting", "stopped")

\* A reader was unmapped under a lookup.
Fault(d) == parser = d /\ readers[d] = "closed" /\ Gone("fault")

\* Shutdown goes on serving a connection that it has accepted and that has
\* brought no request yet; a server that has failed, all it has accepted.
RequestArrives ==
    \/ phase = "serving"
    \/ phase = "shutdown" /\ grace <= lateArrival
    \/ phase = "closing" /\ failed

TakeScrape == RequestArrives /\ BeginScrape /\ UNCHANGED <<downloadVars, lifeVars>>

XrayAnswers == conn = "open" /\ (SysAnswers \/ QueryAnswers) /\ UNCHANGED <<downloadVars, lifeVars>>
XrayFails == CallFails /\ UNCHANGED <<downloadVars, lifeVars>>

\* Without a parser there is nothing to collect between the calls and up.
ScrapeProgress ==
    /\ \/ CallTimesOut \/ BackoffEnds \/ BackoffCut \/ CollectStage \/ EndScrape
       \/ parser # "none" /\ CollectPanics
    /\ UNCHANGED <<downloadVars, lifeVars>>

\* Time passes for a scrape that waits, and for Shutdown, which waits for
\* what is under way and for a connection that may bring a request.
ScrapeWaits ==
    /\ Elapse
    /\ IF phase = "shutdown" THEN grace < shutdownGrace /\ grace' = grace + 1
       ELSE UNCHANGED grace
    /\ UNCHANGED <<downloadVars, phase, partVars, failed, ended>>

ShutdownWaits ==
    /\ phase = "shutdown"
    /\ \/ sc = "idle" /\ grace < lateArrival
       \/ sc = "collecting" /\ grace < shutdownGrace
    /\ grace' = grace + 1
    /\ UNCHANGED <<downloadVars, scrapeVars, phase, partVars, failed, ended>>

Tick == ScrapeWaits \/ ShutdownWaits

----------------------------------------------------------------------------
\* The end

MoveMain(from, to) ==
    /\ phase = from /\ phase' = to
    /\ UNCHANGED <<downloadVars, scrapeVars, partVars, grace, ended>>

\* (mutant: main returns at once, as it does when the server fails)
MutantSignal == MoveMain("serving", "closing") /\ UNCHANGED failed
Signal == MoveMain("serving", "shutdown") /\ UNCHANGED failed
\* ListenAndServe returns an error: main goes on to Close without Shutdown.
ServerFails == MoveMain("serving", "closing") /\ failed' = TRUE
ShutdownDone == sc = "idle" /\ MoveMain("shutdown", "closing") /\ UNCHANGED failed
ShutdownExpires ==
    grace >= shutdownGrace /\ MoveMain("shutdown", "closing") /\ UNCHANGED failed

CloseOrder == <<"parser", "asn", "city", "country", "conn">>
IfOpen(part) == IF part = "open" THEN "closed" ELSE part

\* (mutant: Stop waits until the goroutine has returned)
MutantStopParser == stopping /\ parser \in {"none", "stopped"} /\ UNCHANGED stopping
StopParser == stopping' = (parser # "none")

Close ==
    /\ phase = "closing" /\ closed < Len(CloseOrder) /\ closed' = closed + 1
    /\ LET part == CloseOrder[closed']
       IN  /\ IF part = "parser" THEN StopParser ELSE UNCHANGED stopping
           /\ readers' = [d \in Dbs |-> IF d = part THEN IfOpen(readers[d]) ELSE readers[d]]
           /\ conn' = IF part = "conn" THEN IfOpen(conn) ELSE conn
    /\ UNCHANGED <<downloadVars, scrapeVars, phase, parser, grace, failed, ended>>

Exit ==
    phase = "closing" /\ closed = Len(CloseOrder) /\ Gone("exit")

Kill ==
    phase # "off" /\ Gone("kill")

\* A week goes by for a file while the process is down.
Age(d) ==
    /\ phase = "off" /\ files[d].recent
    /\ files' = [files EXCEPT ![d] = [body |-> @.body, recent |-> FALSE]]
    /\ UNCHANGED <<dl, at, attempt, tmp, scrapeVars, lifeVars>>

----------------------------------------------------------------------------
Init ==
    /\ DownloadInit /\ ScrapeInit
    /\ phase = "off" /\ readers = AllAbsent /\ conn = "absent" /\ parser = "none"
    /\ stopping = FALSE /\ closed = 0 /\ grace = 0 /\ failed = FALSE
    /\ ended = "none"

Main == Download \/ NewExporter \/ ShutdownDone \/ ShutdownExpires \/ Close \/ Exit
Parser == \/ BeginPass \/ EndPass \/ ParserStops
          \/ \E d \in Dbs : BeginLookup(d) \/ EndLookup(d)
Scraper == TakeScrape \/ XrayAnswers \/ XrayFails \/ ScrapeProgress
Environment == \/ Start \/ Fatal \/ Signal \/ ServerFails \/ Kill
               \/ \E d \in Dbs : Age(d) \/ Fault(d)

Next == Main \/ Parser \/ Scraper \/ Tick \/ Environment

(* main and a scrape go on whenever they can, and time passes.  Nothing is *)
(* asked of Xray, of the parser, or of the server that has the databases:  *)
(* its answers are bounded by downloadTimeout, which is a failed attempt.  *)
(* The connections that are open at the signal are finitely many and bring *)
(* a request each at most: not every moment without a scrape is followed   *)
(* by another one.                                                         *)
Fairness ==
    WF_vars(Main) /\ SF_vars(ShutdownDone) /\ WF_vars(ScrapeProgress) /\ WF_vars(Tick)

Spec == Init /\ [][Next]_vars /\ Fairness

----------------------------------------------------------------------------
LifeTypeOK ==
    /\ phase \in {"off", "download", "serving", "shutdown", "closing"}
    /\ readers \in [Dbs -> {"absent", "open", "closed"}]
    /\ conn \in {"absent", "open", "closed"}
    /\ parser \in {"none", "waiting", "pass", "stopped"} \cup Dbs
    /\ stopping \in BOOLEAN /\ failed \in BOOLEAN
    /\ closed \in 0..Len(CloseOrder) /\ grace \in 0..shutdownGrace
    /\ ended \in {"none", "kill", "fault", "config", "exit"}

TypeOK == DownloadTypeOK /\ ScrapeTypeOK /\ LifeTypeOK

(* The connection outlives the calls of every scrape, however long Xray    *)
(* lets them wait before the signal and after it, and though scrapes may   *)
(* still begin then: if the scrape timeout and the time in which requests  *)
(* still arrive are together below the grace, and the server has not       *)
(* failed.                                                                 *)
ConnectionOutlivesScrapes ==
    scrapeTimeout + lateArrival < shutdownGrace /\ conn = "closed" /\ ~failed
        => sc \notin {"calling", "backoff"}

(* What a graceful stop of the parser before the readers are closed would  *)
(* be: after a signal no reader is closed under a lookup.                  *)
ReadersOutliveLookups ==
    \A d \in Dbs : readers[d] = "closed" /\ ~failed => parser # d

(* The exporter comes to serve, whatever the servers that have the         *)
(* databases and its own disk do, since GeoIP is optional: only a kill or  *)
(* a setting that has nothing to do with GeoIP keeps it from that.         *)
StartsServing == phase = "download" ~> phase = "serving" \/ ended \in {"kill", "config"}

(* Every scrape ends, even if Xray accepts its calls and never answers.    *)
ScrapesEnd == sc # "idle" ~> sc = "idle"

(* After a signal the process ends, whatever scrapes and passes are up to. *)
ShutdownEnds == phase = "shutdown" ~> phase = "off"
====

---- MODULE Scrape ----
(***************************************************************************)
(* One scrape of the exporter (Collect in src/exporter.go): two calls to   *)
(* Xray, one after the other, each with up to three attempts and a backoff *)
(* between them, under one deadline; then the metrics of the log parser,   *)
(* family by family, of which two may panic (MustNewConstMetric on a key   *)
(* that is not UTF-8); then the scrape's own.  Time is counted in units of *)
(* the first backoff, from the start of the scrape.                        *)
(***************************************************************************)
EXTENDS Naturals, Sequences

CONSTANTS ScrapeTimeouts,   \* what the flag may be set to, in units of baseDelay
          callRetries       \* attempts of callWithRetry

ASSUME ScrapeAssumption == ScrapeTimeouts \subseteq Nat /\ callRetries \in Nat \ {0}

VARIABLES
    scrapeTimeout,  \* as set; the other variables are those of the scrape
    sc,        \* idle, calling (Xray has the call), backoff, collecting
    clock,     \* time since the scrape began, until its calls are over
    call,      \* the call at hand: sys or query
    try,       \* its attempt, from 0
    timers,    \* those of the runtime that the scrape waits for: the end
               \* of its context (ctx) or of a backoff (sleep), each at a time
    answered,  \* history: the calls Xray has answered
    stage,     \* how far Collect is after the calls
    up,        \* the local variable up
    ups        \* the values of the metric up that were sent

ownVars == <<sc, clock, call, try, timers, answered, stage, up, ups>>
scrapeVars == <<scrapeTimeout, ownVars>>

Calls == {"sys", "query"}

\* (mutant: up is sent as soon as it is known)
MutantStages == <<"up", "log", "domain", "outbound", "geo">>
Stages == <<"log", "domain", "outbound", "geo", "up">>

At(time, what) == [for |-> what, at |-> time]

\* One context for the whole scrape, which gRPC heeds in every call.
Context(now) == At(scrapeTimeout, "ctx")

Fired(what) == \E t \in timers : t.for = what /\ clock >= t.at

----------------------------------------------------------------------------
Idle ==
    /\ sc' = "idle" /\ clock' = 0 /\ call' = "sys" /\ try' = 0 /\ timers' = {}
    /\ answered' = {} /\ stage' = 0 /\ up' = 1 /\ ups' = <<>>
    /\ UNCHANGED scrapeTimeout

\* The process answers a request of Prometheus.
BeginScrape ==
    /\ sc = "idle" /\ sc' = "calling" /\ timers' = {Context(0)}
    /\ UNCHANGED <<scrapeTimeout, clock, call, try, answered, stage, up, ups>>

\* scrapeXray comes back, with or without an error.
Scraped(result) ==
    sc' = "collecting" /\ up' = result /\ call' = "sys" /\ try' = 0 /\ timers' = {}

Answers(c) == sc = "calling" /\ call = c /\ answered' = answered \cup {c}

\* The answers themselves become metrics at once.
SysAnswers ==
    /\ Answers("sys")
    /\ call' = "query" /\ try' = 0 /\ timers' = {Context(clock)}
    /\ UNCHANGED <<scrapeTimeout, sc, clock, stage, up, ups>>

QueryAnswers ==
    /\ Answers("query")
    /\ Scraped(1)
    /\ UNCHANGED <<scrapeTimeout, clock, stage, ups>>

CallGivesUp == Scraped(0)

delay == 2^try

\* The select of callWithRetry waits for the backoff and for the context.
\* (mutant: a fixed sleep)
MutantBackoff == {At(clock + delay, "sleep")}
Backoff == {At(clock + delay, "sleep"), Context(clock)}

\* Attempt try of callWithRetry comes back with an error.
AttemptError ==
    /\ IF try = callRetries - 1 THEN CallGivesUp
       ELSE sc' = "backoff" /\ timers' = Backoff /\ UNCHANGED <<call, try, up>>
    /\ UNCHANGED <<scrapeTimeout, clock, answered, stage, ups>>

\* Xray refuses, or the connection breaks.
CallFails == sc = "calling" /\ AttemptError

\* (mutant: a call is not ended by its context)
MutantCallTimesOut == FALSE /\ UNCHANGED scrapeVars
CallTimesOut == sc = "calling" /\ Fired("ctx") /\ AttemptError

\* The select takes whichever is ready, either if both are.
BackoffEnds ==
    /\ sc = "backoff" /\ Fired("sleep")
    /\ sc' = "calling" /\ try' = try + 1 /\ timers' = {Context(clock)}
    /\ UNCHANGED <<scrapeTimeout, clock, call, answered, stage, up, ups>>

BackoffCut ==
    /\ sc = "backoff" /\ Fired("ctx")
    /\ CallGivesUp
    /\ UNCHANGED <<scrapeTimeout, clock, answered, stage, ups>>

\* Time passes for a scrape that waits.  The runtime wakes it when the first
\* of its timers fires; there is no other bound on how long it may wait.
Elapse ==
    /\ sc \in {"calling", "backoff"}
    /\ \A t \in timers : clock < t.at
    /\ clock' = clock + 1
    /\ UNCHANGED <<scrapeTimeout, sc, call, try, timers, answered, stage, up, ups>>

----------------------------------------------------------------------------
\* After the calls, whatever came of them.

CollectStage ==
    /\ sc = "collecting" /\ stage < Len(Stages)
    /\ stage' = stage + 1
    /\ ups' = IF Stages[stage'] = "up" THEN Append(ups, up) ELSE ups
    /\ UNCHANGED <<scrapeTimeout, sc, clock, call, try, timers, answered, up>>

\* The deferred function recovers; what was still to come is not sent.
CollectPanics ==
    /\ sc = "collecting" /\ stage < Len(Stages)
    /\ Stages[stage + 1] \in {"domain", "outbound"}
    /\ stage' = Len(Stages) /\ ups' = Append(ups, 0)
    /\ UNCHANGED <<scrapeTimeout, sc, clock, call, try, timers, answered, up>>

Collected == sc = "collecting" /\ stage = Len(Stages)
EndScrape == Collected /\ Idle

ScrapeInit ==
    /\ scrapeTimeout \in ScrapeTimeouts
    /\ sc = "idle" /\ clock = 0 /\ call = "sys" /\ try = 0 /\ timers = {}
    /\ answered = {} /\ stage = 0 /\ up = 1 /\ ups = <<>>

----------------------------------------------------------------------------
ScrapeTypeOK ==
    /\ scrapeTimeout \in ScrapeTimeouts
    /\ sc \in {"idle", "calling", "backoff", "collecting"}
    /\ clock \in Nat /\ timers \subseteq [for : {"ctx", "sleep"}, at : Nat]
    /\ call \in Calls /\ try \in 0..(callRetries - 1) /\ answered \subseteq Calls
    /\ stage \in 0..Len(Stages) /\ up \in {0, 1} /\ ups \in Seq({0, 1})

(* All attempts of both calls and all backoffs between them end by the     *)
(* scrape's one deadline: each of them waits for the context as well, and  *)
(* for no new one.                                                         *)
ScrapeKeepsDeadline == clock <= scrapeTimeout

(* A scrape sends up once, also if it panics, and sends 1 only if Xray     *)
(* has answered both calls.                                                *)
UpMeansAnswered ==
    /\ Len(ups) <= 1
    /\ Collected => Len(ups) = 1
    /\ \A i \in DOMAIN ups : ups[i] = 1 => answered = Calls
====

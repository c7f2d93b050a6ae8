------------------------------ MODULE Fetcher ------------------------------
(***************************************************************************)
(* The HTTP fetcher of one job (HTTPFetcher, RateLimiter, RobotsCache): a  *)
(* call is checked against the URL policy and robots.txt, waits for the    *)
(* pace of its host before every attempt, and is attempted again after a   *)
(* transient failure only.  The client below it asks for robots.txt, and   *)
(* goes where it is redirected, without waiting.  Every job makes a        *)
(* fetcher of its own and uses it for one call at a time.  Time is counted *)
(* in ticks.                                                               *)
(***************************************************************************)
EXTENDS Naturals, Sequences

CONSTANTS
    Urls,         \* what is fetched
    HostOf,       \* the host of every URL
    MinGap,       \* the shortest interval between two attempts, 60/per_minute * 0.9
    MaxGap,       \* the longest, 60/per_minute * 1.15
    MaxRetries,   \* HTTP_MAX_RETRIES
    MaxRedirects  \* HTTP_MAX_REDIRECTS

Hosts == {HostOf[u] : u \in Urls}

ASSUME GapAssumption == MinGap \in Nat \ {0} /\ MaxGap \in Nat /\ MinGap <= MaxGap
ASSUME RetriesAssumption == MaxRetries \in Nat /\ MaxRedirects \in Nat
ASSUME UrlsAssumption == "none" \notin Urls

VARIABLES
    respect,    \* whether robots.txt binds this source (settings, robots_policy)
    wait,       \* RateLimiter: ticks until a host may be contacted again
    since,      \* history: ticks since the last attempt at a host began (up to MinGap)
    robots,     \* RobotsCache: the URLs a host's robots.txt disallows, if cached
    call        \* the call in progress

fetchVars == <<respect, wait, since, robots, call>>

NoUrl == "none"

\* In the place of the rules of a host whose robots.txt is not cached.
Unread == {NoUrl}

Failures == {"FETCH_RETRYABLE", "FETCH_PERMANENT", "RESPONSE_TOO_LARGE",
             "ROBOTS_DISALLOWED", "UNSAFE_URL"}

Stages == {"idle", "robots", "pace", "attempt", "backoff", "done"}

\* hops: the hosts that the client was redirected to in this attempt.
Call == [stage : Stages, url : Urls \cup {NoUrl}, attempt : 0..MaxRetries, hops : Seq(Hosts),
         outcome : {"pending", "ok"} \cup Failures]

NoCall == [stage |-> "idle", url |-> NoUrl, attempt |-> 0, hops |-> <<>>, outcome |-> "pending"]

FetcherTypeOK ==
    /\ respect \in BOOLEAN
    /\ wait \in [Hosts -> 0..MaxGap]
    /\ since \in [Hosts -> 0..MinGap]
    /\ robots \in [Hosts -> {Unread} \cup SUBSET Urls]
    /\ call \in Call /\ Len(call.hops) <= MaxRedirects

FetcherInit ==
    /\ respect \in BOOLEAN
    /\ wait = [h \in Hosts |-> 0]
    /\ since = [h \in Hosts |-> MinGap]
    /\ robots = [h \in Hosts |-> Unread]
    /\ call = NoCall

Host == HostOf[call.url]

Ended(outcome) == [call EXCEPT !.stage = "done", !.hops = <<>>, !.outcome = outcome]

----------------------------------------------------------------------------
(* One call.  Begin and Free are steps of the caller.                      *)

\* The URL policy refuses some URLs outright, and whatever is none.
Begin(u) ==
    /\ call = NoCall
    /\ \/ /\ u \in Urls
          /\ call' = [NoCall EXCEPT !.stage = IF respect THEN "robots" ELSE "pace", !.url = u]
       \/ call' = [NoCall EXCEPT !.stage = "done", !.url = u, !.outcome = "UNSAFE_URL"]

Free == call' = NoCall

\* What robots.txt may disallow: nothing when it is missing, unreachable or
\* malformed.
Rules(h) == SUBSET {u \in Urls : HostOf[u] = h}

\* A decision is read once per host and kept for an hour; the request for
\* robots.txt itself is not paced.
CheckRobots ==
    /\ call.stage = "robots"
    /\ \E rules \in IF robots[Host] = Unread THEN Rules(Host) ELSE {robots[Host]} :
           /\ robots' = [robots EXCEPT ![Host] = rules]
           /\ call' = IF call.url \in rules THEN Ended("ROBOTS_DISALLOWED")
                      ELSE [call EXCEPT !.stage = "pace"]
    /\ UNCHANGED <<respect, wait, since>>

RobotsAge(h) ==
    /\ robots[h] # Unread
    /\ robots' = [robots EXCEPT ![h] = Unread]
    /\ UNCHANGED <<respect, wait, since, call>>

Gap_None == 0..MaxGap

\* acquire: the next permit comes an interval, with jitter, after this one.
Gap == MinGap..MaxGap

Acquire ==
    /\ call.stage = "pace" /\ wait[Host] = 0
    /\ \E gap \in Gap : wait' = [wait EXCEPT ![Host] = gap]
    /\ since' = [since EXCEPT ![Host] = 0]
    /\ call' = [call EXCEPT !.stage = "attempt"]
    /\ UNCHANGED <<respect, robots>>

\* The client goes where it is redirected at once: the limiter hears nothing of
\* it, nor does robots.txt.
Redirect ==
    /\ call.stage = "attempt" /\ Len(call.hops) < MaxRedirects
    /\ \E h \in Hosts : call' = [call EXCEPT !.hops = Append(@, h)]
    /\ UNCHANGED <<respect, wait, since, robots>>

\* A retryable status, a timeout, a broken connection or too many redirects.
AfterTransient ==
    IF call.attempt >= MaxRetries THEN Ended("FETCH_RETRYABLE")
    ELSE [call EXCEPT !.stage = "backoff", !.attempt = @ + 1, !.hops = <<>>]

\* The answer of the server; the URL it comes from after redirects is checked
\* again.
Attempt ==
    /\ call.stage = "attempt"
    /\ call' \in {AfterTransient}
           \cup {Ended(o) : o \in {"ok", "FETCH_PERMANENT", "RESPONSE_TOO_LARGE", "UNSAFE_URL"}}
    /\ UNCHANGED <<respect, wait, since, robots>>

\* The exponential backoff has full jitter: it may be any time, even none.
BackOff ==
    /\ call.stage = "backoff"
    /\ call' = [call EXCEPT !.stage = "pace"]
    /\ UNCHANGED <<respect, wait, since, robots>>

Tick ==
    /\ \E h \in Hosts : wait[h] > 0 \/ since[h] < MinGap
    /\ wait' = [h \in Hosts |-> IF wait[h] = 0 THEN 0 ELSE wait[h] - 1]
    /\ since' = [h \in Hosts |-> IF since[h] < MinGap THEN since[h] + 1 ELSE since[h]]
    /\ UNCHANGED <<respect, robots, call>>

FetcherStep == CheckRobots \/ Acquire \/ Redirect \/ Attempt \/ BackOff \/ Tick

----------------------------------------------------------------------------
\* Whether a step is the beginning of an attempt.
Attempts == call.stage # "attempt" /\ call'.stage = "attempt"

\* Between two attempts at the URLs of a host, be they for the next page, a detail
\* page or a retry, at least MinGap ticks pass.  What the client below the fetcher
\* does of its own accord is another matter: EveryRequestIsPaced.
AttemptsArePaced == [][Attempts => since[Host] >= MinGap]_fetchVars

\* Whether a step is a request to host h: an attempt, the reading of its robots.txt
\* or a hop of a redirect.
Asks(h) ==
    \/ Attempts /\ h = Host
    \/ robots[h] = Unread /\ robots'[h] # Unread
    \/ call'.hops = Append(call.hops, h)

\* "Every host is rate-limited": no request of any kind follows within MinGap ticks
\* of an attempt at its host.
EveryRequestIsPaced == [][\A h \in Hosts : Asks(h) => since[h] >= MinGap]_fetchVars

\* Why: the last attempt at a host that is not to be waited for began MinGap ticks ago,
\* and a call that is under way has a host.
PaceHolds ==
    /\ wait \in [Hosts -> 0..MaxGap] /\ since \in [Hosts -> 0..MinGap]
    /\ \A h \in Hosts : since[h] + wait[h] >= MinGap
    /\ DOMAIN call = DOMAIN NoCall
    /\ call.stage \in {"robots", "pace", "attempt", "backoff"} => call.url \in Urls

\* A call that is done has an outcome.
CallsEnd == call.stage = "done" => call.outcome # "pending"
=============================================================================

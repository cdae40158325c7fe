----------------------------- MODULE HttpChecker -----------------------------
(***************************************************************************)
(* packages/monitoring/src/checker.ts: checks that follow redirects, each  *)
(* hop under a slot of the destination limiter, with one overall timeout.  *)
(* DNS, TLS, headers and bodies appear as the outcomes they can have.      *)
(***************************************************************************)
EXTENDS DestinationLimiter

CONSTANTS Urls,          \* canonical URLs
          FirstUrl,      \* the URL a check is for
          SubjectsOf,    \* the host name and addresses a URL resolves to
          CheckTimeout   \* timeoutMs, in ticks

\* leaseMs is at least 31 s and timeoutMs at most 30 s.
ASSUME CheckerAssumption ==
    /\ FirstUrl \in [Checks -> Urls]
    /\ SubjectsOf \in [Urls -> SUBSET Subjects]
    /\ CheckTimeout \in Nat \ {0}
    /\ CheckTimeout < LeaseTime

VARIABLES pc,         \* what the check awaits
          url,        \* currentUrl
          hop,        \* redirects
          visited,    \* URLs requested so far
          elapsed,    \* ticks since the start
          leased,     \* destinationLease # null
          failure,    \* the outcome of the error being cleaned up
          outcome,    \* of the result, once there is one
          limiterErr  \* history: the limiter has refused or failed this check

checkerVars == <<pc, url, hop, visited, elapsed, leased, failure, outcome, limiterErr>>
httpVars    == <<limiterVars, checkerVars>>

Results == {"SUCCESS", "TARGET_FAILURE", "PLATFORM_ERROR", "INCONCLUSIVE"}
Sending == {"request", "body"}               \* a connection to the target is open
Timed   == {"resolve", "acquire"} \union Sending   \* inside the overall timeout
Releasing == {"release_hop", "release_end", "cleanup"}

ReleaseOf(c) == [script |-> "RELEASE", token |-> <<c, hop[c]>>, subjects |-> {}]
-----------------------------------------------------------------------------
HttpInit ==
    /\ LimiterInit
    /\ pc = [c \in Checks |-> "idle"]
    /\ url = FirstUrl
    /\ hop = [c \in Checks |-> 0]
    /\ visited = [c \in Checks |-> {}]
    /\ elapsed = [c \in Checks |-> 0]
    /\ leased = [c \in Checks |-> FALSE]
    /\ failure = [c \in Checks |-> "NONE"]
    /\ outcome = [c \in Checks |-> "NONE"]
    /\ limiterErr = [c \in Checks |-> FALSE]

Go(c, where) == pc' = [pc EXCEPT ![c] = where]

Finish(c, result) ==
    /\ Go(c, "done")
    /\ outcome' = [outcome EXCEPT ![c] = result]

\* An error reaches the catch block: a lease that is still held is released
\* first, otherwise the result is there.
Fail(c, result) ==
    /\ failure' = [failure EXCEPT ![c] = result]
    /\ answer' = [answer EXCEPT ![c] = "NONE"]
    /\ IF leased[c]
       THEN /\ Go(c, "cleanup")
            /\ wire' = wire \union {ReleaseOf(c)}
            /\ UNCHANGED outcome
       ELSE /\ Finish(c, result)
            /\ UNCHANGED wire

\* The limiter's errors are PLATFORM_ERROR wherever they surface.
FailByLimiter(c) ==
    /\ Fail(c, "PLATFORM_ERROR")
    /\ limiterErr' = [limiterErr EXCEPT ![c] = TRUE]

\* checkUrl; a configuration that normalizeConfig refuses ends at once.
StartCheck(c) ==
    /\ pc[c] = "idle"
    /\ \/ Go(c, "resolve") /\ UNCHANGED outcome
       \/ Finish(c, "INCONCLUSIVE")
    /\ UNCHANGED <<limiterVars, url, hop, visited, elapsed, leased, failure, limiterErr>>

\* resolveSafeDestination: a URL outside the policy is INCONCLUSIVE, or the
\* target's fault once it redirected there; a name that does not resolve is a
\* target failure, and so is every error of a lookup that was aborted.
ResolveFails(c) ==
    /\ pc[c] = "resolve"
    /\ \/ Fail(c, "TARGET_FAILURE")
       \/ hop[c] = 0 /\ Fail(c, "INCONCLUSIVE")
    /\ UNCHANGED <<slot, rate, url, hop, visited, elapsed, leased, limiterErr>>

\* The destination is known.  The same URL with the same cookie again is a
\* redirect loop; a new request state asks the limiter for its slot.  Cookies
\* the target sets may make a URL that was requested before new again.
Resolved(c) ==
    /\ pc[c] = "resolve"
    /\ \/ /\ url[c] \in visited[c]
          /\ Fail(c, "TARGET_FAILURE")
          /\ UNCHANGED visited
       \/ /\ visited' = [visited EXCEPT ![c] = @ \union {url[c]}]
          /\ wire' = wire \union {[script   |-> "ACQUIRE", token |-> <<c, hop[c]>>,
                                   subjects |-> SubjectsOf[url[c]]]}
          /\ answer' = [answer EXCEPT ![c] = "NONE"]
          /\ Go(c, "acquire")
          /\ UNCHANGED <<failure, outcome>>
    /\ UNCHANGED <<slot, rate, url, hop, elapsed, leased, limiterErr>>

\* acquire answers: with a slot the request is sent.
Acquired(c) ==
    /\ pc[c] = "acquire"
    /\ answer[c] = "GRANTED"
    /\ leased' = [leased EXCEPT ![c] = TRUE]
    /\ answer' = [answer EXCEPT ![c] = "NONE"]
    /\ Go(c, "request")
    /\ UNCHANGED <<slot, rate, wire, url, hop, visited, elapsed, failure, outcome, limiterErr>>

\* Refused, timed out, aborted, or too many addresses to limit.
NotAcquired(c) ==
    /\ pc[c] = "acquire"
    /\ FailByLimiter(c)
    /\ UNCHANGED <<slot, rate, url, hop, visited, elapsed, leased>>

\* The transport rejects, the header is too large, the status is not the
\* expected one, the keyword is missing: the target's failure.  An error that
\* classifyUnknownError does not know is a platform error.
RequestFails(c) ==
    /\ pc[c] \in Sending
    /\ \E result \in {"TARGET_FAILURE", "PLATFORM_ERROR"} : Fail(c, result)
    /\ UNCHANGED <<slot, rate, url, hop, visited, elapsed, leased, limiterErr>>

NeverAbort(c) == FALSE /\ UNCHANGED httpVars

\* The overall timer aborts the request, whatever it was doing.
AbortRequest(c) ==
    /\ pc[c] \in Sending
    /\ elapsed[c] = CheckTimeout
    /\ Fail(c, "TARGET_FAILURE")
    /\ UNCHANGED <<slot, rate, url, hop, visited, elapsed, leased, limiterErr>>

\* The response is a redirect.  One too many ends the check; otherwise the
\* response is closed and the slot of this hop given back before the next hop.
Redirected(c, next) ==
    /\ pc[c] = "request"
    /\ IF hop[c] >= MaxRedirects
       THEN /\ Fail(c, "TARGET_FAILURE")
            /\ UNCHANGED url
       ELSE /\ Go(c, "release_hop")
            /\ wire' = wire \union {ReleaseOf(c)}
            /\ url' = [url EXCEPT ![c] = next]
            /\ UNCHANGED <<answer, failure, outcome>>
    /\ UNCHANGED <<slot, rate, hop, visited, elapsed, leased, limiterErr>>

\* The final response has the expected status; a keyword is looked for in its body.
ReadBody(c) ==
    /\ pc[c] = "request"
    /\ Go(c, "body")
    /\ UNCHANGED <<limiterVars, url, hop, visited, elapsed, leased, failure, outcome, limiterErr>>

SatisfiedUnreleased(c) ==
    /\ pc[c] \in Sending
    /\ Finish(c, "SUCCESS")
    /\ leased' = [leased EXCEPT ![c] = FALSE]
    /\ UNCHANGED <<limiterVars, url, hop, visited, elapsed, failure, limiterErr>>

\* As expected: close the response and give the slot back.
Satisfied(c) ==
    /\ pc[c] \in Sending
    /\ Go(c, "release_end")
    /\ wire' = wire \union {ReleaseOf(c)}
    /\ UNCHANGED <<slot, rate, answer, url, hop, visited, elapsed, leased, failure, outcome, limiterErr>>

\* release answers.
Released(c) ==
    /\ pc[c] \in Releasing
    /\ answer[c] = "RELEASED"
    /\ leased' = [leased EXCEPT ![c] = FALSE]
    /\ answer' = [answer EXCEPT ![c] = "NONE"]
    /\ CASE pc[c] = "release_hop" -> /\ Go(c, "resolve")
                                     /\ hop' = [hop EXCEPT ![c] = @ + 1]
                                     /\ UNCHANGED outcome
         [] pc[c] = "release_end" -> Finish(c, "SUCCESS") /\ UNCHANGED hop
         [] pc[c] = "cleanup"     -> Finish(c, failure[c]) /\ UNCHANGED hop
    /\ UNCHANGED <<slot, rate, wire, url, visited, elapsed, failure, limiterErr>>

KeepTargetFailure(c) ==
    /\ pc[c] \in Releasing
    /\ IF pc[c] = "cleanup"
       THEN /\ Finish(c, failure[c])
            /\ leased' = [leased EXCEPT ![c] = FALSE]
            /\ limiterErr' = [limiterErr EXCEPT ![c] = TRUE]
            /\ UNCHANGED <<wire, answer, failure>>
       ELSE /\ FailByLimiter(c)
            /\ UNCHANGED leased
    /\ UNCHANGED <<slot, rate, url, hop, visited, elapsed>>

\* release fails or times out.  On the way it sends the check to the catch block,
\* which tries once more; there its error supersedes the one being handled.
NotReleased(c) ==
    /\ pc[c] \in Releasing
    /\ IF pc[c] = "cleanup"
       THEN /\ Finish(c, "PLATFORM_ERROR")
            /\ leased' = [leased EXCEPT ![c] = FALSE]
            /\ limiterErr' = [limiterErr EXCEPT ![c] = TRUE]
            /\ UNCHANGED <<wire, answer, failure>>
       ELSE /\ FailByLimiter(c)
            /\ UNCHANGED leased
    /\ UNCHANGED <<slot, rate, url, hop, visited, elapsed>>

\* Redis executes a command some client sent, or the connection loses it.
Awaits(cmd) ==
    LET c == cmd.token[1]
    IN  /\ hop[c] = cmd.token[2]
        /\ answer[c] = "NONE"
        /\ \/ cmd.script = "ACQUIRE" /\ pc[c] = "acquire"
           \/ cmd.script = "RELEASE" /\ pc[c] \in Releasing

RedisExecutes(cmd) ==
    /\ \E delivered, resent \in BOOLEAN : Execute(cmd, Awaits(cmd), delivered, resent)
    /\ UNCHANGED checkerVars

RedisLoses(cmd) == LoseCommand(cmd) /\ UNCHANGED checkerVars

\* Time passes.  Timers fire on time: what the overall timeout covers, the
\* lookup and the wait for the limiter included, does not outlast it.
TimePasses ==
    /\ \A c \in Checks : pc[c] \in Timed => elapsed[c] < CheckTimeout
    /\ ExpireLeases
    /\ elapsed' = [c \in Checks |->
                     IF pc[c] \in Timed \union {"release_hop"} /\ elapsed[c] < CheckTimeout
                     THEN elapsed[c] + 1 ELSE elapsed[c]]
    /\ UNCHANGED <<wire, answer, pc, url, hop, visited, leased, failure, outcome, limiterErr>>

HttpNext ==
    \/ \E c \in Checks :
         \/ StartCheck(c)
         \/ ResolveFails(c) \/ Resolved(c)
         \/ Acquired(c) \/ NotAcquired(c)
         \/ RequestFails(c) \/ AbortRequest(c)
         \/ \E u \in Urls : Redirected(c, u)
         \/ ReadBody(c) \/ Satisfied(c)
         \/ Released(c) \/ NotReleased(c)
    \/ \E cmd \in wire : RedisExecutes(cmd) \/ RedisLoses(cmd)
    \/ TimePasses

\* Lookups, commands and requests have timeouts; clocks run; Redis or the
\* connection's end disposes of every command.
HttpFairness ==
    /\ \A c \in Checks :
         /\ WF_httpVars(ResolveFails(c) \/ Resolved(c))
         /\ WF_httpVars(Acquired(c) \/ NotAcquired(c))
         /\ WF_httpVars(Released(c) \/ NotReleased(c))
         /\ WF_httpVars(AbortRequest(c))
    /\ WF_httpVars(\E cmd \in wire : RedisLoses(cmd))
    /\ WF_httpVars(TimePasses)

HttpSpec == HttpInit /\ [][HttpNext]_httpVars /\ HttpFairness
-----------------------------------------------------------------------------
\* Every variable keeps its type; the count of a window never passes its limit.
HttpTypeOK ==
    /\ LimiterTypeOK
    /\ pc \in [Checks -> {"idle", "done"} \union Timed \union Releasing]
    /\ url \in [Checks -> Urls]
    /\ hop \in [Checks -> 0..MaxRedirects]
    /\ visited \in [Checks -> SUBSET Urls]
    /\ elapsed \in [Checks -> 0..CheckTimeout]
    /\ leased \in [Checks -> BOOLEAN]
    /\ failure \in [Checks -> Results \union {"NONE"}]
    /\ outcome \in [Checks -> Results \union {"NONE"}]
    /\ limiterErr \in [Checks -> BOOLEAN]

\* The checks that have a connection open to a host or address.
RequestsTo(s) ==
    {c \in Checks : pc[c] \in Sending /\ s \in slot[<<c, hop[c]>>].subjects}

\* No host name and no address sees more than MaxConcurrent requests at a time,
\* and every open request has a live slot for each of them: leases that run out,
\* commands executed late or twice and lost answers included.
RequestsWithinLimit ==
    /\ \A c \in Checks : pc[c] \in Sending =>
         slot[<<c, hop[c]>>].left > 0 /\ slot[<<c, hop[c]>>].subjects = SubjectsOf[url[c]]
    /\ \A s \in Subjects : Cardinality(RequestsTo(s)) <= MaxConcurrent

\* A fault of the limiter, at any hop and also after the target had failed or
\* answered, ends in PLATFORM_ERROR: it can move no monitor towards DOWN or UP.
LimiterFaultDecidesNothing ==
    \A c \in Checks : limiterErr[c] /\ pc[c] = "done" => outcome[c] = "PLATFORM_ERROR"

\* A result that counts has given back the slot of every hop of its check.
CountedResultHoldsNoSlot ==
    \A c \in Checks : outcome[c] \in {"SUCCESS", "TARGET_FAILURE"} =>
        \A h \in 0..MaxRedirects : slot[<<c, h>>].left = 0

\* Every check that has begun ends and every slot is given back, again and again,
\* although the target, DNS and Redis may each never answer, the target may
\* redirect for ever and Redis may grant a slot to a client that stopped waiting.
ChecksAndSlotsEnd ==
    []<>(/\ \A c \in Checks : pc[c] \in {"idle", "done"}
         /\ \A t \in Tokens : slot[t].left = 0)
=============================================================================

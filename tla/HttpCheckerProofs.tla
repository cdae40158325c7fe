--------------------------- MODULE HttpCheckerProofs ---------------------------
(***************************************************************************)
(* Proofs about HttpChecker and the DestinationLimiter it uses, for any    *)
(* checks, URLs, subjects, limits and lease times.                         *)
(***************************************************************************)
EXTENDS HttpChecker, FiniteSetTheorems, TLAPS

\* A command that was sent for hop h of check c may still be executed.
Asking(c, h) == \E cmd \in wire : cmd.script = "ACQUIRE" /\ cmd.token = <<c, h>>

\* The slot of a hop is free for good: nothing can take it any more.
Free(c, h) == slot[<<c, h>>].left = 0 /\ ~Asking(c, h)

\* An answer is there only for a command that is awaited, and a lease is held
\* from its acquisition to the end of its release.
AnswersMatch(c) ==
    /\ answer[c] # "NONE" => pc[c] \in {"acquire", "done"} \union Releasing
    /\ pc[c] \in Releasing => answer[c] \in {"NONE", "RELEASED"}
    /\ leased[c] <=> pc[c] \in Sending \union Releasing
    /\ pc[c] = "release_hop" => hop[c] < MaxRedirects
    /\ pc[c] = "cleanup" => failure[c] \in Results

\* Commands of this hop and of earlier ones may be late, but a slot is given back
\* only after its request and asked for with the subjects of its URL.
WireMatches(c) ==
    \A cmd \in wire : cmd.token[1] = c =>
        /\ cmd.token[2] <= hop[c]
        /\ cmd.token[2] = hop[c] => pc[c] \notin {"idle", "resolve"}
        /\ cmd.token[2] = hop[c] /\ cmd.script = "RELEASE" => pc[c] \in Releasing \union {"done"}
        /\ cmd.token[2] = hop[c] /\ cmd.script = "ACQUIRE" /\ pc[c] \in {"acquire"} \union Sending
             => cmd.subjects = SubjectsOf[url[c]]

\* Between the grant and the end of the request.
Holding(c) == (pc[c] = "acquire" /\ answer[c] = "GRANTED") \/ pc[c] \in Sending

\* The lease outlives the overall timeout, because it began within it.
SlotOutlives(c) ==
    Holding(c) => /\ slot[<<c, hop[c]>>].subjects = SubjectsOf[url[c]]
                  /\ slot[<<c, hop[c]>>].left + elapsed[c] >= LeaseTime

\* Once the limiter has failed a check, nothing but PLATFORM_ERROR comes of it.
FaultKept(c) ==
    limiterErr[c] => \/ pc[c] = "cleanup" /\ failure[c] = "PLATFORM_ERROR"
                     \/ pc[c] = "done" /\ outcome[c] = "PLATFORM_ERROR"

\* The slots of hops that are over are free for good, unless the limiter failed.
GivenBack(c) ==
    /\ outcome[c] # "NONE" => pc[c] = "done"
    /\ \A h \in 0..MaxRedirects : h > hop[c] => Free(c, h)
    /\ ~limiterErr[c] =>
         /\ \A h \in 0..MaxRedirects : h < hop[c] => Free(c, h)
         /\ pc[c] \in {"idle", "resolve"} => Free(c, hop[c])
         /\ Holding(c) \/ pc[c] \in Releasing => ~Asking(c, hop[c])
         /\ pc[c] \in Releasing /\ answer[c] = "RELEASED" => Free(c, hop[c])
         /\ outcome[c] \in {"SUCCESS", "TARGET_FAILURE"} => Free(c, hop[c])

CheckOK(c) == AnswersMatch(c) /\ WireMatches(c) /\ SlotOutlives(c) /\ FaultKept(c) /\ GivenBack(c)

\* Redis itself keeps the limit, also for the slots nobody uses any more.
MembersWithinLimit == \A s \in Subjects : Cardinality(Members(s)) <= MaxConcurrent

HttpInv == HttpTypeOK /\ MembersWithinLimit /\ \A c \in Checks : CheckOK(c)
-----------------------------------------------------------------------------
\* What a step may leave alone of a check; commands of its own may get lost.
Same(d) ==
    /\ pc'[d] = pc[d] /\ url'[d] = url[d] /\ hop'[d] = hop[d] /\ elapsed'[d] = elapsed[d]
    /\ leased'[d] = leased[d] /\ failure'[d] = failure[d] /\ outcome'[d] = outcome[d]
    /\ limiterErr'[d] = limiterErr[d] /\ answer'[d] = answer[d]
    /\ \A h \in 0..MaxRedirects : slot'[<<d, h>>] = slot[<<d, h>>]
    /\ \A cmd \in wire' : cmd.token[1] = d => cmd \in wire

LEMMA Frame ==
    ASSUME NEW d \in Checks, hop[d] \in 0..MaxRedirects, CheckOK(d), Same(d)
    PROVE  CheckOK(d)'
<1>1. \A h \in 0..MaxRedirects : Asking(d, h)' => Asking(d, h)
  BY DEF Same, Asking
<1>2. AnswersMatch(d)' /\ WireMatches(d)' /\ FaultKept(d)'
  BY DEF CheckOK, Same, AnswersMatch, WireMatches, FaultKept
<1>3. SlotOutlives(d)'
  BY DEF CheckOK, Same, SlotOutlives, Holding
<1>4. \A h \in 0..MaxRedirects : Free(d, h) => Free(d, h)'
  BY <1>1 DEF Same, Free
<1>5. GivenBack(d)'
  BY <1>1, <1>4 DEF CheckOK, Same, GivenBack, Holding
<1>6. QED BY <1>2, <1>3, <1>5 DEF CheckOK

\* What a check does itself.
Acts(c) == \/ StartCheck(c) \/ ResolveFails(c) \/ Resolved(c)
           \/ Acquired(c) \/ NotAcquired(c)
           \/ RequestFails(c) \/ AbortRequest(c)
           \/ \E u \in Urls : Redirected(c, u)
           \/ ReadBody(c) \/ Satisfied(c)
           \/ Released(c) \/ NotReleased(c)

\* A command that the check c sends now.
Sent(c) == [script : {"ACQUIRE", "RELEASE"}, token : {<<c, hop[c]>>}, subjects : SUBSET Subjects]

\* An error, as the handlers above see it.
LEMMA CheckFails ==
    ASSUME HttpTypeOK, NEW c \in Checks, NEW result \in Results, Fail(c, result)
    PROVE  /\ pc' \in [Checks -> {"idle", "done"} \union Timed \union Releasing]
           /\ failure' \in [Checks -> Results \union {"NONE"}]
           /\ outcome' \in [Checks -> Results \union {"NONE"}]
           /\ answer' \in [Checks -> Answers]
           /\ wire' \subseteq wire \union Sent(c)
           /\ \A d \in Checks \ {c} : /\ pc'[d] = pc[d] /\ failure'[d] = failure[d]
                                      /\ outcome'[d] = outcome[d] /\ answer'[d] = answer[d]
           /\ failure'[c] = result /\ answer'[c] = "NONE"
           /\ leased[c] => /\ pc'[c] = "cleanup" /\ outcome'[c] = outcome[c]
                           /\ wire' = wire \union {ReleaseOf(c)}
           /\ ~leased[c] => pc'[c] = "done" /\ outcome'[c] = result /\ wire' = wire
<1> USE DEF HttpTypeOK, LimiterTypeOK, Fail, Go, Finish, Results, Answers, Timed, Releasing, Sending
<1>1. ReleaseOf(c) \in Sent(c)
  BY DEF ReleaseOf, Sent
<1>2. wire' = wire \union (IF leased[c] THEN {ReleaseOf(c)} ELSE {})
  OBVIOUS
<1>3. wire' \subseteq wire \union Sent(c)
  BY <1>1, <1>2
<1>4. CASE leased[c]
  BY <1>2, <1>3, <1>4
<1>5. CASE ~leased[c]
  BY <1>2, <1>3, <1>5
<1>6. QED BY <1>4, <1>5

\* A command of the current hop is one.
LEMMA Sending1 ==
    ASSUME HttpTypeOK, NEW c \in Checks
    PROVE  Sent(c) \subseteq Commands
<1>1. <<c, hop[c]>> \in Tokens
  BY DEF HttpTypeOK, Tokens
<1>2. QED BY <1>1 DEF Sent, Commands
-----------------------------------------------------------------------------
\* Types, and what a check leaves to the others.
LEMMA ActsTypes ==
    ASSUME HttpTypeOK, NEW c \in Checks, AnswersMatch(c), Acts(c)
    PROVE  /\ HttpTypeOK'
           /\ UNCHANGED slot
           /\ \A d \in Checks \ {c} : Same(d)
<1> DEFINE Locals == /\ pc' \in [Checks -> {"idle", "done"} \union Timed \union Releasing]
                     /\ url' \in [Checks -> Urls]
                     /\ hop' \in [Checks -> 0..MaxRedirects]
                     /\ visited' \in [Checks -> SUBSET Urls]
                     /\ elapsed' \in [Checks -> 0..CheckTimeout]
                     /\ leased' \in [Checks -> BOOLEAN]
                     /\ failure' \in [Checks -> Results \union {"NONE"}]
                     /\ outcome' \in [Checks -> Results \union {"NONE"}]
                     /\ limiterErr' \in [Checks -> BOOLEAN]
                     /\ answer' \in [Checks -> Answers]
           Others == \A d \in Checks \ {c} :
                        /\ pc'[d] = pc[d] /\ url'[d] = url[d] /\ hop'[d] = hop[d]
                        /\ elapsed'[d] = elapsed[d] /\ leased'[d] = leased[d]
                        /\ failure'[d] = failure[d] /\ outcome'[d] = outcome[d]
                        /\ limiterErr'[d] = limiterErr[d] /\ answer'[d] = answer[d]
           Sends  == wire' \subseteq wire \union Sent(c)
<1> USE CheckerAssumption, LimiterAssumption
        DEF HttpTypeOK, LimiterTypeOK, Results, Answers, Timed, Releasing, Sending, Go, Finish
<1>1. ASSUME StartCheck(c) PROVE Locals /\ Others /\ Sends /\ UNCHANGED <<slot, rate>>
  BY <1>1 DEF StartCheck, limiterVars
<1>2. ASSUME ResolveFails(c) PROVE Locals /\ Others /\ Sends /\ UNCHANGED <<slot, rate>>
  <2>1. PICK result \in Results : Fail(c, result)
    BY <1>2 DEF ResolveFails
  <2>2. QED BY <1>2, <2>1, CheckFails DEF ResolveFails
<1>3. ASSUME Resolved(c) PROVE Locals /\ Others /\ Sends /\ UNCHANGED <<slot, rate>>
  <2>1. CASE Fail(c, "TARGET_FAILURE") /\ UNCHANGED visited
    BY <1>3, <2>1, CheckFails DEF Resolved
  <2>2. CASE ~(Fail(c, "TARGET_FAILURE") /\ UNCHANGED visited)
    <3>1. /\ visited' = [visited EXCEPT ![c] = @ \union {url[c]}]
          /\ wire' = wire \union {[script   |-> "ACQUIRE", token |-> <<c, hop[c]>>,
                                   subjects |-> SubjectsOf[url[c]]]}
          /\ answer' = [answer EXCEPT ![c] = "NONE"]
          /\ pc' = [pc EXCEPT ![c] = "acquire"]
          /\ UNCHANGED <<failure, outcome, slot, rate, url, hop, elapsed, leased, limiterErr>>
      BY <1>3, <2>2 DEF Resolved
    <3>2. [script |-> "ACQUIRE", token |-> <<c, hop[c]>>, subjects |-> SubjectsOf[url[c]]] \in Sent(c)
      BY DEF Sent
    <3>3. Sends
      BY <3>1, <3>2
    <3>4. QED BY <3>1, <3>3
  <2>3. QED BY <2>1, <2>2
<1>4. ASSUME Acquired(c) PROVE Locals /\ Others /\ Sends /\ UNCHANGED <<slot, rate>>
  BY <1>4 DEF Acquired
<1>5. ASSUME NotAcquired(c) PROVE Locals /\ Others /\ Sends /\ UNCHANGED <<slot, rate>>
  BY <1>5, CheckFails DEF NotAcquired, FailByLimiter
<1>6. ASSUME RequestFails(c) PROVE Locals /\ Others /\ Sends /\ UNCHANGED <<slot, rate>>
  BY <1>6, CheckFails DEF RequestFails
<1>7. ASSUME AbortRequest(c) PROVE Locals /\ Others /\ Sends /\ UNCHANGED <<slot, rate>>
  BY <1>7, CheckFails DEF AbortRequest
<1>8. ASSUME NEW u \in Urls, Redirected(c, u)
      PROVE  Locals /\ Others /\ Sends /\ UNCHANGED <<slot, rate>>
  <2>1. CASE hop[c] >= MaxRedirects
    BY <1>8, <2>1, CheckFails DEF Redirected
  <2>2. CASE ~(hop[c] >= MaxRedirects)
    <3>1. /\ pc' = [pc EXCEPT ![c] = "release_hop"]
          /\ wire' = wire \union {ReleaseOf(c)}
          /\ url' = [url EXCEPT ![c] = u]
          /\ UNCHANGED <<answer, failure, outcome, slot, rate, hop, visited, elapsed, leased, limiterErr>>
      BY <1>8, <2>2 DEF Redirected
    <3>2. ReleaseOf(c) \in Sent(c)
      BY DEF ReleaseOf, Sent
    <3>3. Sends
      BY <3>1, <3>2
    <3>4. QED BY <3>1, <3>3
  <2>3. QED BY <2>1, <2>2
<1>9. ASSUME ReadBody(c) PROVE Locals /\ Others /\ Sends /\ UNCHANGED <<slot, rate>>
  BY <1>9 DEF ReadBody, limiterVars
<1>10. ASSUME Satisfied(c) PROVE Locals /\ Others /\ Sends /\ UNCHANGED <<slot, rate>>
  <2>1. ReleaseOf(c) \in Sent(c)
    BY DEF ReleaseOf, Sent
  <2>2. Sends
    BY <1>10, <2>1 DEF Satisfied
  <2>3. QED BY <1>10, <2>2 DEF Satisfied
<1>11. ASSUME Released(c) PROVE Locals /\ Others /\ Sends /\ UNCHANGED <<slot, rate>>
  <2>1. /\ leased' = [leased EXCEPT ![c] = FALSE]
        /\ answer' = [answer EXCEPT ![c] = "NONE"]
        /\ UNCHANGED <<slot, rate, wire, url, visited, elapsed, failure, limiterErr>>
    BY <1>11 DEF Released
  <2>2. CASE pc[c] = "release_hop"
    <3>1. /\ pc' = [pc EXCEPT ![c] = "resolve"] /\ hop' = [hop EXCEPT ![c] = @ + 1]
          /\ UNCHANGED outcome
      BY <1>11, <2>2 DEF Released
    <3>2. hop[c] + 1 \in 0..MaxRedirects
      BY <2>2 DEF AnswersMatch
    <3>3. QED BY <2>1, <3>1, <3>2
  <2>3. CASE pc[c] = "release_end"
    BY <1>11, <2>1, <2>3 DEF Released
  <2>4. CASE pc[c] = "cleanup"
    BY <1>11, <2>1, <2>4 DEF Released
  <2>5. QED BY <1>11, <2>2, <2>3, <2>4 DEF Released
<1>12. ASSUME NotReleased(c) PROVE Locals /\ Others /\ Sends /\ UNCHANGED <<slot, rate>>
  <2>1. CASE pc[c] = "cleanup"
    BY <1>12, <2>1 DEF NotReleased
  <2>2. CASE pc[c] # "cleanup"
    <3>1. /\ Fail(c, "PLATFORM_ERROR") /\ limiterErr' = [limiterErr EXCEPT ![c] = TRUE]
          /\ UNCHANGED <<slot, rate, url, hop, visited, elapsed, leased>>
      BY <1>12, <2>2 DEF NotReleased, FailByLimiter
    <3>2. QED BY <3>1, CheckFails
  <2>3. QED BY <2>1, <2>2
<1>13. Locals /\ Others /\ Sends /\ UNCHANGED <<slot, rate>>
  BY <1>1, <1>2, <1>3, <1>4, <1>5, <1>6, <1>7, <1>8, <1>9, <1>10, <1>11, <1>12 DEF Acts
<1>14. wire' \subseteq Commands
  BY <1>13, Sending1
<1>15. ASSUME NEW d \in Checks \ {c} PROVE Same(d)
  <2>1. \A cmd \in wire' : cmd.token[1] = d => cmd \in wire
    BY <1>13 DEF Sent
  <2>2. QED BY <1>13, <2>1 DEF Same
<1>16. QED BY <1>13, <1>14, <1>15
-----------------------------------------------------------------------------
\* What a check does keeps its own part of the invariant.

\* Giving a slot back asks for nothing.
LEMMA ReleaseAsksNothing ==
    ASSUME NEW c \in Checks, NEW d \in Checks, NEW h \in 0..MaxRedirects,
           wire' \subseteq wire \union {ReleaseOf(d)}, UNCHANGED slot
    PROVE  /\ Asking(c, h)' => Asking(c, h)
           /\ Free(c, h) => Free(c, h)'
BY DEF Asking, Free, ReleaseOf

\* An error: of a request, whose slot is given back first, or before a slot is
\* asked for.
LEMMA FailKeeps ==
    ASSUME HttpTypeOK, NEW c \in Checks, CheckOK(c), NEW result \in Results,
           Fail(c, result), UNCHANGED <<slot, url, hop, elapsed, leased>>,
           pc[c] \in {"resolve", "acquire", "release_hop", "release_end"} \union Sending,
           limiterErr'[c] => result = "PLATFORM_ERROR",
           pc[c] \in {"acquire", "release_hop", "release_end"} => limiterErr'[c]
    PROVE  CheckOK(c)'
<1> USE DEF Sending, Releasing
<1>1. /\ failure'[c] = result /\ answer'[c] = "NONE"
      /\ leased[c] => /\ pc'[c] = "cleanup" /\ outcome'[c] = outcome[c]
                      /\ wire' = wire \union {ReleaseOf(c)}
      /\ ~leased[c] => pc'[c] = "done" /\ outcome'[c] = result /\ wire' = wire
  BY CheckFails
<1>2. hop[c] \in 0..MaxRedirects /\ ~limiterErr[c]
  BY DEF HttpTypeOK, CheckOK, FaultKept
<1>3. \A h \in 0..MaxRedirects : (Asking(c, h)' => Asking(c, h)) /\ (Free(c, h) => Free(c, h)')
  BY <1>1, ReleaseAsksNothing
<1>4. AnswersMatch(c)'
  BY <1>1 DEF CheckOK, AnswersMatch
<1>5. WireMatches(c)'
  <2>1. ReleaseOf(c).token = <<c, hop[c]>> /\ ReleaseOf(c).script = "RELEASE"
    BY DEF ReleaseOf
  <2>2. QED BY <1>1, <1>2, <2>1 DEF CheckOK, WireMatches
<1>6. SlotOutlives(c)'
  BY <1>1 DEF SlotOutlives, Holding
<1>7. FaultKept(c)'
  BY <1>1 DEF FaultKept
<1>8. GivenBack(c)'
  <2>1. CASE limiterErr'[c]
    BY <1>1, <1>2, <1>3, <2>1 DEF CheckOK, GivenBack
  <2>2. CASE ~limiterErr'[c]
    BY <1>1, <1>2, <1>3, <2>2 DEF CheckOK, GivenBack, AnswersMatch, Holding
  <2>3. QED BY <2>1, <2>2
<1>9. QED BY <1>4, <1>5, <1>6, <1>7, <1>8 DEF CheckOK

LEMMA OwnStep ==
    ASSUME HttpTypeOK, NEW c \in Checks, CheckOK(c), Acts(c)
    PROVE  CheckOK(c)'
<1> USE DEF Sending, Releasing
<1>0. /\ hop[c] \in 0..MaxRedirects /\ pc \in [Checks -> {"idle", "done"} \union Timed \union Releasing]
      /\ HttpTypeOK' /\ UNCHANGED slot
      /\ AnswersMatch(c)
  BY ActsTypes DEF HttpTypeOK, CheckOK
<1>1. ASSUME StartCheck(c) PROVE CheckOK(c)'
  <2>1. /\ \/ pc'[c] = "resolve" /\ outcome' = outcome
           \/ pc'[c] = "done" /\ outcome'[c] = "INCONCLUSIVE"
        /\ pc[c] = "idle"
        /\ UNCHANGED <<wire, answer, url, hop, elapsed, leased, failure, limiterErr>>
    <3>1. /\ pc[c] = "idle"
          /\ UNCHANGED <<wire, answer, url, hop, elapsed, leased, failure, limiterErr>>
      BY <1>1 DEF StartCheck, limiterVars
    <3>2. CASE Go(c, "resolve") /\ UNCHANGED outcome
      BY <1>0, <3>1, <3>2 DEF Go
    <3>3. CASE Finish(c, "INCONCLUSIVE")
      BY <1>0, <3>1, <3>3 DEF Finish, Go, HttpTypeOK
    <3>4. QED BY <1>1, <3>2, <3>3 DEF StartCheck
  <2>2. \A h \in 0..MaxRedirects : Free(c, h)' = Free(c, h) /\ Asking(c, h)' = Asking(c, h)
    BY <1>0, <2>1 DEF Free, Asking
  <2>3. AnswersMatch(c)' /\ SlotOutlives(c)' /\ FaultKept(c)'
    BY <2>1 DEF CheckOK, AnswersMatch, SlotOutlives, Holding, FaultKept
  <2>4. WireMatches(c)'
    BY <2>1 DEF CheckOK, WireMatches
  <2>5. GivenBack(c)'
    BY <1>0, <2>1, <2>2 DEF CheckOK, GivenBack, Holding
  <2>6. QED BY <2>3, <2>4, <2>5 DEF CheckOK
<1>2. ASSUME ResolveFails(c) PROVE CheckOK(c)'
  <2>1. PICK result \in {"TARGET_FAILURE", "INCONCLUSIVE"} : Fail(c, result)
    BY <1>2 DEF ResolveFails
  <2>2. result \in Results /\ ~limiterErr[c]
    BY <1>2, <2>1 DEF Results, CheckOK, FaultKept, ResolveFails
  <2>3. QED BY <1>0, <1>2, <2>1, <2>2, FailKeeps DEF ResolveFails
<1>3. ASSUME Resolved(c) PROVE CheckOK(c)'
  <2> DEFINE request == [script |-> "ACQUIRE", token |-> <<c, hop[c]>>, subjects |-> SubjectsOf[url[c]]]
  <2>1. ~limiterErr[c] /\ pc[c] = "resolve" /\ ~leased[c]
    BY <1>3 DEF CheckOK, FaultKept, AnswersMatch, Resolved
  <2>2. CASE Fail(c, "TARGET_FAILURE")
    BY <1>0, <1>3, <2>1, <2>2, FailKeeps DEF Resolved, Results
  <2>3. CASE ~Fail(c, "TARGET_FAILURE")
    <3>1. /\ pc'[c] = "acquire" /\ answer'[c] = "NONE" /\ wire' = wire \union {request}
          /\ UNCHANGED <<failure, outcome, url, hop, elapsed, leased, limiterErr>>
      BY <1>3, <2>3 DEF Resolved, Go, HttpTypeOK, LimiterTypeOK
    <3>2. request.script = "ACQUIRE" /\ request.token = <<c, hop[c]>>
          /\ request.subjects = SubjectsOf[url[c]]
      OBVIOUS
    <3> HIDE DEF request
    <3>3. \A h \in 0..MaxRedirects : h # hop[c] => (Free(c, h) => Free(c, h)')
      BY <1>0, <3>1, <3>2 DEF Free, Asking
    <3>4. AnswersMatch(c)' /\ SlotOutlives(c)' /\ FaultKept(c)'
      BY <2>1, <3>1 DEF AnswersMatch, SlotOutlives, Holding, FaultKept
    <3>5. WireMatches(c)'
      BY <1>0, <2>1, <3>1, <3>2 DEF CheckOK, WireMatches
    <3>6. GivenBack(c)'
      BY <1>0, <2>1, <3>1, <3>3 DEF CheckOK, GivenBack, Holding
    <3>7. QED BY <3>4, <3>5, <3>6 DEF CheckOK
  <2>4. QED BY <2>2, <2>3
<1>4. ASSUME Acquired(c) PROVE CheckOK(c)'
  <2>1. /\ pc[c] = "acquire" /\ answer[c] = "GRANTED"
        /\ pc'[c] = "request" /\ answer'[c] = "NONE" /\ leased'[c]
        /\ UNCHANGED <<wire, url, hop, elapsed, failure, outcome, limiterErr>>
    BY <1>4 DEF Acquired, Go, HttpTypeOK, LimiterTypeOK
  <2>2. \A h \in 0..MaxRedirects : Free(c, h)' = Free(c, h) /\ Asking(c, h)' = Asking(c, h)
    BY <1>0, <2>1 DEF Free, Asking
  <2>3. AnswersMatch(c)' /\ SlotOutlives(c)' /\ FaultKept(c)'
    BY <1>0, <2>1 DEF CheckOK, AnswersMatch, SlotOutlives, Holding, FaultKept
  <2>4. WireMatches(c)'
    BY <2>1 DEF CheckOK, WireMatches
  <2>5. GivenBack(c)'
    BY <1>0, <2>1, <2>2 DEF CheckOK, GivenBack, Holding
  <2>6. QED BY <2>3, <2>4, <2>5 DEF CheckOK
<1>5. ASSUME NotAcquired(c) PROVE CheckOK(c)'
  <2>1. Fail(c, "PLATFORM_ERROR") /\ limiterErr'[c] /\ pc[c] = "acquire"
        /\ UNCHANGED <<slot, url, hop, elapsed, leased>>
    BY <1>5 DEF NotAcquired, FailByLimiter, HttpTypeOK
  <2>2. QED BY <2>1, FailKeeps DEF Results
<1>6. ASSUME RequestFails(c) \/ AbortRequest(c) PROVE CheckOK(c)'
  <2>1. /\ \E result \in Results : Fail(c, result)
        /\ pc[c] \in Sending /\ UNCHANGED <<url, hop, elapsed, leased, limiterErr>>
    BY <1>6 DEF RequestFails, AbortRequest, Results
  <2>2. ~limiterErr[c]
    BY <2>1 DEF CheckOK, FaultKept
  <2>3. QED BY <1>0, <2>1, <2>2, FailKeeps
<1>7. ASSUME NEW u \in Urls, Redirected(c, u) PROVE CheckOK(c)'
  <2>1. /\ pc[c] = "request" /\ ~limiterErr[c] /\ leased[c] /\ answer[c] = "NONE"
        /\ UNCHANGED <<hop, elapsed, leased, limiterErr>>
    BY <1>7 DEF CheckOK, FaultKept, AnswersMatch, Redirected
  <2>2. CASE hop[c] >= MaxRedirects
    BY <1>0, <1>7, <2>1, <2>2, FailKeeps DEF Redirected, Results
  <2>3. CASE ~(hop[c] >= MaxRedirects)
    <3>1. /\ pc'[c] = "release_hop" /\ wire' = wire \union {ReleaseOf(c)}
          /\ UNCHANGED <<answer, failure, outcome>>
      BY <1>7, <2>3 DEF Redirected, Go, HttpTypeOK
    <3>2. \A h \in 0..MaxRedirects : (Asking(c, h)' => Asking(c, h)) /\ (Free(c, h) => Free(c, h)')
      BY <1>0, <3>1, ReleaseAsksNothing
    <3>3. AnswersMatch(c)'
      BY <1>0, <2>1, <2>3, <3>1, CheckerAssumption, LimiterAssumption DEF AnswersMatch
    <3>4. SlotOutlives(c)' /\ FaultKept(c)'
      BY <2>1, <3>1 DEF SlotOutlives, Holding, FaultKept
    <3>5. WireMatches(c)'
      <4>1. ReleaseOf(c).token = <<c, hop[c]>> /\ ReleaseOf(c).script = "RELEASE"
        BY DEF ReleaseOf
      <4>2. QED BY <1>0, <2>1, <3>1, <4>1 DEF CheckOK, WireMatches
    <3>6. GivenBack(c)'
      BY <1>0, <2>1, <3>1, <3>2 DEF CheckOK, GivenBack, Holding
    <3>7. QED BY <3>3, <3>4, <3>5, <3>6 DEF CheckOK
  <2>4. QED BY <2>2, <2>3
<1>8. ASSUME ReadBody(c) PROVE CheckOK(c)'
  <2>1. /\ pc[c] = "request" /\ pc'[c] = "body"
        /\ UNCHANGED <<wire, answer, url, hop, elapsed, leased, failure, outcome, limiterErr>>
    BY <1>8 DEF ReadBody, Go, HttpTypeOK, limiterVars
  <2>2. \A h \in 0..MaxRedirects : Free(c, h)' = Free(c, h) /\ Asking(c, h)' = Asking(c, h)
    BY <1>0, <2>1 DEF Free, Asking
  <2>3. AnswersMatch(c)' /\ SlotOutlives(c)' /\ FaultKept(c)'
    BY <1>0, <2>1 DEF CheckOK, AnswersMatch, SlotOutlives, Holding, FaultKept
  <2>4. WireMatches(c)'
    BY <2>1 DEF CheckOK, WireMatches
  <2>5. GivenBack(c)'
    BY <1>0, <2>1, <2>2 DEF CheckOK, GivenBack, Holding
  <2>6. QED BY <2>3, <2>4, <2>5 DEF CheckOK
<1>9. ASSUME Satisfied(c) PROVE CheckOK(c)'
  <2>1. /\ pc[c] \in Sending /\ ~limiterErr[c] /\ leased[c] /\ answer[c] = "NONE"
        /\ pc'[c] = "release_end" /\ wire' = wire \union {ReleaseOf(c)}
        /\ UNCHANGED <<answer, url, hop, elapsed, leased, failure, outcome, limiterErr>>
    BY <1>9 DEF CheckOK, FaultKept, AnswersMatch, Satisfied, Go, HttpTypeOK
  <2>2. \A h \in 0..MaxRedirects : (Asking(c, h)' => Asking(c, h)) /\ (Free(c, h) => Free(c, h)')
    BY <1>0, <2>1, ReleaseAsksNothing
  <2>3. AnswersMatch(c)' /\ SlotOutlives(c)' /\ FaultKept(c)'
    BY <2>1 DEF AnswersMatch, SlotOutlives, Holding, FaultKept
  <2>4. WireMatches(c)'
    <3>1. ReleaseOf(c).token = <<c, hop[c]>> /\ ReleaseOf(c).script = "RELEASE"
      BY DEF ReleaseOf
    <3>2. QED BY <1>0, <2>1, <3>1 DEF CheckOK, WireMatches
  <2>5. GivenBack(c)'
    BY <1>0, <2>1, <2>2 DEF CheckOK, GivenBack, Holding
  <2>6. QED BY <2>3, <2>4, <2>5 DEF CheckOK
<1>10. ASSUME Released(c) PROVE CheckOK(c)'
  <2>1. /\ answer[c] = "RELEASED" /\ answer'[c] = "NONE" /\ ~leased'[c] /\ pc[c] \in Releasing
        /\ UNCHANGED <<slot, wire, url, elapsed, failure, limiterErr>>
    BY <1>10 DEF Released, HttpTypeOK, LimiterTypeOK
  <2>2. \A h \in 0..MaxRedirects : Free(c, h)' = Free(c, h) /\ Asking(c, h)' = Asking(c, h)
    BY <2>1 DEF Free, Asking
  <2>3. CASE pc[c] = "release_hop"
    <3>1. /\ pc'[c] = "resolve" /\ hop'[c] = hop[c] + 1 /\ UNCHANGED outcome
      BY <1>10, <2>3 DEF Released, Go, HttpTypeOK
    <3>2. ~limiterErr[c] /\ hop[c] + 1 \in 0..MaxRedirects
      BY <1>0, <2>3, LimiterAssumption DEF CheckOK, FaultKept, AnswersMatch
    <3>3. AnswersMatch(c)' /\ SlotOutlives(c)' /\ FaultKept(c)'
      BY <2>1, <3>1, <3>2 DEF AnswersMatch, SlotOutlives, Holding, FaultKept
    <3>4. WireMatches(c)'
      <4>1. \A cmd \in wire : cmd.token[1] = c => cmd.token[2] \in 0..MaxRedirects /\ cmd.token[2] <= hop[c]
        BY DEF CheckOK, WireMatches, HttpTypeOK, LimiterTypeOK, Commands, Tokens
      <4>2. \A cmd \in wire' : cmd.token[1] = c => cmd.token[2] <= hop'[c] /\ cmd.token[2] # hop'[c]
        BY <1>0, <2>1, <3>1, <4>1
      <4>3. QED BY <4>2 DEF WireMatches
    <3>5. GivenBack(c)'
      <4>1. Free(c, hop[c])
        BY <2>1, <3>2 DEF CheckOK, GivenBack
      <4>2. \A h \in 0..MaxRedirects : Free(c, h)
        BY <1>0, <3>2, <4>1, LimiterAssumption DEF CheckOK, GivenBack
      <4>3. pc'[c] = "resolve" /\ outcome'[c] = "NONE"
        BY <2>1, <3>1 DEF CheckOK, GivenBack
      <4>4. QED BY <2>2, <3>1, <3>2, <4>2, <4>3 DEF GivenBack, Holding
    <3>6. QED BY <3>3, <3>4, <3>5 DEF CheckOK
  <2>4. CASE pc[c] \in {"release_end", "cleanup"}
    <3>1. /\ pc'[c] = "done" /\ UNCHANGED hop
          /\ pc[c] = "release_end" => outcome'[c] = "SUCCESS"
          /\ pc[c] = "cleanup" => outcome'[c] = failure[c]
      BY <1>10, <2>4 DEF Released, Finish, Go, HttpTypeOK
    <3>2. AnswersMatch(c)' /\ SlotOutlives(c)'
      BY <2>1, <3>1 DEF AnswersMatch, SlotOutlives, Holding
    <3>3. FaultKept(c)'
      BY <2>1, <2>4, <3>1 DEF CheckOK, FaultKept
    <3>4. WireMatches(c)'
      BY <2>1, <3>1 DEF CheckOK, WireMatches
    <3>5. GivenBack(c)'
      BY <1>0, <2>1, <2>2, <3>1 DEF CheckOK, GivenBack, Holding
    <3>6. QED BY <3>2, <3>3, <3>4, <3>5 DEF CheckOK
  <2>5. QED BY <2>1, <2>3, <2>4
<1>11. ASSUME NotReleased(c) PROVE CheckOK(c)'
  <2>1. limiterErr'[c] /\ pc[c] \in Releasing /\ UNCHANGED <<url, hop, elapsed>>
    BY <1>11 DEF NotReleased, FailByLimiter, HttpTypeOK
  <2>2. CASE pc[c] = "cleanup"
    <3>1. /\ pc'[c] = "done" /\ outcome'[c] = "PLATFORM_ERROR" /\ ~leased'[c]
          /\ UNCHANGED <<wire, answer, failure>>
      BY <1>11, <2>2 DEF NotReleased, Finish, Go, HttpTypeOK
    <3>2. \A h \in 0..MaxRedirects : Free(c, h)' = Free(c, h)
      BY <1>0, <3>1 DEF Free, Asking
    <3>3. AnswersMatch(c)' /\ SlotOutlives(c)' /\ FaultKept(c)'
      BY <1>0, <2>1, <2>2, <3>1 DEF AnswersMatch, SlotOutlives, Holding, FaultKept
    <3>4. WireMatches(c)'
      BY <2>1, <3>1 DEF CheckOK, WireMatches
    <3>5. GivenBack(c)'
      BY <1>0, <2>1, <3>1, <3>2 DEF CheckOK, GivenBack
    <3>6. QED BY <3>3, <3>4, <3>5 DEF CheckOK
  <2>3. CASE pc[c] # "cleanup"
    <3>1. Fail(c, "PLATFORM_ERROR") /\ UNCHANGED leased
      BY <1>11, <2>3 DEF NotReleased, FailByLimiter
    <3>2. QED BY <1>0, <2>1, <2>3, <3>1, FailKeeps DEF Results
  <2>4. QED BY <2>2, <2>3
<1>12. QED BY <1>1, <1>2, <1>3, <1>4, <1>5, <1>6, <1>7, <1>8, <1>9, <1>10, <1>11 DEF Acts
-----------------------------------------------------------------------------
\* Redis and time.

\* A command that Redis executes: the count of a window and of the slots of a
\* subject stay within their limits (ACQUIRE_SCRIPT of destination-limiter.ts).
LEMMA ExecuteTypes ==
    ASSUME HttpTypeOK, NEW cmd \in wire, RedisExecutes(cmd)
    PROVE  HttpTypeOK'
<1>1. PICK delivered \in BOOLEAN, resent \in BOOLEAN : Execute(cmd, Awaits(cmd), delivered, resent)
  BY DEF RedisExecutes
<1>2. /\ cmd.token \in Tokens /\ cmd.token[1] \in Checks /\ cmd.subjects \subseteq Subjects
  BY DEF HttpTypeOK, LimiterTypeOK, Commands, Tokens
<1>3. UNCHANGED checkerVars
  BY DEF RedisExecutes
<1>4. wire' \subseteq Commands
  BY <1>1 DEF Execute, HttpTypeOK, LimiterTypeOK
<1>5. answer' \in [Checks -> Answers]
  BY <1>1, <1>2 DEF Execute, HttpTypeOK, LimiterTypeOK, Answers
<1>6. slot' \in [Tokens -> Slots] /\ rate' \in [Subjects -> Rates]
  <2>1. CASE cmd.script = "RELEASE"
    BY <1>1, <1>2, <2>1, LimiterAssumption
       DEF Execute, DropSlot, FreeSlot, HttpTypeOK, LimiterTypeOK, Slots
  <2>2. CASE cmd.script # "RELEASE" /\ Admits(cmd.subjects) /\ cmd.script = "ACQUIRE"
    <3>1. TakeSlot(cmd.token, cmd.subjects)
      BY <1>1, <2>2 DEF Execute
    <3>2. slot' \in [Tokens -> Slots]
      BY <1>2, <3>1, LimiterAssumption DEF TakeSlot, HttpTypeOK, LimiterTypeOK, Slots
    <3>3. ASSUME NEW s \in cmd.subjects PROVE Counted(rate[s]) \in Rates
      <4>1. rate[s].count < MaxPerWindow /\ rate[s].count \in Nat /\ rate[s].left \in 0..Window
        BY <1>2, <2>2 DEF Admits, HttpTypeOK, LimiterTypeOK, Rates
      <4>2. rate[s].count + 1 \in 0..MaxPerWindow /\ Window \in 0..Window
        BY <4>1, LimiterAssumption
      <4>3. QED BY <4>1, <4>2 DEF Counted, Rates
    <3>4. QED BY <3>1, <3>2, <3>3 DEF TakeSlot, HttpTypeOK, LimiterTypeOK
  <2>3. CASE ~(cmd.script = "RELEASE") /\ ~(Admits(cmd.subjects) /\ cmd.script = "ACQUIRE")
    BY <1>1, <2>3 DEF Execute, HttpTypeOK, LimiterTypeOK
  <2>4. QED BY <2>1, <2>2, <2>3
<1>7. QED BY <1>3, <1>4, <1>5, <1>6 DEF HttpTypeOK, LimiterTypeOK, checkerVars

\* There are finitely many tokens, so the members of a subject can be counted.
LEMMA FiniteMembers ==
    ASSUME NEW s
    PROVE  IsFiniteSet(Members(s)) /\ Cardinality(Members(s)) \in Nat
<1>1. IsFiniteSet(0..MaxRedirects)
  BY FS_Interval, LimiterAssumption
<1>2. IsFiniteSet(Tokens)
  BY <1>1, FS_Product, LimiterAssumption DEF Tokens
<1>3. Members(s) \in SUBSET Tokens
  BY DEF Members
<1>4. IsFiniteSet(Members(s))
  BY <1>2, <1>3, FS_Subset
<1>5. QED BY <1>4, FS_CardinalityType

\* Redis adds a slot to a subject only while it has fewer than MaxConcurrent.
LEMMA ExecuteLimits ==
    ASSUME HttpTypeOK, MembersWithinLimit, NEW cmd \in wire, RedisExecutes(cmd)
    PROVE  MembersWithinLimit'
<1> SUFFICES ASSUME NEW s \in Subjects PROVE Cardinality(Members(s)') <= MaxConcurrent
  BY DEF MembersWithinLimit
<1>1. PICK delivered \in BOOLEAN, resent \in BOOLEAN : Execute(cmd, Awaits(cmd), delivered, resent)
  BY DEF RedisExecutes
<1>2. cmd.token \in Tokens
  BY DEF HttpTypeOK, LimiterTypeOK, Commands
<1>3. Cardinality(Members(s)) <= MaxConcurrent /\ MaxConcurrent \in Nat
  BY LimiterAssumption DEF MembersWithinLimit
<1>4. CASE Members(s)' \subseteq Members(s)
  <2>1. Cardinality(Members(s)') <= Cardinality(Members(s)) /\ Cardinality(Members(s)') \in Nat
    BY <1>4, FiniteMembers, FS_Subset, FS_CardinalityType
  <2>2. QED BY <1>3, <2>1, FiniteMembers
<1>5. CASE cmd.script = "ACQUIRE" /\ Admits(cmd.subjects) /\ s \in cmd.subjects
  <2>1. TakeSlot(cmd.token, cmd.subjects)
    BY <1>1, <1>5 DEF Execute
  <2>2. Members(s)' \subseteq Members(s) \union {cmd.token}
    BY <1>2, <2>1 DEF Members, TakeSlot, HttpTypeOK, LimiterTypeOK
  <2>3. /\ IsFiniteSet(Members(s) \union {cmd.token})
        /\ Cardinality(Members(s) \union {cmd.token}) \in Nat
        /\ Cardinality(Members(s) \union {cmd.token}) <= Cardinality(Members(s)) + 1
    BY FiniteMembers, FS_AddElement, FS_CardinalityType
  <2>4. /\ Cardinality(Members(s)') <= Cardinality(Members(s) \union {cmd.token})
        /\ Cardinality(Members(s)') \in Nat
    BY <2>2, <2>3, FS_Subset, FS_CardinalityType
  <2>5. Cardinality(Members(s)) < MaxConcurrent
    BY <1>5 DEF Admits
  <2>6. QED BY <1>3, <2>3, <2>4, <2>5, FiniteMembers
<1>6. CASE ~(cmd.script = "ACQUIRE" /\ Admits(cmd.subjects) /\ s \in cmd.subjects)
  <2>1. Members(s)' \subseteq Members(s)
    <3>1. CASE cmd.script = "RELEASE"
      BY <1>1, <1>2, <3>1 DEF Execute, DropSlot, FreeSlot, Members, HttpTypeOK, LimiterTypeOK
    <3>2. CASE cmd.script # "RELEASE" /\ cmd.script = "ACQUIRE" /\ Admits(cmd.subjects)
      <4>1. TakeSlot(cmd.token, cmd.subjects) /\ s \notin cmd.subjects
        BY <1>1, <1>6, <3>2 DEF Execute
      <4>2. QED BY <1>2, <4>1 DEF TakeSlot, Members, HttpTypeOK, LimiterTypeOK
    <3>3. CASE cmd.script # "RELEASE" /\ ~(cmd.script = "ACQUIRE" /\ Admits(cmd.subjects))
      BY <1>1, <3>3 DEF Execute, Members
    <3>4. QED BY <3>1, <3>2, <3>3
  <2>2. QED BY <1>4, <2>1
<1>7. QED BY <1>5, <1>6

\* A command of a check changes one slot and, if it is awaited, its answer.
LEMMA ExecuteKeeps ==
    ASSUME HttpTypeOK, NEW cmd \in wire, RedisExecutes(cmd), NEW d \in Checks, CheckOK(d)
    PROVE  CheckOK(d)'
<1> DEFINE c == cmd.token[1]
           h == cmd.token[2]
<1> USE DEF Sending, Releasing
<1>1. PICK delivered \in BOOLEAN, resent \in BOOLEAN : Execute(cmd, Awaits(cmd), delivered, resent)
  BY DEF RedisExecutes
<1>2. /\ cmd.token \in Tokens /\ cmd.token = <<c, h>> /\ c \in Checks /\ h \in 0..MaxRedirects
      /\ cmd.script \in {"ACQUIRE", "RELEASE"} /\ cmd.subjects \subseteq Subjects
  BY DEF HttpTypeOK, LimiterTypeOK, Commands, Tokens
<1>3. /\ UNCHANGED <<pc, url, hop, elapsed, leased, failure, outcome, limiterErr>>
      /\ wire' \subseteq wire /\ (wire' = wire \/ (wire' = wire \ {cmd}))
      /\ \A t \in Tokens : t # cmd.token => slot'[t] = slot[t]
      /\ hop[d] \in 0..MaxRedirects
  <2>1. UNCHANGED checkerVars /\ wire' \subseteq wire /\ (wire' = wire \/ (wire' = wire \ {cmd}))
    BY <1>1 DEF RedisExecutes, Execute
  <2>2. \A t \in Tokens : t # cmd.token => slot'[t] = slot[t]
    BY <1>1 DEF Execute, DropSlot, TakeSlot, HttpTypeOK, LimiterTypeOK
  <2>3. QED BY <2>1, <2>2 DEF checkerVars, HttpTypeOK
<1>4. \A e \in Checks \ {c} : answer'[e] = answer[e]
  BY <1>1 DEF Execute, HttpTypeOK, LimiterTypeOK
<1> HIDE DEF c, h
<1>5. CASE d # c
  <2>1. \A k \in 0..MaxRedirects : <<d, k>> \in Tokens /\ <<d, k>> # cmd.token
    BY <1>2, <1>5 DEF Tokens
  <2>2. Same(d)
    BY <1>3, <1>4, <1>5, <2>1 DEF Same
  <2>3. QED BY <1>3, <2>2, Frame
<1>6. CASE d = c
  <2>1. /\ \A k \in 0..MaxRedirects : Asking(d, k)' => Asking(d, k)
        /\ \A k \in 0..MaxRedirects : k # h => slot'[<<d, k>>] = slot[<<d, k>>] /\ (Free(d, k) => Free(d, k)')
    <3>1. \A k \in 0..MaxRedirects : Asking(d, k)' => Asking(d, k)
      BY <1>3 DEF Asking
    <3>2. \A k \in 0..MaxRedirects : k # h => <<d, k>> \in Tokens /\ <<d, k>> # cmd.token
      BY <1>2 DEF Tokens
    <3>3. QED BY <1>3, <3>1, <3>2 DEF Free
  <2>2. WireMatches(d)' /\ FaultKept(d)'
    BY <1>3 DEF CheckOK, WireMatches, FaultKept
  <2>3. h <= hop[d] /\ (h = hop[d] => pc[d] \notin {"idle", "resolve"})
    BY <1>2, <1>6 DEF CheckOK, WireMatches
  <2>4. CASE cmd.script = "RELEASE"
    <3>1. slot'[<<d, h>>] = FreeSlot
      BY <1>1, <1>2, <1>6, <2>4 DEF Execute, DropSlot, HttpTypeOK, LimiterTypeOK
    <3>2. Free(d, h) => Free(d, h)'
      BY <1>2, <2>1, <3>1 DEF Free, FreeSlot
    <3>3. \/ answer'[d] = answer[d]
          \/ answer'[d] = "RELEASED" /\ answer[d] = "NONE" /\ pc[d] \in Releasing /\ hop[d] = h
      BY <1>1, <1>2, <1>6, <2>4 DEF Execute, Awaits, HttpTypeOK, LimiterTypeOK
    <3>4. h = hop[d] => pc[d] \in Releasing \union {"done"}
      BY <1>2, <1>6, <2>4 DEF CheckOK, WireMatches
    <3>5. AnswersMatch(d)'
      BY <1>3, <3>3 DEF CheckOK, AnswersMatch
    <3>6. SlotOutlives(d)'
      BY <1>3, <2>1, <3>3, <3>4 DEF CheckOK, SlotOutlives, Holding
    <3>7. GivenBack(d)'
      <4>1. \A k \in 0..MaxRedirects : Free(d, k) => Free(d, k)'
        BY <2>1, <3>2
      <4>2. answer'[d] = "RELEASED" /\ answer[d] # "RELEASED" /\ ~limiterErr[d] => Free(d, hop[d])'
        BY <1>3, <2>1, <3>1, <3>3 DEF CheckOK, GivenBack, Free, FreeSlot
      <4>3. QED BY <1>3, <2>1, <3>3, <4>1, <4>2 DEF CheckOK, GivenBack, Holding
    <3>8. QED BY <2>2, <3>5, <3>6, <3>7 DEF CheckOK
  <2>5. CASE cmd.script = "ACQUIRE"
    <3>1. Asking(d, h)
      BY <1>2, <1>6, <2>5 DEF Asking
    <3>2. \A k \in 0..MaxRedirects : Free(d, k) => Free(d, k)'
      BY <2>1, <3>1 DEF Free
    <3>3. \/ answer'[d] = answer[d] /\ (resent \/ ~Awaits(cmd) \/ ~delivered)
          \/ /\ answer'[d] \in {"GRANTED", "DENIED"} /\ answer[d] = "NONE"
             /\ pc[d] = "acquire" /\ hop[d] = h /\ wire' = wire \ {cmd}
             /\ answer'[d] = "GRANTED" => Admits(cmd.subjects)
      BY <1>1, <1>2, <1>6, <2>5 DEF Execute, Awaits, HttpTypeOK, LimiterTypeOK
    <3>4. h = hop[d] /\ pc[d] \in {"acquire"} \union Sending => cmd.subjects = SubjectsOf[url[d]]
      BY <1>2, <1>6, <2>5 DEF CheckOK, WireMatches
    <3>5. AnswersMatch(d)'
      BY <1>3, <3>3 DEF CheckOK, AnswersMatch
    <3>6. SlotOutlives(d)'
      <4>1. elapsed[d] \in Nat /\ LeaseTime \in Nat
        BY CheckerAssumption, LimiterAssumption DEF HttpTypeOK
      <4>2. Admits(cmd.subjects) => slot'[<<d, h>>] = [subjects |-> cmd.subjects, left |-> LeaseTime]
        BY <1>1, <1>2, <1>6, <2>5 DEF Execute, TakeSlot, HttpTypeOK, LimiterTypeOK
      <4>3. ~Admits(cmd.subjects) => slot' = slot
        BY <1>1, <2>5 DEF Execute
      <4>4. Holding(d)' => Holding(d) \/ (h = hop[d] /\ pc[d] = "acquire" /\ Admits(cmd.subjects))
        BY <1>3, <3>3 DEF Holding
      <4>5. QED BY <1>3, <2>1, <3>4, <4>1, <4>2, <4>3, <4>4 DEF CheckOK, SlotOutlives, Holding
    <3>7. GivenBack(d)'
      <4>1. ASSUME answer'[d] = "GRANTED", answer[d] # "GRANTED" PROVE ~Asking(d, hop[d])'
        <5> SUFFICES ASSUME NEW x \in wire', x.script = "ACQUIRE", x.token = <<d, hop[d]>> PROVE FALSE
          BY <1>3 DEF Asking
        <5>1. x \in wire /\ x # cmd /\ pc[d] = "acquire" /\ hop[d] = h
          BY <1>3, <3>3, <4>1
        <5>2. x.subjects = SubjectsOf[url[d]] /\ x.subjects = cmd.subjects
          BY <3>4, <5>1 DEF CheckOK, WireMatches
        <5>3. x \in Commands /\ cmd \in Commands /\ x.token = cmd.token /\ x.script = cmd.script
          BY <1>2, <1>6, <2>5, <5>1 DEF HttpTypeOK, LimiterTypeOK
        <5>4. QED BY <5>1, <5>2, <5>3 DEF Commands
      <4>2. Holding(d)' => Holding(d) \/ (answer'[d] = "GRANTED" /\ answer[d] # "GRANTED")
        BY <1>3, <3>3 DEF Holding
      <4>3. answer'[d] = "RELEASED" => answer[d] = "RELEASED"
        BY <3>3
      <4>4. QED BY <1>3, <2>1, <3>2, <4>1, <4>2, <4>3 DEF CheckOK, GivenBack
    <3>8. QED BY <2>2, <3>5, <3>6, <3>7 DEF CheckOK
  <2>6. QED BY <1>2, <2>4, <2>5
<1>7. QED BY <1>5, <1>6

\* Time takes slots away, a tick at a time, but none from a request that is
\* still within its overall timeout.
LEMMA TimeKeeps ==
    ASSUME HttpTypeOK, MembersWithinLimit, TimePasses
    PROVE  HttpTypeOK' /\ MembersWithinLimit' /\ \A d \in Checks : CheckOK(d) => CheckOK(d)'
<1>1. /\ UNCHANGED <<wire, answer, pc, url, hop, visited, leased, failure, outcome, limiterErr>>
      /\ \A t \in Tokens : slot'[t] = IF slot[t].left <= 1 THEN FreeSlot
                                      ELSE [slot[t] EXCEPT !.left = @ - 1]
      /\ \A d \in Checks : elapsed'[d] =
           IF pc[d] \in Timed \union {"release_hop"} /\ elapsed[d] < CheckTimeout
           THEN elapsed[d] + 1 ELSE elapsed[d]
      /\ \A d \in Checks : pc[d] \in Timed => elapsed[d] < CheckTimeout
  BY DEF TimePasses, ExpireLeases
<1>2. \A t \in Tokens : slot'[t].left <= slot[t].left /\ slot'[t].subjects \subseteq slot[t].subjects
  <2> SUFFICES ASSUME NEW t \in Tokens
               PROVE  slot'[t].left <= slot[t].left /\ slot'[t].subjects \subseteq slot[t].subjects
    OBVIOUS
  <2>1. slot[t] \in [subjects : SUBSET Subjects, left : 0..LeaseTime]
    BY DEF HttpTypeOK, LimiterTypeOK, Slots
  <2>2. CASE slot[t].left <= 1
    <3>1. slot'[t] = [subjects |-> {}, left |-> 0]
      BY <1>1, <2>2 DEF FreeSlot
    <3>2. QED BY <2>1, <3>1, LimiterAssumption
  <2>3. CASE ~(slot[t].left <= 1)
    <3>1. slot'[t] = [slot[t] EXCEPT !.left = @ - 1]
      BY <1>1, <2>3
    <3>2. QED BY <2>1, <3>1, LimiterAssumption
  <2>4. QED BY <2>2, <2>3
<1>3. HttpTypeOK'
  <2>1. slot' \in [Tokens -> Slots]
    BY LimiterAssumption DEF TimePasses, ExpireLeases, FreeSlot, HttpTypeOK, LimiterTypeOK, Slots
  <2>2. rate' \in [Subjects -> Rates]
    BY LimiterAssumption DEF TimePasses, ExpireLeases, NewRate, HttpTypeOK, LimiterTypeOK, Rates
  <2>3. elapsed' \in [Checks -> 0..CheckTimeout]
    BY CheckerAssumption DEF TimePasses, HttpTypeOK
  <2>4. QED BY <1>1, <2>1, <2>2, <2>3 DEF HttpTypeOK, LimiterTypeOK
<1>4. MembersWithinLimit'
  <2> SUFFICES ASSUME NEW s \in Subjects PROVE Cardinality(Members(s)') <= MaxConcurrent
    BY DEF MembersWithinLimit
  <2>1. Members(s)' \subseteq Members(s)
    BY <1>2, <1>3 DEF Members, HttpTypeOK, LimiterTypeOK, Slots
  <2>2. Cardinality(Members(s)') <= Cardinality(Members(s)) /\ Cardinality(Members(s)') \in Nat
    BY <2>1, FiniteMembers, FS_Subset, FS_CardinalityType
  <2>3. QED BY <2>2, FiniteMembers, LimiterAssumption DEF MembersWithinLimit
<1>5. ASSUME NEW d \in Checks, CheckOK(d) PROVE CheckOK(d)'
  <2>1. hop[d] \in 0..MaxRedirects /\ \A h \in 0..MaxRedirects : <<d, h>> \in Tokens
    BY DEF HttpTypeOK, Tokens
  <2>2. \A h \in 0..MaxRedirects : (Asking(d, h)' => Asking(d, h)) /\ (Free(d, h) => Free(d, h)')
    <3>1. \A h \in 0..MaxRedirects : Asking(d, h)' = Asking(d, h)
      BY <1>1 DEF Asking
    <3>2. ASSUME NEW h \in 0..MaxRedirects, slot[<<d, h>>].left = 0 PROVE slot'[<<d, h>>].left = 0
      <4>1. ASSUME NEW t \in Tokens, slot[t].left = 0 PROVE slot'[t] = FreeSlot
        <5>1. slot[t].left <= 1
          BY <4>1
        <5>2. QED BY <1>1, <5>1
      <4>2. slot'[<<d, h>>] = FreeSlot
        BY <2>1, <3>2, <4>1
      <4>3. QED BY <4>2 DEF FreeSlot
    <3>3. QED BY <3>1, <3>2 DEF Free
  <2>3. AnswersMatch(d)' /\ WireMatches(d)' /\ FaultKept(d)'
    BY <1>1, <1>5 DEF CheckOK, AnswersMatch, WireMatches, FaultKept
  <2>4. SlotOutlives(d)'
    <3> SUFFICES ASSUME Holding(d)
                 PROVE  /\ slot'[<<d, hop[d]>>].subjects = SubjectsOf[url[d]]
                        /\ slot'[<<d, hop[d]>>].left + elapsed'[d] >= LeaseTime
      BY <1>1 DEF SlotOutlives, Holding
    <3>1. /\ slot[<<d, hop[d]>>].subjects = SubjectsOf[url[d]]
          /\ slot[<<d, hop[d]>>].left + elapsed[d] >= LeaseTime
      BY <1>5 DEF CheckOK, SlotOutlives
    <3>2. pc[d] \in Timed /\ elapsed[d] < CheckTimeout /\ elapsed'[d] = elapsed[d] + 1
      BY <1>1 DEF Holding, Timed
    <3>3. slot[<<d, hop[d]>>] \in Slots /\ elapsed[d] \in Nat
      BY <2>1 DEF HttpTypeOK, LimiterTypeOK
    <3>4. slot[<<d, hop[d]>>].left > 1
      BY <3>1, <3>2, <3>3, CheckerAssumption, LimiterAssumption DEF Slots
    <3>5. slot'[<<d, hop[d]>>] = [slot[<<d, hop[d]>>] EXCEPT !.left = @ - 1]
      BY <1>1, <2>1, <3>3, <3>4 DEF Slots
    <3>6. QED BY <3>1, <3>2, <3>3, <3>5, LimiterAssumption DEF Slots
  <2>5. GivenBack(d)'
    BY <1>1, <1>5, <2>1, <2>2 DEF CheckOK, GivenBack, Holding
  <2>6. QED BY <2>3, <2>4, <2>5 DEF CheckOK
<1>6. QED BY <1>3, <1>4, <1>5
-----------------------------------------------------------------------------
LEMMA HttpInitInv == HttpInit => HttpInv
<1> SUFFICES ASSUME HttpInit PROVE HttpInv
  OBVIOUS
<1> USE CheckerAssumption, LimiterAssumption DEF HttpInit, LimiterInit
<1>1. HttpTypeOK
  BY DEF HttpTypeOK, LimiterTypeOK, FreeSlot, NewRate, Slots, Rates, Answers, Commands
<1>2. ASSUME NEW s \in Subjects PROVE Cardinality(Members(s)) <= MaxConcurrent
  <2>1. Members(s) = {}
    BY DEF Members, FreeSlot
  <2>2. QED BY <2>1, FS_EmptySet
<1>3. ASSUME NEW c \in Checks PROVE CheckOK(c)
  <2>1. \A h \in 0..MaxRedirects : Free(c, h)
    BY DEF Free, Asking, FreeSlot, Tokens
  <2>2. QED BY <2>1 DEF CheckOK, AnswersMatch, WireMatches, SlotOutlives, FaultKept, GivenBack,
                        Holding, Sending, Releasing
<1>4. QED BY <1>1, <1>2, <1>3 DEF HttpInv, MembersWithinLimit

\* A step that leaves the slots alone leaves the count of their members.
LEMMA MembersFrame == MembersWithinLimit /\ UNCHANGED slot => MembersWithinLimit'
BY DEF MembersWithinLimit, Members

LEMMA HttpStepInv == HttpInv /\ [HttpNext]_httpVars => HttpInv'
<1> SUFFICES ASSUME HttpInv, [HttpNext]_httpVars PROVE HttpInv'
  OBVIOUS
<1>1. HttpTypeOK /\ MembersWithinLimit /\ \A d \in Checks : CheckOK(d) /\ hop[d] \in 0..MaxRedirects
  BY DEF HttpInv, HttpTypeOK
<1>2. ASSUME NEW c \in Checks, Acts(c) PROVE HttpInv'
  <2>1. HttpTypeOK' /\ UNCHANGED slot /\ \A d \in Checks \ {c} : Same(d)
    BY <1>1, <1>2, ActsTypes DEF CheckOK
  <2>2. \A d \in Checks \ {c} : CheckOK(d)'
    BY <1>1, <2>1, Frame
  <2>3. CheckOK(c)'
    BY <1>1, <1>2, OwnStep
  <2>4. MembersWithinLimit'
    BY <1>1, <2>1, MembersFrame
  <2>5. QED BY <2>1, <2>2, <2>3, <2>4 DEF HttpInv
<1>3. ASSUME NEW cmd \in wire, RedisExecutes(cmd) PROVE HttpInv'
  BY <1>1, <1>3, ExecuteTypes, ExecuteLimits, ExecuteKeeps DEF HttpInv
<1>4. ASSUME NEW cmd \in wire, RedisLoses(cmd) PROVE HttpInv'
  <2>1. /\ wire' \subseteq wire
        /\ UNCHANGED <<slot, rate, answer, pc, url, hop, visited, elapsed, leased, failure, outcome,
                       limiterErr>>
    BY <1>4 DEF RedisLoses, LoseCommand, checkerVars
  <2>2. \A d \in Checks : Same(d)
    BY <2>1 DEF Same
  <2>3. HttpTypeOK'
    BY <1>1, <2>1 DEF HttpTypeOK, LimiterTypeOK
  <2>4. QED BY <1>1, <2>1, <2>2, <2>3, Frame, MembersFrame DEF HttpInv
<1>5. CASE TimePasses
  BY <1>1, <1>5, TimeKeeps DEF HttpInv
<1>6. CASE UNCHANGED httpVars
  <2>1. UNCHANGED <<slot, rate, wire, answer, pc, url, hop, visited, elapsed, leased, failure,
                    outcome, limiterErr>>
    BY <1>6 DEF httpVars, limiterVars, checkerVars
  <2>2. \A d \in Checks : Same(d)
    BY <2>1 DEF Same
  <2>3. HttpTypeOK'
    BY <1>1, <2>1 DEF HttpTypeOK, LimiterTypeOK
  <2>4. QED BY <1>1, <2>1, <2>2, <2>3, Frame, MembersFrame DEF HttpInv
<1>7. QED BY <1>2, <1>3, <1>4, <1>5, <1>6 DEF HttpNext, Acts

\* Every reachable state satisfies the inductive invariant.
THEOREM HttpInvariance == HttpSpec => []HttpInv
<1>1. QED BY HttpInitInv, HttpStepInv, PTL DEF HttpSpec

\* The variables of the checker and of the limiter keep their types; the count of
\* a window never passes DESTINATION_CHECK_MAX_PER_MINUTE.
THEOREM HttpTypeCorrect == HttpSpec => []HttpTypeOK
<1>1. HttpInv => HttpTypeOK
  BY DEF HttpInv
<1>2. QED BY <1>1, HttpInvariance, PTL

\* An open request has a slot that lives as long as it, so what the limiter
\* promises about slots holds for requests, whatever happens to its commands and
\* answers (checker.ts, destination-limiter.ts).
THEOREM LimitIsKept == HttpSpec => []RequestsWithinLimit
<1>1. HttpInv => RequestsWithinLimit
  <2> SUFFICES ASSUME HttpInv PROVE RequestsWithinLimit
    OBVIOUS
  <2>1. ASSUME NEW c \in Checks, pc[c] \in Sending
        PROVE  slot[<<c, hop[c]>>].left > 0 /\ slot[<<c, hop[c]>>].subjects = SubjectsOf[url[c]]
    <3>1. /\ slot[<<c, hop[c]>>].subjects = SubjectsOf[url[c]]
          /\ slot[<<c, hop[c]>>].left + elapsed[c] >= LeaseTime
      BY <2>1 DEF HttpInv, CheckOK, SlotOutlives, Holding
    <3>2. <<c, hop[c]>> \in Tokens /\ elapsed[c] \in 0..CheckTimeout
      BY DEF HttpInv, HttpTypeOK, Tokens
    <3>3. slot[<<c, hop[c]>>] \in Slots
      BY <3>2 DEF HttpInv, HttpTypeOK, LimiterTypeOK
    <3>4. QED BY <3>1, <3>2, <3>3, CheckerAssumption, LimiterAssumption DEF Slots
  <2>2. ASSUME NEW s \in Subjects PROVE Cardinality(RequestsTo(s)) <= MaxConcurrent
    <3> DEFINE f == [c \in RequestsTo(s) |-> <<c, hop[c]>>]
    <3>1. f \in Injection(RequestsTo(s), Members(s))
      <4>1. \A c \in RequestsTo(s) : <<c, hop[c]>> \in Members(s)
        BY <2>1 DEF RequestsTo, Members, Tokens, HttpInv, HttpTypeOK
      <4>2. \A c, d \in RequestsTo(s) : f[c] = f[d] => c = d
        OBVIOUS
      <4>3. f \in [RequestsTo(s) -> Members(s)]
        BY <4>1
      <4>4. QED BY <4>2, <4>3 DEF Injection, IsInjective
    <3>2. IsFiniteSet(RequestsTo(s)) /\ Cardinality(RequestsTo(s)) <= Cardinality(Members(s))
      BY <3>1, FiniteMembers, FS_Injection
    <3>3. QED BY <3>2, FiniteMembers, FS_CardinalityType, LimiterAssumption
             DEF HttpInv, MembersWithinLimit
  <2>3. QED BY <2>1, <2>2 DEF RequestsWithinLimit
<1>2. QED BY <1>1, HttpInvariance, PTL

\* A fault of the limiter never ends in a result that counts, at whichever hop it
\* comes and whatever the target had done by then (checker.ts, the catch block).
THEOREM LimiterFaultIsNeutral == HttpSpec => []LimiterFaultDecidesNothing
<1>1. HttpInv => LimiterFaultDecidesNothing
  BY DEF HttpInv, CheckOK, FaultKept, LimiterFaultDecidesNothing
<1>2. QED BY <1>1, HttpInvariance, PTL

\* A check whose result counts has given back every slot it got, for good: no
\* command that is still on the wire can take one again.
THEOREM CountedResultIsReleased == HttpSpec => []CountedResultHoldsNoSlot
<1>1. HttpInv => CountedResultHoldsNoSlot
  <2> SUFFICES ASSUME HttpInv, NEW c \in Checks, outcome[c] \in {"SUCCESS", "TARGET_FAILURE"},
                      NEW h \in 0..MaxRedirects
               PROVE  slot[<<c, h>>].left = 0
    BY DEF CountedResultHoldsNoSlot
  <2>1. ~limiterErr[c] /\ GivenBack(c) /\ hop[c] \in 0..MaxRedirects
    BY DEF HttpInv, CheckOK, FaultKept, GivenBack, HttpTypeOK
  <2>2. Free(c, h)
    BY <2>1, LimiterAssumption DEF GivenBack
  <2>3. QED BY <2>2 DEF Free
<1>2. QED BY <1>1, HttpInvariance, PTL
=============================================================================

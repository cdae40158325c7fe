-------------------------- MODULE DestinationLimiter --------------------------
(***************************************************************************)
(* packages/monitoring/src/destination-limiter.ts: the two Redis scripts   *)
(* and the client's view of them.  A script is atomic.  The client gives   *)
(* up on a command after commandTimeoutMs or when its check is aborted;    *)
(* the command stays on the wire, and Redis may execute it later, never,   *)
(* or, resent after a broken connection, twice.                            *)
(* A token is one acquisition: a check and the redirect hop it is for.     *)
(***************************************************************************)
EXTENDS Integers, FiniteSets

CONSTANTS Checks,         \* executions of a URL check
          MaxRedirects,   \* hops after the first
          Subjects,       \* host names and addresses that are limited
          MaxConcurrent,  \* DESTINATION_CHECK_MAX_CONCURRENCY
          MaxPerWindow,   \* DESTINATION_CHECK_MAX_PER_MINUTE
          LeaseTime,      \* leaseMs, in ticks
          Window          \* WINDOW_MS, in ticks

ASSUME LimiterAssumption ==
    /\ IsFiniteSet(Checks) /\ IsFiniteSet(Subjects)
    /\ MaxRedirects \in Nat
    /\ {MaxConcurrent, MaxPerWindow, LeaseTime, Window} \subseteq Nat \ {0}

VARIABLES slot,     \* per token: its subjects and the ticks its lease has left
          rate,     \* per subject: acquisitions counted and ticks of the window left
          wire,     \* commands sent and not yet executed or lost
          answer    \* per check: the answer its pending command got, or NONE

limiterVars == <<slot, rate, wire, answer>>

Tokens == Checks \X (0..MaxRedirects)
Slots  == [subjects : SUBSET Subjects, left : 0..LeaseTime]
Rates  == [count : 0..MaxPerWindow, left : 0..Window]
Commands == [script : {"ACQUIRE", "RELEASE"}, token : Tokens, subjects : SUBSET Subjects]
Answers  == {"NONE", "GRANTED", "DENIED", "RELEASED"}

FreeSlot == [subjects |-> {}, left |-> 0]
NewRate  == [count |-> 0, left |-> 0]
-----------------------------------------------------------------------------
\* ZREMRANGEBYSCORE drops the members whose lease is over before ZCARD counts.
\* The PEXPIRE of the key itself is a second longer than the last lease in it.
Members(s) == {t \in Tokens : s \in slot[t].subjects /\ slot[t].left > 0}

AdmitsOneMore(S) ==
    \A s \in S : /\ Cardinality(Members(s)) <= MaxConcurrent
                 /\ rate[s].count < MaxPerWindow

AdmitsAtAnyRate(S) == \A s \in S : Cardinality(Members(s)) < MaxConcurrent

\* Both loops of the acquire script: every subject is looked at before any is
\* written, so a refusal leaves no trace.
Admits(S) ==
    \A s \in S : /\ Cardinality(Members(s)) < MaxConcurrent
                 /\ rate[s].count < MaxPerWindow

\* INCR, with PEXPIRE for the first of a window.
Counted(r) == [count |-> r.count + 1,
               left  |-> IF r.count = 0 THEN Window ELSE r.left]

TakeSlot(t, S) ==
    /\ slot' = [slot EXCEPT ![t] = [subjects |-> S, left |-> LeaseTime]]
    /\ rate' = [s \in Subjects |-> IF s \in S THEN Counted(rate[s]) ELSE rate[s]]

\* ZREM of the token from every key of the destination.
DropSlot(t) ==
    /\ slot' = [slot EXCEPT ![t] = FreeSlot]
    /\ UNCHANGED rate

LimiterInit ==
    /\ slot = [t \in Tokens |-> FreeSlot]
    /\ rate = [s \in Subjects |-> NewRate]
    /\ wire = {}
    /\ answer = [c \in Checks |-> "NONE"]

\* Redis executes a command.  Awaited says whether its client still waits for
\* it, delivered whether the answer arrives; if it does not and the client
\* reconnects, the command is sent again (resent).
Execute(cmd, awaited, delivered, resent) ==
    LET c       == cmd.token[1]
        granted == cmd.script = "ACQUIRE" /\ Admits(cmd.subjects)
    IN  /\ cmd \in wire
        /\ resent => ~delivered
        /\ IF cmd.script = "RELEASE" THEN DropSlot(cmd.token)
           ELSE IF granted THEN TakeSlot(cmd.token, cmd.subjects)
           ELSE UNCHANGED <<slot, rate>>
        /\ wire' = IF resent THEN wire ELSE wire \ {cmd}
        /\ answer' = IF awaited /\ delivered
                     THEN [answer EXCEPT ![c] =
                             IF cmd.script = "RELEASE" THEN "RELEASED"
                             ELSE IF granted THEN "GRANTED" ELSE "DENIED"]
                     ELSE answer

\* A command that Redis never sees.
LoseCommand(cmd) ==
    /\ cmd \in wire
    /\ wire' = wire \ {cmd}
    /\ UNCHANGED <<slot, rate, answer>>

\* A tick of Redis' clock: leases and windows run out.
ExpireLeases ==
    /\ slot' = [t \in Tokens |->
                  IF slot[t].left <= 1 THEN FreeSlot
                  ELSE [slot[t] EXCEPT !.left = @ - 1]]
    /\ rate' = [s \in Subjects |->
                  IF rate[s].left <= 1 THEN NewRate
                  ELSE [rate[s] EXCEPT !.left = @ - 1]]

LimiterTypeOK ==
    /\ slot \in [Tokens -> Slots]
    /\ rate \in [Subjects -> Rates]
    /\ wire \subseteq Commands
    /\ answer \in [Checks -> Answers]
=============================================================================

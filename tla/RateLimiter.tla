---------------------------- MODULE RateLimiter ----------------------------
(***************************************************************************)
(* RateLimitMiddleware: three sliding windows, a burst, a minute and an    *)
(* hour, over one list of time stamps for each key, kept by each process.  *)
(* dispatch runs from its reading of the clock to call_next without an     *)
(* await, so one action is a whole decision; the answer leaves later, when *)
(* the handler behind it is done.  Time is counted in ticks, a fraction of *)
(* a second; only Retry-After is in whole seconds.  The code reads the     *)
(* wall clock, time.time(); that it may be set back is left out.  A        *)
(* process that starts anew is another member of Processes.                *)
(***************************************************************************)
EXTENDS Integers, FiniteSets

CONSTANTS Processes,    \* Lambda instances, each with counters of its own
          Keys,         \* "user:<sub>" or "ip:<addr>", see _extract_key
          Requests,     \* the requests, each sent once
          Second,       \* ticks in a second
          BurstWindow, MinuteWindow, HourWindow,
          MaxBurst, MaxRequests, MaxPerHour,
          MaxTime       \* the clock stops here

ASSUME LimiterAssumption ==
  /\ IsFiniteSet(Requests)
  /\ Second \in Nat \ {0}
  /\ BurstWindow \in Nat \ {0} /\ MinuteWindow \in Nat \ {0} /\ HourWindow \in Nat
  /\ BurstWindow <= Second /\ BurstWindow <= MinuteWindow /\ MinuteWindow <= HourWindow
  /\ MaxBurst \in Nat \ {0} /\ MaxRequests \in Nat \ {0} /\ MaxPerHour \in Nat \ {0}
  /\ MaxTime \in Nat

VARIABLES now,      \* the clock
          counters, \* self._counters of each process: the stamps under each key
          pc,       \* where each request is
          job,      \* what a request carries, and what it was answered
          admitted  \* every request ever let in, with its stamp (history)

vars == <<now, counters, pc, job, admitted>>

\* An entry of the list is its time; the rest says which request left it where
\* and keeps the entries of one tick apart.
Stamp == [process : Processes, key : Keys, request : Requests, at : Nat]

\* What a request that was dispatched carries: the headers of its answer; the
\* requests let in so far on its list, with an admission itself included
\* (history); with a refusal whether the list held nothing older than a minute
\* and the hour had room (history).
Job == [process : Processes, key : Keys, at : Nat, remaining : Nat, retryAfter : Nat,
        before : SUBSET Requests, early : BOOLEAN]
NoJob == [key |-> "none"]

Places == {"new", "inside", "answered", "refused", "preflight"}

Init ==
  /\ now = 0
  /\ counters = [p \in Processes |-> [k \in Keys |-> {}]]
  /\ pc = [r \in Requests |-> "new"]
  /\ job = [r \in Requests |-> NoJob]
  /\ admitted = {}

Tick ==
  /\ now < MaxTime
  /\ now' = now + 1
  /\ UNCHANGED <<counters, pc, job, admitted>>

-----------------------------------------------------------------------------
(* The windows. *)

\* Mutant: a stamp counts until it is older than the window (>= for >).
WithinInclusive(stamps, span) == {s \in stamps : s.at >= now - span}

\* The stamps of the last span seconds.
Within(stamps, span) == {s \in stamps : s.at > now - span}

\* Mutant: the list is pruned to the minute.
PrunedToMinute(p, k) == Within(counters[p][k], MinuteWindow)

\* The list after pruning.
Pruned(p, k) == Within(counters[p][k], HourWindow)

\* The request is one too many for a window.
Full(stamps) ==
  \/ Cardinality(Within(stamps, BurstWindow)) >= MaxBurst
  \/ Cardinality(Within(stamps, MinuteWindow)) >= MaxRequests
  \/ Cardinality(stamps) >= MaxPerHour

Oldest(stamps) == CHOOSE t \in {s.at : s \in stamps} : \A s \in stamps : t <= s.at

Greater(a, b) == IF a >= b THEN a ELSE b

\* Mutant: the time since the oldest stamp, not the time until it leaves.
RetryAfterElapsed(stamps) ==
  IF stamps = {} THEN MinuteWindow \div Second
  ELSE Greater(1, (now - Oldest(stamps)) \div Second)

\* Mutant: no lower bound.
RetryAfterUnbounded(stamps) ==
  IF stamps = {} THEN MinuteWindow \div Second
  ELSE (Oldest(stamps) + MinuteWindow - now) \div Second

\* The whole seconds until the oldest stamp of the hour is a minute old, at
\* least one.
RetryAfter(stamps) ==
  IF stamps = {} THEN MinuteWindow \div Second
  ELSE Greater(1, (Oldest(stamps) + MinuteWindow - now) \div Second)

-----------------------------------------------------------------------------
(* dispatch. *)

StampOf(r, p, k) == [process |-> p, key |-> k, request |-> r, at |-> now]

\* The requests that process p ever let in under key k.
LetIn(p, k) == {a.request : a \in {b \in admitted : b.process = p /\ b.key = k}}

\* Mutant: a refused request is recorded as well.
RefuseAndRecord(r, p, k, stamps) ==
  /\ counters' = [counters EXCEPT ![p][k] = stamps \union {StampOf(r, p, k)}]
  /\ pc' = [pc EXCEPT ![r] = "refused"]
  /\ job' = [job EXCEPT ![r] =
       [process |-> p, key |-> k, at |-> now, remaining |-> 0,
        retryAfter |-> RetryAfter(stamps), before |-> LetIn(p, k),
        early |-> stamps = Within(stamps, MinuteWindow) /\ Cardinality(stamps) < MaxPerHour]]
  /\ UNCHANGED <<now, admitted>>

Refuse(r, p, k, stamps) ==
  /\ counters' = [counters EXCEPT ![p][k] = stamps]
  /\ pc' = [pc EXCEPT ![r] = "refused"]
  /\ job' = [job EXCEPT ![r] =
       [process |-> p, key |-> k, at |-> now, remaining |-> 0,
        retryAfter |-> RetryAfter(stamps), before |-> LetIn(p, k),
        early |-> stamps = Within(stamps, MinuteWindow) /\ Cardinality(stamps) < MaxPerHour]]
  /\ UNCHANGED <<now, admitted>>

\* Mutant: the request itself is not counted in.
RemainingBefore(stamps) ==
  Greater(0, MaxRequests - Cardinality(Within(stamps, MinuteWindow)))

\* X-RateLimit-Remaining, of the minute only.
Remaining(stamps) ==
  Greater(0, MaxRequests - (Cardinality(Within(stamps, MinuteWindow)) + 1))

\* The request is recorded and goes on to the handler.  The header is computed
\* from what was counted here, whatever passes until the answer leaves.
Admit(r, p, k, stamps) ==
  /\ counters' = [counters EXCEPT ![p][k] = stamps \union {StampOf(r, p, k)}]
  /\ pc' = [pc EXCEPT ![r] = "inside"]
  /\ job' = [job EXCEPT ![r] =
       [process |-> p, key |-> k, at |-> now, remaining |-> Remaining(stamps),
        retryAfter |-> 0, before |-> LetIn(p, k) \union {r}, early |-> FALSE]]
  /\ admitted' = admitted \union {StampOf(r, p, k)}
  /\ UNCHANGED now

Dispatch(r, p, k) ==
  /\ pc[r] = "new"
  /\ IF Full(Pruned(p, k)) THEN Refuse(r, p, k, Pruned(p, k)) ELSE Admit(r, p, k, Pruned(p, k))

\* An OPTIONS request is passed on unseen.
Preflight(r) ==
  /\ pc[r] = "new"
  /\ pc' = [pc EXCEPT ![r] = "preflight"]
  /\ UNCHANGED <<now, counters, job, admitted>>

\* The handler answers, or raises: what was counted stays counted.
Respond(r) ==
  /\ pc[r] = "inside"
  /\ pc' = [pc EXCEPT ![r] = "answered"]
  /\ UNCHANGED <<now, counters, job, admitted>>

Next ==
  \/ Tick
  \/ \E r \in Requests :
       \/ \E p \in Processes, k \in Keys : Dispatch(r, p, k)
       \/ Preflight(r)
       \/ Respond(r)

Spec == Init /\ [][Next]_vars

-----------------------------------------------------------------------------
(* Properties. *)

\* Every variable has its type.
TypeOK ==
  /\ now \in 0..MaxTime
  /\ counters \in [Processes -> [Keys -> SUBSET Stamp]]
  /\ pc \in [Requests -> Places]
  /\ job \in [Requests -> Job \union {NoJob}]
  /\ admitted \subseteq Stamp

\* What process p let in under key k in the span seconds that end with t.
Passed(p, k, t, span) ==
  {a \in admitted : a.process = p /\ a.key = k /\ t - span < a.at /\ a.at <= t}

\* In no stretch of a second, a minute or an hour, wherever it begins, does a
\* process let more requests through under one key than the limit says: three
\* windows on one pruned list are as good as three complete records.
WindowsRespected ==
  \A p \in Processes, k \in Keys, t \in 0..now :
    /\ Cardinality(Passed(p, k, t, BurstWindow)) <= MaxBurst
    /\ Cardinality(Passed(p, k, t, MinuteWindow)) <= MaxRequests
    /\ Cardinality(Passed(p, k, t, HourWindow)) <= MaxPerHour

\* Nobody is refused but for requests that were let in: refusals do not count,
\* so that a client which keeps knocking is not locked out for longer.
RefusedOnlyWhenFull ==
  [][\A r \in Requests : pc[r] = "new" /\ pc'[r] = "refused" =>
       LET full(span, limit) ==
             Cardinality(Passed(job'[r].process, job'[r].key, now, span)) >= limit
       IN  \/ full(BurstWindow, MaxBurst)
           \/ full(MinuteWindow, MaxRequests)
           \/ full(HourWindow, MaxPerHour)]_vars

\* When a client that was refused comes back: after Retry-After, and the second
\* that int() may have cut off.
BackAt(j) == j.at + (j.retryAfter + 1) * Second

\* A client that was refused while all its requests were of the last minute and
\* the hour had room and comes back a second after Retry-After finds room in all
\* three windows if it kept still, and is let in.  (With older stamps on the list
\* the header is too short by up to a minute.)
RetryAfterHonoured ==
  \A r \in Requests :
    LET j == job[r]
        list == Pruned(j.process, j.key)
    IN  /\ pc[r] = "refused" /\ j.early
        /\ now >= BackAt(j)
        /\ LetIn(j.process, j.key) = j.before
        => ~Full(list)

\* X-RateLimit-Remaining promises no more than the minute will let through: as
\* long as fewer requests than that came after the one it was sent with, and
\* however late the answer left, the minute is not full.
RemainingHonoured ==
  \A r \in Requests :
    pc[r] \in {"inside", "answered"} =>
      LET recent == Within(counters[job[r].process][job[r].key], MinuteWindow)
      IN  Cardinality({s \in recent : s.request \notin job[r].before}) < job[r].remaining
          => Cardinality(recent) < MaxRequests

\* What has become of a request, as SlidingWindows sees it.
Verdict(r) ==
  CASE pc[r] = "new" -> <<"none">>
    [] pc[r] = "refused" -> <<"refused", job[r].process, job[r].key>>
    [] pc[r] = "preflight" -> <<"unseen">>
    [] OTHER -> <<"admitted", job[r].process, job[r].key>>

Windows == INSTANCE SlidingWindows WITH
  log <- admitted, verdict <- [r \in Requests |-> Verdict(r)], clock <- now

\* One list for three windows, pruned whenever it is used, implements
\* SlidingWindows: a request is let in or refused by the complete record of the
\* very process and key that it is counted under.  What dispatch has forgotten,
\* and what others were told elsewhere, never changes a decision, either way.
ImplementsSlidingWindows == Windows!WindowSafety

-----------------------------------------------------------------------------
(* The strengthening that makes the properties above provable. *)

\* A list holds its own admissions of the last hour, and may hold older ones.
ListsComplete ==
  /\ IsFiniteSet(admitted)
  /\ \A p \in Processes, k \in Keys : \A s \in counters[p][k] :
       s \in admitted /\ s.process = p /\ s.key = k
  /\ \A a \in admitted : /\ a.at <= now
                         /\ a.at > now - HourWindow => a \in counters[a.process][a.key]

\* Requests that were let in, or counted before another, have been dispatched.
DispatchedOnce ==
  /\ \A a \in admitted : pc[a.request] # "new"
  /\ \A r \in Requests : pc[r] \in {"inside", "answered", "refused"} =>
       job[r] \in Job /\ \A q \in job[r].before : pc[q] # "new"

Counted(r) ==
  {s \in Within(counters[job[r].process][job[r].key], MinuteWindow) : s.request \in job[r].before}

\* What is left of the requests a header counted, and what it promised, fit in.
PromisesFit ==
  \A r \in Requests : pc[r] \in {"inside", "answered"} =>
    Cardinality(Counted(r)) + job[r].remaining <= MaxRequests

\* While a refused client keeps still its list only shrinks, all of it is from
\* before the refusal, and the stamp it was told to wait for is on it or there is
\* room already.
WaitsAreLongEnough ==
  \A r \in Requests :
    LET j == job[r]
        list == counters[j.process][j.key]
    IN  pc[r] = "refused" /\ j.early /\ LetIn(j.process, j.key) = j.before =>
          /\ \A s \in list : s.at <= j.at
          /\ Cardinality(list) < MaxPerHour
          /\ Cardinality(list) <= MaxRequests
          /\ \/ Cardinality(list) < MaxRequests
             \/ \E s \in list : s.at + MinuteWindow <= BackAt(j)

IInv ==
  /\ TypeOK
  /\ ListsComplete
  /\ DispatchedOnce
  /\ WindowsRespected
  /\ PromisesFit
  /\ WaitsAreLongEnough
=============================================================================

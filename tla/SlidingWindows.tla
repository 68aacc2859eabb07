--------------------------- MODULE SlidingWindows ---------------------------
(***************************************************************************)
(* What the rate limiter promises, without lists that are pruned, headers  *)
(* or answers: each process keeps, for each key, every request it ever let *)
(* through, and lets the next one through exactly when each of the three   *)
(* windows that end with it has room.                                      *)
(***************************************************************************)
EXTENDS Integers, FiniteSets

CONSTANTS Processes, Keys, Requests,
          BurstWindow, MinuteWindow, HourWindow,
          MaxBurst, MaxRequests, MaxPerHour

VARIABLES log,       \* every request let through, where, under which key and when
          verdict,   \* what each request was told, and by which process under which
                     \* key: <<"admitted", p, k>>, <<"refused", p, k>>, <<"unseen">>
                     \* (not limited) or, not yet anything, <<"none">>
          clock      \* the time

windowVars == <<log, verdict, clock>>

WindowInit ==
  /\ log = {}
  /\ verdict = [r \in Requests |-> <<"none">>]
  /\ clock = 0

\* The window of the last span ticks.
Latest(p, k, span) == {a \in log : a.process = p /\ a.key = k /\ a.at > clock - span}

Room(p, k) ==
  /\ Cardinality(Latest(p, k, BurstWindow)) < MaxBurst
  /\ Cardinality(Latest(p, k, MinuteWindow)) < MaxRequests
  /\ Cardinality(Latest(p, k, HourWindow)) < MaxPerHour

Decide(r, answer) ==
  /\ verdict[r] = <<"none">>
  /\ verdict' = [verdict EXCEPT ![r] = answer]
  /\ UNCHANGED clock

LetThrough(r, p, k) ==
  /\ Room(p, k)
  /\ Decide(r, <<"admitted", p, k>>)
  /\ log' = log \union {[process |-> p, key |-> k, request |-> r, at |-> clock]}

TurnAway(r, p, k) ==
  /\ ~Room(p, k)
  /\ Decide(r, <<"refused", p, k>>)
  /\ UNCHANGED log

Ignore(r) ==
  /\ Decide(r, <<"unseen">>)
  /\ UNCHANGED log

Elapse ==
  /\ clock' = clock + 1
  /\ UNCHANGED <<log, verdict>>

WindowNext ==
  \/ Elapse
  \/ \E r \in Requests :
       \/ \E p \in Processes, k \in Keys : LetThrough(r, p, k) \/ TurnAway(r, p, k)
       \/ Ignore(r)

WindowSafety == WindowInit /\ [][WindowNext]_windowVars
=============================================================================

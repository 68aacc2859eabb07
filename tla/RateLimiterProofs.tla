------------------------- MODULE RateLimiterProofs -------------------------
(***************************************************************************)
(* Proofs about RateLimiter, for every number of processes, keys and       *)
(* requests and every choice of the windows and limits: the windows hold   *)
(* in every stretch of time, nobody is refused without cause, and the      *)
(* headers of the answers keep their promises.                             *)
(***************************************************************************)
EXTENDS RateLimiter, FiniteSetTheorems, WellFoundedInduction, TLAPS

-----------------------------------------------------------------------------
(* The operators. *)

\* A set of naturals has a least element.
LEMMA LeastNatural ==
  ASSUME NEW T, T \subseteq Nat, T # {}
  PROVE  \E t \in T : \A u \in T : t <= u
<1> DEFINE R == {ss \in Nat \X Nat : ss[1] < ss[2]}
<1>1. IsWellFoundedOn(R, Nat)
  BY NatLessThanWellFounded, Zenon DEF OpToRel
<1>2. PICK t \in T : \A u \in T : <<u, t>> \notin R
  <2> HIDE DEF R
  <2> QED
    BY <1>1, WFMin
<1>3. ASSUME NEW u \in T
      PROVE  t <= u
  <2>1. <<u, t>> \in Nat \X Nat /\ <<u, t>> \notin R
    BY <1>2
  <2>2. ~(u < t)
    BY <2>1
  <2>3. QED
    BY <2>2
<1>4. QED
  BY <1>3

\* The oldest of some stamps is the time of one of them.
LEMMA OldestStamp ==
  ASSUME NEW stamps, stamps \subseteq Stamp, stamps # {}
  PROVE  /\ \E s \in stamps : s.at = Oldest(stamps)
         /\ Oldest(stamps) \in Nat
<1> DEFINE T == {s.at : s \in stamps}
<1>1. T \subseteq Nat /\ T # {}
  BY DEF Stamp
<1>2. \E t \in T : \A u \in T : t <= u
  <2> HIDE DEF T
  <2> QED
    BY <1>1, LeastNatural
<1>3. \E t \in T : \A s \in stamps : t <= s.at
  BY <1>2
<1>4. Oldest(stamps) \in T
  BY <1>3 DEF Oldest
<1>5. QED
  BY <1>1, <1>4

\* A product of whole numbers is one.
LEMMA ProductInt ==
  ASSUME NEW a \in Int, NEW b \in Int
  PROVE  a * b \in Int
OBVIOUS

\* Whole seconds, at least one, and one more are longer than what they are cut
\* from.
LEMMA WaitFits ==
  ASSUME NEW left \in Int
  PROVE  /\ Greater(1, left \div Second) \in Nat
         /\ left <= (Greater(1, left \div Second) + 1) * Second
<1> DEFINE whole == left \div Second
<1>1. Second \in Nat \ {0}
  BY LimiterAssumption
<1>2. whole \in Int
  BY <1>1
<1>3. left < (whole + 1) * Second
  BY <1>1
<1>4. CASE whole >= 1
  <2>1. Greater(1, whole) = whole /\ whole \in Nat
    BY <1>2, <1>4 DEF Greater
  <2>2. left <= (whole + 1) * Second
    BY <1>1, <1>2, <1>3
  <2>3. QED
    BY <2>1, <2>2
<1>5. CASE whole < 1
  <2>1. whole + 1 <= 2 /\ (whole + 1) * Second <= 2 * Second
    BY <1>1, <1>2, <1>5
  <2>2. left <= 2 * Second
    BY <1>1, <1>2, <1>3, <2>1
  <2>3. Greater(1, whole) = 1
    BY <1>2, <1>5 DEF Greater
  <2>4. QED
    BY <2>2, <2>3
<1>6. /\ Greater(1, whole) \in Nat
      /\ left <= (Greater(1, whole) + 1) * Second
  BY <1>2, <1>4, <1>5
<1>7. QED
  BY <1>6

\* Retry-After is a time, and reaches to the end of the minute of some stamp.
LEMMA RetryAfterFits ==
  ASSUME NEW stamps, stamps \subseteq Stamp, now \in Nat
  PROVE  /\ RetryAfter(stamps) \in Nat
         /\ stamps # {} =>
              \E s \in stamps : s.at + MinuteWindow <= now + (RetryAfter(stamps) + 1) * Second
<1> USE LimiterAssumption
<1>1. CASE stamps = {}
  BY <1>1 DEF RetryAfter
<1>2. CASE stamps # {}
  <2>1. PICK s \in stamps : s.at = Oldest(stamps)
    BY <1>2, OldestStamp
  <2>2. Oldest(stamps) \in Nat
    BY <1>2, OldestStamp
  <2> DEFINE left == Oldest(stamps) + MinuteWindow - now
             wait == Greater(1, left \div Second)
  <2>3. RetryAfter(stamps) = wait
    BY <1>2 DEF RetryAfter
  <2>4. wait \in Nat /\ left <= (wait + 1) * Second
    BY <2>2, WaitFits
  <2>5. (wait + 1) * Second \in Int
    BY <2>4, ProductInt
  <2>6. s.at + MinuteWindow <= now + (wait + 1) * Second
    BY <2>1, <2>2, <2>4, <2>5
  <2>7. QED
    BY <2>1, <2>3, <2>4, <2>6
<1>3. QED
  BY <1>1, <1>2

\* A smaller window holds part of a larger one, of part of the list.
LEMMA WithinPart ==
  ASSUME NEW S, NEW T, T \subseteq S, T \subseteq Stamp, now \in Nat,
         NEW a \in Nat, NEW b \in Nat, a <= b
  PROVE  /\ Within(T, a) \subseteq T
         /\ Within(T, a) \subseteq Within(S, b)
         /\ Within(Within(T, b), a) = Within(T, a)
<1>1. \A s \in T : s.at \in Nat
  BY DEF Stamp
<1>2. QED
  BY <1>1 DEF Within

\* A part of a finite set is finite and no larger.
LEMMA PartSmaller ==
  ASSUME NEW S, IsFiniteSet(S), NEW T, T \subseteq S
  PROVE  /\ IsFiniteSet(T)
         /\ Cardinality(S) \in Nat /\ Cardinality(T) \in Nat
         /\ Cardinality(T) <= Cardinality(S)
         /\ T # S => Cardinality(T) < Cardinality(S)
<1>1. IsFiniteSet(T) /\ Cardinality(T) <= Cardinality(S) /\ (Cardinality(S) = Cardinality(T) => S = T)
  BY FS_Subset
<1>2. Cardinality(S) \in Nat /\ Cardinality(T) \in Nat
  BY <1>1, FS_CardinalityType
<1>3. QED
  BY <1>1, <1>2

\* Remaining is a number, and with the requests counted it fits into the limit.
LEMMA RemainingFits ==
  ASSUME NEW stamps, IsFiniteSet(stamps)
  PROVE  /\ Remaining(stamps) \in Nat
         /\ Cardinality(Within(stamps, MinuteWindow)) < MaxRequests =>
              Cardinality(Within(stamps, MinuteWindow)) + 1 + Remaining(stamps) <= MaxRequests
<1>1. Cardinality(Within(stamps, MinuteWindow)) \in Nat
  BY PartSmaller DEF Within
<1>2. QED
  BY <1>1, LimiterAssumption DEF Remaining, Greater

-----------------------------------------------------------------------------
(* The types. *)

LEMMA TypeInit == Init => TypeOK
BY LimiterAssumption DEF Init, TypeOK, Places, Stamp

\* What a decision does to the types.
LEMMA DispatchType ==
  ASSUME TypeOK, IsFiniteSet(admitted),
         \A p \in Processes, k \in Keys : counters[p][k] \subseteq admitted,
         NEW r \in Requests, NEW p \in Processes, NEW k \in Keys, Dispatch(r, p, k)
  PROVE  TypeOK' /\ job'[r] \in Job
<1> DEFINE stamps == Pruned(p, k)
<1> USE LimiterAssumption
<1>1. stamps \subseteq Stamp /\ stamps \subseteq counters[p][k] /\ now \in Nat
  BY DEF TypeOK, Pruned, Within
<1>2. IsFiniteSet(stamps)
  BY <1>1, FS_Subset
<1>3. StampOf(r, p, k) \in Stamp
  BY <1>1 DEF StampOf, Stamp
<1>4. LetIn(p, k) \subseteq Requests
  BY DEF LetIn, TypeOK, Stamp
<1>5. CASE Refuse(r, p, k, stamps)
  <2>1. RetryAfter(stamps) \in Nat
    BY <1>1, RetryAfterFits
  <2>2. job'[r] \in Job /\ \A q \in Requests \ {r} : job'[q] = job[q]
    BY <1>1, <1>4, <1>5, <2>1 DEF Refuse, TypeOK, Job
  <2>3. counters' \in [Processes -> [Keys -> SUBSET Stamp]]
    BY <1>1, <1>5 DEF Refuse, TypeOK
  <2>4. QED
    BY <1>5, <2>2, <2>3 DEF Refuse, TypeOK, Places
<1>6. CASE Admit(r, p, k, stamps)
  <2>1. Remaining(stamps) \in Nat
    BY <1>2, RemainingFits
  <2>2. job'[r] \in Job /\ \A q \in Requests \ {r} : job'[q] = job[q]
    BY <1>1, <1>4, <1>6, <2>1 DEF Admit, TypeOK, Job
  <2>3. counters' \in [Processes -> [Keys -> SUBSET Stamp]]
    BY <1>1, <1>3, <1>6 DEF Admit, TypeOK
  <2>4. QED
    BY <1>3, <1>6, <2>2, <2>3 DEF Admit, TypeOK, Places
<1>7. QED
  BY <1>5, <1>6 DEF Dispatch

LEMMA TypeStep ==
  ASSUME TypeOK, ListsComplete, [Next]_vars
  PROVE  TypeOK'
<1> USE LimiterAssumption
<1>1. CASE Tick
  BY <1>1 DEF Tick, TypeOK
<1>2. ASSUME NEW r \in Requests, NEW p \in Processes, NEW k \in Keys, Dispatch(r, p, k)
      PROVE  TypeOK'
  BY <1>2, DispatchType DEF ListsComplete
<1>3. ASSUME NEW r \in Requests, Preflight(r) \/ Respond(r)
      PROVE  TypeOK'
  BY <1>3 DEF Preflight, Respond, TypeOK, Places
<1>4. CASE UNCHANGED vars
  BY <1>4 DEF vars, TypeOK
<1>5. QED
  BY <1>1, <1>2, <1>3, <1>4 DEF Next

-----------------------------------------------------------------------------
(* The lists. *)

\* The lists are finite, and so is what passed in any stretch of time.
LEMMA Finite ==
  ASSUME TypeOK, ListsComplete, NEW p \in Processes, NEW k \in Keys
  PROVE  /\ IsFiniteSet(counters[p][k])
         /\ counters[p][k] \subseteq Stamp
         /\ Pruned(p, k) \subseteq counters[p][k]
         /\ IsFiniteSet(Pruned(p, k))
         /\ \A t, span \in Nat : IsFiniteSet(Passed(p, k, t, span))
<1>1. IsFiniteSet(admitted) /\ counters[p][k] \subseteq admitted
  BY DEF ListsComplete
<1>2. Pruned(p, k) \subseteq counters[p][k]
  BY DEF Pruned, Within
<1>3. \A t, span \in Nat : Passed(p, k, t, span) \subseteq admitted
  BY DEF Passed
<1>4. QED
  BY <1>1, <1>2, <1>3, FS_Subset DEF TypeOK

\* The window on the pruned list is what passed in the stretch that ends now.
LEMMA WindowsComplete ==
  ASSUME TypeOK, ListsComplete, NEW p \in Processes, NEW k \in Keys,
         NEW span \in Nat, span <= HourWindow
  PROVE  /\ Within(Pruned(p, k), span) = Passed(p, k, now, span)
         /\ Within(Pruned(p, k), HourWindow) = Pruned(p, k)
<1> USE LimiterAssumption
<1>1. now \in Nat /\ \A s \in admitted : s.at \in Nat
  BY DEF TypeOK, Stamp
<1>2. \A s \in counters[p][k] : s \in admitted /\ s.process = p /\ s.key = k
  BY DEF ListsComplete
<1>3. \A s \in admitted : s.at <= now
  BY DEF ListsComplete
<1>4. \A s \in admitted : s.process = p /\ s.key = k /\ s.at > now - HourWindow
        => s \in counters[p][k]
  BY DEF ListsComplete
<1>5. Within(Pruned(p, k), span) \subseteq Passed(p, k, now, span)
  BY <1>1, <1>2, <1>3 DEF Within, Pruned, Passed
<1>6. Passed(p, k, now, span) \subseteq Within(Pruned(p, k), span)
  BY <1>1, <1>4 DEF Within, Pruned, Passed
<1>7. QED
  BY <1>5, <1>6 DEF Pruned, Within

\* The steps of requests that are not dispatched, or are already.
LEMMA ListsStep ==
  ASSUME TypeOK, ListsComplete, DispatchedOnce, [Next]_vars
  PROVE  ListsComplete' /\ DispatchedOnce'
<1> USE LimiterAssumption
<1>0. now \in Nat /\ \A s \in admitted : s.at \in Nat
  BY DEF TypeOK, Stamp
<1>1. CASE Tick
  <2>1. ListsComplete'
    BY <1>0, <1>1 DEF Tick, ListsComplete
  <2>2. DispatchedOnce'
    BY <1>1 DEF Tick, DispatchedOnce
  <2>3. QED
    BY <2>1, <2>2
<1>2. ASSUME NEW r \in Requests, NEW p \in Processes, NEW k \in Keys, Dispatch(r, p, k)
      PROVE  ListsComplete' /\ DispatchedOnce'
  <2> DEFINE stamps == Pruned(p, k)
  <2>1. /\ now' = now /\ pc[r] = "new"
        /\ \/ Refuse(r, p, k, stamps)
           \/ Admit(r, p, k, stamps)
    BY <1>2 DEF Dispatch, Refuse, Admit
  <2>2. /\ \A s \in stamps : s \in counters[p][k]
        /\ \A s \in counters[p][k] : s.at > now - HourWindow => s \in stamps
    BY DEF Pruned, Within
  <2>3. /\ \A q \in Processes, l \in Keys : <<q, l>> # <<p, k>> => counters'[q][l] = counters[q][l]
        /\ counters'[p][k] \in {stamps, stamps \union {StampOf(r, p, k)}}
    BY <2>1 DEF Refuse, Admit, TypeOK
  <2>4. StampOf(r, p, k) \in Stamp /\ StampOf(r, p, k).at = now
        /\ StampOf(r, p, k).process = p /\ StampOf(r, p, k).key = k
        /\ StampOf(r, p, k).request = r
    BY <1>0 DEF StampOf, Stamp
  <2>5. \/ admitted' = admitted /\ counters'[p][k] = stamps
        \/ /\ admitted' = admitted \union {StampOf(r, p, k)}
           /\ counters'[p][k] = stamps \union {StampOf(r, p, k)}
    BY <2>1 DEF Refuse, Admit, TypeOK
  <2>6. IsFiniteSet(admitted')
    BY <2>5, FS_AddElement DEF ListsComplete
  <2>7. \A q \in Processes, l \in Keys : \A s \in counters'[q][l] :
          s \in admitted' /\ s.process = q /\ s.key = l
    BY <2>2, <2>3, <2>4, <2>5 DEF ListsComplete
  <2>8. \A a \in admitted' : a.at <= now /\ a.process \in Processes /\ a.key \in Keys
    BY <1>0, <2>4, <2>5 DEF ListsComplete, TypeOK, Stamp
  <2>9. \A a \in admitted' : a.at > now - HourWindow => a \in counters'[a.process][a.key]
    BY <2>2, <2>3, <2>4, <2>5, <2>8 DEF ListsComplete
  <2>10. ListsComplete'
    BY <2>1, <2>6, <2>7, <2>8, <2>9 DEF ListsComplete
  <2>11. /\ pc'[r] \in {"refused", "inside"}
         /\ \A q \in Requests \ {r} : pc'[q] = pc[q] /\ job'[q] = job[q]
    BY <2>1 DEF Refuse, Admit, TypeOK
  <2>12. job'[r].before \subseteq LetIn(p, k) \union {r}
    BY <2>1 DEF Refuse, Admit, TypeOK
  <2>13. \A q \in LetIn(p, k) : q \in Requests /\ pc[q] # "new"
    BY DEF LetIn, DispatchedOnce, TypeOK, Stamp
  <2>14. job'[r] \in Job
    BY <1>2, DispatchType DEF ListsComplete
  <2>15. \A a \in admitted' : pc'[a.request] # "new"
    BY <2>4, <2>5, <2>11 DEF DispatchedOnce, TypeOK, Stamp
  <2>16. \A q \in Requests : pc'[q] \in {"inside", "answered", "refused"} =>
           job'[q] \in Job /\ \A o \in job'[q].before : pc'[o] # "new"
    BY <2>11, <2>12, <2>13, <2>14 DEF DispatchedOnce, Job
  <2>17. QED
    BY <2>10, <2>15, <2>16 DEF DispatchedOnce
<1>3. ASSUME NEW r \in Requests, Preflight(r) \/ Respond(r)
      PROVE  ListsComplete' /\ DispatchedOnce'
  <2>1. UNCHANGED <<now, counters, job, admitted>>
    BY <1>3 DEF Preflight, Respond
  <2>2. /\ pc'[r] # "new" /\ \A q \in Requests \ {r} : pc'[q] = pc[q]
        /\ pc'[r] \in {"inside", "answered", "refused"} =>
             pc[r] \in {"inside", "answered", "refused"}
    BY <1>3 DEF Preflight, Respond, TypeOK
  <2>3. ListsComplete'
    BY <2>1 DEF ListsComplete
  <2>4. DispatchedOnce'
    BY <2>1, <2>2 DEF DispatchedOnce, TypeOK, Stamp, Job
  <2>5. QED
    BY <2>3, <2>4
<1>4. CASE UNCHANGED vars
  BY <1>4 DEF vars, ListsComplete, DispatchedOnce
<1>5. QED
  BY <1>1, <1>2, <1>3, <1>4 DEF Next

-----------------------------------------------------------------------------
(* The windows. *)

\* There is room in every window of a list that is not full.
LEMMA RoomLeft ==
  ASSUME TypeOK, ListsComplete, NEW p \in Processes, NEW k \in Keys, ~Full(Pruned(p, k))
  PROVE  /\ Cardinality(Passed(p, k, now, BurstWindow)) < MaxBurst
         /\ Cardinality(Passed(p, k, now, MinuteWindow)) < MaxRequests
         /\ Cardinality(Passed(p, k, now, HourWindow)) < MaxPerHour
<1> USE LimiterAssumption
<1>1. /\ Within(Pruned(p, k), BurstWindow) = Passed(p, k, now, BurstWindow)
      /\ Within(Pruned(p, k), MinuteWindow) = Passed(p, k, now, MinuteWindow)
      /\ Pruned(p, k) = Passed(p, k, now, HourWindow)
  BY WindowsComplete
<1>2. now \in Nat
  BY DEF TypeOK
<1>3. /\ Cardinality(Passed(p, k, now, BurstWindow)) \in Nat
      /\ Cardinality(Passed(p, k, now, MinuteWindow)) \in Nat
      /\ Cardinality(Passed(p, k, now, HourWindow)) \in Nat
  BY <1>2, Finite, FS_CardinalityType
<1>4. QED
  BY <1>1, <1>3 DEF Full

\* One stretch of time, when it grows by a second or by one request.
LEMMA StretchStep ==
  ASSUME TypeOK, ListsComplete, NEW p \in Processes, NEW k \in Keys,
         NEW span \in Nat, NEW limit \in Nat,
         \A t \in 0..now : Cardinality(Passed(p, k, t, span)) <= limit
  PROVE  /\ Tick => \A t \in 0..now' : Cardinality(Passed(p, k, t, span)') <= limit
         /\ \A r \in Requests, q \in Processes, l \in Keys :
              /\ admitted' = admitted \union {StampOf(r, q, l)}
              /\ Cardinality(Passed(p, k, now, span)) < limit \/ q # p \/ l # k
              => \A t \in 0..now : Cardinality(Passed(p, k, t, span)') <= limit
<1>0. now \in Nat /\ \A s \in admitted : s.at \in Nat /\ s.at <= now
  BY DEF TypeOK, Stamp, ListsComplete
<1>1. ASSUME Tick, NEW t \in 0..now'
      PROVE  Cardinality(Passed(p, k, t, span)') <= limit
  <2>1. now' = now + 1 /\ Passed(p, k, t, span)' = Passed(p, k, t, span)
    BY <1>1 DEF Tick, Passed
  <2>2. CASE t \in 0..now
    BY <2>1, <2>2
  <2>3. CASE t = now + 1
    <3>1. Passed(p, k, t, span) \subseteq Passed(p, k, now, span)
      BY <1>0, <2>3 DEF Passed
    <3>2. IsFiniteSet(Passed(p, k, now, span)) /\ now \in 0..now
      BY <1>0, Finite
    <3>3. QED
      BY <2>1, <3>1, <3>2, PartSmaller
  <2>4. QED
    BY <1>0, <2>1, <2>2, <2>3
<1>2. ASSUME NEW r \in Requests, NEW q \in Processes, NEW l \in Keys,
             admitted' = admitted \union {StampOf(r, q, l)},
             Cardinality(Passed(p, k, now, span)) < limit \/ q # p \/ l # k,
             NEW t \in 0..now
      PROVE  Cardinality(Passed(p, k, t, span)') <= limit
  <2> DEFINE new == StampOf(r, q, l)
  <2>1. new.at = now /\ new.process = q /\ new.key = l
    BY DEF StampOf
  <2>2. CASE t # now \/ q # p \/ l # k
    <3>1. Passed(p, k, t, span)' = Passed(p, k, t, span)
      <4>1. ~(new.process = p /\ new.key = k /\ t - span < new.at /\ new.at <= t)
        BY <1>0, <2>1, <2>2
      <4>2. QED
        BY <1>2, <4>1 DEF Passed
    <3>2. QED
      BY <3>1
  <2>3. CASE t = now /\ q = p /\ l = k
    <3>1. Passed(p, k, t, span)' \subseteq Passed(p, k, now, span) \union {new}
      BY <1>2, <2>3 DEF Passed
    <3>2. IsFiniteSet(Passed(p, k, now, span))
      BY <1>0, Finite
    <3>3. /\ IsFiniteSet(Passed(p, k, now, span) \union {new})
          /\ Cardinality(Passed(p, k, now, span) \union {new}) <= limit
      <4>1. Cardinality(Passed(p, k, now, span)) \in Nat
        BY <3>2, FS_CardinalityType
      <4>2. Cardinality(Passed(p, k, now, span)) < limit
        BY <1>2, <2>3
      <4>3. /\ IsFiniteSet(Passed(p, k, now, span) \union {new})
            /\ \/ Cardinality(Passed(p, k, now, span) \union {new})
                   = Cardinality(Passed(p, k, now, span))
               \/ Cardinality(Passed(p, k, now, span) \union {new})
                   = Cardinality(Passed(p, k, now, span)) + 1
        BY <3>2, FS_AddElement
      <4>4. QED
        BY <4>1, <4>2, <4>3
    <3>4. QED
      BY <3>1, <3>3, PartSmaller
  <2>4. QED
    BY <2>2, <2>3
<1>3. QED
  BY <1>1, <1>2

LEMMA WindowsStep ==
  ASSUME TypeOK, ListsComplete, WindowsRespected, [Next]_vars
  PROVE  WindowsRespected'
<1> USE LimiterAssumption
<1>1. CASE Tick
  <2>1. ASSUME NEW p \in Processes, NEW k \in Keys, NEW t \in 0..now'
        PROVE  /\ Cardinality(Passed(p, k, t, BurstWindow)') <= MaxBurst
               /\ Cardinality(Passed(p, k, t, MinuteWindow)') <= MaxRequests
               /\ Cardinality(Passed(p, k, t, HourWindow)') <= MaxPerHour
    <3>1. Cardinality(Passed(p, k, t, BurstWindow)') <= MaxBurst
      BY <1>1, StretchStep DEF WindowsRespected
    <3>2. Cardinality(Passed(p, k, t, MinuteWindow)') <= MaxRequests
      BY <1>1, StretchStep DEF WindowsRespected
    <3>3. Cardinality(Passed(p, k, t, HourWindow)') <= MaxPerHour
      BY <1>1, StretchStep DEF WindowsRespected
    <3>4. QED
      BY <3>1, <3>2, <3>3
  <2>2. QED
    BY <2>1 DEF WindowsRespected
<1>2. ASSUME NEW r \in Requests, NEW q \in Processes, NEW l \in Keys, Dispatch(r, q, l)
      PROVE  WindowsRespected'
  <2> DEFINE stamps == Pruned(q, l)
  <2>1. CASE Full(stamps)
    <3>1. now' = now /\ admitted' = admitted
      BY <1>2, <2>1 DEF Dispatch, Refuse
    <3>2. \A p \in Processes, k \in Keys, t \in 0..now, span \in Nat :
            Passed(p, k, t, span)' = Passed(p, k, t, span)
      BY <3>1 DEF Passed
    <3>3. QED
      BY <3>1, <3>2 DEF WindowsRespected
  <2>2. CASE ~Full(stamps)
    <3>1. now' = now /\ admitted' = admitted \union {StampOf(r, q, l)}
      BY <1>2, <2>2 DEF Dispatch, Admit
    <3>2. /\ Cardinality(Passed(q, l, now, BurstWindow)) < MaxBurst
          /\ Cardinality(Passed(q, l, now, MinuteWindow)) < MaxRequests
          /\ Cardinality(Passed(q, l, now, HourWindow)) < MaxPerHour
      BY <2>2, RoomLeft
    <3>3. ASSUME NEW p \in Processes, NEW k \in Keys, NEW t \in 0..now
          PROVE  /\ Cardinality(Passed(p, k, t, BurstWindow)') <= MaxBurst
                 /\ Cardinality(Passed(p, k, t, MinuteWindow)') <= MaxRequests
                 /\ Cardinality(Passed(p, k, t, HourWindow)') <= MaxPerHour
      <4>1. Cardinality(Passed(p, k, t, BurstWindow)') <= MaxBurst
        BY <3>1, <3>2, StretchStep DEF WindowsRespected
      <4>2. Cardinality(Passed(p, k, t, MinuteWindow)') <= MaxRequests
        BY <3>1, <3>2, StretchStep DEF WindowsRespected
      <4>3. Cardinality(Passed(p, k, t, HourWindow)') <= MaxPerHour
        BY <3>1, <3>2, StretchStep DEF WindowsRespected
      <4>4. QED
        BY <4>1, <4>2, <4>3
    <3>4. QED
      BY <3>1, <3>3 DEF WindowsRespected
  <2>3. QED
    BY <2>1, <2>2
<1>3. ASSUME NEW r \in Requests, Preflight(r) \/ Respond(r)
      PROVE  WindowsRespected'
  BY <1>3 DEF Preflight, Respond, WindowsRespected, Passed
<1>4. CASE UNCHANGED vars
  BY <1>4 DEF vars, WindowsRespected, Passed
<1>5. QED
  BY <1>1, <1>2, <1>3, <1>4 DEF Next

-----------------------------------------------------------------------------
(* The headers. *)

\* What becomes of a list in a step: it loses stamps, or wins one of a request
\* that was not dispatched before.
LEMMA ListMoves ==
  ASSUME TypeOK, [Next]_vars, NEW p \in Processes, NEW k \in Keys
  PROVE  /\ now' >= now /\ now \in Nat /\ now' \in Nat
         /\ \A s \in counters'[p][k] :
              \/ s \in counters[p][k]
              \/ /\ s.request \in Requests /\ pc[s.request] = "new"
                 /\ pc'[s.request] # "new" /\ s.request \in LetIn(p, k)'
         /\ LetIn(p, k) \subseteq LetIn(p, k)'
         /\ \A q \in LetIn(p, k)' : q \in LetIn(p, k) \/ pc[q] = "new"
<1> USE LimiterAssumption
<1>1. CASE Tick \/ UNCHANGED vars \/ \E r \in Requests : Preflight(r) \/ Respond(r)
  BY <1>1 DEF Tick, Preflight, Respond, vars, TypeOK, LetIn
<1>2. ASSUME NEW r \in Requests, NEW q \in Processes, NEW l \in Keys, Dispatch(r, q, l)
      PROVE  /\ now' >= now /\ now \in Nat /\ now' \in Nat
             /\ \A s \in counters'[p][k] :
                  \/ s \in counters[p][k]
                  \/ /\ s.request \in Requests /\ pc[s.request] = "new"
                     /\ pc'[s.request] # "new" /\ s.request \in LetIn(p, k)'
             /\ LetIn(p, k) \subseteq LetIn(p, k)'
             /\ \A a \in LetIn(p, k)' : a \in LetIn(p, k) \/ pc[a] = "new"
  <2> DEFINE stamps == Pruned(q, l)
  <2>1. now' = now /\ pc[r] = "new" /\ (Refuse(r, q, l, stamps) \/ Admit(r, q, l, stamps))
    BY <1>2 DEF Dispatch, Refuse, Admit
  <2>2. stamps \subseteq counters[q][l]
    BY DEF Pruned, Within
  <2>3. \/ /\ counters'[p][k] \subseteq counters[p][k]
           /\ admitted \subseteq admitted'
        \/ /\ p = q /\ k = l
           /\ counters'[p][k] = stamps \union {StampOf(r, p, k)}
           /\ admitted' = admitted \union {StampOf(r, p, k)}
    BY <2>1, <2>2 DEF Refuse, Admit, TypeOK
  <2>4. StampOf(r, p, k).request = r /\ StampOf(r, p, k).process = p /\ StampOf(r, p, k).key = k
    BY DEF StampOf
  <2>5. pc'[r] # "new"
    BY <2>1 DEF Refuse, Admit, TypeOK
  <2>6. LetIn(p, k) \subseteq LetIn(p, k)'
    BY <2>3 DEF LetIn
  <2>7. StampOf(r, p, k) \in admitted' => r \in LetIn(p, k)'
    BY <2>4 DEF LetIn
  <2>8. now \in Nat
    BY DEF TypeOK
  <2>9. \A a \in LetIn(p, k)' : a \in LetIn(p, k) \/ pc[a] = "new"
    <3>1. admitted' \subseteq admitted \union {StampOf(r, q, l)} /\ StampOf(r, q, l).request = r
      BY <2>1 DEF Refuse, Admit, StampOf
    <3>2. QED
      BY <2>1, <3>1 DEF LetIn
  <2>10. QED
    BY <2>1, <2>2, <2>3, <2>4, <2>5, <2>6, <2>7, <2>8, <2>9
<1>3. QED
  BY <1>1, <1>2 DEF Next

\* Whoever is inside or answered was let in and keeps what it carries.
LEMMA JobKept ==
  ASSUME TypeOK, DispatchedOnce, [Next]_vars, NEW r \in Requests
  PROVE  /\ pc[r] # "new" => job'[r] = job[r]
         /\ pc'[r] \in {"inside", "answered"} /\ pc[r] # "new" => pc[r] \in {"inside", "answered"}
         /\ pc'[r] = "refused" /\ pc[r] # "new" => pc[r] = "refused"
         /\ pc[r] \in {"inside", "answered", "refused"} =>
              job[r].process \in Processes /\ job[r].key \in Keys
         /\ pc[r] = "new" /\ pc'[r] \in {"inside", "answered", "refused"} =>
              \E p \in Processes, k \in Keys : Dispatch(r, p, k)
<1>1. CASE Tick \/ UNCHANGED vars \/ \E q \in Requests : Preflight(q) \/ Respond(q)
  BY <1>1 DEF Tick, Preflight, Respond, vars, TypeOK, DispatchedOnce, Job
<1>2. ASSUME NEW q \in Requests, NEW p \in Processes, NEW k \in Keys, Dispatch(q, p, k)
      PROVE  /\ pc[q] = "new" /\ (pc'[r] # pc[r] \/ job'[r] # job[r] => q = r)
  BY <1>2 DEF Dispatch, Refuse, Admit, TypeOK
<1>3. pc[r] \in {"inside", "answered", "refused"} =>
        job[r].process \in Processes /\ job[r].key \in Keys
  BY DEF DispatchedOnce, Job
<1>4. QED
  BY <1>1, <1>2, <1>3 DEF Next

LEMMA PromisesStep ==
  ASSUME TypeOK, ListsComplete, DispatchedOnce, PromisesFit, [Next]_vars
  PROVE  PromisesFit'
<1> USE LimiterAssumption
<1>0. ListsComplete' /\ TypeOK'
  BY TypeStep, ListsStep
<1> SUFFICES ASSUME NEW r \in Requests, pc'[r] \in {"inside", "answered"}
             PROVE  Cardinality(Counted(r)') + job'[r].remaining <= MaxRequests
  BY DEF PromisesFit
<1>1. CASE pc[r] # "new"
  <2> DEFINE p == job[r].process
             k == job[r].key
  <2>1. /\ job'[r] = job[r] /\ pc[r] \in {"inside", "answered"}
        /\ p \in Processes /\ k \in Keys
        /\ \A q \in job[r].before : pc[q] # "new"
        /\ job[r].remaining \in Nat
    BY <1>1, JobKept DEF DispatchedOnce, Job
  <2>2. Counted(r)' \subseteq Counted(r)
    <3>1. now' >= now /\ now \in Nat /\ now' \in Nat
      BY <2>1, ListMoves
    <3>2. \A s \in counters'[p][k] : s \in counters[p][k] \/ pc[s.request] = "new"
      BY <2>1, ListMoves
    <3>3. counters[p][k] \subseteq Stamp /\ counters'[p][k] \subseteq Stamp
      BY <1>0, <2>1 DEF TypeOK
    <3>4. QED
      BY <2>1, <3>1, <3>2, <3>3 DEF Counted, Within, Stamp
  <2>3. IsFiniteSet(Counted(r))
    <3>1. Counted(r) \subseteq counters[p][k]
      BY DEF Counted, Within
    <3>2. QED
      BY <2>1, <3>1, Finite, FS_Subset
  <2>4. Cardinality(Counted(r)) + job[r].remaining <= MaxRequests
    BY <2>1 DEF PromisesFit
  <2>5. QED
    BY <2>1, <2>2, <2>3, <2>4, PartSmaller
<1>2. CASE pc[r] = "new"
  <2>1. PICK p \in Processes, k \in Keys : Dispatch(r, p, k)
    BY <1>2, JobKept
  <2> DEFINE stamps == Pruned(p, k)
             recent == Within(stamps, MinuteWindow)
             new == StampOf(r, p, k)
  <2>2. /\ ~Full(stamps)
        /\ counters'[p][k] = stamps \union {new} /\ now' = now
        /\ job'[r].process = p /\ job'[r].key = k /\ job'[r].remaining = Remaining(stamps)
    BY <2>1 DEF Dispatch, Refuse, Admit, TypeOK
  <2>3. IsFiniteSet(stamps) /\ IsFiniteSet(recent)
    <3>1. IsFiniteSet(stamps)
      BY Finite
    <3>2. QED
      BY <3>1, FS_Subset DEF Within
  <2>4. Counted(r)' \subseteq recent \union {new}
    BY <2>2 DEF Counted, Within
  <2>5. Cardinality(recent) \in Nat /\ Cardinality(recent) < MaxRequests
    BY <2>2, <2>3, FS_CardinalityType DEF Full
  <2>6. /\ IsFiniteSet(recent \union {new})
        /\ \/ Cardinality(recent \union {new}) = Cardinality(recent)
           \/ Cardinality(recent \union {new}) = Cardinality(recent) + 1
    BY <2>3, FS_AddElement
  <2>7. Remaining(stamps) \in Nat /\ Cardinality(recent) + 1 + Remaining(stamps) <= MaxRequests
    BY <2>3, <2>5, RemainingFits
  <2>8. /\ Cardinality(Counted(r)') \in Nat
        /\ Cardinality(Counted(r)') <= Cardinality(recent \union {new})
    BY <2>4, <2>6, PartSmaller
  <2>9. QED
    BY <2>2, <2>5, <2>6, <2>7, <2>8
<1>3. QED
  BY <1>1, <1>2

LEMMA WaitsStep ==
  ASSUME TypeOK, ListsComplete, DispatchedOnce, WindowsRespected, WaitsAreLongEnough, [Next]_vars
  PROVE  WaitsAreLongEnough'
<1> USE LimiterAssumption
<1>0. ListsComplete' /\ TypeOK'
  BY TypeStep, ListsStep
<1> SUFFICES ASSUME NEW r \in Requests,
                    pc'[r] = "refused", job'[r].early,
                    (LetIn(job[r].process, job[r].key) = job[r].before)'
             PROVE  (LET list == counters[job[r].process][job[r].key]
                     IN  /\ \A s \in list : s.at <= job[r].at
                         /\ Cardinality(list) < MaxPerHour
                         /\ Cardinality(list) <= MaxRequests
                         /\ \/ Cardinality(list) < MaxRequests
                            \/ \E s \in list : s.at + MinuteWindow <= BackAt(job[r]))'
  BY DEF WaitsAreLongEnough
<1>1. CASE pc[r] # "new"
  <2>1. /\ job'[r] = job[r] /\ pc[r] = "refused"
        /\ job[r].process \in Processes /\ job[r].key \in Keys
        /\ \A q \in job[r].before : pc[q] # "new"
    BY <1>1, JobKept DEF DispatchedOnce, Job
  <2>2. PICK p \in Processes, k \in Keys : p = job[r].process /\ k = job[r].key
    BY <2>1
  <2> DEFINE list == counters[p][k]
             next == counters'[p][k]
  <2>3. LetIn(p, k)' = job[r].before
    BY <2>1, <2>2
  <2>4. LetIn(p, k) = job[r].before
    <3>1. LetIn(p, k) \subseteq LetIn(p, k)'
      BY <2>2, ListMoves
    <3>2. \A q \in LetIn(p, k)' : q \in LetIn(p, k) \/ pc[q] = "new"
      BY <2>2, ListMoves
    <3> HIDE DEF list, next
    <3>3. QED
      BY <2>1, <2>3, <3>1, <3>2
  <2>5. next \subseteq list
    BY <2>1, <2>3, ListMoves
  <2>6. IsFiniteSet(list)
    BY Finite
  <2>7. /\ \A s \in list : s.at <= job[r].at
        /\ Cardinality(list) < MaxPerHour
        /\ Cardinality(list) <= MaxRequests
        /\ \/ Cardinality(list) < MaxRequests
           \/ \E s \in list : s.at + MinuteWindow <= BackAt(job[r])
    BY <2>1, <2>2, <2>4 DEF WaitsAreLongEnough
  <2>8. /\ Cardinality(list) \in Nat /\ Cardinality(next) \in Nat
        /\ Cardinality(next) <= Cardinality(list)
        /\ next # list => Cardinality(next) < Cardinality(list)
    BY <2>5, <2>6, PartSmaller
  <2>9. /\ Cardinality(next) < MaxPerHour
        /\ Cardinality(next) <= MaxRequests
        /\ \/ Cardinality(next) < MaxRequests
           \/ \E s \in next : s.at + MinuteWindow <= BackAt(job[r])
    BY <2>7, <2>8
  <2>10. \A s \in next : s.at <= job[r].at
    BY <2>5, <2>7
  <2>11. QED
    BY <2>1, <2>2, <2>9, <2>10
<1>2. CASE pc[r] = "new"
  <2>1. PICK p \in Processes, k \in Keys : Dispatch(r, p, k)
    BY <1>2, JobKept
  <2> DEFINE stamps == Pruned(p, k)
  <2>2. Refuse(r, p, k, stamps)
    BY <2>1 DEF Dispatch, Admit, TypeOK
  <2>3. /\ counters'[p][k] = stamps
        /\ job'[r].process = p /\ job'[r].key = k
        /\ job'[r].at = now /\ job'[r].retryAfter = RetryAfter(stamps)
        /\ stamps = Within(stamps, MinuteWindow) /\ Cardinality(stamps) < MaxPerHour
    <3>1. job'[r].early => stamps = Within(stamps, MinuteWindow) /\ Cardinality(stamps) < MaxPerHour
      BY <2>2, Zenon DEF Refuse, TypeOK
    <3>2. /\ counters'[p][k] = stamps
          /\ job'[r].process = p /\ job'[r].key = k
          /\ job'[r].at = now /\ job'[r].retryAfter = RetryAfter(stamps)
      BY <2>2 DEF Refuse, TypeOK
    <3>3. QED
      BY <3>1, <3>2
  <2>4. now \in Nat /\ stamps \subseteq Stamp /\ IsFiniteSet(stamps)
    BY Finite DEF TypeOK
  <2>5. stamps = Passed(p, k, now, MinuteWindow)
    BY <2>3, WindowsComplete
  <2>6. Cardinality(stamps) <= MaxRequests /\ Cardinality(stamps) \in Nat
    BY <2>4, <2>5, FS_CardinalityType DEF WindowsRespected
  <2>7. Cardinality(stamps) < MaxRequests \/ stamps # {}
    BY FS_EmptySet
  <2>8. stamps # {} => \E s \in stamps : s.at + MinuteWindow <= now + (RetryAfter(stamps) + 1) * Second
    BY <2>4, RetryAfterFits
  <2>9. BackAt(job'[r]) = now + (RetryAfter(stamps) + 1) * Second
    BY <2>3 DEF BackAt
  <2>10. stamps # {} => \E s \in stamps : s.at + MinuteWindow <= BackAt(job'[r])
    BY <2>8, <2>9
  <2>11. counters'[job'[r].process][job'[r].key] = stamps
    BY <2>3
  <2>12. \A s \in stamps : s.at <= now
    BY Finite DEF ListsComplete
  <2>13. QED
    BY <2>3, <2>6, <2>7, <2>10, <2>11, <2>12
<1>3. QED
  BY <1>1, <1>2

-----------------------------------------------------------------------------
(* The theorems. *)

LEMMA InvInit == Init => IInv
<1> SUFFICES ASSUME Init
             PROVE  IInv
  OBVIOUS
<1> USE LimiterAssumption
<1>1. TypeOK
  BY TypeInit
<1>2. ListsComplete
  BY FS_EmptySet DEF Init, ListsComplete
<1>3. DispatchedOnce /\ PromisesFit /\ WaitsAreLongEnough
  BY DEF Init, DispatchedOnce, PromisesFit, WaitsAreLongEnough
<1>4. \A p \in Processes, k \in Keys, t \in 0..now, span \in Nat : Passed(p, k, t, span) = {}
  BY DEF Init, Passed
<1>5. WindowsRespected
  BY <1>4, FS_EmptySet DEF WindowsRespected
<1>6. QED
  BY <1>1, <1>2, <1>3, <1>5 DEF IInv

LEMMA InvStep == IInv /\ [Next]_vars => IInv'
BY TypeStep, ListsStep, WindowsStep, PromisesStep, WaitsStep DEF IInv

LEMMA InvHolds == Spec => []IInv
BY InvInit, InvStep, PTL DEF Spec

\* Every variable has its type.
THEOREM TypeCorrect == Spec => []TypeOK
<1>1. IInv => TypeOK
  BY DEF IInv
<1>2. QED
  BY <1>1, InvHolds, PTL

\* No stretch of a second, a minute or an hour sees more requests than allowed.
THEOREM WindowsHold == Spec => []WindowsRespected
<1>1. IInv => WindowsRespected
  BY DEF IInv
<1>2. QED
  BY <1>1, InvHolds, PTL

\* A refusal has a window full of requests that were let in behind it.
THEOREM RefusalsJustified == Spec => RefusedOnlyWhenFull
<1> DEFINE Justified ==
      \A r \in Requests : pc[r] = "new" /\ pc'[r] = "refused" =>
        LET full(span, limit) ==
              Cardinality(Passed(job'[r].process, job'[r].key, now, span)) >= limit
        IN  \/ full(BurstWindow, MaxBurst)
            \/ full(MinuteWindow, MaxRequests)
            \/ full(HourWindow, MaxPerHour)
<1>1. IInv /\ [Next]_vars => [Justified]_vars
  <2> SUFFICES ASSUME IInv, Next, NEW r \in Requests, pc[r] = "new", pc'[r] = "refused"
               PROVE  LET full(span, limit) ==
                            Cardinality(Passed(job'[r].process, job'[r].key, now, span)) >= limit
                      IN  \/ full(BurstWindow, MaxBurst)
                          \/ full(MinuteWindow, MaxRequests)
                          \/ full(HourWindow, MaxPerHour)
    OBVIOUS
  <2> USE LimiterAssumption
  <2>1. PICK p \in Processes, k \in Keys : Dispatch(r, p, k)
    BY JobKept DEF IInv
  <2>2. /\ Full(Pruned(p, k))
        /\ job'[r].process = p /\ job'[r].key = k
    BY <2>1 DEF Dispatch, Refuse, Admit, IInv, TypeOK
  <2>3. /\ Within(Pruned(p, k), BurstWindow) = Passed(p, k, now, BurstWindow)
        /\ Within(Pruned(p, k), MinuteWindow) = Passed(p, k, now, MinuteWindow)
        /\ Pruned(p, k) = Passed(p, k, now, HourWindow)
    BY WindowsComplete DEF IInv
  <2>4. QED
    BY <2>2, <2>3 DEF Full
<1>2. QED
  BY <1>1, InvHolds, PTL DEF Spec, RefusedOnlyWhenFull

\* The windows a decision is made from are those of the complete record.
LEMMA RoomIsKnown ==
  ASSUME IInv, NEW p \in Processes, NEW k \in Keys
  PROVE  Full(Pruned(p, k)) <=> ~Windows!Room(p, k)
<1> USE LimiterAssumption DEF IInv
<1>1. ASSUME NEW span \in {BurstWindow, MinuteWindow, HourWindow}
      PROVE  Within(Pruned(p, k), span) = Windows!Latest(p, k, span)
  <2>1. Within(Pruned(p, k), span) = Passed(p, k, now, span)
    BY <1>1, WindowsComplete
  <2>2. now \in Nat /\ \A a \in admitted : a.at \in Nat /\ a.at <= now
    BY DEF TypeOK, Stamp, ListsComplete
  <2>3. \A a \in admitted : now - span < a.at <=> a.at > now - span
    BY <2>2
  <2>4. Passed(p, k, now, span) = Windows!Latest(p, k, span)
    BY <2>2, <2>3 DEF Passed, Windows!Latest
  <2>5. QED
    BY <2>1, <2>4
<1>2. Within(Pruned(p, k), HourWindow) = Pruned(p, k)
  BY WindowsComplete
<1>3. Cardinality(Windows!Latest(p, k, BurstWindow)) \in Nat
      /\ Cardinality(Windows!Latest(p, k, MinuteWindow)) \in Nat
      /\ Cardinality(Windows!Latest(p, k, HourWindow)) \in Nat
  BY PartSmaller DEF Windows!Latest, ListsComplete
<1>4. /\ Within(Pruned(p, k), BurstWindow) = Windows!Latest(p, k, BurstWindow)
      /\ Within(Pruned(p, k), MinuteWindow) = Windows!Latest(p, k, MinuteWindow)
      /\ Pruned(p, k) = Windows!Latest(p, k, HourWindow)
  BY <1>1, <1>2
<1>5. Full(Pruned(p, k))
        <=> \/ Cardinality(Windows!Latest(p, k, BurstWindow)) >= MaxBurst
            \/ Cardinality(Windows!Latest(p, k, MinuteWindow)) >= MaxRequests
            \/ Cardinality(Windows!Latest(p, k, HourWindow)) >= MaxPerHour
  BY <1>4 DEF Full
<1> DEFINE b == Cardinality(Windows!Latest(p, k, BurstWindow))
           m == Cardinality(Windows!Latest(p, k, MinuteWindow))
           h == Cardinality(Windows!Latest(p, k, HourWindow))
\* SlidingWindows counts with a Cardinality of its own, which is defined alike.
<1>6. Windows!Room(p, k) <=> b < MaxBurst /\ m < MaxRequests /\ h < MaxPerHour
  BY Zenon DEF Windows!Room, Windows!Cardinality, Cardinality
<1>7. Full(Pruned(p, k)) <=> b >= MaxBurst \/ m >= MaxRequests \/ h >= MaxPerHour
  BY <1>5
<1>8. b \in Nat /\ m \in Nat /\ h \in Nat
  BY <1>3
<1> HIDE DEF b, m, h
<1>9. QED
  BY <1>6, <1>7, <1>8

\* A step of one request changes its verdict alone.
LEMMA VerdictMoves ==
  ASSUME TypeOK, NEW r \in Requests, NEW place \in Places, pc' = [pc EXCEPT ![r] = place],
         \A q \in Requests \ {r} : job'[q] = job[q]
  PROVE  [q \in Requests |-> Verdict(q)]'
           = [[q \in Requests |-> Verdict(q)] EXCEPT ![r] = Verdict(r)']
<1>1. pc'[r] = place /\ \A q \in Requests \ {r} : pc'[q] = pc[q]
  BY DEF TypeOK
<1>2. \A q \in Requests \ {r} : Verdict(q)' = Verdict(q)
  BY <1>1 DEF Verdict
<1>3. QED
  BY <1>2

\* Every step is one of SlidingWindows, or none.
LEMMA WindowStep ==
  ASSUME IInv, [Next]_vars
  PROVE  [Windows!WindowNext]_(Windows!windowVars)
<1> USE DEF Windows!WindowNext, Windows!windowVars
<1>1. CASE Tick
  <2>1. UNCHANGED <<pc, job, admitted>> /\ now' = now + 1
    BY <1>1 DEF Tick
  <2>2. [q \in Requests |-> Verdict(q)]' = [q \in Requests |-> Verdict(q)]
    BY <2>1 DEF Verdict
  <2>3. QED
    BY <2>1, <2>2 DEF Windows!Elapse
<1>2. ASSUME NEW r \in Requests, NEW p \in Processes, NEW k \in Keys, Dispatch(r, p, k)
      PROVE  Windows!LetThrough(r, p, k) \/ Windows!TurnAway(r, p, k)
  <2>1. pc[r] = "new" /\ Verdict(r) = <<"none">> /\ pc \in [Requests -> Places]
    BY <1>2 DEF Dispatch, Verdict, IInv, TypeOK
  <2>2. CASE Full(Pruned(p, k))
    <3>1. Refuse(r, p, k, Pruned(p, k))
      BY <1>2, <2>2 DEF Dispatch
    <3>2. /\ UNCHANGED <<now, admitted>> /\ pc' = [pc EXCEPT ![r] = "refused"]
          /\ job'[r].process = p /\ job'[r].key = k
          /\ \A q \in Requests \ {r} : job'[q] = job[q]
      BY <3>1 DEF Refuse, IInv, TypeOK
    <3>3. Verdict(r)' = <<"refused", p, k>>
      BY <2>1, <3>2 DEF Verdict
    <3>4. [q \in Requests |-> Verdict(q)]'
            = [[q \in Requests |-> Verdict(q)] EXCEPT ![r] = <<"refused", p, k>>]
      BY <3>2, <3>3, VerdictMoves DEF IInv, Places
    <3>5. QED
      BY <2>1, <2>2, <3>2, <3>4, RoomIsKnown DEF Windows!TurnAway, Windows!Decide
  <2>3. CASE ~Full(Pruned(p, k))
    <3>1. Admit(r, p, k, Pruned(p, k))
      BY <1>2, <2>3 DEF Dispatch
    <3>2. /\ now' = now /\ pc' = [pc EXCEPT ![r] = "inside"]
          /\ admitted' = admitted \union
               {[process |-> p, key |-> k, request |-> r, at |-> now]}
          /\ job'[r].process = p /\ job'[r].key = k
          /\ \A q \in Requests \ {r} : job'[q] = job[q]
      BY <3>1 DEF Admit, StampOf, IInv, TypeOK
    <3>3. Verdict(r)' = <<"admitted", p, k>>
      BY <2>1, <3>2 DEF Verdict
    <3>4. [q \in Requests |-> Verdict(q)]'
            = [[q \in Requests |-> Verdict(q)] EXCEPT ![r] = <<"admitted", p, k>>]
      BY <3>2, <3>3, VerdictMoves DEF IInv, Places
    <3>5. QED
      BY <2>1, <2>3, <3>2, <3>4, RoomIsKnown DEF Windows!LetThrough, Windows!Decide
  <2>4. QED
    BY <2>2, <2>3
<1>3. ASSUME NEW r \in Requests, Preflight(r)
      PROVE  Windows!Ignore(r)
  <2>1. /\ pc[r] = "new" /\ UNCHANGED <<now, job, admitted>>
        /\ pc' = [pc EXCEPT ![r] = "preflight"] /\ pc \in [Requests -> Places]
    BY <1>3 DEF Preflight, IInv, TypeOK
  <2>2. Verdict(r) = <<"none">> /\ Verdict(r)' = <<"unseen">>
    BY <2>1 DEF Verdict
  <2>3. [q \in Requests |-> Verdict(q)]'
          = [[q \in Requests |-> Verdict(q)] EXCEPT ![r] = <<"unseen">>]
    BY <2>1, <2>2, VerdictMoves DEF IInv, Places
  <2>4. QED
    BY <2>1, <2>2, <2>3 DEF Windows!Ignore, Windows!Decide
<1>4. ASSUME NEW r \in Requests, Respond(r)
      PROVE  UNCHANGED Windows!windowVars
  <2>1. /\ pc[r] = "inside" /\ UNCHANGED <<now, job, admitted>>
        /\ pc' = [pc EXCEPT ![r] = "answered"] /\ pc \in [Requests -> Places]
    BY <1>4 DEF Respond, IInv, TypeOK
  <2>2. Verdict(r)' = Verdict(r)
    BY <2>1 DEF Verdict
  <2>3. \A q \in Requests : Verdict(q)' = Verdict(q)
    BY <2>1, <2>2 DEF Verdict
  <2>4. QED
    BY <2>1, <2>3
<1>5. CASE UNCHANGED vars
  <2>1. UNCHANGED <<now, admitted>> /\ \A q \in Requests : Verdict(q)' = Verdict(q)
    BY <1>5 DEF vars, Verdict
  <2>2. QED
    BY <2>1
<1>6. QED
  BY <1>1, <1>2, <1>3, <1>4, <1>5 DEF Next

\* The middleware decides each request as SlidingWindows does, from the complete
\* record of what the process let through under its key, although dispatch prunes
\* the list and three windows of different lengths share it.
THEOREM WindowsImplemented == Spec => ImplementsSlidingWindows
<1>1. Init => Windows!WindowInit
  BY DEF Init, Windows!WindowInit, Verdict
<1>2. IInv /\ [Next]_vars => [Windows!WindowNext]_(Windows!windowVars)
  BY WindowStep
<1>3. QED
  BY <1>1, <1>2, InvHolds, PTL DEF Spec, ImplementsSlidingWindows, Windows!WindowSafety

\* Who was refused with a list of the last minute only and room in the hour,
\* waits for as long as Retry-After says and a second more, and keeps still has
\* room in all three windows.
THEOREM WaitingHelps == Spec => []RetryAfterHonoured
<1>1. IInv => RetryAfterHonoured
  <2> SUFFICES ASSUME IInv, NEW r \in Requests, pc[r] = "refused", job[r].early,
                      now >= BackAt(job[r]),
                      LetIn(job[r].process, job[r].key) = job[r].before
               PROVE  ~Full(Pruned(job[r].process, job[r].key))
    BY DEF RetryAfterHonoured
  <2> USE LimiterAssumption DEF IInv
  <2>1. PICK p \in Processes, k \in Keys : p = job[r].process /\ k = job[r].key
    BY DEF DispatchedOnce, Job
  <2> DEFINE list == counters[p][k]
             pruned == Pruned(p, k)
             recent == Within(pruned, MinuteWindow)
  <2>2. /\ \A s \in list : s.at <= job[r].at
        /\ Cardinality(list) < MaxPerHour
        /\ Cardinality(list) <= MaxRequests
        /\ \/ Cardinality(list) < MaxRequests
           \/ \E s \in list : s.at + MinuteWindow <= BackAt(job[r])
    BY <2>1 DEF WaitsAreLongEnough
  <2>3. IsFiniteSet(list) /\ list \subseteq Stamp /\ pruned \subseteq list
    BY Finite
  <2>4. recent \subseteq pruned
    BY DEF Within
  <2>5. /\ Cardinality(list) \in Nat
        /\ Cardinality(pruned) <= Cardinality(list) /\ Cardinality(pruned) \in Nat
        /\ Cardinality(recent) <= Cardinality(list) /\ Cardinality(recent) \in Nat
        /\ recent # list => Cardinality(recent) < Cardinality(list)
    BY <2>3, <2>4, PartSmaller
  <2>6. ASSUME NEW s \in list, s.at + MinuteWindow <= BackAt(job[r])
        PROVE  s \notin recent
    <3>1. s.at \in Nat /\ now \in Nat /\ job[r].at \in Nat /\ job[r].retryAfter \in Nat
      BY <2>3 DEF Stamp, TypeOK, DispatchedOnce, Job
    <3> DEFINE back == BackAt(job[r])
    <3>2. back \in Int
      BY <3>1, ProductInt DEF BackAt
    <3> HIDE DEF back
    <3>3. now >= back /\ s.at + MinuteWindow <= back
      BY <2>6 DEF back
    <3>4. ~(s.at > now - MinuteWindow)
      BY <3>1, <3>2, <3>3
    <3>5. QED
      BY <3>4 DEF Within
  <2>7. Cardinality(recent) < MaxRequests
    BY <2>2, <2>5, <2>6
  <2>8. Cardinality(pruned) < MaxPerHour
    BY <2>2, <2>5
  <2>9. Within(pruned, BurstWindow) = {}
    <3>1. /\ now \in Nat /\ job[r].at \in Nat /\ job[r].retryAfter \in Nat
          /\ \A s \in pruned : s.at \in Nat /\ s.at <= job[r].at
      BY <2>2, <2>3 DEF Stamp, TypeOK, DispatchedOnce, Job
    <3> DEFINE wait == (job[r].retryAfter + 1) * Second
    <3>2. wait \in Int /\ wait >= Second
      <4>1. \A n \in Nat : (n + 1) * Second >= Second
        BY LimiterAssumption
      <4>2. QED
        BY <3>1, <4>1, ProductInt
    <3>3. now >= job[r].at + wait
      BY DEF BackAt
    <3> HIDE DEF wait
    <3>4. \A s \in pruned : ~(s.at > now - BurstWindow)
      BY <3>1, <3>2, <3>3
    <3>5. QED
      BY <3>4 DEF Within
  <2>10. Cardinality(Within(pruned, BurstWindow)) = 0
    BY <2>9, FS_EmptySet
  <2>11. QED
    BY <2>1, <2>5, <2>7, <2>8, <2>10 DEF Full
<1>2. QED
  BY <1>1, InvHolds, PTL

\* X-RateLimit-Remaining does not promise too much, however late it arrives.
THEOREM PromisesKept == Spec => []RemainingHonoured
<1>1. IInv => RemainingHonoured
  <2> SUFFICES ASSUME IInv, NEW r \in Requests, pc[r] \in {"inside", "answered"},
                      LET recent == Within(counters[job[r].process][job[r].key], MinuteWindow)
                      IN  Cardinality({s \in recent : s.request \notin job[r].before})
                            < job[r].remaining
               PROVE  Cardinality(Within(counters[job[r].process][job[r].key], MinuteWindow))
                        < MaxRequests
    BY DEF RemainingHonoured
  <2> USE LimiterAssumption DEF IInv
  <2>1. PICK p \in Processes, k \in Keys : p = job[r].process /\ k = job[r].key
    BY DEF DispatchedOnce, Job
  <2> DEFINE recent == Within(counters[p][k], MinuteWindow)
             later == {s \in recent : s.request \notin job[r].before}
  <2>2. recent \subseteq counters[p][k] /\ Counted(r) \subseteq recent /\ later \subseteq recent
    BY <2>1 DEF Within, Counted
  <2>3. IsFiniteSet(recent) /\ IsFiniteSet(Counted(r)) /\ IsFiniteSet(later)
    BY <2>2, Finite, FS_Subset
  <2>4. recent = Counted(r) \union later /\ Counted(r) \intersect later = {}
    BY <2>1 DEF Counted
  <2>5. Cardinality(recent) = Cardinality(Counted(r)) + Cardinality(later)
    <3>1. Cardinality(Counted(r) \union later)
            = Cardinality(Counted(r)) + Cardinality(later) - Cardinality(Counted(r) \intersect later)
      BY <2>3, FS_Union
    <3>2. Cardinality(Counted(r)) \in Nat /\ Cardinality(later) \in Nat
      BY <2>3, FS_CardinalityType
    <3>3. Cardinality(Counted(r) \intersect later) = 0
      BY <2>4, FS_EmptySet
    <3> HIDE DEF recent, later
    <3>4. QED
      BY <2>4, <3>1, <3>2, <3>3
  <2>6. Cardinality(Counted(r)) + job[r].remaining <= MaxRequests
    BY DEF PromisesFit
  <2>7. /\ Cardinality(Counted(r)) \in Nat /\ Cardinality(later) \in Nat
        /\ job[r].remaining \in Nat
    BY <2>3, FS_CardinalityType DEF DispatchedOnce, Job
  <2>8. Cardinality(later) < job[r].remaining
    BY <2>1
  <2>9. QED
    BY <2>1, <2>5, <2>6, <2>7, <2>8
<1>2. QED
  BY <1>1, InvHolds, PTL
=============================================================================

---------------------------- MODULE ServerProofs ----------------------------
(***************************************************************************)
(* Safety of the rate limiter, of the progress stream, of the audit trail, *)
(* of a scrape and of the boot, for every number of requests, clients,     *)
(* entries, replicas and jobs.                                             *)
(***************************************************************************)
EXTENDS RateLimit, EventStream, Sessions, Telemetry, Startup, DataLemmas, SequenceTheorems

-----------------------------------------------------------------------------
\* The rate limiter.  A hit still within its window of the present clock is still
\* in the table (Remembered), because no request prunes with a clock ahead of the
\* present one; and a waiting request's clock is at most MaxLag behind (Fresh).
\* So when a request is charged, every hit that shares a shortened window with it
\* is counted by HasRoom.

LimitTypeOK ==
  /\ clock \in Int
  /\ stamp \in [Calls -> Int]
  /\ windows \in [WindowKeys -> SUBSET Calls]
  /\ charged \in [WindowKeys -> SUBSET Calls]
  /\ verdict \in [Calls -> {"none", "allowed", "refused"}]

\* A stamp is never ahead of the clock, and a waiting one not far behind.
Fresh ==
  \A c \in Calls : /\ stamp[c] <= clock
                   /\ Waiting(c) => clock <= stamp[c] + MaxLag

\* Hits were stamped before they were charged, and are finitely many.
Stamped ==
  \A k \in WindowKeys : /\ IsFiniteSet(charged[k])
                        /\ windows[k] \subseteq charged[k]
                        /\ \A c \in charged[k] : stamp[c] # -1

\* What is still in its window has not been pruned.
Remembered ==
  \A k \in WindowKeys : \A c \in charged[k] :
     stamp[c] >= clock - Window[k[1]] => c \in windows[k]

LimitInv == LimitTypeOK /\ Fresh /\ Stamped /\ Remembered /\ LimitHeld

LEMMA KeyRule ==
  /\ \A k \in WindowKeys : k[1] \in Rules
  /\ \A c \in Calls : \A i \in KeyPosition(c) :
        KeyAt(c, i) \in WindowKeys /\ KeyAt(c, i)[1] = Requests[c].rule
BY LimitAssumption DEF WindowKeys, KeyAt

LEMMA LimitInitially == LimitInit => LimitInv
<1> SUFFICES ASSUME LimitInit PROVE LimitInv
  OBVIOUS
<1> USE DEF LimitInit
<1>1. LimitTypeOK
  BY DEF LimitTypeOK
<1>2. Fresh
  BY DEF Fresh, Waiting
<1>3. Stamped
  BY FS_EmptySet DEF Stamped
<1>4. Remembered
  BY DEF Remembered
<1>5. LimitHeld
  <2> SUFFICES ASSUME NEW k \in WindowKeys, NEW t \in 0..MaxClock
               PROVE  Cardinality({c \in charged[k] :
                         t <= stamp[c] /\ stamp[c] <= t + Window[k[1]] - MaxLag})
                        <= Threshold[k[1]]
    BY DEF LimitHeld
  <2>1. {c \in charged[k] : t <= stamp[c] /\ stamp[c] <= t + Window[k[1]] - MaxLag} = {}
    OBVIOUS
  <2>2. Threshold[k[1]] \in Nat
    BY KeyRule, LimitAssumption
  <2> QED
    BY <2>1, <2>2, FS_EmptySet
<1> QED
  BY <1>1, <1>2, <1>3, <1>4, <1>5 DEF LimitInv

LEMMA LimitTick == LimitInv /\ Tick => LimitInv'
<1> SUFFICES ASSUME LimitInv, Tick PROVE LimitInv'
  OBVIOUS
<1> USE DEF LimitInv, Tick
<1>0. MaxLag \in Nat /\ \A k \in WindowKeys : Window[k[1]] \in Nat
  BY KeyRule, LimitAssumption
<1>1. LimitTypeOK'
  BY DEF LimitTypeOK
<1>2. Fresh'
  BY <1>0 DEF Fresh, Waiting, LimitTypeOK
<1>3. Stamped'
  BY DEF Stamped
<1>4. Remembered'
  BY <1>0 DEF Remembered, LimitTypeOK
<1>5. LimitHeld'
  BY DEF LimitHeld
<1> QED
  BY <1>1, <1>2, <1>3, <1>4, <1>5

LEMMA LimitReadClock ==
  ASSUME NEW c \in Calls, LimitInv, ReadClock(c)
  PROVE  LimitInv'
<1> USE DEF LimitInv, ReadClock
<1>0. \A k \in WindowKeys : \A d \in charged[k] : stamp'[d] = stamp[d]
  BY DEF Stamped, LimitTypeOK
<1>1. LimitTypeOK'
  BY DEF LimitTypeOK
<1>2. Fresh'
  BY LimitAssumption DEF Fresh, Waiting, LimitTypeOK
<1>3. Stamped'
  BY <1>0 DEF Stamped
<1>4. Remembered'
  BY <1>0 DEF Remembered
<1>5. LimitHeld'
  <2> SUFFICES ASSUME NEW k \in WindowKeys, NEW t \in 0..MaxClock
               PROVE  Cardinality({d \in charged'[k] :
                         t <= stamp'[d] /\ stamp'[d] <= t + Window[k[1]] - MaxLag})
                        <= Threshold[k[1]]
    BY DEF LimitHeld
  <2>1. {d \in charged'[k] : t <= stamp'[d] /\ stamp'[d] <= t + Window[k[1]] - MaxLag}
          = {d \in charged[k] : t <= stamp[d] /\ stamp[d] <= t + Window[k[1]] - MaxLag}
    BY <1>0
  <2> QED
    BY <2>1 DEF LimitHeld
<1> QED
  BY <1>1, <1>2, <1>3, <1>4, <1>5

\* The state of the table after a check, key by key.
LEMMA CheckEffect ==
  ASSUME NEW c \in Calls, LimitInv, Check(c), NEW k \in WindowKeys
  PROVE  /\ stamp' = stamp /\ clock' = clock
         /\ stamp[c] >= 0 /\ verdict'[c] # "none"
         /\ \A d \in Calls \ {c} : verdict'[d] = verdict[d]
         /\ \A d \in windows[k] :
              (k[1] = Requests[c].rule => stamp[d] >= stamp[c] - Window[k[1]])
                => d \in windows'[k]
         /\ \/ charged'[k] = charged[k] /\ windows'[k] \subseteq windows[k]
            \/ /\ charged'[k] = charged[k] \cup {c}
               /\ windows'[k] \subseteq windows[k] \cup {c}
               /\ c \in windows'[k]
               /\ k[1] = Requests[c].rule
               /\ \E w \in SUBSET windows[k] :
                    /\ Cardinality(w) < Threshold[k[1]]
                    /\ \A d \in windows[k] : stamp[d] >= stamp[c] - Window[k[1]] => d \in w
<1> DEFINE kept == Prune(Requests[c].rule, stamp[c])
           paid == ChargedKeys(c, kept)
<1>1. /\ windows' = [j \in DOMAIN windows |-> IF j \in paid THEN kept[j] \cup {c} ELSE kept[j]]
      /\ charged' = [j \in DOMAIN charged |-> IF j \in paid THEN charged[j] \cup {c} ELSE charged[j]]
      /\ stamp' = stamp /\ clock' = clock
      /\ Waiting(c)
      /\ \E v \in {"allowed", "refused"} : verdict' = [verdict EXCEPT ![c] = v]
  BY DEF Check
<1>2. k \in DOMAIN windows /\ k \in DOMAIN charged
  BY DEF LimitInv, LimitTypeOK
<1>3. kept[k] = IF k[1] = Requests[c].rule
                  THEN {d \in windows[k] : stamp[d] >= stamp[c] - Window[Requests[c].rule]}
                  ELSE windows[k]
  BY <1>2 DEF Prune
<1>4. /\ windows'[k] = IF k \in paid THEN kept[k] \cup {c} ELSE kept[k]
      /\ charged'[k] = IF k \in paid THEN charged[k] \cup {c} ELSE charged[k]
  BY <1>1, <1>2
<1>5. /\ stamp[c] >= 0 /\ verdict'[c] # "none"
      /\ \A d \in Calls \ {c} : verdict'[d] = verdict[d]
  BY <1>1 DEF Waiting, LimitInv, LimitTypeOK
<1>6. \A d \in windows[k] :
        (k[1] = Requests[c].rule => stamp[d] >= stamp[c] - Window[k[1]]) => d \in windows'[k]
  BY <1>3, <1>4
<1>7. kept[k] \subseteq windows[k]
  BY <1>3
<1>8. CASE k \notin paid
  BY <1>1, <1>4, <1>5, <1>6, <1>7, <1>8
<1>9. CASE k \in paid
  <2>1. \E i \in KeyPosition(c) : k = KeyAt(c, i) /\ \A m \in 1..i :
          HasRoom(Requests[c].rule, kept, KeyAt(c, m))
    BY <1>9 DEF ChargedKeys
  <2>2. PICK i \in KeyPosition(c) : k = KeyAt(c, i) /\ \A m \in 1..i :
          HasRoom(Requests[c].rule, kept, KeyAt(c, m))
    BY <2>1
  <2>3. i \in 1..i
    BY DEF KeyPosition, ClientKeys, LoginKeys
  <2>4. k[1] = Requests[c].rule /\ Cardinality(kept[k]) < Threshold[k[1]]
    BY <2>2, <2>3, KeyRule DEF HasRoom
  <2>5. \A d \in windows[k] : stamp[d] >= stamp[c] - Window[k[1]] => d \in kept[k]
    BY <1>3, <2>4
  <2> HIDE DEF kept, paid
  <2> QED
    BY <1>1, <1>4, <1>5, <1>6, <1>7, <1>9, <2>4, <2>5
<1> QED
  BY <1>8, <1>9

LEMMA LimitCheck ==
  ASSUME NEW c \in Calls, LimitInv, Check(c)
  PROVE  LimitInv'
<1> USE DEF LimitInv
<1>0. MaxLag \in Nat /\ \A k \in WindowKeys : Window[k[1]] \in Nat /\ Threshold[k[1]] \in Nat
  BY KeyRule, LimitAssumption
<1>1. LimitTypeOK'
  BY KeyRule DEF LimitTypeOK, Check, Prune
<1>2. Fresh'
  <2>1. stamp' = stamp /\ clock' = clock /\ verdict'[c] # "none"
        /\ \A d \in Calls \ {c} : verdict'[d] = verdict[d]
    BY DEF Check, LimitTypeOK
  <2> QED
    BY <2>1 DEF Fresh, Waiting
<1>3. Stamped'
  <2> SUFFICES ASSUME NEW k \in WindowKeys
               PROVE  /\ IsFiniteSet(charged'[k])
                      /\ windows'[k] \subseteq charged'[k]
                      /\ \A d \in charged'[k] : stamp'[d] # -1
    BY DEF Stamped
  <2> QED
    BY CheckEffect, FS_AddElement, <1>1 DEF Stamped, LimitTypeOK
<1>4. Remembered'
  <2> SUFFICES ASSUME NEW k \in WindowKeys, NEW d \in charged'[k],
                      stamp'[d] >= clock' - Window[k[1]]
               PROVE  d \in windows'[k]
    BY DEF Remembered
  <2>1. stamp[c] <= clock /\ clock \in Int /\ stamp[c] \in Int /\ stamp[d] \in Int
    BY <1>1, CheckEffect DEF Fresh, LimitTypeOK
  <2>2. stamp[d] >= clock - Window[k[1]] /\ stamp[d] >= stamp[c] - Window[k[1]]
    BY <1>0, <2>1, CheckEffect
  <2> QED
    BY <2>2, CheckEffect DEF Remembered
<1>5. LimitHeld'
  <2> SUFFICES ASSUME NEW k \in WindowKeys, NEW t \in 0..MaxClock
               PROVE  Cardinality({d \in charged'[k] :
                         t <= stamp'[d] /\ stamp'[d] <= t + Window[k[1]] - MaxLag})
                        <= Threshold[k[1]]
    BY DEF LimitHeld
  <2> DEFINE within(s) == {d \in s : t <= stamp[d] /\ stamp[d] <= t + Window[k[1]] - MaxLag}
  <2>0. stamp' = stamp
    BY DEF Check
  <2>1. Cardinality(within(charged[k])) <= Threshold[k[1]]
    BY DEF LimitHeld
  <2>2. CASE charged'[k] = charged[k] \/ ~(t <= stamp[c] /\ stamp[c] <= t + Window[k[1]] - MaxLag)
    <3>1. within(charged'[k]) = within(charged[k])
      BY <2>2, CheckEffect
    <3> QED
      BY <2>0, <2>1, <3>1
  <2>3. CASE charged'[k] # charged[k] /\ t <= stamp[c] /\ stamp[c] <= t + Window[k[1]] - MaxLag
    <3>1. /\ charged'[k] = charged[k] \cup {c}
          /\ \E w \in SUBSET windows[k] :
               /\ Cardinality(w) < Threshold[k[1]]
               /\ \A d \in windows[k] : stamp[d] >= stamp[c] - Window[k[1]] => d \in w
      BY <2>3, CheckEffect
    <3>2. PICK w \in SUBSET windows[k] :
               /\ Cardinality(w) < Threshold[k[1]]
               /\ \A d \in windows[k] : stamp[d] >= stamp[c] - Window[k[1]] => d \in w
      BY <3>1
    <3>3. within(charged[k]) \subseteq w
      <4> SUFFICES ASSUME NEW d \in charged[k], t <= stamp[d],
                          stamp[d] <= t + Window[k[1]] - MaxLag
                   PROVE  d \in w
        OBVIOUS
      <4>1. Waiting(c) /\ clock <= stamp[c] + MaxLag
        BY DEF Fresh, Check
      <4>2. clock \in Int /\ stamp[c] \in Int /\ stamp[d] \in Int
        BY DEF LimitTypeOK
      <4>3. stamp[d] >= clock - Window[k[1]] /\ stamp[d] >= stamp[c] - Window[k[1]]
        BY <1>0, <2>3, <4>1, <4>2
      <4> QED
        BY <3>2, <4>3 DEF Remembered
    <3>4. IsFiniteSet(w)
      BY FS_Subset DEF Stamped
    <3>5. IsFiniteSet(w \cup {c}) /\ Cardinality(w \cup {c}) <= Cardinality(w) + 1
          /\ Cardinality(w) \in Nat
      <4>1. IsFiniteSet(w \cup {c})
            /\ (Cardinality(w \cup {c}) = Cardinality(w)
                  \/ Cardinality(w \cup {c}) = Cardinality(w) + 1)
        BY <3>4, FS_AddElement
      <4>2. Cardinality(w) \in Nat
        BY <3>4, FS_CardinalityType
      <4> QED
        BY <4>1, <4>2
    <3>6. within(charged'[k]) \subseteq w \cup {c}
      BY <3>1, <3>3
    <3>7. Cardinality(within(charged'[k])) <= Cardinality(w \cup {c})
      BY <3>5, <3>6, FS_Subset
    <3>8. Cardinality(within(charged'[k])) \in Nat /\ Cardinality(w \cup {c}) \in Nat
      BY <3>5, <3>6, FS_Subset, FS_CardinalityType
    <3> HIDE DEF within
    <3>9. Cardinality(within(charged'[k])) <= Threshold[k[1]]
      BY <1>0, <3>2, <3>5, <3>7, <3>8
    <3> QED
      BY <2>0, <3>9 DEF within
  <2> QED
    BY <2>2, <2>3
<1> QED
  BY <1>1, <1>2, <1>3, <1>4, <1>5

LEMMA LimitStep == LimitInv /\ [LimitNext]_limitVars => LimitInv'
<1> SUFFICES ASSUME LimitInv, [LimitNext]_limitVars PROVE LimitInv'
  OBVIOUS
<1>1. CASE Tick
  BY <1>1, LimitTick
<1>2. CASE \E c \in Calls : ReadClock(c) \/ Check(c)
  BY <1>2, LimitReadClock, LimitCheck
<1>3. CASE UNCHANGED limitVars
  BY <1>3 DEF limitVars, LimitInv, LimitTypeOK, Fresh, Waiting, Stamped, Remembered, LimitHeld
<1> QED
  BY <1>1, <1>2, <1>3 DEF LimitNext

\* LimitHeld is an invariant of the limiter whatever the requests, the rules,
\* their thresholds and windows, and the lag.
THEOREM LimitSpecHeld == LimitSpec => []LimitHeld
<1>2. LimitInv => LimitHeld
  BY DEF LimitInv
<1> QED
  BY LimitInitially, LimitStep, <1>2, PTL DEF LimitSpec

-----------------------------------------------------------------------------
\* A window never holds more than its threshold.
Bounded ==
  /\ \A k \in WindowKeys : Cardinality(windows[k]) <= Threshold[k[1]]
  /\ DOMAIN retryAt = Calls

LEMMA WindowsFinite ==
  ASSUME LimitInv, NEW k \in WindowKeys
  PROVE  /\ IsFiniteSet(windows[k]) /\ Cardinality(windows[k]) \in Nat
         /\ windows[k] \subseteq Calls /\ k \in DOMAIN windows
         /\ Threshold[k[1]] \in Nat \ {0} /\ Window[k[1]] \in Nat \ {0}
<1>1. IsFiniteSet(windows[k])
  BY FS_Subset DEF LimitInv, Stamped
<1> QED BY <1>1, FS_CardinalityType, KeyRule, LimitAssumption DEF LimitInv, LimitTypeOK

LEMMA BoundedStep ==
  ASSUME LimitInv, LimitInv', Bounded, [LimitNext]_limitVars
  PROVE  Bounded'
<1>1. ASSUME windows' = windows, retryAt' = retryAt PROVE Bounded'
  BY <1>1 DEF Bounded
<1>2. ASSUME NEW c \in Calls, Check(c), NEW k \in WindowKeys
      PROVE  Cardinality(windows'[k]) <= Threshold[k[1]]
  <2> DEFINE kept == Prune(Requests[c].rule, stamp[c])
             paid == ChargedKeys(c, kept)
  <2>1. windows'[k] = IF k \in paid THEN kept[k] \cup {c} ELSE kept[k]
    BY <1>2, WindowsFinite DEF Check
  <2>2. kept[k] \subseteq windows[k]
    BY WindowsFinite DEF Prune
  <2>3. IsFiniteSet(kept[k]) /\ Cardinality(kept[k]) <= Cardinality(windows[k])
        /\ Cardinality(kept[k]) \in Nat
    BY <2>2, WindowsFinite, FS_Subset, FS_CardinalityType
  <2>4. Cardinality(kept[k]) <= Threshold[k[1]]
    BY <2>3, WindowsFinite DEF Bounded
  <2>5. ASSUME k \in paid PROVE Cardinality(kept[k]) < Threshold[k[1]]
    <3>1. PICK i \in KeyPosition(c) : k = KeyAt(c, i) /\ \A m \in 1..i :
            HasRoom(Requests[c].rule, kept, KeyAt(c, m))
      BY <2>5 DEF ChargedKeys
    <3>2. i \in 1..i
      BY DEF KeyPosition, ClientKeys, LoginKeys
    <3> QED BY <3>1, <3>2, KeyRule DEF HasRoom
  <2> HIDE DEF kept, paid
  <2>6. Cardinality(kept[k] \cup {c}) <= Cardinality(kept[k]) + 1
    <3>1. \/ Cardinality(kept[k] \cup {c}) = Cardinality(kept[k])
          \/ Cardinality(kept[k] \cup {c}) = Cardinality(kept[k]) + 1
      BY <2>3, FS_AddElement
    <3> QED BY <2>3, <3>1
  <2>7. Cardinality(kept[k] \cup {c}) \in Nat
    BY <2>3, FS_AddElement, FS_CardinalityType
  <2>8. CASE k \in paid
    <3>1. PICK a, b, t \in Nat : /\ a = Cardinality(kept[k]) /\ t = Threshold[k[1]]
                                 /\ b = Cardinality(kept[k] \cup {c})
      BY <2>3, <2>7, WindowsFinite
    <3> QED BY <2>1, <2>5, <2>6, <2>8, <3>1
  <2>9. CASE k \notin paid
    BY <2>1, <2>4, <2>9
  <2> QED BY <2>8, <2>9
<1>3. ASSUME NEW c \in Calls, Check(c) PROVE DOMAIN retryAt' = Calls
  BY <1>3 DEF Check, Bounded
<1> QED BY <1>1, <1>2, <1>3 DEF Bounded, LimitNext, limitVars, Tick, ReadClock

\* The longest wait reaches to when the oldest hit of a full key leaves.
LEMMA RetryAfterReaches ==
  ASSUME LimitInv, NEW c \in Calls, stamp[c] \in Int,
         NEW w \in [WindowKeys -> SUBSET Calls], \A k \in WindowKeys : IsFiniteSet(w[k]),
         NEW i \in KeyPosition(c), ~HasRoom(Requests[c].rule, w, KeyAt(c, i))
  PROVE  \E d \in w[KeyAt(c, i)] :
           /\ RetryAfter(c, w) \in Int
           /\ stamp[d] + Window[Requests[c].rule] - stamp[c] <= RetryAfter(c, w)
<1> DEFINE rule == Requests[c].rule
           full == {k \in {KeyAt(c, m) : m \in KeyPosition(c)} : ~HasRoom(rule, w, k)}
           oldest(k) == CHOOSE s \in {stamp[d] : d \in w[k]} : \A d \in w[k] : s <= stamp[d]
           wait(k) == oldest(k) + Window[rule] - stamp[c]
           waits == {1} \cup {oldest(k) + Window[rule] - stamp[c] : k \in full}
<1>1. IsFiniteSet(full)
  <2>1. full \subseteq {KeyAt(c, 1), KeyAt(c, 2)}
    BY DEF KeyPosition, ClientKeys, LoginKeys
  <2>2. IsFiniteSet({KeyAt(c, 1)} \cup {KeyAt(c, 2)})
    <3>1. IsFiniteSet({KeyAt(c, 1)})
      BY FS_Singleton
    <3> QED BY <3>1, FS_AddElement
  <2>3. {KeyAt(c, 1)} \cup {KeyAt(c, 2)} = {KeyAt(c, 1), KeyAt(c, 2)}
    OBVIOUS
  <2> HIDE DEF full
  <2> QED BY <2>1, <2>2, <2>3, FS_Subset
<1>2. ASSUME NEW k \in full
      PROVE  \E d \in w[k] : oldest(k) = stamp[d] /\ stamp[d] \in Int
  <2>1. k \in WindowKeys /\ k[1] = rule /\ ~(Cardinality(w[k]) < Threshold[rule])
    BY KeyRule DEF HasRoom
  <2>2. IsFiniteSet(w[k]) /\ w[k] # {} /\ w[k] \subseteq Calls
    <3>1. Threshold[rule] \in Nat \ {0}
      BY <2>1, WindowsFinite
    <3> QED BY <2>1, <3>1, FS_EmptySet
  <2>3. \A d \in w[k] : stamp[d] \in Int
    BY <2>2 DEF LimitInv, LimitTypeOK
  <2>4. HasExtremes(stamp, w[k])
    BY <2>2, <2>3, Extremes
  <2>5. \E s \in {stamp[d] : d \in w[k]} : \A d \in w[k] : s <= stamp[d]
    BY <2>4 DEF HasExtremes
  <2>6. oldest(k) \in {stamp[d] : d \in w[k]}
    BY <2>5
  <2> QED BY <2>3, <2>6
<1> HIDE DEF oldest
<1>3. Window[rule] \in Int
  BY LimitAssumption
<1>4. \A k \in full : wait(k) \in Int
  BY <1>2, <1>3
<1>5. \E x \in waits : \A y \in waits : y <= x
  <2>1. CASE full = {}
    BY <2>1
  <2>2. CASE full # {}
    <3>1. PICK f : f = [k \in full |-> wait(k)]
      OBVIOUS
    <3>2. \A k \in full : f[k] = wait(k) /\ f[k] \in Int
      BY <1>4, <3>1
    <3>3. HasExtremes(f, full)
      <4> HIDE DEF full
      <4> QED BY <1>1, <2>2, <3>2, Extremes
    <3>4. PICK k \in full : \A j \in full : wait(j) <= wait(k)
      BY <3>2, <3>3 DEF HasExtremes
    <3>5. waits = {1} \cup {wait(j) : j \in full}
      OBVIOUS
    <3>6. PICK x : x = IF wait(k) <= 1 THEN 1 ELSE wait(k)
      OBVIOUS
    <3>7. x \in waits
      BY <3>5, <3>6
    <3>8. \A j \in full : wait(j) <= x
      BY <1>4, <3>4, <3>6
    <3>9. 1 <= x
      BY <1>4, <3>6
    <3> HIDE DEF wait, waits
    <3> QED BY <3>5, <3>7, <3>8, <3>9
  <2> QED BY <2>1, <2>2
<1>6. PICK r : /\ r = CHOOSE wait_ \in waits : \A x \in waits : x <= wait_
  OBVIOUS
<1>7. r \in waits /\ \A x \in waits : x <= r
  BY <1>5, <1>6
<1>8. r = RetryAfter(c, w)
  BY <1>6 DEF RetryAfter, oldest
<1>9. r \in Int
  BY <1>4, <1>7
<1>10. KeyAt(c, i) \in full
  OBVIOUS
<1> QED BY <1>2, <1>7, <1>8, <1>9, <1>10

LEMMA RetryIsLate ==
  ASSUME LimitInv, LimitInv', Bounded, Bounded', NEW c \in Calls, [LimitNext]_limitVars,
         verdict[c] = "none", verdict'[c] = "refused", NEW i \in KeyPosition(c)
  PROVE  Cardinality({d \in windows'[KeyAt(c, i)] :
                        stamp[d] > retryAt'[c] - Window[KeyAt(c, i)[1]]})
           < Threshold[KeyAt(c, i)[1]]
<1>1. Check(c)
  <2>1. PICK d \in Calls : Check(d)
    BY DEF LimitNext, limitVars, Tick, ReadClock
  <2>2. d = c
    BY <2>1 DEF Check, LimitInv, LimitTypeOK
  <2> QED BY <2>1, <2>2
<1>2. PICK k \in WindowKeys : k = KeyAt(c, i) /\ k[1] = Requests[c].rule
  BY KeyRule
<1>3. PICK w : w = windows'
  OBVIOUS
<1>4. /\ w \in [WindowKeys -> SUBSET Calls]
      /\ \A j \in WindowKeys : IsFiniteSet(w[j]) /\ Cardinality(w[j]) <= Threshold[j[1]]
  BY <1>3, FS_Subset DEF LimitInv, LimitTypeOK, Stamped, Bounded
<1>5. retryAt'[c] = stamp[c] + RetryAfter(c, w)
  BY <1>1, <1>3 DEF Check, LimitInv, LimitTypeOK, Bounded
<1>6. stamp[c] \in Int /\ Window[k[1]] \in Int /\ Threshold[k[1]] \in Nat \ {0}
  BY WindowsFinite DEF LimitInv, LimitTypeOK
<1> DEFINE late == {d \in w[k] : stamp[d] > retryAt'[c] - Window[k[1]]}
<1>7. Cardinality(late) < Threshold[k[1]]
  <2>1. late \subseteq w[k] /\ IsFiniteSet(w[k]) /\ Cardinality(w[k]) \in Nat
    BY <1>4, FS_CardinalityType
  <2>2. IsFiniteSet(late) /\ Cardinality(late) \in Nat /\ Cardinality(late) <= Cardinality(w[k])
    BY <2>1, FS_Subset, FS_CardinalityType
  <2>3. CASE HasRoom(Requests[c].rule, w, k)
    <3>1. Cardinality(w[k]) < Threshold[k[1]]
      BY <1>2, <2>3 DEF HasRoom
    <3> HIDE DEF late
    <3> QED BY <1>6, <2>1, <2>2, <3>1
  <2>4. CASE ~HasRoom(Requests[c].rule, w, k)
    <3>1. PICK d \in w[k] : /\ RetryAfter(c, w) \in Int
                            /\ stamp[d] + Window[k[1]] - stamp[c] <= RetryAfter(c, w)
      BY <1>2, <1>4, <1>6, <2>4, RetryAfterReaches
    <3>2. stamp[d] \in Int
      BY <1>4 DEF LimitInv, LimitTypeOK
    <3>3. d \notin late
      BY <1>5, <1>6, <3>1, <3>2
    <3>4. Cardinality(late) # Cardinality(w[k])
      BY <2>1, <3>3, FS_Subset
    <3>5. Cardinality(w[k]) <= Threshold[k[1]]
      BY <1>4
    <3> HIDE DEF late
    <3> QED BY <1>6, <2>1, <2>2, <3>4, <3>5
  <2> QED BY <2>3, <2>4
<1> QED BY <1>2, <1>3, <1>7

\* A refused caller that comes back after the time it was told finds room,
\* as far as the hits are concerned that were in its way: RetryAfterSuffices
\* holds of every step of the limiter.
THEOREM RetryAfterAlwaysSuffices == LimitSpec => RetryAfterSuffices
<1>1. LimitInit => Bounded
  <2> SUFFICES ASSUME LimitInit PROVE Bounded
    OBVIOUS
  <2>1. ASSUME NEW k \in WindowKeys PROVE Cardinality(windows[k]) <= Threshold[k[1]]
    <3>1. windows[k] = {} /\ Threshold[k[1]] \in Nat
      BY LimitInitially, WindowsFinite DEF LimitInit
    <3> QED BY <3>1, FS_EmptySet
  <2> QED BY <2>1 DEF Bounded, LimitInit
<1>2. LimitInv /\ LimitInv' /\ Bounded /\ [LimitNext]_limitVars => Bounded'
  BY BoundedStep
<1>3. LimitInv /\ LimitInv' /\ Bounded /\ Bounded' /\ [LimitNext]_limitVars
        => [\A c \in Calls : verdict[c] = "none" /\ verdict'[c] = "refused" =>
              \A i \in KeyPosition(c) :
                LET k == KeyAt(c, i)
                IN  Cardinality({d \in windows'[k] : stamp[d] > retryAt'[c] - Window[k[1]]})
                      < Threshold[k[1]]]_limitVars
  BY RetryIsLate
<1> QED
  BY LimitInitially, LimitStep, <1>1, <1>2, <1>3, PTL DEF LimitSpec, RetryAfterSuffices

-----------------------------------------------------------------------------
\* The progress stream.

Jobs == [status : {"none", "queued", "running"} \cup Terminal, progress : Nat]
Events == [event : {"data", "done"}, job : Jobs]

\* A stream has ended when its last event says so; the others are payloads.
Ended(x) == Len(x.sent) > 0 /\ x.sent[Len(x.sent)].event = "done"
Told(x) == IF Ended(x) THEN Len(x.sent) - 1 ELSE Len(x.sent)

\* The first m events are payloads, one after the other.
InOrder(sent, m) ==
  \A i \in 1..m :
    /\ sent[i].event = "data"
    /\ i < m => sent[i].job # sent[i + 1].job
    /\ \A j \in 1..m : i < j => /\ sent[i].job.progress <= sent[j].job.progress
                                 /\ sent[i].job.status \notin Terminal

\* The payloads told so far lead up to `last`, and the last one to the row.
StreamOK(x) ==
  /\ x \in [pc : {"closed", "open", "gone"}, last : Jobs, polls : Nat, sent : Seq(Events)]
  /\ x.polls <= MaxEvents
  /\ x.polls = 0 => x.sent = <<>>
  /\ InOrder(x.sent, Told(x))
  /\ x.last = IF Told(x) = 0 THEN NoJob ELSE x.sent[Told(x)].job
  /\ x.last.progress <= job.progress
  /\ x.pc = "open" => /\ ~Ended(x) /\ x.last.status \notin Terminal /\ job # NoJob
  /\ Ended(x) => /\ Told(x) > 0 /\ x.last = job /\ job.status \in Terminal
                 /\ x.sent[Len(x.sent)].job = job
  /\ x.pc = "closed" /\ x.polls > 0 => Ended(x) \/ x.polls = MaxEvents

StreamInv ==
  /\ job \in Jobs
  /\ stream = [s \in Streams |-> stream[s]]
  /\ \A s \in Streams : StreamOK(stream[s])

LEMMA StreamStarts == StreamInit => StreamInv
<1> SUFFICES ASSUME StreamInit PROVE StreamInv OBVIOUS
<1>1. NoJob \in Jobs
  BY DEF NoJob, Jobs
<1>2. PICK x : x = [pc |-> "closed", last |-> NoJob, polls |-> 0, sent |-> <<>>]
  OBVIOUS
<1>3. ~Ended(x) /\ Told(x) = 0
  BY <1>2 DEF Ended, Told
<1>4. StreamOK(x)
  BY <1>1, <1>2, <1>3, StreamAssumption DEF StreamInit, StreamOK, InOrder, NoJob
<1> QED BY <1>1, <1>2, <1>4 DEF StreamInit, StreamInv

\* The row only goes on, and not from a terminal status.
LEMMA RowGoesOn ==
  ASSUME job \in Jobs, Advance
  PROVE  /\ job' \in Jobs /\ job.status \notin Terminal
         /\ job.progress <= job'.progress /\ job' # NoJob
  BY DEF Jobs, Advance, Terminal, NoJob

LEMMA OneStream ==
  ASSUME StreamInv, NEW s \in Streams, NEW x, stream' = [stream EXCEPT ![s] = x],
         StreamOK(x), job' = job
  PROVE  StreamInv'
<1>1. \A z : StreamOK(z) => StreamOK(z)'
  BY DEF StreamOK, InOrder, Told, Ended
<1> QED BY <1>1 DEF StreamInv

LEMMA AnotherPayload ==
  ASSUME NEW n \in Nat, NEW sent \in Seq(Events), Len(sent) = n, InOrder(sent, n), NEW e \in Events,
         e.event = "data",
         n > 0 => /\ sent[n].job # e.job /\ sent[n].job.progress <= e.job.progress
                  /\ sent[n].job.status \notin Terminal
  PROVE  /\ Append(sent, e) \in Seq(Events) /\ Len(Append(sent, e)) = n + 1
         /\ Append(sent, e)[n + 1] = e
         /\ InOrder(Append(sent, e), n + 1)
<1> DEFINE new == Append(sent, e)
<1>1. new \in Seq(Events) /\ Len(new) = n + 1 /\ new[n + 1] = e /\ \A i \in 1..n : new[i] = sent[i]
  OBVIOUS
<1> HIDE DEF new
<1>2. ASSUME NEW i \in 1..n
      PROVE  sent[i].job.progress <= e.job.progress /\ sent[i].job.status \notin Terminal
  <2>1. sent[i] \in Events /\ sent[n] \in Events /\ n > 0
    BY <1>1
  <2>2. sent[i].job.progress <= sent[n].job.progress /\ sent[i].job.status \notin Terminal
    <3>1. CASE i = n
      BY <2>1, <3>1 DEF Events, Jobs
    <3>2. CASE i < n
      BY <2>1, <3>2 DEF InOrder
    <3> QED BY <3>1, <3>2
  <2>3. /\ sent[i].job.progress \in Nat /\ sent[n].job.progress \in Nat
        /\ e.job.progress \in Nat
    BY <2>1 DEF Events, Jobs
  <2> QED BY <2>1, <2>2, <2>3
<1>3. ASSUME NEW i \in 1..(n + 1), i < n + 1 PROVE new[i].job # new[i + 1].job
  <2>1. CASE i < n
    <3>1. i \in 1..n /\ i + 1 \in 1..n
      BY <2>1
    <3> QED BY <1>1, <2>1, <3>1 DEF InOrder
  <2>2. CASE i = n
    BY <1>1, <2>2
  <2> QED BY <1>3, <2>1, <2>2
<1> QED BY <1>1, <1>2, <1>3 DEF InOrder, new

LEMMA Polling ==
  ASSUME StreamInv, NEW s \in Streams, Poll(s)
  PROVE  StreamInv'
<1>0. PICK x : x = stream[s]
  OBVIOUS
<1>1. StreamOK(x) /\ x.pc = "open" /\ x.polls < MaxEvents /\ job \in Jobs
  BY <1>0 DEF StreamInv, Poll
<1>2. PICK y : y = [x EXCEPT !.pc = IF job.status \in Terminal THEN "closed" ELSE @,
                             !.last = job, !.polls = @ + 1,
                             !.sent = @ \o Data(x.last) \o Done]
  OBVIOUS
<1>3. stream' = [stream EXCEPT ![s] = y] /\ job' = job
  BY <1>0, <1>2 DEF Poll, StreamInv
<1>4. PICK n \in Nat : /\ n = Len(x.sent) /\ Told(x) = n /\ ~Ended(x) /\ x.sent \in Seq(Events)
                       /\ x.last.status \notin Terminal /\ x.polls \in Nat /\ job # NoJob
                       /\ x.last = (IF n = 0 THEN NoJob ELSE x.sent[n].job)
                       /\ x.last.progress <= job.progress /\ InOrder(x.sent, n)
  BY <1>1 DEF StreamOK, Told
<1>5. /\ y.pc = (IF job.status \in Terminal THEN "closed" ELSE "open") /\ y.last = job
      /\ y.polls = x.polls + 1 /\ y.sent = x.sent \o Data(x.last) \o Done
      /\ DOMAIN y = {"pc", "last", "polls", "sent"}
      /\ y = [pc |-> y.pc, last |-> y.last, polls |-> y.polls, sent |-> y.sent]
  BY <1>1, <1>2 DEF StreamOK
<1>6. /\ y.polls \in Nat /\ y.polls <= MaxEvents /\ y.polls # 0 /\ job.progress \in Nat
      /\ y.last.progress <= job.progress
  BY <1>1, <1>4, <1>5, StreamAssumption DEF Jobs
<1>7. CASE job.status \notin Terminal /\ job = x.last
  <2>1. y.sent = x.sent
    BY <1>4, <1>5, <1>7, ConcatEmptySeq DEF Data, Done
  <2>2. ~Ended(y) /\ Told(y) = n
    BY <1>4, <2>1 DEF Ended, Told
  <2>3. y \in [pc : {"closed", "open", "gone"}, last : Jobs, polls : Nat, sent : Seq(Events)]
    BY <1>1, <1>4, <1>5, <1>6, <2>1
  <2>4. StreamOK(y)
    BY <1>1, <1>4, <1>5, <1>6, <1>7, <2>1, <2>2, <2>3 DEF StreamOK
  <2> QED BY <1>3, <2>4, OneStream
<1>8. CASE job # x.last
  <2> DEFINE d == [event |-> "data", job |-> job]
  <2>1. PICK told : told = Append(x.sent, d)
    OBVIOUS
  <2>2. d \in Events
    BY <1>1 DEF Events
  <2>3. told \in Seq(Events) /\ Len(told) = n + 1 /\ told[n + 1] = d /\ InOrder(told, n + 1)
    BY <1>4, <1>8, <2>1, <2>2, AnotherPayload
  <2>4. x.sent \o Data(x.last) = told
    BY <1>4, <1>8, <2>1, <2>2, AppendIsConcat DEF Data
  <2>5. CASE job.status \notin Terminal
    <3>1. y.sent = told
      BY <1>5, <2>3, <2>4, <2>5, ConcatEmptySeq DEF Done
    <3>2. ~Ended(y) /\ Told(y) = n + 1
      BY <2>3, <3>1 DEF Ended, Told
    <3>3. y \in [pc : {"closed", "open", "gone"}, last : Jobs, polls : Nat, sent : Seq(Events)]
      BY <1>1, <1>5, <1>6, <2>3, <3>1
    <3>4. n + 1 # 0 /\ InOrder(y.sent, n + 1) /\ y.last = y.sent[n + 1].job
      BY <1>5, <2>3, <3>1
    <3>5. y.pc = "open"
      BY <1>5, <2>5
    <3> HIDE DEF d
    <3>6. StreamOK(y)
      BY <1>4, <1>5, <1>6, <2>5, <3>2, <3>3, <3>4, <3>5 DEF StreamOK
    <3> QED BY <1>3, <3>6, OneStream
  <2>6. CASE job.status \in Terminal
    <3> DEFINE e == [event |-> "done", job |-> job]
    <3>1. e \in Events
      BY <1>1 DEF Events
    <3>2. y.sent = Append(told, e)
      BY <1>5, <2>3, <2>4, <2>6, <3>1, AppendIsConcat DEF Done
    <3>3. /\ y.sent \in Seq(Events) /\ Len(y.sent) = n + 2 /\ y.sent[n + 2] = e
          /\ \A i \in 1..(n + 1) : y.sent[i] = told[i]
      BY <2>3, <3>1, <3>2
    <3>4. Ended(y) /\ Told(y) = n + 1
      BY <3>3 DEF Ended, Told
    <3>5. InOrder(y.sent, n + 1)
      BY <2>3, <3>3 DEF InOrder
    <3>6. y \in [pc : {"closed", "open", "gone"}, last : Jobs, polls : Nat, sent : Seq(Events)]
      BY <1>1, <1>5, <1>6, <3>3
    <3>7. /\ n + 1 # 0 /\ n + 1 > 0 /\ y.last = y.sent[n + 1].job
          /\ y.sent[Len(y.sent)].job = job /\ y.pc = "closed"
      <4>1. n + 1 \in 1..(n + 1) /\ y.sent[n + 1] = d
        BY <2>3, <3>3
      <4>2. y.sent[Len(y.sent)] = e
        BY <3>3
      <4> QED BY <1>5, <2>6, <4>1, <4>2
    <3> HIDE DEF d, e
    <3>8. StreamOK(y)
      BY <1>5, <1>6, <2>6, <3>4, <3>5, <3>6, <3>7 DEF StreamOK
    <3> QED BY <1>3, <3>8, OneStream
  <2> QED BY <2>5, <2>6
<1> QED BY <1>4, <1>7, <1>8

LEMMA OpeningAndClosing ==
  ASSUME StreamInv, NEW s \in Streams, Open(s) \/ GiveUp(s) \/ Disconnect(s)
  PROVE  StreamInv'
<1>0. PICK x, pc : /\ x = stream[s] /\ stream' = [stream EXCEPT ![s] = [x EXCEPT !.pc = pc]]
                   /\ job' = job
                   /\ \/ pc = "open" /\ x.pc = "closed" /\ x.polls = 0 /\ job # NoJob
                      \/ pc = "closed" /\ x.pc = "open" /\ x.polls >= MaxEvents
                      \/ pc = "gone" /\ x.pc = "open"
  BY Zenon DEF StreamInv, Open, GiveUp, Disconnect
<1>1. StreamOK(x)
  BY <1>0 DEF StreamInv
<1>2. PICK y : y = [x EXCEPT !.pc = pc]
  OBVIOUS
<1>3. /\ y.pc = pc /\ y.last = x.last /\ y.polls = x.polls /\ y.sent = x.sent
      /\ y \in [pc : {"closed", "open", "gone"}, last : Jobs, polls : Nat, sent : Seq(Events)]
      /\ x.polls \in Nat
  BY <1>0, <1>1, <1>2 DEF StreamOK
<1>4. (Ended(y) <=> Ended(x)) /\ Told(y) = Told(x)
  BY <1>3 DEF Ended, Told
<1>5. x.polls = 0 => ~Ended(x) /\ x.last.status \notin Terminal
  BY <1>1 DEF StreamOK, Ended, Told, NoJob, Terminal
<1>6. StreamOK(y)
  BY <1>0, <1>1, <1>3, <1>4, <1>5, StreamAssumption DEF StreamOK
<1> QED BY <1>0, <1>2, <1>6, OneStream

LEMMA StreamStep == StreamInv /\ [StreamNext]_streamVars => StreamInv'
<1> SUFFICES ASSUME StreamInv, [StreamNext]_streamVars PROVE StreamInv'
  OBVIOUS
<1>1. CASE Advance
  <2>1. /\ job' \in Jobs /\ job.status \notin Terminal
        /\ job.progress <= job'.progress /\ job' # NoJob /\ stream' = stream
    BY <1>1, RowGoesOn DEF StreamInv, Advance
  <2>2. ASSUME NEW x, StreamOK(x) PROVE StreamOK(x)'
    <3>1. ~Ended(x)
      BY <2>1, <2>2 DEF StreamOK
    <3>2. x.last.progress <= job'.progress
      <4>1. x.last.progress \in Nat /\ job.progress \in Nat /\ job'.progress \in Nat
        BY <2>1, <2>2 DEF StreamOK, StreamInv, Jobs
      <4> QED BY <2>1, <2>2, <4>1 DEF StreamOK
    <3> QED BY <2>1, <2>2, <3>1, <3>2 DEF StreamOK, InOrder, Told, Ended
  <2> QED BY <2>1, <2>2 DEF StreamInv
<1>2. CASE UNCHANGED streamVars
  BY <1>2 DEF StreamInv, StreamOK, InOrder, Told, Ended, streamVars
<1> QED BY <1>1, <1>2, Polling, OpeningAndClosing DEF StreamNext

\* What the property says of one stream.
Tells(x) ==
  LET sent == x.sent
      data == {i \in DOMAIN sent : sent[i].event = "data"}
      done == {i \in DOMAIN sent : sent[i].event = "done"}
  IN  /\ \A i, j \in data : i < j =>
           /\ sent[i].job = sent[j].job => \E k \in data : i < k /\ k < j
           /\ sent[i].job.progress <= sent[j].job.progress
           /\ sent[i].job.status \notin Terminal
      /\ done \subseteq {Len(sent)}
      /\ done # {} =>
           /\ sent[Len(sent)].job = job
           /\ \E i \in data : sent[i].job = job /\ \A j \in data : j <= i
      /\ x.pc = "closed" /\ x.polls > 0 => done # {} \/ x.polls = MaxEvents

\* What any number of clients were sent of a row is its history in order, and "done"
\* comes last and after the state in which the scan ended, or the polls ran out.
THEOREM StreamsAlwaysTellTheEnd == StreamSpec => []StreamTellsTheEnd
<1>1. StreamInv => StreamTellsTheEnd
  <2> SUFFICES ASSUME StreamInv, NEW s \in Streams PROVE Tells(stream[s])
    BY DEF StreamTellsTheEnd, Tells
  <2> SUFFICES ASSUME NEW x, x = stream[s], NEW sent, sent = x.sent PROVE Tells(x)
    OBVIOUS
  <2>0. PICK m : m = Told(x)
    OBVIOUS
  <2> DEFINE data == {i \in DOMAIN sent : sent[i].event = "data"}
             done == {i \in DOMAIN sent : sent[i].event = "done"}
  <2>1. StreamOK(x)
    BY DEF StreamInv
  <2>2. PICK n \in Nat : n = Len(sent) /\ sent \in Seq(Events) /\ DOMAIN sent = 1..n
    BY <2>1 DEF StreamOK
  <2>3. /\ m \in Nat /\ m <= n /\ (Ended(x) => m = n - 1) /\ (~Ended(x) => m = n)
        /\ Ended(x) <=> n > 0 /\ sent[n].event = "done"
    BY <2>0, <2>2 DEF Told, Ended
  <2>4. InOrder(sent, m)
    BY <2>0, <2>1 DEF StreamOK
  <2>5. data = 1..m
    BY <2>2, <2>3, <2>4 DEF InOrder
  <2>6. done = IF Ended(x) THEN {n} ELSE {}
    BY <2>2, <2>3, <2>4 DEF InOrder
  <2>7. ASSUME NEW i \in data, NEW j \in data, i < j
        PROVE  /\ sent[i].job = sent[j].job => \E k \in data : i < k /\ k < j
               /\ sent[i].job.progress <= sent[j].job.progress
               /\ sent[i].job.status \notin Terminal
    <3>1. CASE j = i + 1
      BY <2>3, <2>4, <2>5, <2>7, <3>1 DEF InOrder
    <3>2. CASE j > i + 1
      <4>1. i + 1 \in data /\ i < i + 1 /\ i + 1 < j
        BY <2>3, <2>5, <2>7, <3>2
      <4> QED BY <2>3, <2>4, <2>5, <2>7, <4>1 DEF InOrder
    <3> QED BY <2>3, <2>5, <2>7, <3>1, <3>2
  <2>8. ASSUME Ended(x)
        PROVE  /\ sent[n].job = job
               /\ \E i \in data : sent[i].job = job /\ \A j \in data : j <= i
    <3>1. m > 0 /\ sent[m].job = job /\ sent[n].job = job
      BY <2>0, <2>1, <2>2, <2>8 DEF StreamOK
    <3>2. m \in data /\ \A j \in data : j <= m
      BY <2>3, <2>5, <3>1
    <3> QED BY <3>1, <3>2
  <2>9. x.pc = "closed" /\ x.polls > 0 => Ended(x) \/ x.polls = MaxEvents
    BY <2>1 DEF StreamOK
  <2> HIDE DEF data
  <2>10. /\ done \subseteq {Len(sent)}
         /\ done # {} <=> Ended(x)
    BY <2>2, <2>6
  <2> HIDE DEF done
  <2>11. /\ \A i, j \in data : i < j =>
               /\ sent[i].job = sent[j].job => \E k \in data : i < k /\ k < j
               /\ sent[i].job.progress <= sent[j].job.progress
               /\ sent[i].job.status \notin Terminal
         /\ done # {} =>
               /\ sent[Len(sent)].job = job
               /\ \E i \in data : sent[i].job = job /\ \A j \in data : j <= i
    BY <2>2, <2>7, <2>8, <2>10
  <2> QED BY <2>9, <2>10, <2>11 DEF data, done, Tells
<1> QED BY StreamStarts, StreamStep, <1>1, PTL DEF StreamSpec

-----------------------------------------------------------------------------
\* The audit trail.

LEMMA DeletedSums ==
  ASSUME NEW S, IsFiniteSet(S), NEW w, \A e \in S : w[e] = e.deleted /\ w[e] \in Int,
         NEW F, SumsUp(F, w, S), NEW A \in SUBSET S
  PROVE  DeletedBy(A) = F[A]
<1> DEFINE Sums(G) == G = [B \in SUBSET A |-> IF B = {} THEN 0
                             ELSE LET x == CHOOSE x \in B : TRUE IN x.deleted + G[B \ {x}]]
           chosen == CHOOSE G : Sums(G)
<1>1. DeletedBy(A) = chosen[A]
  BY DEF DeletedBy, MapThenSumSet, MapThenFoldSet
<1>2. IsFiniteSet(A)
  BY FS_Subset
<1>3. ASSUME NEW G PROVE SumsUp(G, w, A) <=> Sums(G)
  <2> DEFINE first(B) == CHOOSE x \in B : TRUE
  <2>1. \A B \in SUBSET A : B # {} => w[first(B)] = first(B).deleted
    OBVIOUS
  <2>2. [B \in SUBSET A |-> IF B = {} THEN 0 ELSE w[first(B)] + G[B \ {first(B)}]]
          = [B \in SUBSET A |-> IF B = {} THEN 0 ELSE first(B).deleted + G[B \ {first(B)}]]
    <3> HIDE DEF first
    <3> QED BY <2>1
  <2> QED BY <2>2 DEF SumsUp
<1>4. Sums(chosen)
  <2>1. \E G : SumsUp(G, w, A)
    BY <1>2, SumsExist
  <2>2. \E G : Sums(G)
    <3> HIDE DEF Sums
    <3> QED BY <1>3, <2>1
  <2> HIDE DEF Sums
  <2> QED BY <2>2
<1> HIDE DEF chosen, Sums
<1>5. SumsUp(chosen, w, A)
  BY <1>3, <1>4
<1>6. F[A] = chosen[A]
  BY <1>2, <1>5, SumsAgree
<1> QED BY <1>1, <1>6

TrailInv ==
  /\ nextId \in Nat \ {0} /\ lost \in Int
  /\ IsFiniteSet(trail)
  /\ \A e \in trail : e.id \in Nat /\ e.id < nextId /\ e.deleted \in Nat
  /\ TrailAccounted

LEMMA SumsOfDeleted ==
  ASSUME NEW S, IsFiniteSet(S), \A e \in S : e.deleted \in Nat, NEW A \in SUBSET S
  PROVE  /\ DeletedBy(S) \in Int /\ DeletedBy(A) \in Int /\ DeletedBy({}) = 0
         /\ DeletedBy(S) = DeletedBy(A) + DeletedBy(S \ A)
         /\ \A e \in S : DeletedBy(S) = e.deleted + DeletedBy(S \ {e})
<1>1. PICK w : w = [e \in S |-> e.deleted]
  OBVIOUS
<1>2. \A e \in S : w[e] = e.deleted /\ w[e] \in Int
  BY <1>1
<1>3. PICK F : SumsUp(F, w, S)
  BY <1>2, SumsExist
<1>4. \A B \in SUBSET S : DeletedBy(B) = F[B]
  BY <1>2, <1>3, DeletedSums
<1>5. AddsUp(F, w, S)
  BY <1>2, <1>3, SumsSplit
<1>6. F[S] = F[A] + F[S \ A]
  BY <1>2, <1>3, SumsOfParts
<1>7. \A e \in S : F[S] = w[e] + F[S \ {e}]
  BY <1>5 DEF AddsUp
<1>8. F[S] \in Int /\ F[A] \in Int /\ F[{}] = 0
  BY <1>5 DEF AddsUp
<1> QED BY <1>2, <1>4, <1>6, <1>7, <1>8

LEMMA TrailStarts == SessionInit => TrailInv
<1> SUFFICES ASSUME SessionInit PROVE TrailInv
  OBVIOUS
<1>1. trail = {} /\ nextId = 1 /\ lost = 0
  BY DEF SessionInit
<1>2. IsFiniteSet({}) /\ Cardinality({}) = 0
  BY FS_EmptySet
<1>3. DeletedBy({}) = 0
  BY <1>2, SumsOfDeleted
<1> QED BY <1>1, <1>2, <1>3 DEF TrailInv, TrailAccounted

\* An entry is recorded after some, perhaps none, were purged.
LEMMA Recording ==
  ASSUME TrailInv, NEW old \in SUBSET trail, NEW e, e.id = nextId, e.deleted = Cardinality(old),
         trail' = (trail \ old) \cup {e}, nextId' = nextId + 1, lost' = lost + DeletedBy(old)
  PROVE  TrailInv'
<1> DEFINE kept == trail \ old
<1>1. /\ IsFiniteSet(trail) /\ nextId \in Nat \ {0} /\ lost \in Int
      /\ \A x \in trail : x.id \in Nat /\ x.id < nextId /\ x.deleted \in Nat
      /\ nextId - 1 = Cardinality(trail) + DeletedBy(trail) + lost
  BY DEF TrailInv, TrailAccounted
<1>2. /\ IsFiniteSet(old) /\ Cardinality(old) \in Nat /\ IsFiniteSet(kept)
      /\ Cardinality(kept) = Cardinality(trail) - Cardinality(old)
      /\ Cardinality(trail) \in Nat /\ Cardinality(kept) \in Nat
  <2>1. trail \cap old = old
    OBVIOUS
  <2>2. IsFiniteSet(old) /\ IsFiniteSet(kept)
    BY <1>1, FS_Subset
  <2>3. Cardinality(kept) = Cardinality(trail) - Cardinality(old)
    <3>1. Cardinality(trail \ old) = Cardinality(trail) - Cardinality(trail \cap old)
      BY <1>1, <2>2, FS_Difference
    <3> QED BY <2>1, <3>1
  <2> HIDE DEF kept
  <2> QED BY <1>1, <2>2, <2>3, FS_CardinalityType
<1>3. e \notin kept
  BY <1>1
<1>4. IsFiniteSet(kept \cup {e}) /\ Cardinality(kept \cup {e}) = Cardinality(kept) + 1
  BY <1>2, <1>3, FS_AddElement
<1>5. \A x \in kept \cup {e} : x.id \in Nat /\ x.id < nextId + 1 /\ x.deleted \in Nat
  BY <1>1, <1>2
<1>6. DeletedBy(kept \cup {e}) = Cardinality(old) + DeletedBy(kept)
  <2>1. (kept \cup {e}) \ {e} = kept
    BY <1>3
  <2>2. \A x \in kept \cup {e} : x.deleted \in Nat
    BY <1>5
  <2> HIDE DEF kept
  <2>3. DeletedBy(kept \cup {e}) = e.deleted + DeletedBy((kept \cup {e}) \ {e})
    BY <1>4, <2>2, SumsOfDeleted
  <2> QED BY <2>1, <2>3
<1>7. /\ DeletedBy(trail) = DeletedBy(old) + DeletedBy(kept)
      /\ DeletedBy(trail) \in Int /\ DeletedBy(old) \in Int
  BY <1>1, SumsOfDeleted
<1>8. nextId' - 1 = Cardinality(trail') + DeletedBy(trail') + lost'
  <2>1. PICK n, all, gone, there, purged, rest :
          /\ n = nextId /\ all = Cardinality(trail) /\ gone = Cardinality(old)
          /\ there = DeletedBy(trail) /\ purged = DeletedBy(old) /\ rest = DeletedBy(kept)
    OBVIOUS
  <2>2. PICK l : l = lost
    OBVIOUS
  <2>3. /\ n \in Int /\ all \in Int /\ gone \in Int /\ there \in Int /\ purged \in Int /\ l \in Int
        /\ n - 1 = all + there + l /\ there = purged + rest
    BY <1>1, <1>2, <1>7, <2>1, <2>2
  <2>4. rest \in Int
    BY <1>1, <1>7, <2>1, SumsOfDeleted
  <2>5. n = ((all - gone) + 1) + (gone + rest) + (l + purged)
    BY <2>3, <2>4
  <2>6. /\ nextId' = n + 1 /\ lost' = l + purged
        /\ Cardinality(trail') = (all - gone) + 1 /\ DeletedBy(trail') = gone + rest
    BY <1>2, <1>4, <1>6, <2>1, <2>2
  <2>7. (n + 1) - 1 = n
    BY <2>3
  <2> QED BY <2>5, <2>6, <2>7, Zenon
<1>9. /\ nextId' \in Nat \ {0} /\ lost' \in Int /\ IsFiniteSet(trail')
      /\ \A x \in trail' : x.id \in Nat /\ x.id < nextId' /\ x.deleted \in Nat
  <2> HIDE DEF kept
  <2> QED BY <1>1, <1>4, <1>5, <1>7 DEF kept
<1> QED BY <1>8, <1>9 DEF TrailInv, TrailAccounted

LEMMA TrailStep == TrailInv /\ [SessionNext]_sessionVars => TrailInv'
<1> SUFFICES ASSUME TrailInv, [SessionNext]_sessionVars PROVE TrailInv'
  OBVIOUS
<1>1. ASSUME UNCHANGED <<trail, nextId, lost>> PROVE TrailInv'
  BY <1>1 DEF TrailInv, TrailAccounted
<1>2. ASSUME NEW h \in Holders, Write(h) PROVE TrailInv'
  <2>1. CASE UNCHANGED <<trail, nextId>>
    BY <1>1, <1>2, <2>1 DEF Write
  <2>2. CASE /\ trail' = trail \cup {Entry(h, "write", 0)}
             /\ nextId' = nextId + 1
    <3>1. PICK e : e = Entry(h, "write", 0)
      OBVIOUS
    <3>2. e.id = nextId /\ e.deleted = 0
      BY <3>1 DEF Entry
    <3>3. {} \in SUBSET trail /\ trail \cup {e} = (trail \ {}) \cup {e} /\ Cardinality({}) = 0
      BY FS_EmptySet
    <3>4. lost' = lost + DeletedBy({})
      <4>1. DeletedBy({}) = 0 /\ lost \in Int /\ lost' = lost
        BY <1>2, SumsOfDeleted DEF Write, TrailInv
      <4> QED BY <4>1
    <3> QED BY <2>2, <3>1, <3>2, <3>3, <3>4, Recording
  <2> QED BY <1>2, <2>1, <2>2 DEF Write
<1>3. ASSUME NEW h \in Holders, Purge(h) PROVE TrailInv'
  <2>1. CASE UNCHANGED <<trail, nextId, lost>>
    BY <1>1, <2>1
  <2>2. PICK old : old = {e \in trail : e.at < now - Retention}
    OBVIOUS
  <2>3. CASE /\ trail' = (trail \ old) \cup {Entry(h, "purge", Cardinality(old))}
             /\ nextId' = nextId + 1
             /\ lost' = lost + DeletedBy(old)
    <3>1. PICK e : e = Entry(h, "purge", Cardinality(old))
      OBVIOUS
    <3>2. e.id = nextId /\ e.deleted = Cardinality(old) /\ old \in SUBSET trail
      BY <2>2, <3>1 DEF Entry
    <3> QED BY <2>3, <3>1, <3>2, Recording
  <2> QED BY <1>3, <2>1, <2>2, <2>3, Zenon DEF Purge
<1> QED
  BY <1>1, <1>2, <1>3
  DEF SessionNext, sessionVars, Pass, Reconfigure, Login, Authenticate, ReadTrail, Revoke

\* The entries ever written are those in the trail and those which the purge entries,
\* deleted ones included, say were deleted, for any requests and restarts.
THEOREM TrailAlwaysAccounted == SessionSpec => []TrailAccounted
<1>1. TrailInv => TrailAccounted
  BY DEF TrailInv
<1> QED BY TrailStarts, TrailStep, <1>1, PTL DEF SessionSpec
-----------------------------------------------------------------------------
\* The scrape.

Ascends(vals, n) ==
  /\ vals \in [1..n -> Int]
  /\ \A k, l \in 1..n : k <= l => vals[k] <= vals[l]

LEMMA SortedAscends ==
  ASSUME NEW n \in Nat, NEW samples \in Seq(Int), Len(samples) = n
  PROVE  /\ Ascends(Sorted(samples), n)
         /\ ToSet(Sorted(samples)) = ToSet(samples)
<1> DEFINE S == 1..n
           earlier(j, i) == samples[j] < samples[i] \/ (samples[j] = samples[i] /\ j < i)
           at(k) == CHOOSE i \in S : Place(samples, i) = k
<1>0. samples \in [S -> Int] /\ DOMAIN samples = S /\ \A i \in S : samples[i] \in Int
  OBVIOUS
<1>1. PICK R : R = {p \in S \X S : earlier(p[1], p[2])}
  OBVIOUS
<1>2. \A i, j \in S : <<j, i>> \in R <=> earlier(j, i)
  BY <1>1
<1>3. IsFiniteSet(S) /\ Cardinality(S) = n
  BY FS_Interval
<1>4. Orders(R, S)
  <2>1. \A i \in S : ~earlier(i, i)
    BY <1>0
  <2>2. \A i, j, k \in S : earlier(i, j) /\ earlier(j, k) => earlier(i, k)
    BY <1>0
  <2>3. ASSUME NEW i \in S, NEW j \in S, i # j PROVE earlier(i, j) \/ earlier(j, i)
    <3>1. PICK a, b : a = samples[i] /\ b = samples[j] /\ a \in Int /\ b \in Int
      BY <1>0
    <3>2. a < b \/ b < a \/ (a = b /\ (i < j \/ j < i))
      BY <2>3, <3>1
    <3>3. (samples[i] < samples[j] <=> a < b) /\ (samples[j] < samples[i] <=> b < a)
      BY <3>1, Zenon
    <3> QED BY <3>1, <3>2, <3>3, Zenon
  <2> HIDE DEF earlier, S
  <2> QED BY <1>2, <2>1, <2>2, <2>3 DEF Orders
<1>5. ASSUME NEW i \in S
      PROVE  Place(samples, i) = 1 + Cardinality(Below(R, S, i))
  <2> DEFINE upTo == {j \in DOMAIN samples :
                      samples[j] < samples[i] \/ (samples[j] = samples[i] /\ j <= i)}
  <2>1. Below(R, S, i) = upTo \ {i}
    <3>1. \A j \in S : j < i <=> j <= i /\ j # i
      OBVIOUS
    <3>2. ~(samples[i] < samples[i])
      BY <1>0
    <3> QED BY <1>0, <1>2, <3>1, <3>2 DEF Below
  <2>2. i \in upTo /\ IsFiniteSet(upTo)
    <3>1. i \in upTo
      OBVIOUS
    <3> QED BY <1>3, <3>1, FS_Subset
  <2>3. Place(samples, i) = Cardinality(upTo)
    BY DEF Place
  <2> HIDE DEF upTo
  <2>4. Cardinality(upTo) \in Nat /\ Cardinality(upTo \ {i}) = Cardinality(upTo) - 1
    BY <2>2, FS_RemoveElement, FS_CardinalityType
  <2>5. Cardinality(Below(R, S, i)) = Cardinality(upTo) - 1
    BY <2>1, <2>4, Zenon
  <2> QED BY <2>3, <2>4, <2>5
<1>6. /\ \A i, j \in S : Place(samples, i) = Place(samples, j) => i = j
      /\ \A k \in S : \E i \in S : Place(samples, i) = k
      /\ \A i \in S : Place(samples, i) \in S
  <2> HIDE DEF S
  <2>1. /\ \A i, j \in S : Cardinality(Below(R, S, i)) = Cardinality(Below(R, S, j)) => i = j
        /\ \A k \in 1..Cardinality(S) : \E i \in S : 1 + Cardinality(Below(R, S, i)) = k
        /\ \A i \in S : /\ Cardinality(Below(R, S, i)) \in Nat
                        /\ 1 + Cardinality(Below(R, S, i)) \in 1..Cardinality(S)
    BY <1>3, <1>4, Places
  <2>2. 1..Cardinality(S) = S
    BY <1>3 DEF S
  <2>3. \A i, j \in S : Place(samples, i) = Place(samples, j) => i = j
    BY <1>5, <2>1
  <2>5. \A i \in S : Place(samples, i) \in S
    BY <1>5, <2>1, <2>2, Zenon
  <2>4. \A k \in S : \E i \in S : Place(samples, i) = k
    BY <1>5, <2>1, <2>2
  <2> QED BY <2>3, <2>4, <2>5
<1>7. \A k \in S : at(k) \in S /\ Place(samples, at(k)) = k
  BY <1>6
<1>8. \A i \in S : at(Place(samples, i)) = i
  BY <1>6, <1>7
<1>9. Sorted(samples) = [k \in S |-> samples[at(k)]]
  BY <1>0 DEF Sorted
<1> HIDE DEF at
<1>10. ASSUME NEW k \in S, NEW l \in S, k <= l, samples[at(l)] < samples[at(k)]
       PROVE  FALSE
  <2>1. PICK i, j : i = at(k) /\ j = at(l) /\ i \in S /\ j \in S /\ Place(samples, i) = k
                    /\ Place(samples, j) = l
    BY <1>7
  <2>2. Below(R, S, j) \subseteq Below(R, S, i) /\ j \in Below(R, S, i) /\ j \notin Below(R, S, j)
    <3>1. samples[j] < samples[i]
      BY <1>10, <2>1, Zenon
    <3>2. <<j, i>> \in R
      BY <1>1, <2>1, <3>1
    <3> HIDE DEF S, earlier
    <3> QED BY <1>4, <2>1, <3>2 DEF Below, Orders
  <2>3. IsFiniteSet(Below(R, S, i)) /\ IsFiniteSet(Below(R, S, j))
    BY <1>3, FS_Subset DEF Below
  <2>4. /\ Cardinality(Below(R, S, j)) <= Cardinality(Below(R, S, i))
        /\ Cardinality(Below(R, S, j)) # Cardinality(Below(R, S, i))
        /\ Cardinality(Below(R, S, j)) \in Nat /\ Cardinality(Below(R, S, i)) \in Nat
    BY <2>2, <2>3, FS_Subset, FS_CardinalityType
  <2> QED BY <1>5, <1>10, <2>1, <2>4
<1>11. Ascends(Sorted(samples), n)
  <2>1. \A k \in S : samples[at(k)] \in Int
    BY <1>0, <1>7
  <2> QED BY <1>9, <1>10, <2>1 DEF Ascends
<1>12. ToSet(Sorted(samples)) = ToSet(samples)
  <2> HIDE DEF S
  <2>1. ToSet(Sorted(samples)) = {samples[at(k)] : k \in S} /\ ToSet(samples) = {samples[i] : i \in S}
    BY <1>0, <1>9 DEF ToSet
  <2>2. \A i \in S : \E k \in S : at(k) = i
    BY <1>6, <1>8
  <2> QED BY <1>7, <2>1, <2>2
<1> QED BY <1>11, <1>12

\* percentile() for p = k / (n - 1).
Interpolated(vals, n, k) ==
  LET f == k \div 100 + 1
      c == IF f < n THEN f + 1 ELSE f
  IN  100 * vals[f] + (k % 100) * (vals[c] - vals[f])

LEMMA Cut ==
  ASSUME NEW k \in Nat
  PROVE  \E q \in Nat, r \in 0..99 : q = k \div 100 /\ r = k % 100 /\ k = 100 * q + r
<1>1. k % 100 = k - 100 * (k \div 100) /\ k \div 100 \in Nat /\ k % 100 \in 0..99
  OBVIOUS
<1>2. PICK q, r : q = k \div 100 /\ r = k % 100
  OBVIOUS
<1> QED BY <1>1, <1>2

\* The k-th point lies r hundredths of a step above the q-th sample.
Lies(vals, n, k, q, r) ==
  \E step \in Nat :
    /\ Interpolated(vals, n, k) = 100 * vals[q + 1] + r * step
    /\ r * step \in Nat /\ r * step <= 100 * step
    /\ q < n - 1 => vals[q + 2] = vals[q + 1] + step
    /\ q = n - 1 => r * step = 0

LEMMA Between ==
  ASSUME NEW n \in Nat, NEW vals, Ascends(vals, n), NEW q \in 0..(n - 1), NEW r \in 0..99,
         NEW k \in Nat, q = k \div 100, r = k % 100, q = n - 1 => r = 0
  PROVE  Lies(vals, n, k, q, r)
<1>1. q + 1 \in 1..n /\ (q < n - 1 => q + 2 \in 1..n)
  OBVIOUS
<1>2. PICK c : c = IF q + 1 < n THEN q + 2 ELSE q + 1
  OBVIOUS
<1>3. PICK a, b : a = vals[q + 1] /\ b = vals[c] /\ a \in Int /\ b \in Int /\ a <= b
  BY <1>1, <1>2 DEF Ascends
<1>4. PICK step \in Nat : step = b - a
  BY <1>3
<1>5. Interpolated(vals, n, k) = 100 * a + r * step
  <2>1. Interpolated(vals, n, k) = 100 * vals[q + 1] + r * (vals[c] - vals[q + 1])
    BY <1>2 DEF Interpolated
  <2> QED BY <1>3, <1>4, <2>1, Zenon
<1>6. r * step \in Nat /\ r * step <= 100 * step
  OBVIOUS
<1>7. q = n - 1 => r * step = 0
  OBVIOUS
<1>8. q < n - 1 => vals[q + 2] = a + step
  BY <1>2, <1>3, <1>4
<1> QED BY <1>3, <1>5, <1>6, <1>7, <1>8 DEF Lies

LEMMA InterpolatedAscends ==
  ASSUME NEW n \in Nat, NEW vals, Ascends(vals, n),
         NEW k \in Nat, NEW l \in Nat, k <= l, l <= 100 * (n - 1)
  PROVE  Interpolated(vals, n, k) <= Interpolated(vals, n, l)
<1>1. PICK q \in Nat, r \in 0..99 : q = k \div 100 /\ r = k % 100 /\ k = 100 * q + r
  BY Cut
<1>2. PICK u \in Nat, v \in 0..99 : u = l \div 100 /\ v = l % 100 /\ l = 100 * u + v
  BY Cut
<1>3. /\ q \in 0..(n - 1) /\ (q = n - 1 => r = 0)
      /\ u \in 0..(n - 1) /\ (u = n - 1 => v = 0)
      /\ q <= u /\ (q = u => r <= v)
  BY <1>1, <1>2
<1>4. PICK step \in Nat :
        /\ Interpolated(vals, n, k) = 100 * vals[q + 1] + r * step
        /\ r * step \in Nat /\ r * step <= 100 * step
        /\ q < n - 1 => vals[q + 2] = vals[q + 1] + step
        /\ q = n - 1 => r * step = 0
  <2>1. Lies(vals, n, k, q, r)
    BY <1>1, <1>3, Between
  <2> QED BY <2>1 DEF Lies
<1>5. PICK other \in Nat :
        /\ Interpolated(vals, n, l) = 100 * vals[u + 1] + v * other
        /\ v * other \in Nat /\ v * other <= 100 * other
        /\ u < n - 1 => vals[u + 2] = vals[u + 1] + other
        /\ u = n - 1 => v * other = 0
  <2>1. Lies(vals, n, l, u, v)
    BY <1>2, <1>3, Between
  <2> QED BY <2>1 DEF Lies
<1>6. PICK a, b, x, y : /\ a = vals[q + 1] /\ b = vals[u + 1] /\ a \in Int /\ b \in Int
                        /\ x = r * step /\ y = v * other /\ x \in Nat /\ y \in Nat
  <2>1. vals[q + 1] \in Int /\ vals[u + 1] \in Int
    BY <1>3 DEF Ascends
  <2> QED BY <1>4, <1>5, <2>1
<1>7. Interpolated(vals, n, k) = 100 * a + x /\ Interpolated(vals, n, l) = 100 * b + y
  BY <1>4, <1>5, <1>6, Zenon
<1>8. CASE q < u
  <2>1. vals[q + 2] = a + step /\ vals[q + 2] <= b /\ x <= 100 * step
    BY <1>3, <1>4, <1>6, <1>8 DEF Ascends
  <2>2. a + step <= b
    BY <2>1, Zenon
  <2>3. 100 * a + x <= 100 * b + y
    BY <1>6, <2>1, <2>2
  <2> QED BY <1>7, <2>3
<1>9. CASE q = u
  <2>1. CASE q = n - 1
    <3>1. a = b /\ x = 0 /\ y = 0
      BY <1>4, <1>5, <1>6, <1>9, <2>1
    <3> QED BY <1>6, <1>7, <3>1
  <2>2. CASE q < n - 1
    <3>1. a = b /\ step = other
      BY <1>3, <1>4, <1>5, <1>6, <1>9, <2>2 DEF Ascends
    <3>2. r * step <= v * step
      BY <1>3, <1>9
    <3>3. x <= y
      BY <1>6, <3>1, <3>2, Zenon
    <3> QED BY <1>6, <1>7, <3>1, <3>3
  <2> QED BY <1>3, <2>1, <2>2
<1> QED BY <1>1, <1>2, <1>3, <1>8, <1>9

\* The percentiles of the samples are in order, and between the extremes.
InOrderOf(ranks, samples) ==
  /\ 100 * Min(ToSet(samples)) <= ranks.p50
  /\ ranks.p50 <= ranks.p95 /\ ranks.p95 <= ranks.p99
  /\ ranks.p99 <= 100 * Max(ToSet(samples))

LEMMA RanksInOrder ==
  ASSUME NEW samples \in Seq(Int), samples # << >>
  PROVE  InOrderOf(Ranks(samples), samples)
<1>1. PICK n \in Nat \ {0} : n = Len(samples)
  BY EmptySeq
<1>2. PICK vals : vals = Sorted(samples)
  OBVIOUS
<1>3. Ascends(vals, n) /\ ToSet(vals) = ToSet(samples)
  BY <1>1, <1>2, SortedAscends
<1>4. Len(vals) = n /\ ToSet(vals) = {vals[i] : i \in 1..n}
  <2>1. vals \in Seq(Int) /\ DOMAIN vals = 1..n
    BY <1>3 DEF Ascends
  <2> QED BY <1>3, <2>1 DEF ToSet, Ascends
<1>5. Min(ToSet(samples)) = vals[1] /\ Max(ToSet(samples)) = vals[n]
  <2>1. \A i \in 1..n : vals[i] \in Int /\ vals[1] <= vals[i] /\ vals[i] <= vals[n]
    BY <1>3 DEF Ascends
  <2>2. vals[1] \in ToSet(vals) /\ vals[n] \in ToSet(vals)
    BY <1>4
  <2>3. \A y \in ToSet(vals) : y \in Int /\ vals[1] <= y /\ y <= vals[n] /\ vals[n] >= y
    BY <1>4, <2>1
  <2>4. Min(ToSet(vals)) \in ToSet(vals) /\ \A y \in ToSet(vals) : Min(ToSet(vals)) <= y
    BY <2>2, <2>3, Zenon DEF Min
  <2>5. Max(ToSet(vals)) \in ToSet(vals) /\ \A y \in ToSet(vals) : Max(ToSet(vals)) >= y
    BY <2>2, <2>3, Zenon DEF Max
  <2> QED BY <1>3, <2>2, <2>3, <2>4, <2>5
<1>6. /\ Percentile(vals, 50) = Interpolated(vals, n, (n - 1) * 50)
      /\ Percentile(vals, 95) = Interpolated(vals, n, (n - 1) * 95)
      /\ Percentile(vals, 99) = Interpolated(vals, n, (n - 1) * 99)
  <2>1. \A p : Percentile(vals, p) = Interpolated(vals, n, (n - 1) * p)
    BY <1>4, Zenon DEF Percentile, Interpolated
  <2> QED BY <2>1, Zenon
<1>7. /\ Interpolated(vals, n, 0) = 100 * vals[1]
      /\ Interpolated(vals, n, 100 * (n - 1)) = 100 * vals[n]
  <2>1. vals[1] \in Int /\ vals[n] \in Int
    BY <1>3 DEF Ascends
  <2>2. Interpolated(vals, n, 0) = 100 * vals[1]
    BY <1>3, <2>1 DEF Interpolated, Ascends
  <2>3. PICK k : k = 100 * (n - 1)
    OBVIOUS
  <2>4. k \in Nat /\ k \div 100 = n - 1 /\ k % 100 = 0
    BY <2>3
  <2>5. Interpolated(vals, n, k) = 100 * vals[n]
    <3>1. k \div 100 + 1 = n /\ ~(n < n)
      BY <2>4
    <3>2. Interpolated(vals, n, k) = 100 * vals[n] + 0 * (vals[n] - vals[n])
      BY <2>4, <3>1, Zenon DEF Interpolated
    <3> QED BY <2>1, <3>2
  <2> QED BY <2>2, <2>3, <2>5
<1>8. /\ Interpolated(vals, n, 0) <= Interpolated(vals, n, (n - 1) * 50)
      /\ Interpolated(vals, n, (n - 1) * 50) <= Interpolated(vals, n, (n - 1) * 95)
      /\ Interpolated(vals, n, (n - 1) * 95) <= Interpolated(vals, n, (n - 1) * 99)
      /\ Interpolated(vals, n, (n - 1) * 99) <= Interpolated(vals, n, 100 * (n - 1))
  <2>1. PICK a, b, c, d : /\ a = (n - 1) * 50 /\ b = (n - 1) * 95 /\ c = (n - 1) * 99
                          /\ d = 100 * (n - 1)
                          /\ a \in Nat /\ b \in Nat /\ c \in Nat /\ d \in Nat
                          /\ 0 <= a /\ a <= b /\ b <= c /\ c <= d
    OBVIOUS
  <2>2. a <= 100 * (n - 1) /\ b <= 100 * (n - 1) /\ c <= 100 * (n - 1) /\ d <= 100 * (n - 1)
    BY <2>1
  <2>3. /\ Interpolated(vals, n, 0) <= Interpolated(vals, n, a)
        /\ Interpolated(vals, n, a) <= Interpolated(vals, n, b)
        /\ Interpolated(vals, n, b) <= Interpolated(vals, n, c)
        /\ Interpolated(vals, n, c) <= Interpolated(vals, n, d)
    BY <1>3, <2>1, <2>2, InterpolatedAscends
  <2> QED BY <2>1, <2>3
<1>9. /\ Ranks(samples).p50 = Percentile(vals, 50) /\ Ranks(samples).p95 = Percentile(vals, 95)
      /\ Ranks(samples).p99 = Percentile(vals, 99)
  BY <1>2 DEF Ranks
<1> QED BY <1>5, <1>6, <1>7, <1>8, <1>9 DEF InOrderOf

\* The responses behind the counts of a label.
Counted == {x \in Responses : served[x] # "none"}
CountedAs(l) == {x \in Counted : Label(x) = l}
TimedAs(l) == {x \in Counted : Label(x) = l /\ served[x] = "timed"}

ScrapeOK(x) ==
  /\ DOMAIN x = DOMAIN NoScrape
  /\ x.pc # "idle" => \A l \in Labels : x.durations[l] <= x.counts[l]
  /\ x.pc \in {"idle", "samples"} => x.samples = << >>
  /\ x.samples # << >> => /\ InOrderOf(x.ranks, x.samples)
                          /\ x.pc = "size" => Len(x.samples) <= Len(buffer)
                          /\ x.pc = "done" => Len(x.samples) <= x.size /\ x.size <= Capacity
  /\ x.samples \in Seq(Int)

MetricsInv ==
  /\ served = [x \in Responses |-> served[x]]
  /\ IsFiniteSet(Counted)
  /\ DOMAIN requestCounts = Labels /\ DOMAIN durationCounts = Labels
  /\ \A l \in Labels : /\ requestCounts[l] = Cardinality(CountedAs(l))
                       /\ durationCounts[l] = Cardinality(TimedAs(l))
  /\ buffer \in Seq(Int) /\ Len(buffer) <= Capacity
  /\ DOMAIN scrape = Scrapers
  /\ \A s \in Scrapers : ScrapeOK(scrape[s])

LEMMA MetricsStart == TelemetryInit => MetricsInv
<1> SUFFICES ASSUME TelemetryInit PROVE MetricsInv
  OBVIOUS
<1>1. Counted = {} /\ \A l \in Labels : CountedAs(l) = {} /\ TimedAs(l) = {}
  BY DEF TelemetryInit, Counted, CountedAs, TimedAs
<1>2. IsFiniteSet({}) /\ Cardinality({}) = 0
  BY FS_EmptySet
<1>3. \A s \in Scrapers : ScrapeOK(scrape[s])
  <2>1. NoScrape.pc = "idle" /\ NoScrape.samples = << >> /\ << >> \in Seq(Int)
    BY EmptySeq DEF NoScrape
  <2>2. ScrapeOK(NoScrape)
    BY <2>1 DEF ScrapeOK
  <2> QED BY <2>2 DEF TelemetryInit
<1>4. buffer \in Seq(Int) /\ Len(buffer) = 0
  BY EmptySeq DEF TelemetryInit
<1>5. /\ served = [x \in Responses |-> served[x]]
      /\ DOMAIN requestCounts = Labels /\ DOMAIN durationCounts = Labels /\ DOMAIN scrape = Scrapers
      /\ \A l \in Labels : requestCounts[l] = 0 /\ durationCounts[l] = 0
  BY DEF TelemetryInit
<1>6. Len(buffer) <= Capacity
  BY <1>4, TelemetryAssumption
<1> QED BY <1>1, <1>2, <1>3, <1>4, <1>5, <1>6 DEF MetricsInv

\* A duration is added up after its response was counted.
LEMMA CountsFit ==
  ASSUME MetricsInv, NEW l \in Labels
  PROVE  /\ durationCounts[l] <= requestCounts[l]
         /\ IsFiniteSet(CountedAs(l)) /\ IsFiniteSet(TimedAs(l))
<1>1. TimedAs(l) \subseteq CountedAs(l) /\ CountedAs(l) \subseteq Counted /\ IsFiniteSet(Counted)
  BY DEF TimedAs, CountedAs, MetricsInv
<1>2. IsFiniteSet(CountedAs(l)) /\ IsFiniteSet(TimedAs(l))
  BY <1>1, FS_Subset
<1>3. Cardinality(TimedAs(l)) <= Cardinality(CountedAs(l))
  BY <1>1, <1>2, FS_Subset
<1> QED BY <1>2, <1>3 DEF MetricsInv

LEMMA Counting ==
  ASSUME MetricsInv, NEW x \in Responses, IncRequest(x)
  PROVE  MetricsInv'
<1>1. /\ x \notin Counted /\ Counted' = Counted \cup {x}
      /\ \A l \in Labels : /\ TimedAs(l)' = TimedAs(l)
                           /\ CountedAs(l)' = IF l = Label(x) THEN CountedAs(l) \cup {x}
                                              ELSE CountedAs(l)
      /\ served' = [y \in Responses |-> served'[y]]
  BY DEF MetricsInv, IncRequest, Counted, TimedAs, CountedAs
<1>2. IsFiniteSet(Counted')
  BY <1>1, FS_AddElement DEF MetricsInv
<1>3. Label(x) \in Labels
  BY DEF Labels
<1>4. ASSUME NEW l \in Labels PROVE requestCounts'[l] = Cardinality(CountedAs(l)')
  <2>1. CASE l = Label(x)
    <3>1. x \notin CountedAs(l)
      BY <1>1 DEF CountedAs
    <3>2. Cardinality(CountedAs(l) \cup {x}) = Cardinality(CountedAs(l)) + 1
      BY <3>1, CountsFit, FS_AddElement
    <3>3. requestCounts'[l] = requestCounts[l] + 1
      BY <2>1 DEF IncRequest, MetricsInv
    <3> QED BY <1>1, <2>1, <3>2, <3>3 DEF MetricsInv
  <2>2. CASE l # Label(x)
    BY <1>1, <2>2 DEF IncRequest, MetricsInv
  <2> QED BY <2>1, <2>2
<1>5. /\ durationCounts' = durationCounts /\ buffer' = buffer /\ scrape' = scrape
      /\ DOMAIN requestCounts' = Labels
  BY DEF IncRequest, MetricsInv
<1> QED BY <1>1, <1>2, <1>4, <1>5 DEF MetricsInv, ScrapeOK

LEMMA AddingUp ==
  ASSUME MetricsInv, NEW x \in Responses, ObserveDuration(x)
  PROVE  MetricsInv'
<1>1. /\ x \in Counted /\ Counted' = Counted
      /\ \A l \in Labels : /\ CountedAs(l)' = CountedAs(l)
                           /\ TimedAs(l)' = IF l = Label(x) THEN TimedAs(l) \cup {x}
                                            ELSE TimedAs(l)
      /\ served' = [y \in Responses |-> served'[y]]
  BY DEF MetricsInv, ObserveDuration, Counted, TimedAs, CountedAs
<1>2. ASSUME NEW l \in Labels PROVE durationCounts'[l] = Cardinality(TimedAs(l)')
  <2>1. CASE l = Label(x)
    <3>1. x \notin TimedAs(l)
      BY DEF TimedAs, ObserveDuration
    <3>2. Cardinality(TimedAs(l) \cup {x}) = Cardinality(TimedAs(l)) + 1
      BY <3>1, CountsFit, FS_AddElement
    <3>3. durationCounts'[l] = durationCounts[l] + 1
      BY <2>1 DEF ObserveDuration, MetricsInv
    <3> QED BY <1>1, <2>1, <3>2, <3>3 DEF MetricsInv
  <2>2. CASE l # Label(x)
    BY <1>1, <2>2 DEF ObserveDuration, MetricsInv
  <2> QED BY <2>1, <2>2
<1>3. /\ requestCounts' = requestCounts /\ buffer' = buffer /\ scrape' = scrape
      /\ DOMAIN durationCounts' = Labels
  BY DEF ObserveDuration, MetricsInv
<1> QED BY <1>1, <1>2, <1>3 DEF MetricsInv, ScrapeOK

\* The buffer never gets shorter.
LEMMA Sampling ==
  ASSUME MetricsInv, NEW d \in Durations, Record(d)
  PROVE  MetricsInv'
<1>1. PICK all : all = Append(buffer, d)
  OBVIOUS
<1>2. /\ buffer' = (IF Len(all) > Capacity THEN Tail(all) ELSE all)
      /\ served' = served /\ requestCounts' = requestCounts /\ durationCounts' = durationCounts
      /\ scrape' = scrape
  BY <1>1 DEF Record
<1>3. /\ all \in Seq(Int) /\ Len(all) = Len(buffer) + 1 /\ Len(buffer) \in Nat
      /\ Tail(all) \in Seq(Int) /\ Len(Tail(all)) = Len(buffer)
  BY <1>1, TelemetryAssumption DEF MetricsInv
<1>4. buffer' \in Seq(Int) /\ Len(buffer') <= Capacity /\ Len(buffer) <= Len(buffer')
  BY <1>2, <1>3, TelemetryAssumption DEF MetricsInv
<1>5. \A x : ScrapeOK(x) => ScrapeOK(x)'
  <2> SUFFICES ASSUME NEW x, ScrapeOK(x) PROVE ScrapeOK(x)'
    OBVIOUS
  <2>1. Len(x.samples) \in Nat /\ Len(buffer) \in Nat /\ Len(buffer') \in Nat
    BY <1>3, <1>4 DEF ScrapeOK
  <2> QED BY <1>4, <2>1 DEF ScrapeOK
<1>6. /\ Counted' = Counted
      /\ \A l \in Labels : CountedAs(l)' = CountedAs(l) /\ TimedAs(l)' = TimedAs(l)
  BY <1>2 DEF Counted, CountedAs, TimedAs
<1> QED BY <1>2, <1>4, <1>5, <1>6 DEF MetricsInv

\* A step of one scrape.
LEMMA Scraping ==
  ASSUME MetricsInv, NEW s \in Scrapers,
         SnapshotRequests(s) \/ SnapshotSamples(s) \/ SnapshotSize(s)
  PROVE  MetricsInv'
<1>1. /\ UNCHANGED <<buffer, served, requestCounts, durationCounts>>
      /\ DOMAIN scrape' = Scrapers
      /\ \A t \in Scrapers : t # s => scrape'[t] = scrape[t]
  BY DEF SnapshotRequests, SnapshotSamples, SnapshotSize, MetricsInv
<1>2. PICK x, y : x = scrape[s] /\ y = scrape'[s]
  OBVIOUS
<1>3. ScrapeOK(x) /\ DOMAIN x = {"pc", "counts", "durations", "samples", "ranks", "size"}
  BY <1>2 DEF MetricsInv, ScrapeOK, NoScrape
<1>4. ScrapeOK(y)
  <2>1. CASE SnapshotRequests(s)
    <3>1. /\ x.pc = "idle" /\ y.pc = "samples" /\ y.counts = requestCounts
          /\ y.durations = durationCounts /\ y.samples = x.samples /\ DOMAIN y = DOMAIN x
      BY <1>2, <1>3, <2>1 DEF SnapshotRequests, MetricsInv
    <3>2. \A l \in Labels : y.durations[l] <= y.counts[l]
      BY <3>1, CountsFit
    <3> QED BY <1>3, <3>1, <3>2 DEF ScrapeOK
  <2>2. CASE SnapshotSamples(s)
    <3>1. /\ x.pc = "samples" /\ y.pc = (IF buffer = << >> THEN "done" ELSE "size")
          /\ y.counts = x.counts /\ y.durations = x.durations /\ y.samples = buffer
          /\ buffer # << >> => y.ranks = Ranks(buffer)
          /\ DOMAIN y = DOMAIN x /\ buffer \in Seq(Int)
      BY <1>2, <1>3, <2>2 DEF SnapshotSamples, MetricsInv
    <3>2. buffer # << >> => InOrderOf(y.ranks, y.samples)
      BY <3>1, RanksInOrder
    <3>3. Len(buffer) <= Len(buffer)
      BY <3>1
    <3> QED BY <1>3, <3>1, <3>2, <3>3 DEF ScrapeOK
  <2>3. CASE SnapshotSize(s)
    <3>1. /\ x.pc = "size" /\ y.pc = "done" /\ y.size = Len(buffer)
          /\ y.counts = x.counts /\ y.durations = x.durations /\ y.samples = x.samples
          /\ y.ranks = x.ranks /\ DOMAIN y = DOMAIN x /\ Len(buffer) <= Capacity
      BY <1>2, <1>3, <2>3 DEF SnapshotSize, MetricsInv
    <3> QED BY <1>3, <3>1 DEF ScrapeOK
  <2> QED BY <2>1, <2>2, <2>3
<1>5. \A t \in Scrapers : ScrapeOK(scrape'[t])
  BY <1>1, <1>2, <1>4 DEF MetricsInv
<1>6. /\ Counted' = Counted /\ \A z : ScrapeOK(z) => ScrapeOK(z)'
      /\ \A l \in Labels : CountedAs(l)' = CountedAs(l) /\ TimedAs(l)' = TimedAs(l)
  BY <1>1 DEF Counted, CountedAs, TimedAs, ScrapeOK
<1> QED BY <1>1, <1>5, <1>6 DEF MetricsInv

LEMMA MetricsStep == MetricsInv /\ [TelemetryNext]_telemetryVars => MetricsInv'
<1> SUFFICES ASSUME MetricsInv, [TelemetryNext]_telemetryVars PROVE MetricsInv'
  OBVIOUS
<1>1. CASE UNCHANGED telemetryVars
  BY <1>1 DEF MetricsInv, ScrapeOK, Counted, CountedAs, TimedAs, telemetryVars
<1> QED BY <1>1, Counting, AddingUp, Sampling, Scraping DEF TelemetryNext

\* What a scrape shows belongs together although it is read under several locks, for
\* any samples, labels and capacity: counts cover durations, percentiles are ordered
\* and between the extremes of their samples.
THEOREM ScrapesAlwaysFitTogether == TelemetrySpec => []ScrapeFitsTogether
<1>1. MetricsInv => ScrapeFitsTogether
  BY DEF MetricsInv, ScrapeOK, ScrapeFitsTogether, InOrderOf
<1> QED BY MetricsStart, MetricsStep, <1>1, PTL DEF TelemetrySpec
-----------------------------------------------------------------------------
\* The boot.  Recovery takes no job from its supervisor, and only a complete
\* database is ready, for any number of replicas, databases and jobs.
BootPC == {"down", "inspect", "create", "stamp", "recover", "mark", "leases", "serving"}
Revision == {"absent", "old", "current"}
Boot == [pc : BootPC, revision : Revision, tables : SUBSET Tables,
         found : SUBSET ScanJobs]
ScanJob == [status : {"none", "queued", "running", "failed", "completed"}, age : Int,
            supervised : BOOLEAN, waited : BOOLEAN, recovered : BOOLEAN]

StartupTypes ==
  /\ schema \in [tables : SUBSET Tables, columns : BOOLEAN, revision : Revision,
                legacy : BOOLEAN]
  /\ boot \in [Replicas -> Boot]
  /\ scanJob \in [ScanJobs -> ScanJob]

\* A supervised job was claimed, and is younger than what recovery looks for.
YoungWhileSupervised ==
  \A j \in ScanJobs : scanJob[j].supervised =>
    scanJob[j].age <= MaxScan /\ scanJob[j].status \notin {"none", "queued"}

\* What recovery found and has not marked yet is an accepted job; if it is
\* still queued it is still stale, and if it is supervised by now it had waited.
FoundIsOld ==
  \A p \in Replicas : boot[p].pc = "mark" =>
    \A j \in boot[p].found :
      /\ scanJob[j].status # "none"
      /\ scanJob[j].status = "queued" => scanJob[j].age > Stale
      /\ scanJob[j].supervised => scanJob[j].waited

\* A job that was marked does not go back to the queue.
RecoveredIsOver ==
  \A j \in ScanJobs : scanJob[j].recovered => scanJob[j].status \notin {"none", "queued"}

RecoveryInv ==
  /\ StartupTypes
  /\ YoungWhileSupervised
  /\ FoundIsOld
  /\ RecoveredIsOver
  /\ RecoverySparesLive

-----------------------------------------------------------------------------
\* The invariant holds when nothing is booted yet: no job is supervised.
LEMMA RecoveryStarts == ASSUME StartupInit PROVE RecoveryInv
<1>1. \A j \in ScanJobs : /\ scanJob[j] \in ScanJob
                          /\ ~scanJob[j].supervised
                          /\ ~scanJob[j].recovered
  <2> SUFFICES ASSUME NEW j \in ScanJobs
               PROVE  /\ scanJob[j] \in ScanJob
                      /\ ~scanJob[j].supervised
                      /\ ~scanJob[j].recovered
    OBVIOUS
  <2>1. CASE scanJob[j] = NoScanJob
    BY <2>1 DEF NoScanJob, ScanJob
  <2>2. ASSUME NEW s \in {"queued", "running"},
               scanJob[j] = [NoScanJob EXCEPT !.status = s, !.age = Stale + 1]
        PROVE  /\ scanJob[j] \in ScanJob
               /\ ~scanJob[j].supervised
               /\ ~scanJob[j].recovered
    <3>1. Stale + 1 \in Int
      BY StaleAssumption
    <3>2. scanJob[j] = [status |-> s, age |-> Stale + 1, supervised |-> FALSE,
                        waited |-> FALSE, recovered |-> FALSE]
      BY <2>2 DEF NoScanJob
    <3> QED
      BY <3>1, <3>2 DEF ScanJob
  <2> QED
    BY <2>1, <2>2 DEF StartupInit
<1>2. StartupTypes
  <2>1. scanJob \in [ScanJobs -> ScanJob]
    BY <1>1 DEF StartupInit
  <2>2. Down \in Boot
    BY DEF Down, Boot, BootPC, Revision
  <2>3. schema \in [tables : SUBSET Tables, columns : BOOLEAN, revision : Revision,
                legacy : BOOLEAN]
    BY SchemaAssumption DEF StartupInit, Revision
  <2> QED
    BY <2>1, <2>2, <2>3 DEF StartupInit, StartupTypes
<1> QED
  BY <1>1, <1>2
  DEF StartupInit, RecoveryInv, YoungWhileSupervised, FoundIsOld, RecoveredIsOver,
      RecoverySparesLive, Down

\* A replica's way to and from recovery: what it does leaves the jobs alone and
\* makes no replica begin to mark.
BootOnly ==
  /\ UNCHANGED scanJob
  /\ \A p \in Replicas :
       boot'[p].pc = "mark" => boot[p].pc = "mark" /\ boot'[p].found = boot[p].found

LEMMA BootKeeps ==
  ASSUME RecoveryInv, BootOnly, StartupTypes' PROVE RecoveryInv'
  BY DEF RecoveryInv, BootOnly, YoungWhileSupervised, FoundIsOld, RecoveredIsOver,
         RecoverySparesLive

LEMMA ReplicaMoves ==
  ASSUME RecoveryInv, NEW p \in Replicas,
         \/ ReadRevision(p) \/ InspectTables(p) \/ CreateTables(p) \/ Stamp(p)
         \/ RecoveryFails(p) \/ Serve(p) \/ BootCrash(p)
  PROVE  RecoveryInv'
<1>1. StartupTypes' /\ BootOnly
  <2> USE DEF RecoveryInv, StartupTypes, BootOnly, Boot, BootPC, Revision, Down
  <2>1. CASE ReadRevision(p)
    <3>1. schema.revision \in Revision
      BY DEF RecoveryInv
    <3>2. boot' \in [Replicas -> Boot]
      BY <2>1, <3>1 DEF ReadRevision
    <3> QED
      BY <2>1, <3>2 DEF ReadRevision
  <2>2. CASE InspectTables(p)
    BY <2>2 DEF InspectTables
  <2>3. CASE CreateTables(p)
    <3>1. schema' \in [tables : SUBSET Tables, columns : BOOLEAN, revision : Revision,
                legacy : BOOLEAN]
      <4> DEFINE whole == schema.columns \/ Tables \ boot[p].tables = Tables
                 wider == schema.tables \cup (Tables \ boot[p].tables)
      <4>1. whole \in BOOLEAN /\ wider \in SUBSET Tables
        OBVIOUS
      <4>2. schema' = [schema EXCEPT !.tables = wider, !.columns = whole]
            \/ schema' = schema
        BY <2>3 DEF CreateTables
      <4> HIDE DEF whole, wider
      <4>3. schema' = [tables |-> wider, columns |-> whole, revision |-> schema.revision,
                        legacy |-> schema.legacy]
            \/ schema' = schema
        BY <4>2
      <4> QED
        BY <4>1, <4>3
    <3>2. boot' \in [Replicas -> Boot]
      BY <2>3 DEF CreateTables, BootTo, NeedsStamp
    <3>3. BootOnly
      BY <2>3 DEF CreateTables, BootTo, NeedsStamp
    <3> QED
      BY <2>3, <3>1, <3>2, <3>3 DEF CreateTables
  <2>4. CASE Stamp(p)
    BY <2>4 DEF Stamp, BootTo
  <2>5. CASE RecoveryFails(p)
    BY <2>5 DEF RecoveryFails, BootTo
  <2>6. CASE Serve(p)
    BY <2>6 DEF Serve, BootTo
  <2>7. CASE BootCrash(p)
    BY <2>7 DEF BootCrash
  <2> QED
    BY <2>1, <2>2, <2>3, <2>4, <2>5, <2>6, <2>7
<1> QED
  BY <1>1, BootKeeps

\* What is found is stale, so nobody supervises it.
LEMMA FindStaleKeeps ==
  ASSUME RecoveryInv, NEW p \in Replicas, FindStale(p) PROVE RecoveryInv'
<1>1. StartupTypes
  BY DEF RecoveryInv
<1>2. PICK l \in {"leases", "mark"} :
        boot' = [boot EXCEPT ![p] = [boot[p] EXCEPT !.found = StaleJobs, !.pc = l]]
  BY DEF FindStale
<1> DEFINE c == [boot[p] EXCEPT !.found = StaleJobs]
           b == [c EXCEPT !.pc = l]
<1>3. b \in Boot /\ b.found = StaleJobs
  <2>1. StaleJobs \in SUBSET ScanJobs
    BY DEF StaleJobs
  <2>2. boot[p] \in Boot
    BY <1>1 DEF StartupTypes
  <2>3. c \in Boot /\ c.found = StaleJobs
    BY <2>1, <2>2, Zenon DEF Boot
  <2> HIDE DEF c
  <2> QED
    BY <2>3 DEF Boot, BootPC
<1> HIDE DEF b
<1>4. boot' = [boot EXCEPT ![p] = b]
  BY <1>2 DEF b
<1>5. StartupTypes'
  BY <1>1, <1>3, <1>4 DEF FindStale, StartupTypes
<1>6. ASSUME NEW j \in StaleJobs
      PROVE  /\ scanJob[j].status # "none"
             /\ scanJob[j].age > Stale
             /\ ~scanJob[j].supervised
  <2>1. j \in ScanJobs /\ scanJob[j].status \in {"running", "queued"}
        /\ scanJob[j].age > Stale
    BY DEF StaleJobs
  <2>2. scanJob[j].age \in Int
    BY <1>1, <2>1 DEF StartupTypes, ScanJob
  <2>3. ~(scanJob[j].age <= MaxScan)
    BY <2>1, <2>2, StaleAssumption
  <2> QED
    BY <2>1, <2>3 DEF RecoveryInv, YoungWhileSupervised
<1>7. \A q \in Replicas : boot'[q].pc = "mark" =>
        \/ boot'[q].found = StaleJobs
        \/ boot[q].pc = "mark" /\ boot'[q].found = boot[q].found
  <2>1. ASSUME NEW q \in Replicas PROVE boot'[q] = IF q = p THEN b ELSE boot[q]
    BY <1>1, <1>4 DEF StartupTypes
  <2>2. boot'[p].found = StaleJobs
    BY <2>1, <1>3
  <2>3. \A q \in Replicas \ {p} : boot'[q] = boot[q]
    BY <2>1
  <2> QED
    BY <2>2, <2>3
<1>8. FoundIsOld'
  <2>1. scanJob' = scanJob
    BY DEF FindStale
  <2> QED
    BY <1>6, <1>7, <2>1 DEF RecoveryInv, FoundIsOld
<1> QED
  BY <1>5, <1>8
  DEF FindStale, RecoveryInv, YoungWhileSupervised, RecoveredIsOver, RecoverySparesLive

-----------------------------------------------------------------------------
\* A step of the jobs themselves: the replicas stay where they are, or one
\* leaves recovery.
JobsMove ==
  /\ StartupTypes'
  /\ \A p \in Replicas :
       boot'[p].pc = "mark" => boot[p].pc = "mark" /\ boot'[p].found = boot[p].found

\* What may become of one job, in the terms of the invariant.
Kept(old, new) ==
  /\ new.supervised =>
       new.age <= MaxScan /\ new.status # "none" /\ new.status # "queued"
  /\ old.status # "none" => new.status # "none"
  /\ new.status = "queued" => /\ ~old.recovered /\ ~new.recovered
                              /\ old.status = "queued" \/ old.status = "none"
                              /\ old.age > Stale => new.age > Stale
  /\ new.recovered => new.status # "none"
  /\ new.recovered /\ new.supervised => new.waited
  /\ new.supervised /\ ~old.supervised =>
       old.status = "queued" /\ (old.age > Stale => new.waited)
  /\ new.supervised /\ old.supervised => (old.waited => new.waited)

LEMMA JobsKept ==
  ASSUME RecoveryInv, JobsMove, \A j \in ScanJobs : Kept(scanJob[j], scanJob'[j])
  PROVE  RecoveryInv'
<1> USE DEF JobsMove, Kept
<1>1. YoungWhileSupervised' /\ RecoveredIsOver' /\ RecoverySparesLive'
  BY DEF RecoveryInv, YoungWhileSupervised, RecoveredIsOver, RecoverySparesLive
<1>2. ASSUME NEW p \in Replicas, boot'[p].pc = "mark", NEW j \in boot'[p].found
      PROVE  /\ scanJob'[j].status # "none"
             /\ scanJob'[j].status = "queued" => scanJob'[j].age > Stale
             /\ scanJob'[j].supervised => scanJob'[j].waited
  <2>1. boot[p].pc = "mark" /\ j \in boot[p].found
    BY <1>2
  <2>2. j \in ScanJobs
    BY <2>1 DEF RecoveryInv, StartupTypes, Boot
  <2>3. /\ scanJob[j].status # "none"
        /\ scanJob[j].status = "queued" => scanJob[j].age > Stale
        /\ scanJob[j].supervised => scanJob[j].waited
    BY <2>1 DEF RecoveryInv, FoundIsOld
  <2> QED
    BY <2>2, <2>3
<1> QED
  BY <1>1, <1>2 DEF RecoveryInv, FoundIsOld

\* Marking ends no supervision but that of a job that had waited.
LEMMA MarkStaleKeeps ==
  ASSUME RecoveryInv, NEW p \in Replicas, MarkStale(p) PROVE RecoveryInv'
<1>1. StartupTypes
  BY DEF RecoveryInv
<1>2. JobsMove
  <2>1. boot' \in [Replicas -> Boot]
        /\ \A q \in Replicas : boot'[q].pc = "mark" =>
             boot[q].pc = "mark" /\ boot'[q].found = boot[q].found
    <3>1. boot \in [Replicas -> Boot] /\ boot' = [boot EXCEPT ![p].pc = "leases"]
      BY <1>1 DEF MarkStale, BootTo, StartupTypes
    <3> QED BY <3>1 DEF Boot, BootPC
  <2>2. \A j \in ScanJobs :
          [scanJob[j] EXCEPT !.status = "failed", !.recovered = TRUE] \in ScanJob
    BY <1>1 DEF StartupTypes, ScanJob
  <2>3. scanJob' \in [ScanJobs -> ScanJob]
    BY <1>1, <2>2 DEF MarkStale, StartupTypes
  <2> QED
    BY <1>1, <2>1, <2>3 DEF MarkStale, JobsMove, StartupTypes
<1>3. ASSUME NEW j \in ScanJobs PROVE Kept(scanJob[j], scanJob'[j])
  <2>1. CASE scanJob'[j] = scanJob[j]
    BY <2>1
    DEF Kept, RecoveryInv, YoungWhileSupervised, RecoveredIsOver, RecoverySparesLive
  <2>2. CASE /\ j \in boot[p].found
             /\ scanJob'[j] = [scanJob[j] EXCEPT !.status = "failed", !.recovered = TRUE]
    <3>1. scanJob[j].supervised => scanJob[j].waited
      BY <2>2 DEF RecoveryInv, FoundIsOld, MarkStale
    <3>2. scanJob[j].supervised => scanJob[j].age <= MaxScan
      BY DEF RecoveryInv, YoungWhileSupervised
    <3>3. /\ scanJob'[j].status = "failed" /\ scanJob'[j].age = scanJob[j].age
          /\ scanJob'[j].supervised = scanJob[j].supervised
          /\ scanJob'[j].waited = scanJob[j].waited
      BY <1>1, <2>2 DEF StartupTypes, ScanJob
    <3> QED
      BY <3>1, <3>2, <3>3 DEF Kept
  <2> QED
    BY <2>1, <2>2 DEF MarkStale
<1> QED
  BY <1>2, <1>3, JobsKept

\* The life of the jobs: they only get older in the queue, and a claim of one
\* that is stale says so.
LEMMA JobsKeep ==
  ASSUME RecoveryInv, NEW j \in ScanJobs,
         Accepted(j) \/ Claimed(j) \/ Finished(j) \/ Abandon(j)
  PROVE  RecoveryInv'
<1>1. StartupTypes
  BY DEF RecoveryInv
<1>2. \A k \in ScanJobs \ {j} : scanJob'[k] = scanJob[k]
  BY <1>1 DEF Accepted, Claimed, Finished, Abandon, StartupTypes
<1>3. \A k \in ScanJobs \ {j} : Kept(scanJob[k], scanJob'[k])
  BY <1>2
  DEF Kept, RecoveryInv, YoungWhileSupervised, RecoveredIsOver, RecoverySparesLive
<1>4. /\ scanJob[j] \in ScanJob
      /\ scanJob[j].supervised =>
           /\ scanJob[j].age <= MaxScan
           /\ scanJob[j].status # "none" /\ scanJob[j].status # "queued"
      /\ scanJob[j].recovered =>
           scanJob[j].status # "none" /\ scanJob[j].status # "queued"
      /\ scanJob[j].recovered /\ scanJob[j].supervised => scanJob[j].waited
  BY <1>1
  DEF RecoveryInv, StartupTypes, YoungWhileSupervised, RecoveredIsOver,
      RecoverySparesLive
<1>5. scanJob'[j] \in ScanJob /\ Kept(scanJob[j], scanJob'[j])
  <2>1. CASE Accepted(j)
    <3>1. scanJob[j].status = "none"
          /\ scanJob'[j] = [scanJob[j] EXCEPT !.status = "queued"]
      BY <2>1, <1>1 DEF Accepted, StartupTypes
    <3> QED
      BY <3>1, <1>4 DEF Kept, ScanJob
  <2>2. CASE Claimed(j)
    <3> DEFINE w == scanJob[j].age > Stale
    <3>1. scanJob[j].status = "queued"
          /\ scanJob'[j] = [scanJob[j] EXCEPT !.status = "running", !.age = 0,
                               !.supervised = TRUE, !.waited = w]
      BY <2>2, <1>1 DEF Claimed, StartupTypes
    <3>2. w \in BOOLEAN /\ (scanJob[j].age > Stale => w)
      OBVIOUS
    <3> HIDE DEF w
    <3>3. scanJob'[j] = [status |-> "running", age |-> 0, supervised |-> TRUE,
                         waited |-> w, recovered |-> scanJob[j].recovered]
      BY <3>1, <1>4 DEF ScanJob
    <3>4. scanJob'[j] \in ScanJob
      BY <3>2, <3>3, <1>4 DEF ScanJob
    <3>5. /\ scanJob'[j].status = "running" /\ scanJob'[j].age = 0
      BY <3>3
    <3>6. ~scanJob[j].recovered /\ ~scanJob'[j].recovered /\ ~scanJob[j].supervised
      BY <3>1, <3>3, <1>4
    <3>7. scanJob[j].age > Stale => scanJob'[j].waited
      BY <3>2, <3>3
    <3> QED
      BY <3>1, <3>4, <3>5, <3>6, <3>7, StaleAssumption DEF Kept
  <2>3. CASE Finished(j)
    <3>1. scanJob'[j] = [scanJob[j] EXCEPT !.status = "completed", !.supervised = FALSE]
      BY <2>3, <1>1 DEF Finished, StartupTypes
    <3> QED
      BY <3>1, <1>4 DEF Kept, ScanJob
  <2>4. CASE Abandon(j)
    <3>1. scanJob'[j] = [scanJob[j] EXCEPT !.supervised = FALSE]
      BY <2>4, <1>1 DEF Abandon, StartupTypes
    <3> QED
      BY <3>1, <1>4 DEF Kept, ScanJob
  <2> QED
    BY <2>1, <2>2, <2>3, <2>4
<1>6. JobsMove
  <2>1. UNCHANGED <<schema, boot>> /\ DOMAIN scanJob' = ScanJobs
        /\ scanJob' = [k \in ScanJobs |-> scanJob'[k]]
    BY <1>1 DEF Accepted, Claimed, Finished, Abandon, StartupTypes
  <2>2. \A k \in ScanJobs : scanJob'[k] \in ScanJob
    BY <1>1, <1>2, <1>5 DEF StartupTypes
  <2> QED
    BY <1>1, <2>1, <2>2 DEF JobsMove, StartupTypes
<1> QED
  BY <1>3, <1>5, <1>6, JobsKept

LEMMA GrowKeeps ==
  ASSUME RecoveryInv, Grow PROVE RecoveryInv'
<1>1. StartupTypes
  BY DEF RecoveryInv
<1>2. ASSUME NEW j \in ScanJobs
      PROVE  scanJob'[j] \in ScanJob /\ Kept(scanJob[j], scanJob'[j])
  <2>1. /\ scanJob[j] \in ScanJob
        /\ scanJob[j].supervised =>
             /\ scanJob[j].age < MaxScan
             /\ scanJob[j].status # "none" /\ scanJob[j].status # "queued"
        /\ scanJob[j].recovered =>
             scanJob[j].status # "none" /\ scanJob[j].status # "queued"
        /\ scanJob[j].recovered /\ scanJob[j].supervised => scanJob[j].waited
    BY <1>1
    DEF Grow, RecoveryInv, StartupTypes, YoungWhileSupervised, RecoveredIsOver,
        RecoverySparesLive
  <2>2. CASE scanJob'[j] = scanJob[j]
    BY <2>1, <2>2, StaleAssumption DEF Kept, ScanJob
  <2>3. CASE scanJob'[j] = [scanJob[j] EXCEPT !.age = @ + 1]
    BY <2>1, <2>3, StaleAssumption DEF Kept, ScanJob
  <2> QED
    BY <2>2, <2>3 DEF Grow
<1>3. JobsMove
  BY <1>1, <1>2 DEF Grow, JobsMove, StartupTypes
<1> QED
  BY <1>2, <1>3, JobsKept

LEMMA RecoveryStep ==
  ASSUME RecoveryInv, [StartupNext]_bootVars PROVE RecoveryInv'
<1>1. CASE Upgrade
  BY <1>1
  DEF Upgrade, RecoveryInv, StartupTypes, Revision, YoungWhileSupervised, FoundIsOld,
      RecoveredIsOver, RecoverySparesLive
<1>2. CASE UNCHANGED bootVars
  BY <1>2
  DEF bootVars, RecoveryInv, StartupTypes, YoungWhileSupervised, FoundIsOld,
      RecoveredIsOver, RecoverySparesLive
<1> QED
  BY <1>1, <1>2, ReplicaMoves, FindStaleKeeps, MarkStaleKeeps, JobsKeep, GrowKeeps
  DEF StartupNext, Boots

\* Recovery takes no job from its supervisor, except one that was stale in the
\* queue before it was claimed: main.py's recovery finds, decides and marks in
\* steps, and other replicas go on in between.
THEOREM LiveScansAreSpared == StartupSpec => []RecoverySparesLive
<1>1. RecoveryInv => RecoverySparesLive
  BY DEF RecoveryInv
<1> QED
  BY RecoveryStarts, RecoveryStep, <1>1, PTL DEF StartupSpec

-----------------------------------------------------------------------------
\* Readiness: only a complete database is ever stamped, or a legacy one.

\* A database without a revision has all columns or no table at all, or is a legacy one.
Complete == schema.columns \/ schema.legacy
Whole == schema.tables = {} \/ Complete
CreatesWhole ==
  \A p \in Replicas :
    /\ boot[p].pc \in {"inspect", "create"} /\ NeedsStamp(p) => Whole
    /\ boot[p].pc = "create" => boot[p].tables \subseteq schema.tables
    /\ boot[p].pc = "stamp" => Complete
ReadyInv ==
  /\ StartupTypes
  /\ schema.revision = "absent" => Whole
  /\ schema.revision = "current" => Complete
  /\ CreatesWhole

LEMMA ReadyStarts == ASSUME StartupInit PROVE ReadyInv
<1>1. StartupTypes
  BY RecoveryStarts DEF RecoveryInv
<1>2. schema \in Schemas
  BY DEF StartupInit
<1>3. CreatesWhole
  BY DEF StartupInit, CreatesWhole, Down
<1> QED BY <1>1, <1>2, <1>3, MigrationAssumption DEF ReadyInv, Whole, Complete

\* A database that only grows stays whole for those who rely on it.
LEMMA ReadyKeeps ==
  ASSUME ReadyInv, StartupTypes',
         \/ UNCHANGED schema
         \/ Complete'
         \/ ~Whole /\ schema'.revision = schema.revision,
         schema.tables \subseteq schema'.tables,
         \A p \in Replicas :
           \/ UNCHANGED boot[p]
           \/ boot'[p].pc \notin {"inspect", "create", "stamp"}
           \/ boot'[p].pc = "inspect" /\ boot'[p].revision = schema.revision
           \/ /\ boot'[p].pc = "create" /\ boot[p].pc = "inspect"
              /\ boot'[p].revision = boot[p].revision /\ boot'[p].tables = schema.tables
           \/ boot'[p].pc = "stamp" /\ Complete'
  PROVE  ReadyInv'
<1>1. CreatesWhole'
  <2> SUFFICES ASSUME NEW p \in Replicas
               PROVE  /\ boot'[p].pc \in {"inspect", "create"} /\ NeedsStamp(p)' => Whole'
                      /\ boot'[p].pc = "create" => boot'[p].tables \subseteq schema'.tables
                      /\ boot'[p].pc = "stamp" => Complete'
    BY DEF CreatesWhole
  <2>1. CASE UNCHANGED boot[p]
    BY <2>1 DEF ReadyInv, CreatesWhole, NeedsStamp, Whole, Complete
  <2>2. CASE boot'[p].pc = "inspect" /\ boot'[p].revision = schema.revision
    BY <2>2 DEF ReadyInv, NeedsStamp, Whole, Complete
  <2>3. CASE /\ boot'[p].pc = "create" /\ boot[p].pc = "inspect"
             /\ boot'[p].revision = boot[p].revision /\ boot'[p].tables = schema.tables
    BY <2>3 DEF ReadyInv, CreatesWhole, NeedsStamp, Whole, Complete
  <2>4. CASE \/ boot'[p].pc \notin {"inspect", "create", "stamp"}
             \/ boot'[p].pc = "stamp" /\ Complete'
    BY <2>4
  <2> QED BY <2>1, <2>2, <2>3, <2>4
<1> QED BY <1>1 DEF ReadyInv, Whole, Complete

\* create_all with the tables it saw: a fresh database gets them all at once.
LEMMA CreationIsWhole ==
  ASSUME ReadyInv, NEW p \in Replicas, CreateTables(p), boot'[p].pc # "down"
  PROVE  /\ schema'.tables = schema.tables \cup (Tables \ boot[p].tables)
         /\ Complete' \/ UNCHANGED Complete
         /\ schema.tables = {} \/ NeedsStamp(p) => Complete'
<1> DEFINE missing == Tables \ boot[p].tables
<1>1. schema \in [tables : SUBSET Tables, columns : BOOLEAN, revision : Revision, legacy : BOOLEAN]
  BY DEF ReadyInv, StartupTypes
<1>2. schema' = [schema EXCEPT !.tables = @ \cup missing, !.columns = @ \/ missing = Tables]
  BY DEF CreateTables, Down, ReadyInv, StartupTypes
<1>3. /\ schema'.tables = schema.tables \cup missing
      /\ schema'.columns = (schema.columns \/ missing = Tables) /\ schema'.legacy = schema.legacy
  BY <1>1, <1>2
<1>4. boot[p].tables \subseteq schema.tables /\ (NeedsStamp(p) => Whole)
  BY DEF CreateTables, ReadyInv, CreatesWhole
<1>5. schema.tables = {} => missing = Tables
  BY <1>4
<1>6. schema.tables = {} \/ NeedsStamp(p) => Complete'
  BY <1>3, <1>4, <1>5 DEF Whole, Complete
<1>7. Complete' \/ UNCHANGED Complete
  BY <1>1, <1>3 DEF Complete
<1> QED BY <1>3, <1>6, <1>7

LEMMA ReadyNext == ASSUME ReadyInv, RecoveryInv', [StartupNext]_bootVars PROVE ReadyInv'
<1>1. StartupTypes /\ StartupTypes'
  BY DEF ReadyInv, RecoveryInv
<1> USE <1>1 DEF StartupTypes, Boot
<1>2. ASSUME NEW p \in Replicas, ReadRevision(p) PROVE ReadyInv'
  BY <1>2, ReadyKeeps DEF ReadRevision
<1>3. ASSUME NEW p \in Replicas, InspectTables(p) PROVE ReadyInv'
  BY <1>3, ReadyKeeps DEF InspectTables
<1>4. ASSUME NEW p \in Replicas, CreateTables(p) PROVE ReadyInv'
  <2>1. CASE boot'[p].pc = "down"
    BY <1>4, <2>1, ReadyKeeps DEF CreateTables, BootTo
  <2>2. CASE boot'[p].pc # "down"
    <3>1. /\ schema.tables \subseteq schema'.tables
          /\ Complete' \/ UNCHANGED Complete
          /\ schema.tables = {} \/ NeedsStamp(p) => Complete'
          /\ schema'.revision = schema.revision
      BY <1>4, <2>2, CreationIsWhole DEF CreateTables
    <3>2. Complete' \/ (~Whole /\ schema'.revision = schema.revision)
      BY <3>1 DEF Whole
    <3>3. \A q \in Replicas : q # p => UNCHANGED boot[q]
      BY <1>4 DEF CreateTables, BootTo
    <3>4. boot'[p].pc = "recover" \/ (boot'[p].pc = "stamp" /\ NeedsStamp(p))
      BY <1>4, <2>2 DEF CreateTables, BootTo, Down
    <3> QED BY <3>1, <3>2, <3>3, <3>4, ReadyKeeps
  <2> QED BY <2>1, <2>2
<1>5. ASSUME NEW p \in Replicas, Stamp(p) PROVE ReadyInv'
  <2>1. Complete
    BY <1>5 DEF Stamp, ReadyInv, CreatesWhole
  <2>2. Complete' /\ schema'.tables = schema.tables
    BY <1>5, <2>1 DEF Stamp, Complete
  <2>3. \A q \in Replicas : UNCHANGED boot[q] \/ boot'[q].pc = "recover"
    BY <1>5 DEF Stamp, BootTo
  <2> QED BY <2>2, <2>3, ReadyKeeps
<1>6. ASSUME NEW p \in Replicas,
             FindStale(p) \/ MarkStale(p) \/ RecoveryFails(p) \/ Serve(p) \/ BootCrash(p)
      PROVE  ReadyInv'
  <2>1. UNCHANGED schema
    BY <1>6 DEF FindStale, MarkStale, RecoveryFails, Serve, BootCrash
  <2>2. ASSUME FindStale(p) PROVE boot'[p].pc \in {"leases", "mark"}
    BY <2>2 DEF FindStale
  <2>3. ASSUME FindStale(p), NEW q \in Replicas, q # p PROVE UNCHANGED boot[q]
    BY <2>3 DEF FindStale
  <2>4. ASSUME MarkStale(p) \/ RecoveryFails(p) \/ Serve(p) \/ BootCrash(p),
               NEW q \in Replicas
        PROVE  UNCHANGED boot[q] \/ boot'[q].pc \in {"leases", "serving", "down"}
    <3>0. ASSUME NEW l, BootTo(p, l) PROVE boot'[q] = boot[q] \/ boot'[q].pc = l
      BY <3>0 DEF BootTo
    <3>1. CASE MarkStale(p) \/ RecoveryFails(p)
      <4>1. BootTo(p, "leases")
        BY <3>1 DEF MarkStale, RecoveryFails
      <4> QED BY <3>0, <4>1
    <3>2. CASE Serve(p)
      <4>1. BootTo(p, "serving")
        BY <3>2 DEF Serve
      <4> QED BY <3>0, <4>1
    <3>3. CASE BootCrash(p)
      <4>1. Down.pc = "down"
        BY DEF Down
      <4>2. boot'[q] = IF q = p THEN Down ELSE boot[q]
        BY <3>3 DEF BootCrash
      <4> QED BY <4>1, <4>2
    <3> QED BY <2>4, <3>1, <3>2, <3>3
  <2>5. \A q \in Replicas :
          UNCHANGED boot[q] \/ boot'[q].pc \notin {"inspect", "create", "stamp"}
    BY <1>6, <2>2, <2>3, <2>4
  <2> QED BY <2>1, <2>5, ReadyKeeps
<1>7. ASSUME Upgrade PROVE ReadyInv'
  BY <1>7, ReadyKeeps DEF Upgrade, Complete
<1>8. ASSUME \/ \E j \in ScanJobs : Accepted(j) \/ Claimed(j) \/ Finished(j) \/ Abandon(j)
             \/ Grow \/ UNCHANGED bootVars
      PROVE  ReadyInv'
  BY <1>8, ReadyKeeps DEF Accepted, Claimed, Finished, Abandon, Grow, bootVars
<1> QED BY <1>2, <1>3, <1>4, <1>5, <1>6, <1>7, <1>8 DEF StartupNext, Boots

\* A database that /ready accepts has every column, whichever replicas created and
\* stamped it at the same time and whoever crashed in between (lifespan in main.py and
\* the readiness check), unless it came from an older release without a revision and
\* the replica asked does not look at columns.
THEOREM ReadyMeansComplete == StartupSpec => []ReadyIsComplete
<1>1. ReadyInv => ReadyIsComplete
  BY DEF ReadyInv, ReadyIsComplete, Ready, Complete
<1> QED
  BY RecoveryStarts, RecoveryStep, ReadyStarts, ReadyNext, <1>1, PTL DEF StartupSpec
=============================================================================

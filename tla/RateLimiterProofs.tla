------------------------- MODULE RateLimiterProofs -------------------------
(***************************************************************************)
(* The properties of RateLimiter for every limit, every window and every   *)
(* set of clients.                                                         *)
(*                                                                         *)
(* The inductive invariant says what the log has kept of the history: its  *)
(* last Len(hits[k]) entries.  Whatever it dropped is out of the window    *)
(* for good, because the clock does not run backwards.                     *)
(***************************************************************************)
EXTENDS RateLimiter, TLAPS

Dropped(k) == Len(accepted[k]) - Len(hits[k])

(* The log is a suffix of the history.                                     *)
LogIsSuffix ==
    \A k \in Key :
        /\ Len(hits[k]) <= Len(accepted[k])
        /\ \A i \in DOMAIN hits[k] : hits[k][i] = accepted[k][Dropped(k) + i]

(* What the log no longer holds has left the window.                       *)
DroppedIsStale ==
    \A k \in Key : \A i \in 1..Dropped(k) : Stale(k, accepted[k][i])

(* Admissions are recorded in order of time, none of them in the future.   *)
InTimeOrder ==
    \A k \in Key : \A i, j \in DOMAIN accepted[k] :
        /\ accepted[k][i] <= now
        /\ i <= j => accepted[k][i] <= accepted[k][j]

IInv ==
    /\ TypeOK
    /\ LogIsSuffix
    /\ DroppedIsStale
    /\ InTimeOrder
    /\ WindowBound
    /\ RefusesOnlyWhenFull

-----------------------------------------------------------------------------

LEMMA LimitType ==
    ASSUME NEW k \in Key
    PROVE  Limit(k) \in Nat /\ Width(k) \in Nat
  BY RateLimiterAssumption DEF Key, Scope, Limit, Width

LEMMA KeyOfRequest ==
    ASSUME NEW e \in Endpoint, NEW ip \in IP
    PROVE  <<ScopeOf[e], ip>> \in Key
  BY DEF Endpoint, ScopeOf, Key, Scope

LEMMA Appended ==
    ASSUME NEW s \in Seq(Nat), NEW t \in Nat
    PROVE  /\ Append(s, t) \in Seq(Nat)
           /\ Len(Append(s, t)) = Len(s) + 1
           /\ DOMAIN Append(s, t) = 1..(Len(s) + 1)
           /\ \A i \in 1..Len(s) : Append(s, t)[i] = s[i]
           /\ Append(s, t)[Len(s) + 1] = t
<1>1. Len(s) \in Nat
  OBVIOUS
<1>2. Append(s, t) \in Seq(Nat) /\ Len(Append(s, t)) = Len(s) + 1
  OBVIOUS
<1>3. DOMAIN Append(s, t) = 1..(Len(s) + 1)
  BY <1>2
<1>4. Append(s, t)[Len(s) + 1] = t
  BY <1>1
<1>5. \A i \in 1..Len(s) : Append(s, t)[i] = s[i]
  BY <1>1
<1> QED
  BY <1>2, <1>3, <1>4, <1>5

(* What a pruned bucket holds: the tail of the old one, none of it stale.  *)
LEMMA PrunedBucket ==
    ASSUME TypeOK, NEW k \in Key, NEW d \in 0..Len(hits[k])
    PROVE  /\ Pruned(k, d) \in Seq(Nat)
           /\ Len(Pruned(k, d)) = Len(hits[k]) - d
           /\ \A i \in 1..(Len(hits[k]) - d) : Pruned(k, d)[i] = hits[k][d + i]
<1>1. hits[k] \in Seq(Nat)
  BY DEF TypeOK
<1>2. Len(hits[k]) \in Nat
  BY <1>1
<1> QED
  BY <1>1, <1>2 DEF Pruned

LEMMA InitInv == Init => IInv
<1> SUFFICES ASSUME Init PROVE IInv
  OBVIOUS
<1>1. \A k \in Key : hits[k] = << >> /\ accepted[k] = << >>
  BY DEF Init
<1>2. TypeOK
  BY <1>1, LimitType DEF Init, TypeOK
<1>3. LogIsSuffix /\ DroppedIsStale /\ InTimeOrder /\ WindowBound
  BY <1>1 DEF LogIsSuffix, DroppedIsStale, InTimeOrder, WindowBound, Dropped
<1>4. RefusesOnlyWhenFull
  BY DEF Init, RefusesOnlyWhenFull
<1> QED
  BY <1>2, <1>3, <1>4 DEF IInv

(* The entries of the history that an admission or a refusal drops from    *)
(* the log are stale, the ones before them were so already.                *)
LEMMA PrunedHistory ==
    ASSUME IInv, NEW k \in Key, NEW d \in 0..Len(hits[k]), Prunes(k, d)
    PROVE  \A i \in 1..(Dropped(k) + d) : Stale(k, accepted[k][i])
<1>1. /\ hits[k] \in Seq(Nat) /\ accepted[k] \in Seq(Nat)
      /\ Len(hits[k]) \in Nat /\ Len(accepted[k]) \in Nat
      /\ DOMAIN hits[k] = 1..Len(hits[k])
  <2>1. hits[k] \in Seq(Nat) /\ accepted[k] \in Seq(Nat)
    BY DEF IInv, TypeOK
  <2> QED
    BY <2>1
<1>2. PICK n \in Nat, h \in Nat : n = Dropped(k) /\ h = Len(hits[k])
  <2>1. Len(hits[k]) <= Len(accepted[k])
    BY DEF IInv, LogIsSuffix
  <2>2. Dropped(k) \in Nat
    BY <1>1, <2>1 DEF Dropped
  <2> QED
    BY <1>1, <2>2, Zenon
<1>3. d \in 0..h
  BY <1>2
<1> SUFFICES ASSUME NEW i \in 1..(n + d) PROVE Stale(k, accepted[k][i])
  BY <1>2
<1>4. CASE i <= n
  <2>1. i \in 1..Dropped(k)
    BY <1>2, <1>4
  <2> QED
    BY <2>1 DEF IInv, DroppedIsStale
<1>5. CASE i > n
  <2>1. i - n \in 1..d /\ i - n \in 1..h /\ n + (i - n) = i
    BY <1>2, <1>3, <1>5
  <2>2. Stale(k, hits[k][i - n])
    BY <2>1 DEF Prunes
  <2>3. hits[k][i - n] = accepted[k][Dropped(k) + (i - n)]
    BY <1>1, <1>2, <2>1 DEF IInv, LogIsSuffix
  <2> QED
    BY <1>2, <2>1, <2>2, <2>3
<1>6. i <= n \/ i > n
  BY <1>2, <1>3
<1> QED
  BY <1>4, <1>5, <1>6

LEMMA AdmitInv ==
    ASSUME IInv, NEW k \in Key, NEW d \in 0..Len(hits[k]), Admit(k, d)
    PROVE  IInv'
<1>1. TypeOK
  BY DEF IInv
<1>2. PICK p : /\ p = Pruned(k, d) /\ p \in Seq(Nat)
               /\ Len(p) = Len(hits[k]) - d
               /\ \A i \in 1..(Len(hits[k]) - d) : p[i] = hits[k][d + i]
  BY <1>1, PrunedBucket
<1>3. PICK a : a = accepted[k] /\ a \in Seq(Nat)
  BY <1>1 DEF TypeOK
<1>4. PICK m : m = Limit(k) /\ m \in Nat
  BY LimitType
<1>5. PICK w : w = Width(k) /\ w \in Nat
  BY LimitType
<1>6. /\ hits' = [hits EXCEPT ![k] = Append(p, now)]
      /\ accepted' = [accepted EXCEPT ![k] = Append(a, now)]
      /\ refused' = NoKey /\ now' = now
  BY <1>2, <1>3 DEF Admit
<1>7. now \in Nat /\ Len(p) \in Nat /\ Len(a) \in Nat /\ Len(p) <= Len(a) /\ Len(p) < m
  <2>1. now \in Nat /\ Len(hits[k]) \in Nat
    BY <1>1 DEF TypeOK
  <2>2. Len(hits[k]) <= Len(a)
    BY <1>3 DEF IInv, LogIsSuffix
  <2>3. ~(Len(hits[k]) - d >= m)
    BY <1>4 DEF Admit, Full
  <2> QED
    BY <1>2, <1>3, <1>4, <2>1, <2>2, <2>3
<1>8. /\ hits'[k] = Append(p, now) /\ accepted'[k] = Append(a, now)
      /\ \A q \in Key : q # k => hits'[q] = hits[q] /\ accepted'[q] = accepted[q]
  BY <1>1, <1>6 DEF TypeOK
<1>9. /\ Len(Append(p, now)) = Len(p) + 1 /\ Len(Append(a, now)) = Len(a) + 1
      /\ DOMAIN Append(p, now) = 1..(Len(p) + 1)
      /\ DOMAIN Append(a, now) = 1..(Len(a) + 1)
      /\ \A i \in 1..Len(p) : Append(p, now)[i] = p[i]
      /\ \A i \in 1..Len(a) : Append(a, now)[i] = a[i]
      /\ Append(p, now)[Len(p) + 1] = now /\ Append(a, now)[Len(a) + 1] = now
  BY <1>2, <1>3, <1>7, Appended
(* Every entry before the log that is now kept has left the window.        *)
<1>10. \A i \in 1..(Len(a) - Len(p)) : a[i] + w <= now
  <2>1. Dropped(k) + d = Len(a) - Len(p)
    BY <1>1, <1>2, <1>3 DEF Dropped, TypeOK
  <2>2. Prunes(k, d)
    BY DEF Admit
  <2> QED
    BY <1>3, <1>5, <2>1, <2>2, PrunedHistory DEF Stale
<1>11. \A i \in 1..Len(p) : p[i] = a[Len(a) - Len(p) + i]
  <2> SUFFICES ASSUME NEW i \in 1..Len(p) PROVE p[i] = a[Len(a) - Len(p) + i]
    OBVIOUS
  <2>0. PICK n \in Nat : n = Len(hits[k]) /\ DOMAIN hits[k] = 1..n
    BY <1>1 DEF TypeOK
  <2>1. d + i \in DOMAIN hits[k] /\ p[i] = hits[k][d + i]
    <3>1. i \in 1..(n - d) /\ d \in 0..n
      BY <1>2, <2>0
    <3>2. d + i \in 1..n
      BY <3>1
    <3> QED
      BY <1>2, <2>0, <3>1, <3>2
  <2>2. hits[k][d + i] = a[Len(a) - Len(hits[k]) + (d + i)]
    BY <1>3, <2>1 DEF IInv, LogIsSuffix, Dropped
  <2>3. Len(a) - Len(hits[k]) + (d + i) = Len(a) - Len(p) + i
    BY <1>1, <1>2, <1>7 DEF TypeOK
  <2> QED
    BY <2>1, <2>2, <2>3
<1>12. TypeOK'
  <2>1. Append(p, now) \in Seq(Nat) /\ Append(a, now) \in Seq(Nat)
    BY <1>2, <1>3, <1>7
  <2>2. hits' \in [Key -> Seq(Nat)] /\ accepted' \in [Key -> Seq(Nat)]
    BY <1>1, <1>6, <2>1 DEF TypeOK
  <2>3. \A q \in Key : Len(hits'[q]) <= Limit(q)
    <3> SUFFICES ASSUME NEW q \in Key PROVE Len(hits'[q]) <= Limit(q)
      OBVIOUS
    <3>1. CASE q = k
      <4>1. Len(hits'[q]) = Len(p) + 1 /\ Limit(q) = m
        BY <1>4, <1>8, <1>9, <3>1
      <4> QED
        BY <1>4, <1>7, <4>1
    <3>2. CASE q # k
      BY <1>1, <1>8, <3>2 DEF TypeOK
    <3> QED
      BY <3>1, <3>2
  <2> QED
    BY <1>6, <1>7, <2>2, <2>3 DEF TypeOK
<1>13. LogIsSuffix'
  <2> SUFFICES ASSUME NEW q \in Key
               PROVE  /\ Len(hits'[q]) <= Len(accepted'[q])
                      /\ \A i \in DOMAIN hits'[q] :
                            hits'[q][i]
                              = accepted'[q][Len(accepted'[q]) - Len(hits'[q]) + i]
    BY DEF LogIsSuffix, Dropped
  <2>1. CASE q # k
    BY <1>8, <2>1 DEF IInv, LogIsSuffix, Dropped
  <2>2. CASE q = k
    <3>1. Len(hits'[k]) <= Len(accepted'[k])
      BY <1>7, <1>8, <1>9
    <3>2. ASSUME NEW i \in 1..(Len(p) + 1)
          PROVE  Append(p, now)[i] = Append(a, now)[(Len(a) + 1) - (Len(p) + 1) + i]
      <4>1. CASE i = Len(p) + 1
        BY <1>7, <1>9, <4>1
      <4>2. CASE i # Len(p) + 1
        <5>1. i \in 1..Len(p) /\ Len(a) - Len(p) + i \in 1..Len(a)
          BY <1>7, <4>2
        <5>2. (Len(a) + 1) - (Len(p) + 1) + i = Len(a) - Len(p) + i
          BY <1>7
        <5> QED
          BY <1>9, <1>11, <5>1, <5>2
      <4> QED
        BY <4>1, <4>2
    <3>3. DOMAIN hits'[k] = 1..(Len(p) + 1)
      BY <1>8, <1>9
    <3>4. Len(accepted'[k]) = Len(a) + 1 /\ Len(hits'[k]) = Len(p) + 1
      BY <1>8, <1>9
    <3>5. \A i \in DOMAIN hits'[k] :
            hits'[k][i] = accepted'[k][Len(accepted'[k]) - Len(hits'[k]) + i]
      BY <1>8, <3>2, <3>3, <3>4
    <3> QED
      BY <2>2, <3>1, <3>5
  <2> QED
    BY <2>1, <2>2
<1>14. DroppedIsStale'
  <2> SUFFICES ASSUME NEW q \in Key,
                      NEW i \in 1..(Len(accepted'[q]) - Len(hits'[q]))
               PROVE  accepted'[q][i] + Width(q) <= now
    BY <1>6 DEF DroppedIsStale, Dropped, Stale
  <2>1. CASE q # k
    BY <1>8, <2>1 DEF IInv, DroppedIsStale, Dropped, Stale
  <2>2. CASE q = k
    <3>1. i \in 1..(Len(a) - Len(p)) /\ i \in 1..Len(a)
      BY <1>7, <1>8, <1>9, <2>2
    <3> QED
      BY <1>5, <1>8, <1>9, <1>10, <2>2, <3>1
  <2> QED
    BY <2>1, <2>2
<1>15. InTimeOrder'
  <2> SUFFICES ASSUME NEW q \in Key, NEW i \in DOMAIN accepted'[q],
                      NEW j \in DOMAIN accepted'[q]
               PROVE  /\ accepted'[q][i] <= now
                      /\ i <= j => accepted'[q][i] <= accepted'[q][j]
    BY <1>6 DEF InTimeOrder
  <2>1. CASE q # k
    BY <1>8, <2>1 DEF IInv, InTimeOrder
  <2>2. CASE q = k
    <3>1. i \in 1..(Len(a) + 1) /\ j \in 1..(Len(a) + 1)
      BY <1>8, <1>9, <2>2
    <3>2. \A x, y \in 1..Len(a) : a[x] <= now /\ (x <= y => a[x] <= a[y])
      BY <1>3 DEF IInv, InTimeOrder
    <3>3. i \in 1..Len(a) \/ i = Len(a) + 1
      BY <1>7, <3>1
    <3>4. j \in 1..Len(a) \/ j = Len(a) + 1
      BY <1>7, <3>1
    <3>5. PICK b : /\ b = accepted'[q] /\ b[Len(a) + 1] = now
                   /\ \A x \in 1..Len(a) : b[x] = a[x]
      BY <1>8, <1>9, <2>2
    <3>6. b[i] <= now
      BY <1>7, <3>2, <3>3, <3>5
    <3>7. i <= j => b[i] <= b[j]
      BY <1>7, <3>2, <3>3, <3>4, <3>5
    <3> QED
      BY <3>5, <3>6, <3>7
  <2> QED
    BY <2>1, <2>2
<1>16. WindowBound'
  <2> SUFFICES ASSUME NEW q \in Key, NEW i \in DOMAIN accepted'[q],
                      NEW j \in DOMAIN accepted'[q], j = i + Limit(q)
               PROVE  accepted'[q][i] + Width(q) <= accepted'[q][j]
    BY DEF WindowBound
  <2>1. CASE q # k
    BY <1>8, <2>1 DEF IInv, WindowBound
  <2>2. CASE q = k
    <3>1. i \in 1..(Len(a) + 1) /\ j \in 1..(Len(a) + 1) /\ j = i + m
      BY <1>4, <1>8, <1>9, <2>2
    <3>2. CASE j = Len(a) + 1
      <4>1. i \in 1..(Len(a) - Len(p)) /\ i \in 1..Len(a)
        BY <1>4, <1>7, <3>1, <3>2
      <4> QED
        BY <1>5, <1>8, <1>9, <1>10, <2>2, <3>2, <4>1
    <3>3. CASE j # Len(a) + 1
      <4>1. i \in 1..Len(a) /\ j \in 1..Len(a)
        BY <1>4, <1>7, <3>1, <3>3
      <4>2. a[i] + Width(k) <= a[j]
        BY <1>3, <2>2, <4>1 DEF IInv, WindowBound
      <4> QED
        BY <1>8, <1>9, <2>2, <4>1, <4>2
    <3> QED
      BY <3>2, <3>3
  <2> QED
    BY <2>1, <2>2
<1>17. RefusesOnlyWhenFull'
  BY <1>6 DEF RefusesOnlyWhenFull
<1> QED
  BY <1>12, <1>13, <1>14, <1>15, <1>16, <1>17 DEF IInv

LEMMA RefuseInv ==
    ASSUME IInv, NEW k \in Key, NEW d \in 0..Len(hits[k]), Refuse(k, d)
    PROVE  IInv'
<1>1. TypeOK
  BY DEF IInv
<1>2. PICK p : /\ p = Pruned(k, d) /\ p \in Seq(Nat)
               /\ Len(p) = Len(hits[k]) - d
               /\ \A i \in 1..(Len(hits[k]) - d) : p[i] = hits[k][d + i]
  BY <1>1, PrunedBucket
<1>3. PICK a : a = accepted[k] /\ a \in Seq(Nat)
  BY <1>1 DEF TypeOK
<1>4. PICK m : m = Limit(k) /\ m \in Nat
  BY LimitType
<1>5. /\ hits' = [hits EXCEPT ![k] = p]
      /\ accepted' = accepted /\ refused' = k /\ now' = now
  BY <1>2 DEF Refuse
<1>6. /\ Len(hits[k]) \in Nat /\ Len(p) \in Nat /\ Len(a) \in Nat
      /\ Len(p) <= Len(hits[k]) /\ Len(hits[k]) <= Len(a) /\ Len(p) >= m
      /\ DOMAIN p = 1..Len(p) /\ DOMAIN a = 1..Len(a)
      /\ DOMAIN hits[k] = 1..Len(hits[k])
  <2>1. Len(hits[k]) \in Nat /\ DOMAIN hits[k] = 1..Len(hits[k])
    BY <1>1 DEF TypeOK
  <2>2. Len(hits[k]) <= Len(a)
    BY <1>3 DEF IInv, LogIsSuffix
  <2>3. Len(hits[k]) - d >= m
    BY <1>4 DEF Refuse, Full
  <2> QED
    BY <1>2, <1>3, <1>4, <2>1, <2>2, <2>3
<1>7. hits'[k] = p /\ \A q \in Key : q # k => hits'[q] = hits[q]
  BY <1>1, <1>5 DEF TypeOK
<1>8. \A i \in 1..Len(p) : p[i] = a[Len(a) - Len(p) + i]
  <2> SUFFICES ASSUME NEW i \in 1..Len(p) PROVE p[i] = a[Len(a) - Len(p) + i]
    OBVIOUS
  <2>1. d + i \in DOMAIN hits[k] /\ p[i] = hits[k][d + i]
    BY <1>2, <1>6
  <2>2. hits[k][d + i] = a[Len(a) - Len(hits[k]) + (d + i)]
    BY <1>3, <2>1 DEF IInv, LogIsSuffix, Dropped
  <2>3. Len(a) - Len(hits[k]) + (d + i) = Len(a) - Len(p) + i
    BY <1>2, <1>6
  <2> QED
    BY <2>1, <2>2, <2>3
<1>9. TypeOK'
  <2>1. hits' \in [Key -> Seq(Nat)]
    BY <1>1, <1>2, <1>5 DEF TypeOK
  <2>2. ASSUME NEW q \in Key PROVE Len(hits'[q]) <= Limit(q)
    <3>1. Len(hits[q]) <= Limit(q)
      BY <1>1 DEF TypeOK
    <3>2. CASE q = k
      BY <1>4, <1>6, <1>7, <3>1, <3>2
    <3>3. CASE q # k
      BY <1>7, <3>1, <3>3
    <3> QED
      BY <3>2, <3>3
  <2> QED
    BY <1>1, <1>5, <2>1, <2>2 DEF TypeOK
<1>10. LogIsSuffix'
  <2> SUFFICES ASSUME NEW q \in Key
               PROVE  /\ Len(hits'[q]) <= Len(accepted[q])
                      /\ \A i \in DOMAIN hits'[q] :
                            hits'[q][i] = accepted[q][Len(accepted[q]) - Len(hits'[q]) + i]
    BY <1>5 DEF LogIsSuffix, Dropped
  <2>1. CASE q # k
    BY <1>7, <2>1 DEF IInv, LogIsSuffix, Dropped
  <2>2. CASE q = k
    <3>1. Len(hits'[q]) = Len(p) /\ DOMAIN hits'[q] = 1..Len(p) /\ accepted[q] = a
      BY <1>3, <1>6, <1>7, <2>2
    <3>2. Len(p) <= Len(a)
      BY <1>6
    <3> QED
      BY <1>7, <1>8, <2>2, <3>1, <3>2
  <2> QED
    BY <2>1, <2>2
<1>11. DroppedIsStale'
  <2> SUFFICES ASSUME NEW q \in Key, NEW i \in 1..(Len(accepted[q]) - Len(hits'[q]))
               PROVE  Stale(q, accepted[q][i])
    BY <1>5 DEF DroppedIsStale, Dropped, Stale
  <2>1. CASE q # k
    BY <1>7, <2>1 DEF IInv, DroppedIsStale, Dropped
  <2>2. CASE q = k
    <3>1. Dropped(k) + d = Len(a) - Len(p)
      BY <1>2, <1>3, <1>6 DEF Dropped
    <3>2. i \in 1..(Dropped(k) + d)
      BY <1>3, <1>7, <2>2, <3>1
    <3>3. Prunes(k, d)
      BY DEF Refuse
    <3> QED
      BY <2>2, <3>2, <3>3, PrunedHistory
  <2> QED
    BY <2>1, <2>2
<1>12. InTimeOrder' /\ WindowBound'
  BY <1>5 DEF IInv, InTimeOrder, WindowBound
<1>13. RefusesOnlyWhenFull'
  <2> SUFFICES ASSUME NEW i \in (Len(a) - m + 1)..Len(a)
               PROVE  i >= 1 /\ ~(a[i] + Width(k) <= now)
    BY <1>3, <1>4, <1>5 DEF RefusesOnlyWhenFull, Stale
  <2>1. PICK j \in 1..Len(p) : i = Len(a) - Len(p) + j
    <3>1. i - (Len(a) - Len(p)) \in 1..Len(p)
      BY <1>4, <1>6
    <3>2. i = Len(a) - Len(p) + (i - (Len(a) - Len(p)))
      BY <1>6
    <3> QED
      BY <3>1, <3>2
  <2>2. d + j \in (d + 1)..Len(hits[k]) /\ p[j] = hits[k][d + j]
    BY <1>2, <1>6
  <2>3. ~Stale(k, hits[k][d + j])
    BY <2>2 DEF Refuse, Prunes
  <2>4. a[i] = hits[k][d + j]
    BY <1>8, <2>1, <2>2
  <2>5. i >= 1
    BY <1>6, <2>1
  <2> QED
    BY <2>3, <2>4, <2>5 DEF Stale
<1> QED
  BY <1>9, <1>10, <1>11, <1>12, <1>13 DEF IInv

LEMMA TickInv == ASSUME IInv, Tick PROVE IInv'
<1>1. /\ now \in Nat /\ now' = now + 1 /\ hits' = hits
      /\ accepted' = accepted /\ refused' = NoKey
  BY DEF IInv, TypeOK, Tick
<1>2. TypeOK'
  BY <1>1 DEF IInv, TypeOK
<1>3. LogIsSuffix' /\ WindowBound' /\ RefusesOnlyWhenFull'
  BY <1>1 DEF IInv, LogIsSuffix, WindowBound, RefusesOnlyWhenFull, Dropped
<1>4. \A k \in Key : \A i \in DOMAIN accepted[k] : accepted[k][i] \in Nat
  BY DEF IInv, TypeOK
<1>5. DroppedIsStale'
  <2> SUFFICES ASSUME NEW k \in Key, NEW i \in 1..(Len(accepted[k]) - Len(hits[k]))
               PROVE  accepted[k][i] + Width(k) <= now + 1
    BY <1>1 DEF DroppedIsStale, Dropped, Stale
  <2>1. accepted[k][i] + Width(k) <= now
    BY DEF IInv, DroppedIsStale, Dropped, Stale
  <2>2. i \in DOMAIN accepted[k]
    <3>1. /\ Len(accepted[k]) \in Nat /\ Len(hits[k]) \in Nat
          /\ DOMAIN accepted[k] = 1..Len(accepted[k])
      BY DEF IInv, TypeOK
    <3>2. PICK n \in Nat, h \in Nat : n = Len(accepted[k]) /\ h = Len(hits[k])
      BY <3>1, Zenon
    <3>3. i \in 1..(n - h)
      BY <3>2
    <3>4. i \in 1..n
      BY <3>3
    <3> QED
      BY <3>1, <3>2, <3>4
  <2> QED
    BY <1>1, <1>4, <2>1, <2>2, LimitType
<1>6. InTimeOrder'
  <2> SUFFICES ASSUME NEW k \in Key, NEW i \in DOMAIN accepted[k],
                      NEW j \in DOMAIN accepted[k]
               PROVE  /\ accepted[k][i] <= now + 1
                      /\ i <= j => accepted[k][i] <= accepted[k][j]
    BY <1>1 DEF InTimeOrder
  <2>1. /\ accepted[k][i] <= now
        /\ i <= j => accepted[k][i] <= accepted[k][j]
    BY DEF IInv, InTimeOrder
  <2> QED
    BY <1>1, <1>4, <2>1
<1> QED
  BY <1>2, <1>3, <1>5, <1>6 DEF IInv

LEMMA RestartInv == ASSUME IInv, Restart PROVE IInv'
<1>1. /\ \A k \in Key : hits'[k] = << >> /\ accepted'[k] = << >>
      /\ refused' = NoKey /\ now' = now
  BY DEF Restart
<1>2. TypeOK'
  BY <1>1, LimitType DEF IInv, TypeOK, Restart
<1>3. LogIsSuffix' /\ DroppedIsStale' /\ InTimeOrder' /\ WindowBound'
  BY <1>1 DEF LogIsSuffix, DroppedIsStale, InTimeOrder, WindowBound, Dropped
<1>4. RefusesOnlyWhenFull'
  BY <1>1 DEF RefusesOnlyWhenFull
<1> QED
  BY <1>2, <1>3, <1>4 DEF IInv

LEMMA NextInv == IInv /\ [Next]_vars => IInv'
<1> SUFFICES ASSUME IInv, [Next]_vars PROVE IInv'
  OBVIOUS
<1>1. ASSUME NEW e \in Endpoint, NEW ip \in IP, Allow(<<ScopeOf[e], ip>>)
      PROVE  IInv'
  <2>1. PICK k \in Key : Allow(k)
    BY <1>1, KeyOfRequest
  <2>2. PICK d \in 0..Len(hits[k]) : Admit(k, d) \/ Refuse(k, d)
    BY <2>1 DEF Allow
  <2> QED
    BY <2>2, AdmitInv, RefuseInv
<1>2. CASE Tick
  BY <1>2, TickInv
<1>3. CASE Restart
  BY <1>3, RestartInv
<1>4. CASE UNCHANGED vars
  BY <1>4 DEF vars, IInv, TypeOK, LogIsSuffix, DroppedIsStale, InTimeOrder,
              WindowBound, RefusesOnlyWhenFull, Dropped, Stale
<1> QED
  BY <1>1, <1>2, <1>3, <1>4 DEF Next

LEMMA Invariance == Spec => []IInv
  BY InitInv, NextInv, PTL DEF Spec

(* The log is well formed and never holds more hits than the limit.        *)
THEOREM TypeCorrect == Spec => []TypeOK
<1>1. IInv => TypeOK
  BY DEF IInv
<1> QED
  BY <1>1, Invariance, PTL

(* Within any window, wherever it starts, no client is admitted more often *)
(* than the limit says (rate_limit.py:27-35).                              *)
THEOREM AtMostLimitPerWindow == Spec => []WindowBound
<1>1. IInv => WindowBound
  BY DEF IInv
<1> QED
  BY <1>1, Invariance, PTL

(* A client is refused only for its own admitted requests of the last      *)
(* window (rate_limit.py:32-34).                                           *)
THEOREM RefusalsJustified == Spec => []RefusesOnlyWhenFull
<1>1. IInv => RefusesOnlyWhenFull
  BY DEF IInv
<1> QED
  BY <1>1, Invariance, PTL

=============================================================================

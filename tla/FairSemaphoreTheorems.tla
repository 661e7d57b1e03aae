----------------------- MODULE FairSemaphoreTheorems -----------------------
(* Safety of FairSemaphore for any set of waiters, requests and capacities. *)
EXTENDS FairSemaphore, TLAPS

(* What Ticket::drop does to the queue: the ticket goes, every other stays *)
(* once and in its place.                                                  *)
LEMMA RemoveTicket ==
    ASSUME NEW S, NEW s \in Seq(S), NEW k \in DOMAIN s,
           \A i, j \in DOMAIN s : s[i] = s[j] => i = j
    PROVE  /\ RemoveAt(s, k) \in Seq(S)
           /\ \A i, j \in DOMAIN RemoveAt(s, k) :
                 RemoveAt(s, k)[i] = RemoveAt(s, k)[j] => i = j
           /\ \A x : (\E i \in DOMAIN RemoveAt(s, k) : RemoveAt(s, k)[i] = x)
                     <=> (x # s[k] /\ \E i \in DOMAIN s : s[i] = x)
<1> DEFINE t == RemoveAt(s, k)
           a == SubSeq(s, 1, k - 1)
           b == SubSeq(s, k + 1, Len(s))
<1>1. Len(s) \in Nat /\ k \in 1..Len(s) /\ DOMAIN s = 1..Len(s)
  OBVIOUS
<1>2. /\ t \in Seq(S) /\ DOMAIN t = 1..(Len(s) - 1)
      /\ \A i \in 1..(Len(s) - 1) : t[i] = IF i < k THEN s[i] ELSE s[i + 1]
  <2>1. /\ a \in Seq(S) /\ Len(a) = k - 1
        /\ \A i \in 1..(k - 1) : a[i] = s[i]
    BY <1>1
  <2>2. /\ b \in Seq(S) /\ Len(b) = Len(s) - k
        /\ \A i \in 1..(Len(s) - k) : b[i] = s[k + i]
    <3>1. b \in Seq(S) /\ Len(b) = Len(s) - k
      BY <1>1
    <3>2. \A i \in 1..(Len(s) - k) : b[i] = s[k + i]
      BY <1>1
    <3> QED BY <3>1, <3>2, Zenon
  <2>3. t = a \o b
    BY Zenon DEF RemoveAt
  <2> HIDE DEF a, b, t
  <2>4. /\ t \in Seq(S) /\ Len(t) = Len(a) + Len(b)
        /\ \A i \in 1..(Len(a) + Len(b)) :
              t[i] = IF i <= Len(a) THEN a[i] ELSE b[i - Len(a)]
    <3>1. a \in Seq(S) /\ b \in Seq(S)
      BY <2>1, <2>2, Zenon
    <3> QED BY <2>3, <3>1
  <2>5. DOMAIN t = 1..(Len(s) - 1)
    BY <1>1, <2>1, <2>2, <2>4, SMTT(30)
  <2>6. ASSUME NEW i \in 1..(Len(s) - 1)
        PROVE  t[i] = IF i < k THEN s[i] ELSE s[i + 1]
    <3>1. CASE i < k
      BY <1>1, <2>1, <2>2, <2>4, <3>1, SMTT(30)
    <3>2. CASE i >= k
      <4>1. t[i] = b[i - (k - 1)] /\ i - (k - 1) \in 1..(Len(s) - k)
        BY <1>1, <2>1, <2>2, <2>4, <3>2, SMTT(40)
      <4>2. b[i - (k - 1)] = s[k + (i - (k - 1))] /\ k + (i - (k - 1)) = i + 1
        BY <1>1, <2>2, <4>1, SMTT(40)
      <4> QED BY <4>1, <4>2, <3>2, <1>1, SMTT(40)
    <3> QED BY <1>1, <3>1, <3>2, SMTT(30)
  <2> QED BY <2>4, <2>5, <2>6, Zenon
<1> HIDE DEF t
<1>3. \A i, j \in DOMAIN t : t[i] = t[j] => i = j
  BY <1>1, <1>2, SMTT(30)
<1>4. ASSUME NEW i \in DOMAIN t
      PROVE  t[i] # s[k] /\ \E j \in DOMAIN s : s[j] = t[i]
  <2>1. CASE i < k
    <3>1. i \in DOMAIN s /\ i # k /\ t[i] = s[i]
      BY <1>1, <1>2, <2>1
    <3> QED BY <1>1, <3>1, Zenon
  <2>2. CASE ~(i < k)
    <3>1. i + 1 \in DOMAIN s /\ i + 1 # k /\ t[i] = s[i + 1]
      BY <1>1, <1>2, <2>2
    <3> QED BY <1>1, <3>1, Zenon
  <2> QED BY <2>1, <2>2, Zenon
<1>5. ASSUME NEW j \in DOMAIN s, s[j] # s[k]
      PROVE  \E i \in DOMAIN t : t[i] = s[j]
  <2>1. CASE j < k
    BY <1>1, <1>2, <2>1
  <2>2. CASE j > k
    <3>1. j - 1 \in 1..(Len(s) - 1) /\ t[j - 1] = s[j]
      BY <1>1, <1>2, <2>2
    <3> QED BY <3>1, <1>2, Zenon
  <2> QED BY <1>1, <1>5, <2>1, <2>2, SMTT(30)
<1>6. \A x : (\E i \in DOMAIN t : t[i] = x)
             <=> (x # s[k] /\ \E i \in DOMAIN s : s[i] = x)
  BY <1>4, <1>5, Zenon
<1> QED BY <1>2, <1>3, <1>6, Zenon DEF t

(* What grant_if_head does to the queue: the head goes, the others stay.   *)
LEMMA PopHead ==
    ASSUME NEW S, NEW s \in Seq(S), s # <<>>,
           \A i, j \in DOMAIN s : s[i] = s[j] => i = j
    PROVE  /\ Tail(s) \in Seq(S)
           /\ \A i, j \in DOMAIN Tail(s) : Tail(s)[i] = Tail(s)[j] => i = j
           /\ \A x : (\E i \in DOMAIN Tail(s) : Tail(s)[i] = x)
                     <=> (x # Head(s) /\ \E i \in DOMAIN s : s[i] = x)
<1> DEFINE t == Tail(s)
<1>1. /\ Len(s) \in Nat /\ Len(s) > 0 /\ DOMAIN s = 1..Len(s) /\ Head(s) = s[1]
      /\ t \in Seq(S) /\ DOMAIN t = 1..(Len(s) - 1)
      /\ \A i \in 1..(Len(s) - 1) : t[i] = s[i + 1]
  OBVIOUS
<1> HIDE DEF t
<1>2. ASSUME NEW i \in DOMAIN t, NEW j \in DOMAIN t, t[i] = t[j]
      PROVE  i = j
  <2>1. /\ i \in Int /\ j \in Int /\ i + 1 \in DOMAIN s /\ j + 1 \in DOMAIN s
        /\ s[i + 1] = s[j + 1]
    BY <1>1, <1>2
  <2>2. i + 1 = j + 1
    BY <2>1, Zenon
  <2> QED BY <2>1, <2>2
<1>3. ASSUME NEW i \in DOMAIN t
      PROVE  t[i] # Head(s) /\ \E j \in DOMAIN s : s[j] = t[i]
  BY <1>1, SMTT(30)
<1>4. ASSUME NEW j \in DOMAIN s, s[j] # Head(s)
      PROVE  \E i \in DOMAIN t : t[i] = s[j]
  <2>1. j - 1 \in 1..(Len(s) - 1) /\ t[j - 1] = s[j]
    BY <1>1, <1>4
  <2> QED BY <2>1, <1>1, Zenon
<1>5. \A x : (\E i \in DOMAIN t : t[i] = x)
             <=> (x # Head(s) /\ \E i \in DOMAIN s : s[i] = x)
  BY <1>3, <1>4, Zenon
<1> QED BY <1>1, <1>2, <1>5, Zenon DEF t

(* What Ticket::new does to the queue: one more ticket, at the end.        *)
LEMMA PushTicket ==
    ASSUME NEW S, NEW s \in Seq(S), NEW w \in S,
           \A i, j \in DOMAIN s : s[i] = s[j] => i = j,
           \A i \in DOMAIN s : s[i] # w
    PROVE  /\ Append(s, w) \in Seq(S)
           /\ \A i, j \in DOMAIN Append(s, w) :
                 Append(s, w)[i] = Append(s, w)[j] => i = j
           /\ \A x : (\E i \in DOMAIN Append(s, w) : Append(s, w)[i] = x)
                     <=> (x = w \/ \E i \in DOMAIN s : s[i] = x)
<1> DEFINE t == Append(s, w)
<1>1. /\ Len(s) \in Nat /\ DOMAIN s = 1..Len(s)
      /\ t \in Seq(S) /\ DOMAIN t = 1..(Len(s) + 1)
      /\ t[Len(s) + 1] = w
      /\ \A i \in 1..Len(s) : t[i] = s[i]
  OBVIOUS
<1> HIDE DEF t
<1>2. ASSUME NEW i \in DOMAIN t, NEW j \in DOMAIN t, t[i] = t[j]
      PROVE  i = j
  <2>1. CASE i \in DOMAIN s /\ j \in DOMAIN s
    BY <1>1, <1>2, <2>1, Zenon
  <2>2. CASE i = Len(s) + 1
    BY <1>1, <1>2, <2>2
  <2>3. CASE j = Len(s) + 1
    BY <1>1, <1>2, <2>3, SMTT(30)
  <2> QED BY <1>1, <2>1, <2>2, <2>3, SMTT(30)
<1>3. \A x : (\E i \in DOMAIN t : t[i] = x)
             <=> (x = w \/ \E i \in DOMAIN s : s[i] = x)
  BY <1>1
<1> QED BY <1>1, <1>2, <1>3, Zenon DEF t

-----------------------------------------------------------------------------
(* The inductive invariant: the two safety properties and the types.       *)
IInv == TypeOK /\ TicketsLive /\ NoLostWakeup

(* Nobody waits and no permit is out when the semaphore is created.        *)
LEMMA InitInv == Init => IInv
<1> USE CapacityAssumption
<1>1. ASSUME Init PROVE TypeOK
  <2>1. total \in Capacity /\ total \in Nat /\ free = total
    BY <1>1, Zenon DEF Init
  <2>2. queue \in Seq(Waiter)
    BY <1>1 DEF Init
  <2>3. pc \in [Waiter -> Stage]
    BY <1>1, Zenon DEF Init, Stage
  <2>4. free \in Int
    BY <2>1
  <2>5. signal \in SUBSET Waiter /\ expired \in SUBSET Waiter /\ resizing \in BOOLEAN
    BY <1>1, Zenon DEF Init
  <2> QED BY <2>1, <2>2, <2>3, <2>4, <2>5, Zenon DEF TypeOK
<1>2. Init => TicketsLive
  BY DEF Init, TicketsLive, Queued
<1>3. Init => NoLostWakeup
  BY Zenon DEF Init, NoLostWakeup
<1> QED BY <1>1, <1>2, <1>3, Zenon DEF IInv

(* The invariant is about the variables only.                              *)
LEMMA StutterInv == IInv /\ UNCHANGED vars => IInv'
<1>1. ASSUME TypeOK, UNCHANGED vars PROVE TypeOK'
  BY <1>1, Zenon DEF vars, TypeOK
<1>2. ASSUME TicketsLive, UNCHANGED vars PROVE TicketsLive'
  BY <1>2, Zenon DEF vars, TicketsLive
<1>3. ASSUME NoLostWakeup, UNCHANGED vars PROVE NoLostWakeup'
  BY <1>3, Zenon DEF vars, NoLostWakeup, MayTake, Notifying
<1> QED BY <1>1, <1>2, <1>3, Zenon DEF IInv

(* A task that leaves holds a ticket, and Place finds it.                  *)
LEMMA PlaceFound ==
    ASSUME TicketsLive, NEW w \in Waiter, pc[w] \in Queued
    PROVE  Place(w) \in DOMAIN queue /\ queue[Place(w)] = w
<1>1. \E i \in DOMAIN queue : queue[i] = w
  BY Zenon DEF TicketsLive
<1> QED BY <1>1, Zenon DEF Place

(* Every step keeps the types; a release returns what was acquired.        *)
LEMMA TypeStep == ASSUME IInv, Next PROVE TypeOK'
<1> USE NeedAssumption, CapacityAssumption
<1>0. TypeOK /\ TicketsLive
  BY Zenon DEF IInv
<1>1. ASSUME NEW w \in Waiter, Take(w) PROVE TypeOK'
  <2>1. Tail(queue) \in Seq(Waiter)
    BY <1>0, <1>1, PopHead, Zenon DEF TypeOK, TicketsLive, Take, MayTake
  <2> QED BY <1>0, <1>1, <2>1 DEF TypeOK, Take, Goto, Stage
<1>2. ASSUME NEW w \in Waiter, Leave(w) PROVE TypeOK'
  <2>1. RemoveAt(queue, Place(w)) \in Seq(Waiter)
    BY <1>0, <1>2, PlaceFound, RemoveTicket, Zenon DEF TypeOK, TicketsLive, Leave, Queued
  <2> QED BY <1>0, <1>2, <2>1, Zenon DEF TypeOK, Leave, Goto, Stage
<1>3. ASSUME NEW w \in Waiter, Acquire(w) PROVE TypeOK'
  BY <1>0, <1>3 DEF TypeOK, Acquire, Goto, Stage
<1>4. ASSUME NEW w \in Waiter,
             Enroll(w) \/ Sleep(w) \/ WakeUp(w) \/ TimeOut(w) \/ Abandon(w) \/ Expire(w)
      PROVE  TypeOK'
  <2>1. CASE Enroll(w)
    BY <1>0, <2>1, Zenon DEF TypeOK, Enroll, Goto, Stage
  <2>2. CASE Sleep(w) \/ WakeUp(w)
    BY <1>0, <2>2, Zenon DEF TypeOK, Sleep, WakeUp, Goto, Stage
  <2>3. CASE TimeOut(w) \/ Abandon(w) \/ Expire(w)
    BY <1>0, <2>3, Zenon DEF TypeOK, TimeOut, Abandon, Expire, Goto, Stage
  <2> QED BY <1>4, <2>1, <2>2, <2>3, Zenon
<1>5. ASSUME NEW w \in Waiter,
             NotifyGranted(w) \/ NotifyLeft(w) \/ NotifyReleased(w) \/ Release(w)
      PROVE  TypeOK'
  <2>1. CASE NotifyGranted(w)
    BY <1>0, <2>1, Zenon DEF TypeOK, NotifyGranted, Goto, Stage, NotifyWaiters, Listening
  <2>2. CASE NotifyLeft(w)
    BY <1>0, <2>2, Zenon DEF TypeOK, NotifyLeft, Goto, Stage, NotifyWaiters, Listening
  <2>3. CASE NotifyReleased(w)
    BY <1>0, <2>3, Zenon DEF TypeOK, NotifyReleased, Goto, Stage, NotifyWaiters, Listening
  <2>4. CASE Release(w)
    BY <1>0, <2>4, NeedAssumption, SMTT(30) DEF TypeOK, Release, Goto, Stage
  <2> QED BY <1>5, <2>1, <2>2, <2>3, <2>4, Zenon
<1>6. ASSUME NEW n \in Capacity, Resize(n) PROVE TypeOK'
  BY <1>0, <1>6 DEF TypeOK, Resize
<1>7. ASSUME NotifyResized PROVE TypeOK'
  BY <1>0, <1>7, Zenon DEF TypeOK, NotifyResized, NotifyWaiters, Listening
<1> QED BY <1>1, <1>2, <1>3, <1>4, <1>5, <1>6, <1>7, Zenon DEF Next, Step

(* Every step keeps a waiter's ticket queued as long as it waits.          *)
LEMMA TicketsStep == ASSUME IInv, Next PROVE TicketsLive'
<1>0. TypeOK /\ TicketsLive
  BY Zenon DEF IInv
<1>t. queue \in Seq(Waiter) /\ pc \in [Waiter -> Stage]
  BY <1>0, Zenon DEF TypeOK
<1>1. ASSUME NEW w \in Waiter, Take(w) PROVE TicketsLive'
  <2>1. /\ queue # <<>> /\ Head(queue) = w /\ queue' = Tail(queue)
        /\ pc' = [pc EXCEPT ![w] = "granted"]
    BY <1>1, Zenon DEF Take, MayTake, Goto
  <2>2. /\ \A i, j \in DOMAIN queue' : queue'[i] = queue'[j] => i = j
        /\ \A x : (\E i \in DOMAIN queue' : queue'[i] = x)
                  <=> (x # w /\ \E i \in DOMAIN queue : queue[i] = x)
    <3>1. \A i, j \in DOMAIN queue : queue[i] = queue[j] => i = j
      BY <1>0, Zenon DEF TicketsLive
    <3>2. /\ \A i, j \in DOMAIN Tail(queue) :
                Tail(queue)[i] = Tail(queue)[j] => i = j
          /\ \A x : (\E i \in DOMAIN Tail(queue) : Tail(queue)[i] = x)
                    <=> (x # Head(queue) /\ \E i \in DOMAIN queue : queue[i] = x)
      BY <1>t, <2>1, <3>1, PopHead, Zenon
    <3> QED BY <2>1, <3>2, Zenon
  <2>3. \A x \in Waiter : pc'[x] \in Queued <=> x # w /\ pc[x] \in Queued
    BY <1>t, <2>1, Zenon DEF Queued
  <2> QED BY <1>0, <2>2, <2>3, Zenon DEF TicketsLive
<1>2. ASSUME NEW w \in Waiter, Leave(w) PROVE TicketsLive'
  <2>1. /\ queue' = RemoveAt(queue, Place(w)) /\ pc[w] \in Queued
        /\ pc' = [pc EXCEPT ![w] = "left"]
    BY <1>2, Zenon DEF Leave, Goto, Queued
  <2>2. Place(w) \in DOMAIN queue /\ queue[Place(w)] = w
    BY <1>0, <2>1, PlaceFound, Zenon
  <2>3. /\ \A i, j \in DOMAIN queue' : queue'[i] = queue'[j] => i = j
        /\ \A x : (\E i \in DOMAIN queue' : queue'[i] = x)
                  <=> (x # w /\ \E i \in DOMAIN queue : queue[i] = x)
    <3>1. \A i, j \in DOMAIN queue : queue[i] = queue[j] => i = j
      BY <1>0, Zenon DEF TicketsLive
    <3>2. /\ \A i, j \in DOMAIN RemoveAt(queue, Place(w)) :
                RemoveAt(queue, Place(w))[i] = RemoveAt(queue, Place(w))[j] => i = j
          /\ \A x : (\E i \in DOMAIN RemoveAt(queue, Place(w)) : RemoveAt(queue, Place(w))[i] = x)
                    <=> (x # queue[Place(w)] /\ \E i \in DOMAIN queue : queue[i] = x)
      BY <1>t, <2>2, <3>1, RemoveTicket, Zenon
    <3> QED BY <2>1, <2>2, <3>2, Zenon
  <2>4. \A x \in Waiter : pc'[x] \in Queued <=> x # w /\ pc[x] \in Queued
    BY <1>t, <2>1, Zenon DEF Queued
  <2> QED BY <1>0, <2>3, <2>4, Zenon DEF TicketsLive
<1>3. ASSUME NEW w \in Waiter, Acquire(w) PROVE TicketsLive'
  <2>1. /\ queue' = Append(queue, w) /\ pc[w] \notin Queued
        /\ pc' = [pc EXCEPT ![w] = "enroll"]
    BY <1>3, Zenon DEF Acquire, Goto, Queued
  <2>2. \A i \in DOMAIN queue : queue[i] # w
    BY <1>0, <2>1, Zenon DEF TicketsLive
  <2>3. /\ \A i, j \in DOMAIN queue' : queue'[i] = queue'[j] => i = j
        /\ \A x : (\E i \in DOMAIN queue' : queue'[i] = x)
                  <=> (x = w \/ \E i \in DOMAIN queue : queue[i] = x)
    <3>1. \A i, j \in DOMAIN queue : queue[i] = queue[j] => i = j
      BY <1>0, Zenon DEF TicketsLive
    <3>2. /\ \A i, j \in DOMAIN Append(queue, w) :
                Append(queue, w)[i] = Append(queue, w)[j] => i = j
          /\ \A x : (\E i \in DOMAIN Append(queue, w) : Append(queue, w)[i] = x)
                    <=> (x = w \/ \E i \in DOMAIN queue : queue[i] = x)
      BY <1>t, <2>2, <3>1, PushTicket, ZenonT(40)
    <3> QED BY <2>1, <3>2, Zenon
  <2>4. \A x \in Waiter : pc'[x] \in Queued <=> x = w \/ pc[x] \in Queued
    BY <1>t, <2>1, Zenon DEF Queued
  <2> QED BY <1>0, <2>3, <2>4, Zenon DEF TicketsLive
<1>4. ASSUME UNCHANGED queue, \A x \in Waiter : pc'[x] \in Queued <=> pc[x] \in Queued
      PROVE  TicketsLive'
  BY <1>0, <1>4, Zenon DEF TicketsLive
<1>5. ASSUME NEW w \in Waiter,
             Enroll(w) \/ Sleep(w) \/ WakeUp(w) \/ TimeOut(w) \/ Abandon(w) \/ Expire(w)
      PROVE  TicketsLive'
  BY <1>t, <1>4, <1>5, Zenon DEF Enroll, Sleep, WakeUp, TimeOut, Abandon, Expire, Goto, Queued
<1>6. ASSUME NEW w \in Waiter,
             NotifyGranted(w) \/ NotifyLeft(w) \/ NotifyReleased(w) \/ Release(w)
      PROVE  TicketsLive'
  BY <1>t, <1>4, <1>6, Zenon DEF NotifyGranted, NotifyLeft, NotifyReleased, Release, Goto, Queued
<1>7. ASSUME NotifyResized \/ \E n \in Capacity : Resize(n) PROVE TicketsLive'
  BY <1>4, <1>7, Zenon DEF NotifyResized, Resize
<1> QED BY <1>1, <1>2, <1>3, <1>5, <1>6, <1>7, SMTT(30) DEF Next, Step

(* Only a grant, a departure, a release or a resize can make a sleeping    *)
(* head eligible, and each of them is followed by its notification.        *)
LEMMA WakeupStep == ASSUME IInv, Next PROVE NoLostWakeup'
<1> USE NeedAssumption, CapacityAssumption
<1>0. NoLostWakeup
  BY Zenon DEF IInv
<1>t. /\ queue \in Seq(Waiter) /\ pc \in [Waiter -> Stage] /\ free \in Int
      /\ total \in Int /\ signal \in SUBSET Waiter /\ resizing \in BOOLEAN
  BY DEF IInv, TypeOK
<1>1. ASSUME Notifying' PROVE NoLostWakeup'
  BY <1>1, Zenon DEF NoLostWakeup
<1>2. ASSUME NEW w \in Waiter,
             pc'[w] \in {"granted", "released", "left"}
      PROVE  NoLostWakeup'
  BY <1>1, <1>2, Zenon DEF Notifying
<1>3. ASSUME NEW w \in Waiter, Take(w) \/ Leave(w) \/ Release(w) PROVE NoLostWakeup'
  BY <1>t, <1>2, <1>3, Zenon DEF Take, Leave, Release, Goto
<1>4. ASSUME NEW n \in Capacity, Resize(n) PROVE NoLostWakeup'
  BY <1>1, <1>4, Zenon DEF Resize, Notifying
<1>5. ASSUME NotifyWaiters, \A x \in Waiter : pc'[x] = "wait" => pc[x] = "wait"
      PROVE  NoLostWakeup'
  BY <1>5, Zenon DEF NotifyWaiters, Listening, NoLostWakeup
<1>6. ASSUME NEW w \in Waiter, NotifyGranted(w) \/ NotifyLeft(w) \/ NotifyReleased(w)
      PROVE  NoLostWakeup'
  BY <1>t, <1>5, <1>6, Zenon DEF NotifyGranted, NotifyLeft, NotifyReleased, Goto
<1>7. ASSUME NotifyResized PROVE NoLostWakeup'
  BY <1>5, <1>7, Zenon DEF NotifyResized
<1>8. ASSUME NEW w \in Waiter, Acquire(w) PROVE NoLostWakeup'
  <2> SUFFICES ASSUME NEW x \in Waiter, pc'[x] = "wait", MayTake(x)'
               PROVE  x \in signal' \/ Notifying'
    BY Zenon DEF NoLostWakeup
  <2>1. pc[x] = "wait" /\ x # w
    BY <1>t, <1>8, Zenon DEF Acquire, Goto
  <2>2. MayTake(x)
    BY <1>t, <1>8, <2>1, SMTT(30) DEF Acquire, MayTake
  <2>3. x \in signal \/ Notifying
    BY <1>0, <2>1, <2>2, Zenon DEF NoLostWakeup
  <2> QED BY <1>t, <1>8, <2>3, Zenon DEF Acquire, Goto, Notifying
<1>9. ASSUME NEW w \in Waiter,
             Enroll(w) \/ Sleep(w) \/ WakeUp(w) \/ TimeOut(w) \/ Abandon(w) \/ Expire(w)
      PROVE  NoLostWakeup'
  <2> SUFFICES ASSUME NEW x \in Waiter, pc'[x] = "wait", MayTake(x)'
               PROVE  x \in signal' \/ Notifying'
    BY Zenon DEF NoLostWakeup
  <2>1. MayTake(x) /\ UNCHANGED <<queue, free, resizing>>
    BY <1>9, Zenon DEF Enroll, Sleep, WakeUp, TimeOut, Abandon, Expire, MayTake
  <2>2. pc[x] = "wait"
    BY <1>t, <1>9, <2>1, Zenon DEF Enroll, Sleep, WakeUp, TimeOut, Abandon, Expire, Goto
  <2>3. x \in signal \/ Notifying
    BY <1>0, <2>1, <2>2, Zenon DEF NoLostWakeup
  <2>4. x \in signal => x \in signal'
    BY <1>9, <2>2, Zenon DEF Enroll, Sleep, WakeUp, TimeOut, Abandon, Expire
  <2>5. Notifying => Notifying'
    BY <1>t, <1>9, Zenon DEF Enroll, Sleep, WakeUp, TimeOut, Abandon, Expire, Goto, Notifying
  <2> QED BY <2>3, <2>4, <2>5, Zenon
<1> QED BY <1>3, <1>4, <1>6, <1>7, <1>8, <1>9, ZenonT(40) DEF Next, Step

(* The invariant holds from the start and every step keeps it.             *)
LEMMA Invariance == Spec => []IInv
<1>1. IInv /\ [Next]_vars => IInv'
  BY StutterInv, TypeStep, TicketsStep, WakeupStep, Zenon DEF IInv
<1> QED BY InitInv, <1>1, PTL DEF Spec

-----------------------------------------------------------------------------
(* Types are kept for every set of waiters, requests and capacities.       *)
THEOREM SemaphoreTypeCorrect == Spec => []TypeOK
BY Invariance, PTL DEF IInv

(* Ticket::drop and grant_if_head between them leave no ghost ticket and   *)
(* remove none twice.                                                      *)
THEOREM NoGhostTicket == Spec => []TicketsLive
BY Invariance, PTL DEF IInv

(* Notifying after every change of the head, the free permits or the       *)
(* capacity is enough: no eligible head sleeps on.                         *)
THEOREM WakeupsReachTheHead == Spec => []NoLostWakeup
BY Invariance, PTL DEF IInv
=============================================================================

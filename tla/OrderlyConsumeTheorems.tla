----------------------- MODULE OrderlyConsumeTheorems -----------------------
(***************************************************************************)
(* What OrderlyConsume promises holds for any number of members, messages, *)
(* revocations and failures: messages reach the listener in order, no save *)
(* of the offset skips one, and a fresh grant means the broker's lock      *)
(* until a member gives the queue up.                                      *)
(*                                                                         *)
(* The invariant is about the line of a member: the batch its listener     *)
(* has, if it is of the current generation, and then the buffer.  Every    *)
(* message before one in the line is settled or stands before it in the    *)
(* line, and every message behind the cursor is settled or stands in the   *)
(* line.  First come what the operations of one member do to its line, on  *)
(* any queue state, then the group.                                        *)
(***************************************************************************)
EXTENDS OrderlyConsume, SequenceTheorems, WellFoundedInduction, TLAPS

-----------------------------------------------------------------------------
(* Lines: lemmas on sequences, for any messages and any settled ones *)

(* The larger of two numbers.                                              *)
LEMMA MaxOfTwo ==
    ASSUME NEW a \in Int, NEW b \in Int
    PROVE  Max({a, b}) = IF a >= b THEN a ELSE b
<1> DEFINE m == IF a >= b THEN a ELSE b
<1>1. m \in {a, b} /\ \A y \in {a, b} : m >= y
  OBVIOUS
<1>2. \A x \in {a, b} : (\A y \in {a, b} : x >= y) => x = m
  OBVIOUS
<1> HIDE DEF m
<1>3. Max({a, b}) = m
  BY <1>1, <1>2 DEF Max
<1> QED BY <1>3 DEF m

(* The smaller of two numbers.                                             *)
LEMMA MinOfTwo ==
    ASSUME NEW a \in Int, NEW b \in Int
    PROVE  Min({a, b}) = IF a =< b THEN a ELSE b
<1> DEFINE m == IF a =< b THEN a ELSE b
<1>1. m \in {a, b} /\ \A y \in {a, b} : m =< y
  OBVIOUS
<1>2. \A x \in {a, b} : (\A y \in {a, b} : x =< y) => x = m
  OBVIOUS
<1> HIDE DEF m
<1>3. Min({a, b}) = m
  BY <1>1, <1>2 DEF Min
<1> QED BY <1>3 DEF m

(* A bounded set of numbers has a largest element: the least distance to   *)
(* the bound is that of Max.                                               *)
LEMMA MaxOfBounded ==
    ASSUME NEW n \in Nat, NEW S \in SUBSET (0..n), S # {}
    PROVE  Max(S) \in S /\ \A y \in S : Max(S) >= y
<1> DEFINE D == {d \in 0..n : n - d \in S}
           R == OpToRel(<, Nat)
<1>1. D \subseteq Nat /\ D # {}
  <2>1. PICK s \in S : TRUE
    BY Zenon
  <2>2. n - s \in 0..n /\ n - (n - s) = s
    OBVIOUS
  <2> QED BY <2>1, <2>2
<1>2. IsWellFoundedOn(R, Nat)
  BY NatLessThanWellFounded, Zenon
<1>3. \A x, y \in Nat : y < x => <<y, x>> \in R
  BY DEF OpToRel
<1> HIDE DEF D, R
<1>4. PICK x \in D : \A y \in D : ~(<<y, x>> \in R)
  BY <1>1, <1>2, WFMin, Zenon
<1>5. ASSUME NEW y \in D PROVE x =< y
  <2>1. x \in Nat /\ y \in Nat
    BY <1>1
  <2>2. ~(y < x)
    BY <1>3, <1>4, <2>1, Zenon
  <2> QED BY <2>1, <2>2
<1>6. n - x \in S /\ \A s \in S : n - x >= s
  <2>1. n - x \in S /\ x \in 0..n
    BY DEF D
  <2>2. ASSUME NEW s \in S PROVE n - x >= s
    <3>1. n - s \in 0..n /\ n - (n - s) = s
      OBVIOUS
    <3>2. n - s \in D
      BY <3>1 DEF D
    <3> QED BY <1>5, <2>1, <3>1, <3>2
  <2> QED BY <2>1, <2>2
<1> QED BY <1>6, Zenon DEF Max

-----------------------------------------------------------------------------
(* The line of a member, over the messages settled so far *)

Entry == [off : Offset, tries : Nat]

(* Nothing below offset k is still to be seen.                             *)
Behind(k, done) == \A m \in Offset : m < k => m \in done

(* What is before a message of the line is settled or earlier in the line. *)
Ordered(line, done) ==
    \A i \in 1..Len(line) : \A m \in Offset :
        m < line[i].off => m \in done \/ \E j \in 1..i - 1 : line[j].off = m

(* What is below offset k is settled or in the line.                       *)
Covered(k, line, done) ==
    \A m \in Offset :
        m < k => m \in done \/ \E i \in 1..Len(line) : line[i].off = m

(* A batch of an earlier generation in front of the buffer.                *)
LEMMA OrderedConcat ==
    ASSUME NEW s \in Seq(Entry), NEW t \in Seq(Entry), NEW done,
           Ordered(s, done), Ordered(t, done)
    PROVE  Ordered(s \o t, done)
<1>1. /\ Len(s \o t) = Len(s) + Len(t) /\ Len(s) \in Nat /\ Len(t) \in Nat
      /\ \A i \in 1..Len(s) + Len(t) :
            (s \o t)[i] = IF i <= Len(s) THEN s[i] ELSE t[i - Len(s)]
  BY ConcatProperties, LenProperties
<1> DEFINE u == s \o t
<1> HIDE DEF u
<1> SUFFICES ASSUME NEW i \in 1..Len(u), NEW m \in Offset, m < u[i].off, m \notin done
             PROVE  \E j \in 1..i - 1 : u[j].off = m
  BY SMTT(30) DEF Ordered, u
<1>2. CASE i <= Len(s)
  <2>1. i \in 1..Len(s) /\ u[i] = s[i]
    BY <1>1, <1>2 DEF u
  <2>2. PICK j \in 1..i - 1 : s[j].off = m
    BY <2>1 DEF Ordered
  <2>3. u[j] = s[j]
    BY <1>1, <1>2, <2>1 DEF u
  <2> QED BY <2>2, <2>3
<1>3. CASE i > Len(s)
  <2>1. i - Len(s) \in 1..Len(t) /\ u[i] = t[i - Len(s)]
    BY <1>1, <1>3 DEF u
  <2>2. PICK j \in 1..(i - Len(s)) - 1 : t[j].off = m
    BY <2>1 DEF Ordered
  <2>3. j + Len(s) \in 1..i - 1 /\ (j + Len(s)) - Len(s) = j /\ ~(j + Len(s) <= Len(s))
    BY <1>1, <2>1
  <2>4. u[j + Len(s)] = t[j]
    BY <1>1, <2>1, <2>3 DEF u
  <2> QED BY <2>2, <2>3, <2>4
<1> QED BY <1>1, <1>2, <1>3 DEF u

(* A batch taken from the front of the buffer.                             *)
LEMMA OrderedPrefix ==
    ASSUME NEW s \in Seq(Entry), NEW t \in Seq(Entry), NEW done, Ordered(s \o t, done)
    PROVE  Ordered(s, done)
<1>1. /\ Len(s \o t) = Len(s) + Len(t) /\ Len(s) \in Nat /\ Len(t) \in Nat
      /\ \A i \in 1..Len(s) + Len(t) :
            (s \o t)[i] = IF i <= Len(s) THEN s[i] ELSE t[i - Len(s)]
  BY ConcatProperties, LenProperties
<1> DEFINE u == s \o t
<1>2. \A i \in 1..Len(s) : i \in 1..Len(u) /\ u[i] = s[i]
  BY <1>1
<1> HIDE DEF u
<1> SUFFICES ASSUME NEW i \in 1..Len(s), NEW m \in Offset, m < s[i].off, m \notin done
             PROVE  \E j \in 1..i - 1 : s[j].off = m
  BY DEF Ordered
<1>3. PICK j \in 1..i - 1 : u[j].off = m
  BY <1>2 DEF Ordered, u
<1>4. u[j] = s[j]
  BY <1>1, <1>2
<1> QED BY <1>3, <1>4

(* Settling the batch: the rest of the line is ordered and covers as much. *)
LEMMA OrderedRest ==
    ASSUME NEW s \in Seq(Entry), NEW t \in Seq(Entry), NEW done, NEW more, NEW k,
           Ordered(s \o t, done), done \subseteq more, Offs(s) \subseteq more
    PROVE  Ordered(t, more) /\ (Covered(k, s \o t, done) => Covered(k, t, more))
<1>1. /\ Len(s \o t) = Len(s) + Len(t) /\ Len(s) \in Nat /\ Len(t) \in Nat
      /\ \A i \in 1..Len(s) + Len(t) :
            (s \o t)[i] = IF i <= Len(s) THEN s[i] ELSE t[i - Len(s)]
      /\ DOMAIN s = 1..Len(s)
  BY ConcatProperties, LenProperties
<1> DEFINE u == s \o t
<1>2. ASSUME NEW i \in 1..Len(u), u[i].off \notin more
      PROVE  i - Len(s) \in 1..Len(t) /\ u[i] = t[i - Len(s)]
  <2>1. CASE i <= Len(s)
    <3>1. i \in DOMAIN s /\ u[i] = s[i]
      BY <1>1, <2>1
    <3> QED BY <1>2, <3>1 DEF Offs
  <2>2. CASE i > Len(s)
    BY <1>1, <2>2
  <2> QED BY <1>1, <2>1, <2>2
<1>3. \A i \in 1..Len(t) : i + Len(s) \in 1..Len(u) /\ u[i + Len(s)] = t[i]
  <2> TAKE i \in 1..Len(t)
  <2>1. i + Len(s) \in 1..Len(s) + Len(t) /\ (i + Len(s)) - Len(s) = i /\ ~(i + Len(s) <= Len(s))
    BY <1>1
  <2> QED BY <1>1, <2>1
<1>0. Ordered(u, done)
  OBVIOUS
<1> HIDE DEF u
<1>4. Ordered(t, more)
  <2> SUFFICES ASSUME NEW i \in 1..Len(t), NEW m \in Offset, m < t[i].off, m \notin more
               PROVE  \E j \in 1..i - 1 : t[j].off = m
    BY DEF Ordered
  <2>1. PICK j \in 1..(i + Len(s)) - 1 : u[j].off = m
    BY <1>0, <1>3, Zenon DEF Ordered
  <2>2. j \in 1..Len(u)
    BY <1>1, <1>3
  <2>3. j - Len(s) \in 1..Len(t) /\ u[j] = t[j - Len(s)]
    BY <1>2, <2>1, <2>2
  <2>4. j - Len(s) \in 1..i - 1
    BY <1>1, <2>3
  <2> QED BY <2>1, <2>3, <2>4
<1>5. ASSUME Covered(k, u, done) PROVE Covered(k, t, more)
  <2> SUFFICES ASSUME NEW m \in Offset, m < k, m \notin more
               PROVE  \E i \in 1..Len(t) : t[i].off = m
    BY DEF Covered
  <2>1. PICK i \in 1..Len(u) : u[i].off = m
    BY <1>5 DEF Covered
  <2>2. i - Len(s) \in 1..Len(t) /\ u[i] = t[i - Len(s)]
    BY <1>2, <2>1
  <2> QED BY <2>1, <2>2
<1> QED BY <1>4, <1>5 DEF u

(* Retries change how often a message was tried, not where it stands.      *)
LEMMA OrderedSame ==
    ASSUME NEW u \in Seq(Entry), NEW v \in Seq(Entry), NEW done, NEW k,
           Len(u) = Len(v), \A i \in 1..Len(u) : u[i].off = v[i].off
    PROVE  /\ Ordered(u, done) => Ordered(v, done)
           /\ Covered(k, u, done) => Covered(k, v, done)
<1>1. Len(u) \in Nat
  BY LenProperties
<1>2. ASSUME Ordered(u, done) PROVE Ordered(v, done)
  <2> SUFFICES ASSUME NEW i \in 1..Len(v), NEW m \in Offset, m < v[i].off, m \notin done
               PROVE  \E j \in 1..i - 1 : v[j].off = m
    BY DEF Ordered
  <2>1. PICK j \in 1..i - 1 : u[j].off = m
    BY <1>2 DEF Ordered
  <2>2. j \in 1..Len(u)
    BY <1>1
  <2> QED BY <2>1, <2>2
<1>3. ASSUME Covered(k, u, done) PROVE Covered(k, v, done)
  BY <1>3 DEF Covered
<1> QED BY <1>2, <1>3

(* The same with the buffer behind it, and what the buffer covers stays    *)
(* covered.                                                                *)
LEMMA SameFront ==
    ASSUME NEW a \in Seq(Entry), NEW b \in Seq(Entry), NEW p \in Seq(Entry), NEW done, NEW k,
           Len(a) = Len(b), \A i \in 1..Len(a) : a[i].off = b[i].off
    PROVE  /\ Ordered(a \o p, done) => Ordered(b \o p, done)
           /\ Covered(k, a \o p, done) => Covered(k, b \o p, done)
           /\ Covered(k, p, done) => Covered(k, b \o p, done)
<1> DEFINE u == a \o p
           v == b \o p
<1>1. u \in Seq(Entry) /\ v \in Seq(Entry)
  OBVIOUS
<1>2. Len(a) \in Nat /\ Len(p) \in Nat
  OBVIOUS
<1>c. \A s, t \in Seq(Entry) :
         /\ Len(s \o t) = Len(s) + Len(t)
         /\ \A i \in 1..Len(s) + Len(t) :
               (s \o t)[i] = IF i <= Len(s) THEN s[i] ELSE t[i - Len(s)]
  BY ConcatProperties
<1>3. /\ Len(u) = Len(a) + Len(p)
      /\ \A i \in 1..Len(a) + Len(p) : u[i] = IF i <= Len(a) THEN a[i] ELSE p[i - Len(a)]
  BY <1>c, Zenon
<1>4. /\ Len(v) = Len(b) + Len(p)
      /\ \A i \in 1..Len(b) + Len(p) : v[i] = IF i <= Len(b) THEN b[i] ELSE p[i - Len(b)]
  BY <1>c, Zenon
<1> HIDE DEF u, v
<1>5. Len(u) = Len(v) /\ \A i \in 1..Len(u) : u[i].off = v[i].off
  BY <1>2, <1>3, <1>4
<1>6. /\ Ordered(u, done) => Ordered(v, done)
      /\ Covered(k, u, done) => Covered(k, v, done)
  BY <1>1, <1>5, OrderedSame, Zenon
<1>7. ASSUME Covered(k, p, done) PROVE Covered(k, v, done)
  <2>1. ASSUME NEW i \in 1..Len(p)
        PROVE  i + Len(b) \in 1..Len(v) /\ v[i + Len(b)] = p[i]
    <3>1. i + Len(b) \in 1..Len(b) + Len(p) /\ ~(i + Len(b) <= Len(b))
          /\ (i + Len(b)) - Len(b) = i
      BY <1>2
    <3> QED BY <1>4, <3>1
  <2> QED BY <1>7, <2>1, SMTT(30) DEF Covered
<1> QED BY <1>6, <1>7 DEF u, v

(* What a pull at offset k brings goes behind the line.                    *)
LEMMA OrderedGrow ==
    ASSUME NEW s \in Seq(Entry), NEW t \in Seq(Entry), NEW done, NEW k \in Nat,
           Ordered(s, done), Covered(k, s, done), \A i \in 1..Len(t) : t[i].off = k + i - 1
    PROVE  Ordered(s \o t, done) /\ Covered(k + Len(t), s \o t, done)
<1>1. /\ Len(s \o t) = Len(s) + Len(t) /\ Len(s) \in Nat /\ Len(t) \in Nat
      /\ \A i \in 1..Len(s) + Len(t) :
            (s \o t)[i] = IF i <= Len(s) THEN s[i] ELSE t[i - Len(s)]
  BY ConcatProperties, LenProperties
<1> DEFINE u == s \o t
<1>2. \A i \in 1..Len(s) : i \in 1..Len(u) /\ u[i] = s[i]
  BY <1>1
<1>3. \A i \in 1..Len(t) : i + Len(s) \in 1..Len(u) /\ u[i + Len(s)] = t[i]
  <2> TAKE i \in 1..Len(t)
  <2>1. i + Len(s) \in 1..Len(s) + Len(t) /\ (i + Len(s)) - Len(s) = i /\ ~(i + Len(s) <= Len(s))
    BY <1>1
  <2> QED BY <1>1, <2>1
<1>4. \A i \in 1..Len(u) : i > Len(s) => i - Len(s) \in 1..Len(t) /\ u[i] = t[i - Len(s)]
  BY <1>1
<1>5. Len(u) = Len(s) + Len(t)
  BY <1>1
<1> HIDE DEF u
<1>6. ASSUME NEW m \in Offset, m \notin done, NEW n \in 0..Len(t), m < k + n
      PROVE  \E j \in 1..Len(s) + n : u[j].off = m
  <2>1. CASE m < k
    <3>1. PICK j \in 1..Len(s) : s[j].off = m
      BY <1>6, <2>1, SMTT(30) DEF Covered
    <3>2. u[j] = s[j] /\ j \in 1..Len(s) + n
      BY <1>1, <1>2
    <3> QED BY <3>1, <3>2
  <2>2. CASE ~(m < k)
    <3> DEFINE i == m - k + 1
    <3>1. m \in Nat
      BY DEF Offset
    <3>2. i \in 1..n /\ i \in 1..Len(t) /\ k + i - 1 = m
      BY <1>1, <1>6, <2>2, <3>1
    <3> HIDE DEF i
    <3>3. t[i].off = m
      BY <3>2
    <3>4. u[i + Len(s)].off = m /\ i + Len(s) \in 1..Len(s) + n
      BY <1>1, <1>3, <3>2, <3>3
    <3> QED BY <3>4
  <2> QED BY <2>1, <2>2
<1>7. Covered(k + Len(t), u, done)
  <2> SUFFICES ASSUME NEW m \in Offset, m < k + Len(t), m \notin done
               PROVE  \E i \in 1..Len(u) : u[i].off = m
    BY DEF Covered
  <2>1. Len(t) \in 0..Len(t)
    BY <1>1
  <2> QED BY <1>5, <1>6, <2>1, SMTT(30)
<1>8. Ordered(u, done)
  <2> SUFFICES ASSUME NEW i \in 1..Len(u), NEW m \in Offset, m < u[i].off, m \notin done
               PROVE  \E j \in 1..i - 1 : u[j].off = m
    BY DEF Ordered
  <2>1. CASE i <= Len(s)
    <3>1. i \in 1..Len(s) /\ u[i] = s[i]
      BY <1>1, <1>2, <2>1
    <3>2. PICK j \in 1..i - 1 : s[j].off = m
      BY <3>1 DEF Ordered
    <3>3. u[j] = s[j]
      BY <1>1, <1>2, <3>1
    <3> QED BY <3>2, <3>3, SMTT(30)
  <2>2. CASE ~(i <= Len(s))
    <3> DEFINE n == i - Len(s) - 1
    <3>1. i - Len(s) \in 1..Len(t) /\ u[i] = t[i - Len(s)]
      BY <1>1, <1>4, <2>2
    <3>2. n \in 0..Len(t) /\ Len(s) + n = i - 1 /\ k + (i - Len(s)) - 1 = k + n
      BY <1>1, <3>1
    <3>3. u[i].off = k + n
      BY <3>1, <3>2, Zenon
    <3> HIDE DEF n
    <3>4. \E j \in 1..Len(s) + n : u[j].off = m
      BY <1>6, <3>2, <3>3
    <3> QED BY <3>2, <3>4
  <2> QED BY <2>1, <2>2
<1> QED BY <1>7, <1>8 DEF u

(* What is settled stays settled.                                          *)
LEMMA Monotone ==
    ASSUME NEW line, NEW done, NEW more, NEW k, done \subseteq more
    PROVE  /\ Ordered(line, done) => Ordered(line, more)
           /\ Covered(k, line, done) => Covered(k, line, more)
           /\ Behind(k, done) => Behind(k, more)
BY DEF Ordered, Covered, Behind

-----------------------------------------------------------------------------
(* One member *)

QueueState == [assigned : BOOLEAN, epoch : Nat, cursor : None..MaxOff,
               consumed : None..MaxOff, pending : Seq(Entry), buffered : BOOLEAN,
               grant : None..Old]
WorkState == [pc : {"ready", "taken", "listening"}, batch : Seq(Entry), ep : Nat]

(* The listener has, or is to get, a batch of the current generation.      *)
Current(q, w) == w.pc # "ready" /\ w.ep = q.epoch
Line(q, w) == IF Current(q, w) THEN w.batch \o q.pending ELSE q.pending

(* off is the offset its revoke_queues is about to save.                   *)
MemberOK(q, w, off, done) ==
    /\ q \in QueueState /\ w \in WorkState /\ off \in None..MaxOff
    /\ Behind(q.consumed, done) /\ Behind(off, done)
    /\ Ordered(Line(q, w), done) /\ Covered(q.cursor, Line(q, w), done)
    /\ w.pc # "ready" => w.batch # <<>> /\ Ordered(w.batch, done)
    /\ w.ep <= q.epoch
    /\ q.pending # <<>> \/ Current(q, w) => q.buffered
    /\ q.assigned => q.cursor # None

(* The bounds as facts about the constants.                                *)
LEMMA Bounds ==
    ASSUME BoundAssumption
    PROVE  /\ MaxOff \in Nat /\ PullBatch \in Nat /\ ConsumeBatch \in Nat /\ LockLife \in Nat
           /\ LockPeriod \in Nat
           /\ MaxOff > 0 /\ PullBatch > 0 /\ ConsumeBatch > 0 /\ MaxTries \in Nat
           /\ Offset \subseteq Nat /\ None = -1 /\ Offset \subseteq 0..MaxOff
BY DEF BoundAssumption, Offset, None

(* More messages are settled, by this member or another.                   *)
LEMMA MemberMonotone ==
    ASSUME NEW q, NEW w, NEW off, NEW done, NEW more,
           MemberOK(q, w, off, done), done \subseteq more
    PROVE  MemberOK(q, w, off, more)
BY Monotone, Zenon DEF MemberOK

(* A step that leaves the line alone.                                      *)
LEMMA MemberFrame ==
    ASSUME NEW q, NEW w, NEW off, NEW done, MemberOK(q, w, off, done),
           NEW r \in QueueState, NEW p \in None..MaxOff,
           r.pending = q.pending, r.epoch = q.epoch, r.buffered = q.buffered,
           Behind(r.consumed, done), Behind(p, done),
           r.cursor = q.cursor \/ Behind(r.cursor, done),
           r.assigned => r.cursor # None
    PROVE  MemberOK(r, w, p, done)
<1>1. Current(r, w) = Current(q, w) /\ Line(r, w) = Line(q, w)
  BY DEF Current, Line
<1>2. Covered(r.cursor, Line(r, w), done)
  BY <1>1 DEF MemberOK, Covered, Behind
<1> QED BY <1>1, <1>2 DEF MemberOK

(* retire_queue_locked: the batch becomes one of an earlier generation.    *)
LEMMA MemberRetired ==
    ASSUME BoundAssumption,
           NEW q, NEW w, NEW off, NEW done, MemberOK(q, w, off, done)
    PROVE  MemberOK([Retired(q) EXCEPT !.assigned = FALSE], w, q.consumed, done)
<1> DEFINE r == [Retired(q) EXCEPT !.assigned = FALSE]
<1>1. q \in QueueState /\ w \in WorkState /\ w.ep <= q.epoch
  BY DEF MemberOK
<1>2. /\ r.assigned = FALSE /\ r.epoch = q.epoch + 1 /\ r.cursor = None /\ r.consumed = None
      /\ r.pending = <<>> /\ r.buffered = FALSE /\ r.grant = None
  BY <1>1 DEF Retired, QueueState
<1>3. r \in QueueState
  <2>1. None \in None..MaxOff /\ None \in None..Old /\ <<>> \in Seq(Entry) /\ q.epoch + 1 \in Nat
    BY <1>1, Bounds, SMTT(30) DEF QueueState, Old
  <2> QED BY <1>1, <2>1, Zenon DEF Retired, QueueState
<1>4. ~Current(r, w)
  BY <1>1, <1>2 DEF Current, QueueState, WorkState
<1>5. Line(r, w) = <<>>
  BY <1>2, <1>4 DEF Line
<1> HIDE DEF r
<1>6. Behind(r.consumed, done) /\ Covered(r.cursor, Line(r, w), done)
  BY <1>2, Bounds DEF Behind, Covered
<1>7. Ordered(Line(r, w), done)
  BY <1>5 DEF Ordered
<1>8. w.ep <= r.epoch
  BY <1>1, <1>2, SMTT(30) DEF QueueState, WorkState
<1>9. MemberOK(r, w, q.consumed, done)
  BY <1>1, <1>2, <1>3, <1>4, <1>6, <1>7, <1>8 DEF MemberOK, QueueState
<1> QED BY <1>9 DEF r

(* dispatch_loop takes the front of the buffer: the line stays.            *)
LEMMA MemberTakes ==
    ASSUME BoundAssumption,
           NEW q, NEW w, NEW off, NEW done, MemberOK(q, w, off, done),
           w.pc = "ready", q.pending # <<>>, NEW n \in 1..Len(q.pending)
    PROVE  MemberOK([q EXCEPT !.pending = SubSeq(@, n + 1, Len(@))],
                    [pc |-> "taken", ep |-> q.epoch, batch |-> SubSeq(q.pending, 1, n)],
                    off, done)
<1> DEFINE b == SubSeq(q.pending, 1, n)
           t == SubSeq(q.pending, n + 1, Len(q.pending))
           r == [q EXCEPT !.pending = SubSeq(@, n + 1, Len(@))]
           v == [pc |-> "taken", ep |-> q.epoch, batch |-> b]
<1>1. /\ q \in QueueState /\ q.pending \in Seq(Entry) /\ Len(q.pending) \in Nat
      /\ Line(q, w) = q.pending
  BY LenProperties DEF MemberOK, QueueState, Line, Current
<1>2. b \in Seq(Entry) /\ t \in Seq(Entry)
  <2>1. \A i \in 1..Len(q.pending) : q.pending[i] \in Entry
    BY <1>1, ElementOfSeq
  <2> QED BY <1>1, <2>1, SubSeqProperties
<1>3. b \o t = q.pending
  <2>1. b \o t = SubSeq(q.pending, 1, Len(q.pending))
    BY <1>1, ConcatAdjacentSubSeq
  <2> QED BY <1>1, <2>1, SubSeqFull
<1>4. b # <<>>
  <2>1. Len(b) = n
    BY <1>1
  <2> QED BY <2>1, EmptySeq
<1>5. /\ r.pending = t /\ r.epoch = q.epoch /\ r.buffered = q.buffered
      /\ r.assigned = q.assigned /\ r.cursor = q.cursor /\ r.consumed = q.consumed
  BY <1>1 DEF QueueState
<1>6. r \in QueueState
  BY <1>1, <1>2, Zenon DEF QueueState
<1>7. v \in WorkState
  BY <1>1, <1>2 DEF QueueState, WorkState
<1> HIDE DEF b, t, r
<1>8. v.pc = "taken" /\ v.ep = q.epoch /\ v.batch = b
  OBVIOUS
<1> HIDE DEF v
<1>9. Current(r, v) /\ Line(r, v) = q.pending
  BY <1>3, <1>5, <1>8 DEF Current, Line
<1>10. Ordered(b, done)
  <2>1. Ordered(b \o t, done)
    BY <1>1, <1>3 DEF MemberOK
  <2> QED BY <1>2, <2>1, OrderedPrefix
<1>11. v.ep <= r.epoch
  BY <1>1, <1>5, <1>8, SMTT(30) DEF QueueState
<1>12. MemberOK(r, v, off, done)
  BY <1>1, <1>4, <1>5, <1>6, <1>7, <1>8, <1>9, <1>10, <1>11, SMTT(30) DEF MemberOK
<1> QED BY <1>12, SMTT(30) DEF r, v, b

(* A pull of the current generation brings messages, or finds none and     *)
(* moves the offset of an idle queue.                                      *)
LEMMA MemberPulls ==
    ASSUME BoundAssumption,
           NEW q, NEW w, NEW off, NEW done, MemberOK(q, w, off, done),
           q.assigned, q.cursor # MaxOff
    PROVE  MemberOK([q EXCEPT !.pending = @ \o Fetched(q.cursor), !.buffered = TRUE,
                              !.cursor = Min({@ + PullBatch, MaxOff})], w, off, done)
<1> DEFINE k == q.cursor
           t == Fetched(k)
           r == [q EXCEPT !.pending = @ \o Fetched(q.cursor), !.buffered = TRUE,
                          !.cursor = Min({@ + PullBatch, MaxOff})]
<1>0. /\ MaxOff \in Nat /\ PullBatch \in Nat /\ PullBatch > 0 /\ Offset \subseteq Nat
      /\ None = -1
  BY Bounds
<1>1. /\ q \in QueueState /\ w \in WorkState /\ q.pending \in Seq(Entry)
      /\ w.batch \in Seq(Entry) /\ k \in 0..MaxOff - 1
  BY <1>0, SMTT(30) DEF MemberOK, QueueState, WorkState
<1>2. Min({PullBatch, MaxOff - k}) \in Nat /\ k + Min({PullBatch, MaxOff - k}) = Min({k + PullBatch, MaxOff})
      /\ k + Min({PullBatch, MaxOff - k}) <= MaxOff
  <2>1. Min({PullBatch, MaxOff - k}) = IF PullBatch <= MaxOff - k THEN PullBatch ELSE MaxOff - k
    BY <1>0, <1>1, MinOfTwo
  <2>2. Min({k + PullBatch, MaxOff}) = IF k + PullBatch <= MaxOff THEN k + PullBatch ELSE MaxOff
    BY <1>0, <1>1, MinOfTwo
  <2> QED BY <1>0, <1>1, <2>1, <2>2, SMTT(30)
<1> DEFINE n == Min({PullBatch, MaxOff - k})
<1>3. t = [i \in 1..n |-> [off |-> k + i - 1, tries |-> 0]]
  BY DEF Fetched
<1>4. n \in Nat /\ k + n <= MaxOff /\ Min({k + PullBatch, MaxOff}) = k + n
  BY <1>2
<1> HIDE DEF n, k
<1>5. t \in Seq(Entry) /\ Len(t) = n /\ \A i \in 1..n : t[i].off = k + i - 1
  <2>1. \A i \in 1..n : [off |-> k + i - 1, tries |-> 0] \in Entry
    <3> TAKE i \in 1..n
    <3>1. k + i - 1 \in 0..MaxOff - 1
      BY <1>0, <1>1, <1>4
    <3> QED BY <3>1 DEF Entry, Offset
  <2>2. t \in [1..n -> Entry]
    BY <1>3, <2>1
  <2> QED BY <1>3, <1>4, <2>2
<1> HIDE DEF t
<1>6. /\ r.pending = q.pending \o t /\ r.buffered = TRUE /\ r.cursor = k + n
      /\ r.epoch = q.epoch /\ r.consumed = q.consumed /\ r.assigned = q.assigned
  BY <1>1, <1>4, Zenon DEF QueueState, k, t
<1>7. r \in QueueState
  <2>1. k + n \in None..MaxOff
    BY <1>0, <1>1, <1>4
  <2>2. q.pending \o t \in Seq(Entry)
    BY <1>1, <1>5
  <2>3. r = [q EXCEPT !.pending = q.pending \o t, !.buffered = TRUE, !.cursor = k + n]
    BY <1>1, <1>4, ZenonT(30) DEF k, t, QueueState
  <2> HIDE DEF r
  <2> QED BY <1>1, <2>1, <2>2, <2>3, ZenonT(30) DEF QueueState
<1> HIDE DEF r
<1>8. Current(r, w) = Current(q, w)
  BY <1>6 DEF Current
<1>9. Line(r, w) = Line(q, w) \o t /\ Line(q, w) \in Seq(Entry)
  <2>0. \A a, b, c \in Seq(Entry) : (a \o b) \o c = a \o (b \o c)
    BY ConcatAssociative, SMTT(30)
  <2>1. (w.batch \o q.pending) \o t = w.batch \o (q.pending \o t)
    BY <1>1, <1>5, <2>0, Zenon
  <2>2. w.batch \o q.pending \in Seq(Entry)
    BY <1>1, ConcatProperties, SMTT(30)
  <2> QED BY <1>1, <1>6, <1>8, <2>1, <2>2, Zenon DEF Line
<1>10. Ordered(Line(q, w), done) /\ Covered(k, Line(q, w), done)
  BY DEF MemberOK, k
<1>11. Ordered(Line(r, w), done) /\ Covered(r.cursor, Line(r, w), done)
  <2>1. k \in Nat
    BY <1>0, <1>1
  <2>2. Ordered(Line(q, w) \o t, done) /\ Covered(k + Len(t), Line(q, w) \o t, done)
    BY <1>5, <1>9, <1>10, <2>1, OrderedGrow, ZenonT(30)
  <2> QED BY <1>5, <1>6, <1>9, <2>2, SMTT(30)
<1>12. r.cursor # None
  BY <1>0, <1>1, <1>4, <1>6, SMTT(30)
<1>13. MemberOK(r, w, off, done)
  BY <1>6, <1>7, <1>8, <1>11, <1>12, SMTT(30) DEF MemberOK
<1> QED BY <1>13 DEF r

(* correct_tags_offset_locked after an empty answer: nothing is buffered   *)
(* and no batch is out, so everything behind the cursor is settled.        *)
LEMMA MemberCorrects ==
    ASSUME BoundAssumption,
           NEW q, NEW w, NEW off, NEW done, MemberOK(q, w, off, done)
    PROVE  MemberOK(CorrectTags(q, w.pc = "ready", q.cursor), w, off, done)
<1>1. CASE q.pending = <<>> /\ w.pc = "ready"
  <2> DEFINE r == [q EXCEPT !.consumed = Max({@, q.cursor})]
  <2>1. /\ q \in QueueState /\ q.cursor \in None..MaxOff /\ q.consumed \in None..MaxOff
        /\ Behind(q.consumed, done) /\ Behind(off, done) /\ off \in None..MaxOff
        /\ q.assigned => q.cursor # None
    BY DEF MemberOK, QueueState
  <2>2. Max({q.consumed, q.cursor}) = IF q.consumed >= q.cursor THEN q.consumed ELSE q.cursor
    BY <2>1, Bounds, MaxOfTwo, SMTT(30)
  <2>3. Behind(q.cursor, done)
    <3>1. Line(q, w) = <<>>
      BY <1>1 DEF Line, Current
    <3> QED BY <3>1 DEF MemberOK, Covered, Behind
  <2>4. /\ r.pending = q.pending /\ r.epoch = q.epoch /\ r.buffered = q.buffered
        /\ r.assigned = q.assigned /\ r.cursor = q.cursor
        /\ r.consumed = Max({q.consumed, q.cursor})
    BY <2>1 DEF QueueState
  <2>5. r \in QueueState
    BY <2>1, <2>2 DEF QueueState
  <2> HIDE DEF r
  <2>6. Behind(r.consumed, done)
    BY <2>1, <2>2, <2>3, <2>4, SMTT(30)
  <2>7. MemberOK(r, w, off, done)
    BY <2>1, <2>4, <2>5, <2>6, MemberFrame
  <2>8. CorrectTags(q, w.pc = "ready", q.cursor) = r
    BY <1>1 DEF CorrectTags, r
  <2> QED BY <2>7, <2>8
<1>2. CASE ~(q.pending = <<>> /\ w.pc = "ready")
  BY <1>2 DEF CorrectTags
<1> QED BY <1>1, <1>2

(* The listener is called only for a batch of the current generation.      *)
LEMMA MemberListens ==
    ASSUME NEW q, NEW w, NEW off, NEW done, MemberOK(q, w, off, done), w.pc = "taken"
    PROVE  /\ w.ep = q.epoch => MemberOK(q, [w EXCEPT !.pc = "listening"], off, done)
           /\ w.ep # q.epoch => MemberOK(q, NoWork, off, done)
<1>1. w \in WorkState /\ q \in QueueState
  BY DEF MemberOK
<1>2. ASSUME w.ep = q.epoch PROVE MemberOK(q, [w EXCEPT !.pc = "listening"], off, done)
  <2> DEFINE v == [w EXCEPT !.pc = "listening"]
  <2>1. v \in WorkState /\ v.pc = "listening" /\ v.batch = w.batch /\ v.ep = w.ep
    BY <1>1 DEF WorkState
  <2> HIDE DEF v
  <2>2. Line(q, v) = Line(q, w) /\ Current(q, v) = Current(q, w)
    BY <2>1, SMTT(30) DEF Line, Current
  <2>3. MemberOK(q, v, off, done)
    BY <2>1, <2>2, SMTT(30) DEF MemberOK
  <2> QED BY <2>3 DEF v
<1>3. ASSUME w.ep # q.epoch PROVE MemberOK(q, NoWork, off, done)
  <2>1. NoWork \in WorkState /\ NoWork.pc = "ready" /\ NoWork.ep = 0
    BY EmptySeq DEF NoWork, WorkState
  <2>2. Line(q, NoWork) = Line(q, w) /\ ~Current(q, NoWork)
    BY <1>3, <2>1 DEF Line, Current
  <2>3. NoWork.ep <= q.epoch
    BY <1>1, <2>1, SMTT(30) DEF QueueState
  <2> QED BY <2>1, <2>2, <2>3, SMTT(30) DEF MemberOK
<1> QED BY <1>2, <1>3

(* A refused batch goes back to the front of the buffer, if there is one.  *)
LEMMA MemberRequeues ==
    ASSUME BoundAssumption,
           NEW q, NEW w, NEW off, NEW done, MemberOK(q, w, off, done), w.pc = "listening",
           NEW b \in Seq(Entry), Len(b) = Len(w.batch),
           \A i \in 1..Len(b) : b[i].off = w.batch[i].off
    PROVE  MemberOK(Requeue(q, b), NoWork, off, done)
<1>1. /\ q \in QueueState /\ w \in WorkState /\ q.pending \in Seq(Entry)
      /\ w.batch \in Seq(Entry) /\ q.epoch \in Nat
  BY DEF MemberOK, QueueState, WorkState
<1>2. NoWork \in WorkState /\ NoWork.pc = "ready" /\ NoWork.ep <= q.epoch
  BY <1>1, EmptySeq DEF NoWork, WorkState
<1>3. \A r : Line(r, NoWork) = r.pending /\ ~Current(r, NoWork)
  BY <1>2 DEF Line, Current
<1>4. CASE q.buffered
  <2> DEFINE r == [q EXCEPT !.pending = b \o @]
             v == b \o q.pending
  <2>1. /\ r.pending = v /\ r.epoch = q.epoch /\ r.buffered = q.buffered
        /\ r.assigned = q.assigned /\ r.cursor = q.cursor /\ r.consumed = q.consumed
    BY <1>1 DEF QueueState
  <2>2. v \in Seq(Entry)
    BY <1>1
  <2>3. r \in QueueState
    BY <1>1, <2>2, Zenon DEF QueueState
  <2> HIDE DEF r
  <2>4. /\ Ordered(w.batch \o q.pending, done) => Ordered(v, done)
        /\ Covered(q.cursor, w.batch \o q.pending, done) => Covered(q.cursor, v, done)
        /\ Covered(q.cursor, q.pending, done) => Covered(q.cursor, v, done)
    BY <1>1, SameFront, ZenonT(30)
  <2>5. Ordered(v, done) /\ Covered(q.cursor, v, done)
    <3>1. CASE w.ep = q.epoch
      <4>1. Line(q, w) = w.batch \o q.pending
        BY <3>1, ZenonT(30) DEF Line, Current
      <4> QED BY <2>4, <4>1 DEF MemberOK
    <3>2. CASE w.ep # q.epoch
      <4>1. Line(q, w) = q.pending
        BY <3>2, SMTT(30) DEF Line, Current
      <4>2. Ordered(b, done)
        BY <1>1, OrderedSame, SMTT(30) DEF MemberOK
      <4>3. Ordered(q.pending, done) /\ Covered(q.cursor, q.pending, done)
        BY <4>1, SMTT(30) DEF MemberOK
      <4>4. Ordered(v, done)
        BY <1>1, <4>2, <4>3, OrderedConcat, SMTT(30)
      <4> QED BY <2>4, <4>3, <4>4
    <3> QED BY <3>1, <3>2, SMTT(30)
  <2> HIDE DEF v
  <2>6. MemberOK(r, NoWork, off, done)
    BY <1>2, <1>3, <1>4, <2>1, <2>3, <2>5, SMTT(30) DEF MemberOK
  <2> QED BY <1>4, <2>6 DEF Requeue, r
<1>5. CASE ~q.buffered
  <2>1. ~Current(q, w) /\ q.pending = <<>>
    BY <1>5, SMTT(30) DEF MemberOK
  <2>2. Line(q, NoWork) = Line(q, w)
    BY <1>3, <2>1, SMTT(30) DEF Line
  <2>3. MemberOK(q, NoWork, off, done)
    BY <1>2, <1>3, <2>1, <2>2, SMTT(30) DEF MemberOK
  <2> QED BY <1>5, <2>3, SMTT(30) DEF Requeue
<1> QED BY <1>4, <1>5, SMTT(30)

(* A settled batch leaves the line.                                        *)
LEMMA MemberSettles ==
    ASSUME BoundAssumption,
           NEW q, NEW w, NEW off, NEW done, MemberOK(q, w, off, done), w.pc = "listening",
           NEW more, done \subseteq more, Offs(w.batch) \subseteq more
    PROVE  MemberOK(q, NoWork, off, more)
<1>1. /\ q \in QueueState /\ w \in WorkState /\ q.pending \in Seq(Entry)
      /\ w.batch \in Seq(Entry) /\ q.epoch \in Nat
  BY DEF MemberOK, QueueState, WorkState
<1>2. NoWork \in WorkState /\ NoWork.pc = "ready" /\ NoWork.ep <= q.epoch
  BY <1>1, EmptySeq DEF NoWork, WorkState
<1>3. Line(q, NoWork) = q.pending /\ ~Current(q, NoWork)
  BY <1>2 DEF Line, Current
<1>4. MemberOK(q, w, off, more)
  BY MemberMonotone
<1>5. Ordered(q.pending, more) /\ Covered(q.cursor, q.pending, more)
  <2>1. CASE Current(q, w)
    <3>1. Ordered(w.batch \o q.pending, done) /\ Covered(q.cursor, w.batch \o q.pending, done)
      BY <2>1, SMTT(30) DEF MemberOK, Line
    <3> QED BY <1>1, <3>1, OrderedRest, ZenonT(30)
  <2>2. CASE ~Current(q, w)
    BY <1>4, <2>2 DEF MemberOK, Line
  <2> QED BY <2>1, <2>2
<1> QED BY <1>2, <1>3, <1>4, <1>5, SMTT(30) DEF MemberOK

(* advance_consume_offset: the batch was the front of the line, so that    *)
(* all up to its largest offset is settled.                                *)
LEMMA MemberAdvances ==
    ASSUME BoundAssumption,
           NEW q, NEW w, NEW off, NEW done, MemberOK(q, w, off, done), w.pc = "listening",
           NEW more, done \subseteq more, Offs(w.batch) \subseteq more
    PROVE  MemberOK(Advance(q, w.batch, w.ep), NoWork, off, more)
<1>0. /\ MaxOff \in Nat /\ Offset \subseteq Nat /\ None = -1 /\ Offset \subseteq 0..MaxOff
  BY Bounds
<1>1. /\ q \in QueueState /\ w \in WorkState /\ w.batch \in Seq(Entry) /\ w.batch # <<>>
      /\ q.consumed \in None..MaxOff /\ Ordered(w.batch, done)
  BY DEF MemberOK, QueueState, WorkState
<1>2. MemberOK(q, NoWork, off, more)
  BY MemberSettles
<1>3. CASE w.ep # q.epoch
  BY <1>2, <1>3 DEF Advance
<1>4. CASE w.ep = q.epoch
  <2> DEFINE B == Offs(w.batch)
             M == Max(B)
             k == Max({q.consumed, M + 1})
             r == [q EXCEPT !.consumed = Max({@, Max(Offs(w.batch)) + 1})]
  <2>1. /\ DOMAIN w.batch = 1..Len(w.batch) /\ Len(w.batch) \in Nat /\ Len(w.batch) > 0
        /\ \A i \in 1..Len(w.batch) : w.batch[i].off \in Offset
    <3>1. DOMAIN w.batch = 1..Len(w.batch) /\ Len(w.batch) \in Nat
      BY <1>1, LenProperties
    <3>2. Len(w.batch) > 0
      BY <1>1, <3>1, EmptySeq
    <3>3. \A i \in 1..Len(w.batch) : w.batch[i] \in Entry
      BY <1>1, ElementOfSeq
    <3> QED BY <3>1, <3>2, <3>3 DEF Entry
  <2>2. B \subseteq Offset /\ B # {}
    <3>1. 1 \in DOMAIN w.batch
      BY <2>1
    <3> QED BY <2>1, <3>1, Zenon DEF Offs
  <2>3. M \in B /\ \A y \in B : M >= y
    BY <1>0, <2>2, MaxOfBounded, Zenon
  <2>4. M \in 0..MaxOff - 1
    BY <2>2, <2>3 DEF Offset
  <2> HIDE DEF M, B
  <2>5. Behind(M + 1, more)
    <3> SUFFICES ASSUME NEW m \in Offset, m < M + 1 PROVE m \in more
      BY DEF Behind
    <3>1. PICK i \in 1..Len(w.batch) : w.batch[i].off = M
      BY <2>1, <2>3 DEF Offs, B
    <3>2. CASE m = M
      BY <2>3, <3>2 DEF B
    <3>3. CASE m # M
      <4>1. m \in Int /\ m < M
        BY <1>0, <2>4, <3>3, SMTT(30)
      <4>2. m \in done \/ \E j \in 1..i - 1 : w.batch[j].off = m
        BY <1>1, <3>1, <4>1, SMTT(30) DEF Ordered
      <4>3. \A j \in 1..i - 1 : w.batch[j].off \in Offs(w.batch)
        BY <2>1, SMTT(30) DEF Offs
      <4> QED BY <4>2, <4>3
    <3> QED BY <3>2, <3>3
  <2>6. k = (IF q.consumed >= M + 1 THEN q.consumed ELSE M + 1) /\ k \in None..MaxOff
    <3>1. k = IF q.consumed >= M + 1 THEN q.consumed ELSE M + 1
      BY <1>0, <1>1, <2>4, MaxOfTwo, SMTT(30)
    <3> QED BY <1>0, <1>1, <2>4, <3>1, SMTT(30)
  <2>7. Behind(k, more)
    BY <1>2, <2>5, <2>6 DEF MemberOK
  <2>8. r = [q EXCEPT !.consumed = k]
    BY <1>1 DEF QueueState, M, B
  <2> HIDE DEF k, r
  <2>9. /\ r.pending = q.pending /\ r.epoch = q.epoch /\ r.buffered = q.buffered
        /\ r.assigned = q.assigned /\ r.cursor = q.cursor /\ r.consumed = k
        /\ r \in QueueState
    BY <1>1, <2>6, <2>8, SMTT(30) DEF QueueState
  <2>10. /\ Behind(off, more) /\ off \in None..MaxOff /\ (q.assigned => q.cursor # None)
    BY <1>2, SMTT(30) DEF MemberOK
  <2>11. MemberOK(r, NoWork, off, more)
    BY <1>2, <2>7, <2>9, <2>10, MemberFrame
  <2> QED BY <1>4, <2>11 DEF Advance, r
<1> QED BY <1>3, <1>4

-----------------------------------------------------------------------------
(* The group *)

RevokeState == [pc : {"none", "persist", "unlock"}, off : None..MaxOff]

Inv ==
    /\ committed \in None..MaxOff /\ Behind(committed, settled) /\ settled \subseteq Offset
    /\ state \in [Member -> QueueState] /\ work \in [Member -> WorkState]
    /\ revoke \in [Member -> RevokeState]
    /\ \A c \in Member : MemberOK(state[c], work[c], revoke[c].off, settled)

(* A step settles messages, or saves an offset that skips none.            *)
Kept ==
    \/ committed' = committed /\ settled \subseteq settled' /\ settled' \subseteq Offset
    \/ settled' = settled /\ committed' \in 0..MaxOff /\ Behind(committed', settled)

(* A step of one member.                                                   *)
LEMMA MemberStep ==
    ASSUME BoundAssumption, Inv, Kept, NEW c \in Member, NEW q, NEW w, NEW r \in RevokeState,
           state' = [state EXCEPT ![c] = q], work' = [work EXCEPT ![c] = w],
           revoke' = [revoke EXCEPT ![c] = r],
           MemberOK(q, w, r.off, settled')
    PROVE  Inv'
<1>0. /\ committed \in None..MaxOff /\ Behind(committed, settled) /\ settled \subseteq Offset
      /\ state \in [Member -> QueueState] /\ work \in [Member -> WorkState]
      /\ revoke \in [Member -> RevokeState]
      /\ \A d \in Member : MemberOK(state[d], work[d], revoke[d].off, settled)
  BY Zenon DEF Inv
<1>1. settled \subseteq settled' /\ settled' \subseteq Offset
  BY <1>0, Zenon DEF Kept
<1>2. committed' \in None..MaxOff /\ Behind(committed', settled')
  <2>1. CASE committed' = committed
    BY <1>0, <1>1, <2>1, Monotone, Zenon
  <2>2. CASE settled' = settled /\ committed' \in 0..MaxOff /\ Behind(committed', settled)
    <3>1. 0..MaxOff \subseteq None..MaxOff
      BY Bounds
    <3> QED BY <2>2, <3>1, Zenon
  <2> QED BY <2>1, <2>2, Zenon DEF Kept
<1>3. q \in QueueState /\ w \in WorkState
  BY Zenon DEF MemberOK
<1>4. /\ state' \in [Member -> QueueState] /\ work' \in [Member -> WorkState]
      /\ revoke' \in [Member -> RevokeState]
  BY <1>0, <1>3, Zenon
<1>5. ASSUME NEW d \in Member PROVE MemberOK(state'[d], work'[d], revoke'[d].off, settled')
  <2>1. CASE d = c
    <3>1. state'[d] = q /\ work'[d] = w /\ revoke'[d] = r
      BY <1>0, <2>1, Zenon
    <3> QED BY <3>1, Zenon
  <2>2. CASE d # c
    <3>1. state'[d] = state[d] /\ work'[d] = work[d] /\ revoke'[d] = revoke[d]
      BY <1>0, <2>2, Zenon
    <3>2. MemberOK(state[d], work[d], revoke[d].off, settled')
      BY <1>0, <1>1, MemberMonotone, Zenon
    <3> QED BY <3>1, <3>2, Zenon
  <2> QED BY <2>1, <2>2, Zenon
<1> QED BY <1>1, <1>2, <1>4, <1>5, Zenon DEF Inv

(* Rebalancing and lock_loop.                                              *)
LEMMA BalanceSteps ==
    ASSUME BoundAssumption, Inv, NEW c \in Member,
           Assign(c) \/ Revoke(c) \/ RevokePersist(c) \/ RevokeUnlock(c)
    PROVE  Inv' /\ Kept
<1> DEFINE q == state[c]
<1>0. /\ committed \in None..MaxOff /\ Behind(committed, settled) /\ settled \subseteq Offset
      /\ state \in [Member -> QueueState] /\ work \in [Member -> WorkState]
      /\ revoke \in [Member -> RevokeState]
      /\ MemberOK(q, work[c], revoke[c].off, settled)
      /\ MaxOff \in Nat /\ None = -1 /\ Offset \subseteq Nat
  BY Bounds, Zenon DEF Inv
<1>1. /\ state = [state EXCEPT ![c] = q] /\ work = [work EXCEPT ![c] = work[c]]
      /\ revoke = [revoke EXCEPT ![c] = revoke[c]]
      /\ q \in QueueState /\ revoke[c] \in RevokeState /\ revoke[c].off \in None..MaxOff
  BY <1>0, ZenonT(40) DEF RevokeState
<1>2. /\ Behind(q.consumed, settled) /\ q.consumed \in None..MaxOff
      /\ Behind(revoke[c].off, settled) /\ (q.assigned => q.cursor # None)
      /\ Behind(None, settled) /\ None \in None..MaxOff
  BY <1>0 DEF MemberOK, QueueState, Behind
<1>3. CASE Assign(c)
  <2> DEFINE k == Max({committed, 0})
             r == [q EXCEPT !.assigned = TRUE, !.cursor = k]
  <2>1. k = (IF committed >= 0 THEN committed ELSE 0)
    BY <1>0, MaxOfTwo
  <2>2. k \in None..MaxOff /\ k # None
    BY <1>0, <2>1
  <2>3. Behind(k, settled)
    BY <1>0, <2>1 DEF Behind
  <2> HIDE DEF k
  <2>4. state' = [state EXCEPT ![c] = r]
    BY <1>0, <1>3, Zenon DEF Assign, k
  <2>5. /\ r \in QueueState /\ r.pending = q.pending /\ r.epoch = q.epoch
        /\ r.buffered = q.buffered /\ r.consumed = q.consumed /\ r.cursor = k
    BY <1>1, <2>2, ZenonT(30) DEF QueueState
  <2> HIDE DEF r
  <2>6. MemberOK(r, work[c], revoke[c].off, settled)
    BY <1>0, <1>1, <1>2, <2>2, <2>3, <2>5, MemberFrame, Zenon
  <2>7. Kept /\ settled' = settled /\ work' = work /\ revoke' = revoke
    BY <1>0, <1>3, Zenon DEF Assign, Kept
  <2> QED BY <1>1, <2>4, <2>6, <2>7, MemberStep, ZenonT(30)
<1>4. CASE Revoke(c)
  <2> DEFINE s == [Retired(q) EXCEPT !.assigned = FALSE]
             r == [pc |-> "persist", off |-> q.consumed]
  <2>1. MemberOK(s, work[c], q.consumed, settled)
    BY <1>0, MemberRetired, Zenon
  <2>2. r \in RevokeState /\ r.off = q.consumed
    BY <1>2, Zenon DEF RevokeState
  <2>3. /\ state' = [state EXCEPT ![c] = s] /\ work' = work /\ settled' = settled
        /\ revoke' = [revoke EXCEPT ![c] = r] /\ Kept
    BY <1>0, <1>4, Zenon DEF Revoke, Kept
  <2> HIDE DEF r, s
  <2> QED BY <1>1, <2>1, <2>2, <2>3, MemberStep, ZenonT(30)
<1>5. CASE RevokePersist(c)
  <2> DEFINE r == [NoRevoke EXCEPT !.pc = "unlock"]
  <2>1. r \in RevokeState /\ r.off = None
    BY <1>2, Zenon DEF RevokeState, NoRevoke
  <2>2. MemberOK(q, work[c], None, settled)
    BY <1>0, <1>1, <1>2, MemberFrame, Zenon
  <2>3. /\ state' = state /\ work' = work /\ settled' = settled
        /\ revoke' = [revoke EXCEPT ![c] = r]
        /\ committed' = committed \/ (committed' = revoke[c].off /\ revoke[c].off # None)
    BY <1>5, Zenon DEF RevokePersist, UpdateConsumerOffset
  <2> HIDE DEF r
  <2>4. Kept
    BY <1>0, <1>1, <1>2, <2>3 DEF Kept
  <2> QED BY <1>1, <2>1, <2>2, <2>3, <2>4, MemberStep, ZenonT(30)
<1>6. CASE RevokeUnlock(c)
  <2> DEFINE s == [q EXCEPT !.consumed = None]
  <2>1. NoRevoke \in RevokeState /\ NoRevoke.off = None
    BY <1>2, Zenon DEF RevokeState, NoRevoke
  <2>2. /\ s \in QueueState /\ s.pending = q.pending /\ s.epoch = q.epoch
        /\ s.buffered = q.buffered /\ s.consumed = None /\ s.cursor = q.cursor
        /\ s.assigned = q.assigned
    BY <1>1, <1>2, Zenon DEF QueueState
  <2>3. /\ state' = [state EXCEPT ![c] = s] /\ work' = work /\ settled' = settled
        /\ revoke' = [revoke EXCEPT ![c] = NoRevoke] /\ Kept
    BY <1>0, <1>6, Zenon DEF RevokeUnlock, Kept
  <2> HIDE DEF s
  <2>4. MemberOK(s, work[c], None, settled)
    BY <1>0, <1>2, <2>2, MemberFrame, ZenonT(40)
  <2> QED BY <1>1, <2>1, <2>3, <2>4, MemberStep, Zenon
<1>7. Kept
  BY <1>0, <1>1, <1>2, <1>3, <1>4, <1>5, <1>6, SMTT(30)
  DEF Kept, Assign, Revoke, RevokePersist, RevokeUnlock, UpdateConsumerOffset
<1> QED BY <1>3, <1>4, <1>5, <1>6, <1>7, Zenon

(* What a step of member c needs to know of it.                            *)
LEMMA MemberFacts ==
    ASSUME BoundAssumption, Inv, NEW c \in Member
    PROVE  /\ committed \in None..MaxOff /\ settled \subseteq Offset
           /\ state \in [Member -> QueueState] /\ work \in [Member -> WorkState]
           /\ revoke \in [Member -> RevokeState]
           /\ MemberOK(state[c], work[c], revoke[c].off, settled)
           /\ state = [state EXCEPT ![c] = state[c]] /\ work = [work EXCEPT ![c] = work[c]]
           /\ revoke = [revoke EXCEPT ![c] = revoke[c]]
           /\ state[c] \in QueueState /\ work[c] \in WorkState /\ revoke[c] \in RevokeState
           /\ Behind(state[c].consumed, settled) /\ state[c].consumed \in None..MaxOff
           /\ Behind(revoke[c].off, settled) /\ revoke[c].off \in None..MaxOff
           /\ state[c].assigned => state[c].cursor # None
           /\ MaxOff \in Nat /\ None = -1 /\ Offset \subseteq Nat /\ LockLife \in Nat
<1>1. /\ committed \in None..MaxOff /\ settled \subseteq Offset
      /\ state \in [Member -> QueueState] /\ work \in [Member -> WorkState]
      /\ revoke \in [Member -> RevokeState]
      /\ MemberOK(state[c], work[c], revoke[c].off, settled)
      /\ MaxOff \in Nat /\ None = -1 /\ Offset \subseteq Nat /\ LockLife \in Nat
  BY Bounds, Zenon DEF Inv
<1>2. /\ Behind(state[c].consumed, settled) /\ state[c].consumed \in None..MaxOff
      /\ Behind(revoke[c].off, settled) /\ revoke[c].off \in None..MaxOff
      /\ state[c].assigned => state[c].cursor # None
  BY <1>1, Zenon DEF MemberOK, QueueState
<1> QED BY <1>1, <1>2, Zenon

(* lock_loop: a round and its answer change the grant and nothing of a     *)
(* line.                                                                   *)
LEMMA LockSteps ==
    ASSUME BoundAssumption, Inv, NEW c \in Member, LockRound(c) \/ LockAnswer(c)
    PROVE  Inv' /\ Kept
<1> DEFINE q == state[c]
<1>0. /\ settled' = settled /\ work' = work /\ revoke' = revoke /\ committed' = committed
      /\ \/ state' = state
         \/ \E g \in {0, None} : state' = [state EXCEPT ![c].grant = g]
  BY Zenon DEF LockRound, LockAnswer
<1>f. /\ state = [state EXCEPT ![c] = state[c]] /\ work = [work EXCEPT ![c] = work[c]]
      /\ revoke = [revoke EXCEPT ![c] = revoke[c]] /\ revoke[c] \in RevokeState
      /\ MemberOK(state[c], work[c], revoke[c].off, settled)
  BY MemberFacts, Zenon
<1>1. Kept
  BY <1>0, MemberFacts, Zenon DEF Kept
<1>2. CASE state' = state
  BY <1>0, <1>1, <1>2, <1>f, MemberStep
<1>3. ASSUME NEW g \in {0, None}, state' = [state EXCEPT ![c].grant = g] PROVE Inv'
  <2> DEFINE r == [q EXCEPT !.grant = g]
  <2>1. state' = [state EXCEPT ![c] = r]
    BY <1>3, MemberFacts, Zenon
  <2>2. g \in None..Old
    BY MemberFacts DEF Old
  <2>3. /\ r \in QueueState /\ r.pending = q.pending /\ r.epoch = q.epoch
        /\ r.buffered = q.buffered /\ r.consumed = q.consumed /\ r.cursor = q.cursor
        /\ r.assigned = q.assigned
    <3>1. q \in QueueState
      BY MemberFacts, Zenon
    <3> QED BY <2>2, <3>1, Zenon DEF QueueState
  <2> HIDE DEF r
  <2>4. MemberOK(r, work[c], revoke[c].off, settled)
    <3>1. /\ MemberOK(q, work[c], revoke[c].off, settled)
          /\ Behind(q.consumed, settled) /\ Behind(revoke[c].off, settled)
          /\ revoke[c].off \in None..MaxOff /\ (q.assigned => q.cursor # None)
      BY MemberFacts, Zenon
    <3> HIDE DEF q
    <3> QED BY <2>3, <3>1, MemberFrame, Zenon
  <2> QED BY <1>0, <1>1, <2>1, <2>4, <1>f, MemberStep, ZenonT(30)
<1> QED BY <1>0, <1>1, <1>2, <1>3, Zenon

(* run_queue_pull_loop: a request, and an answer that is dropped, appended *)
(* or moves the offset of an idle queue.                                   *)
LEMMA PullSteps ==
    ASSUME BoundAssumption, Inv, NEW c \in Member, NEW ep,
           PullAsk(c) \/ PullAnswer(c, ep) \/ PullFails(c, ep)
    PROVE  Inv' /\ Kept
<1> DEFINE q == state[c]
           w == work[c]
           t == [q EXCEPT !.pending = @ \o Fetched(q.cursor), !.buffered = TRUE,
                          !.cursor = Min({@ + PullBatch, MaxOff})]
           u == CorrectTags(q, w.pc = "ready", q.cursor)
<1>0. settled' = settled /\ work' = work /\ revoke' = revoke /\ committed' = committed
  BY Zenon DEF PullAsk, PullAnswer, PullFails
<1>f. /\ state = [state EXCEPT ![c] = state[c]] /\ work = [work EXCEPT ![c] = work[c]]
      /\ revoke = [revoke EXCEPT ![c] = revoke[c]] /\ revoke[c] \in RevokeState
      /\ MemberOK(state[c], work[c], revoke[c].off, settled)
  BY MemberFacts, Zenon
<1>1. Kept
  BY <1>0, MemberFacts, Zenon DEF Kept
<1>2. MemberOK(q, w, revoke[c].off, settled)
  BY MemberFacts, Zenon
<1>3. PICK r : state' = [state EXCEPT ![c] = r] /\ MemberOK(r, w, revoke[c].off, settled)
  <2>1. CASE PullAsk(c) \/ PullFails(c, ep)
    <3>1. state' = state
      BY <2>1, Zenon DEF PullAsk, PullFails
    <3> QED BY <1>2, <3>1, MemberFacts, Zenon
  <2>2. CASE PullAnswer(c, ep)
    <3>1. state' = [state EXCEPT ![c] =
             IF ~q.assigned \/ ep # q.epoch THEN q
             ELSE IF q.cursor = MaxOff THEN u ELSE t]
      BY <2>2, Zenon DEF PullAnswer
    <3>2. MemberOK(u, w, revoke[c].off, settled)
      BY <1>2, MemberCorrects, Zenon
    <3>3. q.assigned /\ q.cursor # MaxOff => MemberOK(t, w, revoke[c].off, settled)
      BY <1>2, MemberPulls, ZenonT(30)
    <3> HIDE DEF t, u, q, w
    <3>4. \/ state' = [state EXCEPT ![c] = q]
          \/ state' = [state EXCEPT ![c] = u]
          \/ q.assigned /\ q.cursor # MaxOff /\ state' = [state EXCEPT ![c] = t]
      BY <3>1, Zenon
    <3> QED BY <1>2, <3>2, <3>3, <3>4, Zenon
  <2> QED BY <2>1, <2>2, Zenon
<1> HIDE DEF t, u
<1> QED BY <1>0, <1>1, <1>3, <1>f, MemberStep, Zenon

(* dispatch_loop: a batch is taken, and given to the listener or dropped   *)
(* with its generation.                                                    *)
LEMMA DispatchSteps ==
    ASSUME BoundAssumption, Inv, NEW c \in Member, Take(c) \/ Listen(c)
    PROVE  Inv' /\ Kept
<1> DEFINE q == state[c]
           w == work[c]
<1>0. settled' = settled /\ revoke' = revoke /\ committed' = committed
  BY Zenon DEF Take, Listen
<1>f. /\ state = [state EXCEPT ![c] = state[c]] /\ work = [work EXCEPT ![c] = work[c]]
      /\ revoke = [revoke EXCEPT ![c] = revoke[c]] /\ revoke[c] \in RevokeState
      /\ MemberOK(state[c], work[c], revoke[c].off, settled)
  BY MemberFacts, Zenon
<1>1. Kept
  BY <1>0, MemberFacts, Zenon DEF Kept
<1>2. /\ MemberOK(q, w, revoke[c].off, settled) /\ q \in QueueState /\ w \in WorkState
  BY MemberFacts, Zenon
<1>3. CASE Take(c)
  <2> DEFINE n == Min({Len(q.pending), ConsumeBatch})
             r == [q EXCEPT !.pending = SubSeq(@, n + 1, Len(@))]
             v == [pc |-> "taken", ep |-> q.epoch, batch |-> SubSeq(q.pending, 1, n)]
  <2>1. w.pc = "ready" /\ q.pending # <<>>
    BY <1>3, Zenon DEF Take
  <2>2. Len(q.pending) \in Nat /\ Len(q.pending) > 0 /\ ConsumeBatch \in Nat /\ ConsumeBatch > 0
    <3>1. q.pending \in Seq(Entry)
      BY <1>2, Zenon DEF QueueState
    <3> QED BY <2>1, <3>1, EmptySeq, LenProperties, Bounds
  <2>3. n \in 1..Len(q.pending)
    <3>1. n = IF Len(q.pending) <= ConsumeBatch THEN Len(q.pending) ELSE ConsumeBatch
      BY <2>2, MinOfTwo
    <3> QED BY <2>2, <3>1
  <2> HIDE DEF n
  <2>4. MemberOK(r, v, revoke[c].off, settled)
    BY <1>2, <2>1, <2>3, MemberTakes, ZenonT(30)
  <2>5. work' = [work EXCEPT ![c] = v]
    BY <1>3, Zenon DEF Take, n
  <2>6. state' = [state EXCEPT ![c] = r]
    <3>1. state' = [state EXCEPT ![c].pending = SubSeq(@, n + 1, Len(@))]
      BY <1>3, Zenon DEF Take, n
    <3> QED BY <3>1, MemberFacts, Zenon
  <2> HIDE DEF r, v, q, w
  <2> QED BY <1>0, <1>1, <2>4, <2>5, <2>6, <1>f, MemberStep, ZenonT(30)
<1>4. CASE Listen(c)
  <2> DEFINE v == [w EXCEPT !.pc = "listening"]
  <2>1. /\ w.ep = q.epoch => MemberOK(q, v, revoke[c].off, settled)
        /\ w.ep # q.epoch => MemberOK(q, NoWork, revoke[c].off, settled)
    BY <1>2, <1>4, MemberListens, Zenon DEF Listen
  <2>2. /\ state' = state
        /\ work' = [work EXCEPT ![c] = IF w.ep = q.epoch THEN v ELSE NoWork]
    BY <1>4, Zenon DEF Listen
  <2>3. PICK x : work' = [work EXCEPT ![c] = x] /\ MemberOK(q, x, revoke[c].off, settled)
    <3> HIDE DEF v, w, q
    <3> QED BY <2>1, <2>2, Zenon
  <2>4. state' = [state EXCEPT ![c] = q] /\ revoke' = [revoke EXCEPT ![c] = revoke[c]]
    BY <1>0, <1>f, <2>2, Zenon
  <2>5. MemberOK(q, x, revoke[c].off, settled')
    BY <1>0, <2>3, Zenon
  <2> HIDE DEF q, w
  <2> QED BY <1>1, <1>f, <2>3, <2>4, <2>5, MemberStep, Zenon
<1> QED BY <1>1, <1>3, <1>4, Zenon

(* The messages of a batch, and what a retry does to it.                   *)
LEMMA BatchFacts ==
    ASSUME BoundAssumption, NEW b \in Seq(Entry), NEW back \in SUBSET Range(b)
    PROVE  /\ Offs(b) \subseteq Offset /\ {e.off : e \in back} \subseteq Offs(b)
           /\ back = Range(b) => {e.off : e \in back} = Offs(b)
           /\ Tried(b, back) \in Seq(Entry) /\ Len(Tried(b, back)) = Len(b)
           /\ \A i \in 1..Len(b) : Tried(b, back)[i].off = b[i].off
<1>1. Len(b) \in Nat /\ DOMAIN b = 1..Len(b)
  BY LenProperties, Zenon
<1>2. \A i \in 1..Len(b) : b[i] \in Entry
  BY ElementOfSeq, Zenon
<1>3. Offs(b) \subseteq Offset
  BY <1>1, <1>2, Zenon DEF Offs, Entry
<1>4. Range(b) = {b[i] : i \in 1..Len(b)}
  BY <1>1, Zenon DEF Range
<1>5. {e.off : e \in back} \subseteq Offs(b)
  BY <1>1, <1>4, Zenon DEF Offs
<1>6. back = Range(b) => {e.off : e \in back} = Offs(b)
  BY <1>1, <1>4 DEF Offs
<1> DEFINE Again(i) == [b[i] EXCEPT !.tries = IF b[i] \in back THEN @ ELSE Min({@ + 1, MaxTries})]
<1>7. \A i \in 1..Len(b) : Again(i) \in Entry /\ Again(i).off = b[i].off
  <2> TAKE i \in 1..Len(b)
  <2>1. b[i] \in Entry /\ b[i].tries \in Nat /\ MaxTries \in Nat
    BY <1>2, Bounds, Zenon DEF Entry
  <2>2. Min({b[i].tries + 1, MaxTries}) \in Nat
    <3>1. Min({b[i].tries + 1, MaxTries})
             = IF b[i].tries + 1 <= MaxTries THEN b[i].tries + 1 ELSE MaxTries
      BY <2>1, MinOfTwo
    <3> QED BY <2>1, <3>1
  <2> QED BY <2>1, <2>2, Zenon DEF Entry
<1>8. Tried(b, back) = [i \in 1..Len(b) |-> Again(i)]
  BY <1>1, Zenon DEF Tried
<1> HIDE DEF Again
<1>9. Tried(b, back) \in Seq(Entry) /\ Len(Tried(b, back)) = Len(b)
  <2>1. Tried(b, back) \in [1..Len(b) -> Entry]
    BY <1>7, <1>8, Zenon
  <2> QED BY <1>1, <2>1
<1>10. \A i \in 1..Len(b) : Tried(b, back)[i].off = b[i].off
  BY <1>7, <1>8, Zenon
<1> QED BY <1>3, <1>5, <1>6, <1>9, <1>10, Zenon

(* The end of a batch, with the state the listener's answer leads to.      *)
LEMMA FinishStep ==
    ASSUME BoundAssumption, Inv, NEW c \in Member, NEW q, Finish(c, q),
           settled \subseteq settled', settled' \subseteq Offset,
           MemberOK(q, NoWork, revoke[c].off, settled')
    PROVE  Inv' /\ Kept
<1>1. /\ state' = [state EXCEPT ![c] = q] /\ work' = [work EXCEPT ![c] = NoWork]
      /\ revoke' = revoke /\ committed' = committed
  BY Zenon DEF Finish
<1>2. revoke = [revoke EXCEPT ![c] = revoke[c]] /\ revoke[c] \in RevokeState
  BY MemberFacts, Zenon
<1>3. Kept
  BY <1>1, Zenon DEF Kept
<1>4. revoke' = [revoke EXCEPT ![c] = revoke[c]]
  BY <1>1, <1>2, Zenon
<1>5. Inv'
  BY <1>1, <1>2, <1>3, <1>4, MemberStep, ZenonT(30)
<1> QED BY <1>3, <1>5, Zenon

(* The listener's answers: accepted, left uncommitted, retried in place or *)
(* sent back.                                                              *)
LEMMA ListenerSteps ==
    ASSUME BoundAssumption, Inv, NEW c \in Member, ListenerStep(c)
    PROVE  Inv' /\ Kept
<1> DEFINE q == state[c]
           w == work[c]
           b == work[c].batch
           o == revoke[c].off
<1>1. /\ MemberOK(q, w, o, settled) /\ settled \subseteq Offset /\ b \in Seq(Entry)
  BY MemberFacts, Zenon DEF WorkState
<1>2. Offs(b) \subseteq Offset
  BY <1>1, BatchFacts, Zenon
<1>3. w.pc = "listening"
  BY Zenon DEF ListenerStep, Commits, Rollback, Uncommitted, Suspends, Suspend
<1>4. ASSUME NEW more, settled \subseteq more, Offs(b) \subseteq more
      PROVE  MemberOK(q, NoWork, o, more) /\ MemberOK(Advance(q, b, w.ep), NoWork, o, more)
  BY <1>1, <1>3, <1>4, MemberSettles, MemberAdvances, Zenon
<1>5. ASSUME NEW status, NEW auto, Commits(c, status, auto) PROVE Inv' /\ Kept
  <2>1. settled' = settled \cup Offs(b) /\ Finish(c, Advance(q, b, w.ep))
    BY <1>5, Zenon DEF Commits
  <2>2. settled \subseteq settled' /\ settled' \subseteq Offset /\ Offs(b) \subseteq settled'
    BY <1>1, <1>2, <2>1, Zenon
  <2>3. MemberOK(Advance(q, b, w.ep), NoWork, o, settled')
    BY <1>4, <2>2, Zenon
  <2> QED BY <2>1, <2>2, <2>3, FinishStep, Zenon
<1>6. ASSUME NEW auto, Rollback(c, auto) PROVE Inv' /\ Kept
  <2>1. settled' = settled /\ Finish(c, Requeue(q, b))
    BY <1>6, Zenon DEF Rollback
  <2>2. MemberOK(Requeue(q, b), NoWork, o, settled)
    BY <1>1, <1>3, MemberRequeues, Zenon
  <2> QED BY <1>1, <2>1, <2>2, FinishStep, Zenon
<1>7. ASSUME NEW auto, Uncommitted(c, auto) PROVE Inv' /\ Kept
  <2>1. settled' = settled \cup Offs(b) /\ Finish(c, q)
    BY <1>7, Zenon DEF Uncommitted
  <2>2. settled \subseteq settled' /\ settled' \subseteq Offset /\ Offs(b) \subseteq settled'
    BY <1>1, <1>2, <2>1, Zenon
  <2>3. MemberOK(q, NoWork, o, settled')
    BY <1>4, <2>2, Zenon
  <2> QED BY <2>1, <2>2, <2>3, FinishStep, Zenon
<1>8. ASSUME NEW auto, NEW back \in SUBSET Spent(b), Suspend(c, auto, back)
      PROVE  Inv' /\ Kept
  <2>0. back \in SUBSET Range(b)
    BY Zenon DEF Spent
  <2> DEFINE again == Requeue(q, Tried(b, back))
             end == IF back # Range(b) THEN again
                    ELSE IF auto THEN Advance(q, b, w.ep) ELSE q
  <2>1. settled' = settled \cup {e.off : e \in back} /\ Finish(c, end)
    BY <1>8, Zenon DEF Suspend
  <2>2. {e.off : e \in back} \subseteq Offset
    BY <1>1, <2>0, BatchFacts, ZenonT(30)
  <2>3. settled \subseteq settled' /\ settled' \subseteq Offset
    BY <1>1, <2>1, <2>2, Zenon
  <2>4. MemberOK(again, NoWork, o, settled')
    <3>1. /\ Tried(b, back) \in Seq(Entry) /\ Len(Tried(b, back)) = Len(b)
          /\ \A i \in 1..Len(b) : Tried(b, back)[i].off = b[i].off
      BY <1>1, <2>0, BatchFacts, Zenon
    <3>2. MemberOK(q, w, o, settled')
      BY <1>1, <2>3, MemberMonotone, Zenon
    <3> QED BY <1>3, <3>1, <3>2, MemberRequeues, ZenonT(30)
  <2>5. ASSUME back = Range(b)
        PROVE  MemberOK(q, NoWork, o, settled') /\ MemberOK(Advance(q, b, w.ep), NoWork, o, settled')
    <3>1. {e.off : e \in back} = Offs(b)
      BY <1>1, <2>0, <2>5, BatchFacts, ZenonT(30)
    <3>2. Offs(b) \subseteq settled'
      BY <2>1, <3>1, Zenon
    <3> QED BY <1>4, <2>3, <3>2, Zenon
  <2>6. MemberOK(end, NoWork, o, settled')
    <3> HIDE DEF again
    <3> QED BY <2>4, <2>5, Zenon
  <2> HIDE DEF end
  <2> QED BY <2>1, <2>3, <2>6, FinishStep, ZenonT(30)
<1> QED BY <1>5, <1>6, <1>7, <1>8, Zenon DEF ListenerStep, Suspends

(* Time changes how old a grant is, and nothing else of the state.         *)
LEMMA TickStep ==
    ASSUME BoundAssumption, Inv, Tick
    PROVE  Inv' /\ Kept
<1>0. /\ committed \in None..MaxOff /\ Behind(committed, settled) /\ settled \subseteq Offset
      /\ state \in [Member -> QueueState] /\ work \in [Member -> WorkState]
      /\ revoke \in [Member -> RevokeState]
      /\ \A c \in Member : MemberOK(state[c], work[c], revoke[c].off, settled)
  BY Zenon DEF Inv
<1>1. /\ work' = work /\ revoke' = revoke /\ settled' = settled /\ committed' = committed
      /\ state' = [c \in Member |-> [state[c] EXCEPT
                      !.grant = IF @ = None THEN @ ELSE Min({@ + 1, Old})]]
  BY Zenon DEF Tick
<1>2. ASSUME NEW c \in Member
      PROVE  state'[c] \in QueueState /\ MemberOK(state'[c], work[c], revoke[c].off, settled)
  <2> DEFINE q == state[c]
             g == IF q.grant = None THEN q.grant ELSE Min({q.grant + 1, Old})
  <2>1. /\ q \in QueueState /\ q.grant \in None..Old /\ Old \in Int /\ None = -1 /\ Old >= 0
    BY <1>0, Bounds, SMTT(30) DEF QueueState, Old
  <2>2. g \in None..Old
    <3>1. Min({q.grant + 1, Old}) = IF q.grant + 1 <= Old THEN q.grant + 1 ELSE Old
      BY <2>1, MinOfTwo
    <3> QED BY <2>1, <3>1
  <2>3. state'[c] = [q EXCEPT !.grant = g]
    BY <1>1, Zenon
  <2> DEFINE r == [q EXCEPT !.grant = g]
  <2> HIDE DEF g
  <2>4. /\ r \in QueueState /\ r.pending = q.pending /\ r.epoch = q.epoch
        /\ r.buffered = q.buffered /\ r.consumed = q.consumed /\ r.cursor = q.cursor
        /\ r.assigned = q.assigned
    BY <2>1, <2>2, Zenon DEF QueueState
  <2> HIDE DEF r
  <2>5. /\ MemberOK(q, work[c], revoke[c].off, settled)
        /\ Behind(q.consumed, settled) /\ Behind(revoke[c].off, settled)
        /\ revoke[c].off \in None..MaxOff /\ (q.assigned => q.cursor # None)
    BY <1>0, ZenonT(30) DEF MemberOK
  <2> HIDE DEF q
  <2>6. MemberOK(r, work[c], revoke[c].off, settled)
    BY <2>4, <2>5, MemberFrame, ZenonT(30)
  <2> QED BY <2>3, <2>4, <2>6, Zenon DEF r
<1>3. state' \in [Member -> QueueState]
  BY <1>1, <1>2, Zenon
<1>4. Kept
  BY <1>0, <1>1, Zenon DEF Kept
<1>5. Inv'
  BY <1>0, <1>1, <1>2, <1>3, ZenonT(30) DEF Inv
<1> QED BY <1>4, <1>5, Zenon

(* persist_offsets_once                                                    *)
LEMMA PersistStep ==
    ASSUME BoundAssumption, Inv, NEW c \in Member, Persist(c)
    PROVE  Inv' /\ Kept
<1>1. /\ state' = state /\ work' = work /\ revoke' = revoke /\ settled' = settled
      /\ state[c].consumed # None
      /\ committed' = committed \/ committed' = state[c].consumed
  BY Zenon DEF Persist, UpdateConsumerOffset
<1>2. Kept
  BY <1>1, MemberFacts DEF Kept
<1>f. /\ state = [state EXCEPT ![c] = state[c]] /\ work = [work EXCEPT ![c] = work[c]]
      /\ revoke = [revoke EXCEPT ![c] = revoke[c]] /\ revoke[c] \in RevokeState
      /\ MemberOK(state[c], work[c], revoke[c].off, settled)
  BY MemberFacts, Zenon
<1>3. Inv'
  BY <1>1, <1>2, <1>f, MemberStep, SMTT(30)
<1> QED BY <1>2, <1>3, Zenon

(* Every step keeps the invariant.                                         *)
LEMMA NextKeeps ==
    ASSUME BoundAssumption, Inv, [Next]_vars
    PROVE  Inv' /\ (Kept \/ UNCHANGED vars)
<1>1. CASE Tick
  BY <1>1, TickStep, Zenon
<1>2. ASSUME NEW c \in Member, Assign(c) \/ Revoke(c) \/ RevokeStep(c) PROVE Inv' /\ Kept
  BY <1>2, BalanceSteps, Zenon DEF RevokeStep
<1>3. ASSUME NEW c \in Member, LockStep(c) PROVE Inv' /\ Kept
  BY <1>3, LockSteps, Zenon DEF LockStep
<1>4. ASSUME NEW c \in Member, PullStep(c) \/ \E ep \in 0..MaxChurn : PullFails(c, ep)
      PROVE  Inv' /\ Kept
  BY <1>4, PullSteps, Zenon DEF PullStep
<1>5. ASSUME NEW c \in Member, WorkStep(c) PROVE Inv' /\ Kept
  BY <1>5, DispatchSteps, ListenerSteps, Zenon DEF WorkStep
<1>6. ASSUME NEW c \in Member, Persist(c) PROVE Inv' /\ Kept
  BY <1>6, PersistStep, Zenon
<1>7. CASE UNCHANGED vars
  BY <1>7, Zenon DEF vars, Inv
<1> QED BY <1>1, <1>2, <1>3, <1>4, <1>5, <1>6, <1>7, SMTT(30) DEF Next

(* The invariant holds before the first assignment.                        *)
LEMMA InitOK == ASSUME BoundAssumption, Init PROVE Inv
<1>0. MaxOff \in Nat /\ None = -1 /\ Offset \subseteq Nat /\ LockLife \in Nat
  BY Bounds, Zenon
<1>1. /\ committed = None /\ settled = {} /\ state = [c \in Member |-> Blank]
      /\ work = [c \in Member |-> NoWork] /\ revoke = [c \in Member |-> NoRevoke]
  BY Zenon DEF Init
<1>2. <<>> \in Seq(Entry) /\ Len(<<>>) = 0
  BY EmptySeq, Zenon
<1>3. None \in None..MaxOff /\ None \in None..Old
  BY <1>0 DEF Old
<1>4. Blank \in QueueState /\ NoWork \in WorkState /\ NoRevoke \in RevokeState
  BY <1>2, <1>3, Zenon DEF Blank, NoWork, NoRevoke, QueueState, WorkState, RevokeState
<1>5. Behind(None, {})
  BY <1>0 DEF Behind
<1>6. /\ Blank.consumed = None /\ Blank.cursor = None /\ Blank.pending = <<>>
      /\ Blank.epoch = 0 /\ Blank.assigned = FALSE
      /\ NoWork.pc = "ready" /\ NoWork.ep = 0 /\ NoRevoke.off = None
  BY Zenon DEF Blank, NoWork, NoRevoke
<1>7. ~Current(Blank, NoWork) /\ Line(Blank, NoWork) = <<>>
  BY <1>6, Zenon DEF Current, Line
<1>8. Ordered(<<>>, {}) /\ Covered(None, <<>>, {})
  BY <1>0, <1>2, <1>5, SMTT(30) DEF Ordered, Covered, Behind
<1>9. MemberOK(Blank, NoWork, NoRevoke.off, {})
  BY <1>3, <1>4, <1>5, <1>6, <1>7, <1>8, SMTT(30) DEF MemberOK
<1> QED BY <1>1, <1>3, <1>4, <1>5, <1>9, Zenon DEF Inv

(* Orderly consumption (consume_batch of an orderly listener): in every    *)
(* behaviour, when a batch is with a listener, even one whose member has   *)
(* lost the queue, all messages before it are accepted or went back.       *)
THEOREM MessagesInOrder == ASSUME BoundAssumption PROVE Spec => []InOrder
<1>1. Init => Inv
  BY InitOK, Zenon
<1>2. Inv /\ [Next]_vars => Inv'
  BY NextKeeps, Zenon
<1>3. Inv => InOrder
  <2> SUFFICES ASSUME Inv, NEW c \in Member, work[c].pc = "listening",
                      NEW m \in Offset, m < Head(work[c].batch).off
               PROVE  m \in settled
    BY Zenon DEF InOrder
  <2>1. /\ work[c].batch \in Seq(Entry) /\ work[c].batch # <<>>
        /\ Ordered(work[c].batch, settled)
    BY Zenon DEF Inv, MemberOK, WorkState
  <2>2. Len(work[c].batch) \in Nat /\ Len(work[c].batch) > 0
    BY <2>1, EmptySeq, LenProperties, SMTT(30)
  <2>3. Head(work[c].batch) = work[c].batch[1] /\ 1 \in 1..Len(work[c].batch)
    BY <2>1, <2>2
  <2>4. m \in settled \/ \E j \in 1..1 - 1 : work[c].batch[j].off = m
    BY <2>1, <2>3, Zenon DEF Ordered
  <2> QED BY <2>4
<1> QED BY <1>1, <1>2, <1>3, PTL DEF Spec

(* AtLeastOnce for an orderly listener: no save of the offset, by the      *)
(* timer or a revocation (persist_offsets_once, revoke_queues), passes a   *)
(* message that is still to be retried.                                    *)
THEOREM OrderlyRefines == ASSUME BoundAssumption PROVE Spec => OrderlyKeeps
<1>1. Init => Inv /\ Promise!Init
  <2> SUFFICES ASSUME Init PROVE Inv /\ Promise!Init
    BY Zenon
  <2>1. settled \subseteq Promise!Offset /\ committed = -1
    BY Zenon DEF Init, None
  <2> QED BY <2>1, InitOK, Zenon DEF Promise!Init
<1>2. Inv /\ [Next]_vars => Inv' /\ [Promise!Next]_Promise!vars
  <2> SUFFICES ASSUME Inv, [Next]_vars PROVE Inv' /\ [Promise!Next]_Promise!vars
    BY Zenon
  <2>1. Inv' /\ (Kept \/ UNCHANGED vars)
    BY NextKeeps, Zenon
  <2>2. Promise!Offset = Offset
    BY Zenon DEF Promise!Offset, Offset
  <2>3. ASSUME Kept PROVE Promise!Next
    BY <2>2, <2>3, Zenon DEF Kept, Promise!Next, Promise!Settle, Promise!Commit, Promise!Safe, Behind
  <2>4. ASSUME UNCHANGED vars PROVE UNCHANGED Promise!vars
    BY <2>4, Zenon DEF vars, Promise!vars
  <2> QED BY <2>1, <2>3, <2>4, Zenon
<1> QED BY <1>1, <1>2, PTL DEF Spec, OrderlyKeeps, Promise!Spec

-----------------------------------------------------------------------------
(* The lock *)

LockerState == [pc : {"wait", "granted", "denied"}, left : Nat]

(* While nobody has given the queue up, a grant on its way is no older at  *)
(* the broker than the answer has been under way, and one that arrived     *)
(* ages with the broker's, at most RpcTicks behind.                        *)
GrantOf(c) ==
    /\ revoke[c].pc = "none"
    /\ locker[c].pc = "granted" => holder.who = c /\ holder.age <= RpcTicks - locker[c].left
    /\ Fresh(c) => holder.who = c /\ holder.age <= state[c].grant + RpcTicks

LockInv ==
    /\ churn \in Nat /\ locker \in [Member -> LockerState] /\ holder.age \in Int
    /\ churn = 0 => \A c \in Member : GrantOf(c)

(* The parts of the state the invariant of the lock reads.                 *)
LEMMA LockFrame ==
    ASSUME LockInv, churn' = churn, holder' = holder, locker' = locker,
           \A c \in Member : state'[c].grant = state[c].grant,
           \A c \in Member : revoke'[c].pc = revoke[c].pc
    PROVE  LockInv'
<1>1. ASSUME NEW c \in Member, GrantOf(c) PROVE GrantOf(c)'
  BY <1>1, Zenon DEF GrantOf, Fresh
<1> QED BY <1>1, Zenon DEF LockInv

(* What a broker that gives the lock to c knows about the others.          *)
LEMMA OthersNotFresh ==
    ASSUME BoundAssumption, LifeAssumption, Inv, LockInv, churn = 0,
           NEW c \in Member, MayLock(c), NEW d \in Member, d # c
    PROVE  locker[d].pc # "granted" /\ ~Fresh(d)
<1>1. locker[d].left \in Nat /\ state[d].grant \in Int /\ LockLife \in Nat
  <2>1. locker[d].left \in Nat
    BY Zenon DEF LockInv, LockerState
  <2>2. state[d].grant \in None..Old
    BY Zenon DEF Inv, QueueState
  <2> QED BY <2>1, <2>2, Bounds
<1>2. CASE locker[d].pc = "granted"
  BY <1>1, <1>2, SMTT(30) DEF LockInv, GrantOf, MayLock, LifeAssumption
<1>3. CASE Fresh(d)
  BY <1>1, <1>3 DEF LockInv, GrantOf, MayLock, LifeAssumption, Fresh
<1> QED BY <1>2, <1>3, Zenon

(* The broker gives its lock away only when no other member has a fresh    *)
(* grant.                                                                  *)
LEMMA LockRoundLock ==
    ASSUME BoundAssumption, LifeAssumption, Inv, LockInv, NEW c \in Member, LockRound(c)
    PROVE  LockInv'
<1>1. /\ state' = state /\ revoke' = revoke /\ churn' = churn
      /\ LockPeriod \in Nat /\ RpcTicks \in Nat /\ LockLife \in Nat
  BY Bounds, Zenon DEF LockRound, LifeAssumption
<1>2. CASE holder' = holder /\ \E r \in LockerState : r.pc # "granted" /\ Lock(c, r)
  <2>1. PICK r \in LockerState : r.pc # "granted" /\ locker' = [locker EXCEPT ![c] = r]
    BY <1>2, ZenonT(30) DEF Lock
  <2>2. ASSUME NEW d \in Member, GrantOf(d) PROVE GrantOf(d)'
    BY <1>1, <1>2, <2>1, <2>2, Zenon DEF LockInv, GrantOf, Fresh
  <2>3. locker' \in [Member -> LockerState]
    BY <2>1, Zenon DEF LockInv
  <2> QED BY <1>1, <1>2, <2>2, <2>3, Zenon DEF LockInv
<1>3. CASE MayLock(c) /\ holder' = [who |-> c, age |-> 0] /\ Lock(c, [pc |-> "granted", left |-> RpcTicks])
  <2>1. /\ locker' = [locker EXCEPT ![c] = [pc |-> "granted", left |-> RpcTicks]]
        /\ locker' \in [Member -> LockerState] /\ holder'.age = 0 /\ holder'.who = c
    BY <1>1, <1>3, Zenon DEF LockInv, Lock, LockerState
  <2>2. \A d \in Member : state[d].grant \in None..Old
    BY Zenon DEF Inv, QueueState
  <2>3. ASSUME churn = 0, NEW d \in Member PROVE GrantOf(d)'
    <3>0. GrantOf(d)
      BY <2>3, ZenonT(40) DEF LockInv
    <3>1. CASE d = c
      BY <1>1, <2>1, <2>2, <3>0, <3>1, SMTT(30) DEF LockInv, GrantOf, Fresh, None, Old
    <3>2. CASE d # c
      <4>1. locker[d].pc # "granted" /\ ~Fresh(d)
        BY <1>3, <2>3, <3>2, OthersNotFresh, Zenon
      <4> QED BY <1>1, <2>1, <3>0, <3>2, <4>1, Zenon DEF LockInv, GrantOf, Fresh
    <3> QED BY <3>1, <3>2, Zenon
  <2>4. churn' \in Nat /\ holder'.age \in Int
    <3>1. 0 \in Int
      OBVIOUS
    <3> QED BY <1>1, <2>1, <3>1, Zenon DEF LockInv
  <2> QED BY <1>1, <2>1, <2>3, <2>4, Zenon DEF LockInv
<1>4. NextRound \in LockerState /\ NextRound.pc # "granted"
  BY <1>1, Zenon DEF NextRound, LockerState
<1>5. [pc |-> "denied", left |-> RpcTicks] \in LockerState
  BY <1>1, Zenon DEF LockerState
<1> QED BY <1>2, <1>3, <1>4, <1>5, Zenon DEF LockRound

(* The answer to a granted round: the broker's lock is at most RpcTicks    *)
(* older than the grant.                                                   *)
LEMMA LockAnswerLock ==
    ASSUME BoundAssumption, LifeAssumption, Inv, LockInv, NEW c \in Member, LockAnswer(c)
    PROVE  LockInv'
<1>1. /\ holder' = holder /\ revoke' = revoke /\ churn' = churn
      /\ LockPeriod \in Nat /\ RpcTicks \in Nat /\ LockLife \in Nat
      /\ locker' = [locker EXCEPT ![c] = NextRound]
  BY Bounds, Zenon DEF LockAnswer, LifeAssumption, Lock
<1>2. locker' \in [Member -> LockerState] /\ locker'[c].pc = "wait"
  BY <1>1, Zenon DEF LockInv, LockerState, NextRound
<1>3. state \in [Member -> QueueState] /\ locker[c].left \in Nat
  BY Zenon DEF Inv, LockInv, LockerState
<1>4. \A d \in Member : \/ state'[d].grant = state[d].grant
                        \/ d = c /\ locker[c].pc = "granted" /\ state'[d].grant = 0
                        \/ state'[d].grant = None
  BY <1>3, Zenon DEF LockAnswer, QueueState
<1>5. ASSUME churn = 0, NEW d \in Member PROVE GrantOf(d)'
  <2>0. GrantOf(d)
    BY <1>5, Zenon DEF LockInv
  <2>1. revoke'[d].pc = "none"
    BY <1>1, <2>0, Zenon DEF GrantOf
  <2>2. locker'[d].pc = "granted" => holder'.who = d /\ holder'.age <= RpcTicks - locker'[d].left
    BY <1>1, <1>2, <2>0, Zenon DEF LockInv, GrantOf
  <2>3. Fresh(d)' => holder'.who = d /\ holder'.age <= state'[d].grant + RpcTicks
    <3>1. CASE state'[d].grant = state[d].grant
      BY <1>1, <2>0, <3>1, ZenonT(40) DEF GrantOf, Fresh
    <3>2. CASE d = c /\ locker[c].pc = "granted" /\ state'[d].grant = 0
      BY <1>1, <1>3, <2>0, <3>2 DEF LockInv, GrantOf
    <3>3. CASE state'[d].grant = None
      BY <3>3, Zenon DEF Fresh
    <3> QED BY <1>4, <3>1, <3>2, <3>3, Zenon
  <2> QED BY <2>1, <2>2, <2>3, Zenon DEF GrantOf
<1> QED BY <1>1, <1>2, <1>5, Zenon DEF LockInv

(* Time ages the broker's lock and the grants alike.                       *)
LEMMA TickLock ==
    ASSUME BoundAssumption, LifeAssumption, Inv, LockInv, Tick
    PROVE  LockInv'
<1>1. /\ revoke' = revoke /\ churn' = churn /\ BrokerLife \in Nat /\ LockLife \in Nat
      /\ \A d \in Member : locker[d].left > 0 /\ locker[d] \in LockerState
      /\ state \in [Member -> QueueState] /\ Lapsed \in Nat /\ Old \in Nat
  BY Bounds, SMTT(30) DEF Tick, LockInv, Inv, LifeAssumption, Lapsed, Old
<1>2. holder'.who = holder.who /\ holder'.age \in Int /\ holder'.age <= holder.age + 1
  <2>1. holder'.who = holder.who /\ holder'.age = Min({holder.age + 1, Lapsed})
    BY DEF Tick
  <2>2. holder.age + 1 \in Int /\ Lapsed \in Int
    BY <1>1 DEF LockInv
  <2>3. holder'.age = IF holder.age + 1 =< Lapsed THEN holder.age + 1 ELSE Lapsed
    BY <2>1, <2>2, MinOfTwo, Zenon
  <2> QED BY <2>1, <2>2, <2>3
<1>3. \A d \in Member : /\ locker'[d].pc = locker[d].pc /\ locker'[d].left = locker[d].left - 1
                        /\ locker'[d] \in LockerState
  BY <1>1 DEF Tick, LockerState
<1>4. locker' \in [Member -> LockerState]
  BY <1>3, Zenon DEF Tick
<1>5. ASSUME NEW d \in Member, Fresh(d)' PROVE Fresh(d) /\ state'[d].grant = state[d].grant + 1
  <2>1. state'[d].grant = IF state[d].grant = None THEN state[d].grant
                          ELSE Min({state[d].grant + 1, Old})
    BY <1>1, ZenonT(30) DEF Tick, QueueState
  <2>2. state[d].grant \in None..Old
    BY <1>1, Zenon DEF QueueState
  <2>3. state[d].grant + 1 \in Int /\ Old \in Int
    BY <1>1, <2>2 DEF None
  <2>4. Min({state[d].grant + 1, Old}) = IF state[d].grant + 1 =< Old THEN state[d].grant + 1 ELSE Old
    BY <2>3, MinOfTwo, Zenon
  <2> DEFINE g == state[d].grant
             h == state'[d].grant
  <2>5. h = IF g = None THEN g ELSE IF g + 1 =< Old THEN g + 1 ELSE Old
    BY <2>1, <2>4, Zenon
  <2>6. h # None /\ h <= LockLife
    BY <1>5, ZenonT(40) DEF Fresh
  <2>7. g # None /\ g <= LockLife /\ h = g + 1
    <3> HIDE DEF g, h
    <3>1. g \in None..Old
      BY <2>2 DEF g
    <3> QED BY <1>1, <2>5, <2>6, <3>1, SMTT(30) DEF Old, None
  <2> QED BY <2>7, Zenon DEF Fresh
<1>6. ASSUME churn = 0, NEW d \in Member PROVE GrantOf(d)'
  <2>0. GrantOf(d)
    BY <1>6, Zenon DEF LockInv
  <2>1. RpcTicks \in Nat /\ locker[d].left \in Nat /\ state[d].grant \in Int /\ holder.age \in Int
    BY <1>1 DEF LifeAssumption, LockerState, QueueState, None, LockInv
  <2>2. revoke'[d].pc = "none"
    BY <1>1, <2>0, Zenon DEF GrantOf
  <2>3. locker'[d].pc = "granted" => holder'.who = d /\ holder'.age <= RpcTicks - locker'[d].left
    BY <1>2, <1>3, <2>0, <2>1, SMTT(30) DEF GrantOf
  <2>4. Fresh(d)' => holder'.who = d /\ holder'.age <= state'[d].grant + RpcTicks
    BY <1>2, <1>5, <2>0, <2>1, SMTT(30) DEF GrantOf
  <2> QED BY <2>2, <2>3, <2>4, Zenon DEF GrantOf
<1> QED BY <1>1, <1>2, <1>4, <1>6, Zenon DEF LockInv

(* Every step keeps the invariant of the lock.                             *)
LEMMA NextLock ==
    ASSUME BoundAssumption, LifeAssumption, Inv, LockInv, [Next]_vars
    PROVE  LockInv'
<1>1. CASE Tick
  BY <1>1, TickLock, Zenon
<1>2. ASSUME NEW c \in Member, LockStep(c) PROVE LockInv'
  BY <1>2, LockRoundLock, LockAnswerLock, Zenon DEF LockStep
<1>3. ASSUME NEW c \in Member, Revoke(c) PROVE LockInv'
  BY <1>3 DEF Revoke, LockInv
<1>4. ASSUME NEW c \in Member, RevokeStep(c) PROVE LockInv'
  <2>0. churn' = churn /\ locker' = locker /\ revoke[c].pc # "none"
    BY <1>4, Zenon DEF RevokeStep, RevokePersist, RevokeUnlock
  <2>1. churn' = churn /\ churn # 0 /\ locker' = locker
    BY <2>0, Zenon DEF LockInv, GrantOf
  <2>2. holder'.age \in Int
    BY <1>4 DEF RevokeStep, RevokePersist, RevokeUnlock, Unlocked, LockInv, Lapsed, LifeAssumption
  <2> QED BY <2>1, <2>2, Zenon DEF LockInv
<1>5. ASSUME NEW c \in Member,
             Assign(c) \/ PullStep(c) \/ (\E ep \in 0..MaxChurn : PullFails(c, ep))
                \/ WorkStep(c) \/ Persist(c)
      PROVE  LockInv'
  <2>0. state \in [Member -> QueueState]
    BY Zenon DEF Inv
  <2>1. churn' = churn /\ holder' = holder /\ locker' = locker /\ revoke' = revoke
    BY <1>5, ZenonT(30) DEF Assign, PullStep, PullAsk, PullAnswer, PullFails, WorkStep, Take, Listen,
                ListenerStep, Commits, Rollback, Uncommitted, Suspends, Suspend, Finish, Persist
  <2>3. \A d \in Member : state'[d].grant = state[d].grant
    <3>1. CASE Assign(c)
      BY <2>0, <3>1, Zenon DEF Assign, QueueState
    <3>2. CASE PullStep(c) \/ \E ep \in 0..MaxChurn : PullFails(c, ep)
      <4>1. CASE state' = state
        BY <4>1, Zenon
      <4>2. ASSUME NEW ep, PullAnswer(c, ep) PROVE \A d \in Member : state'[d].grant = state[d].grant
        <5>1. PICK q : state' = [state EXCEPT ![c] = q]
                       /\ \/ q = state[c]
                          \/ \E idle, next : q = CorrectTags(state[c], idle, next)
                          \/ \E p, m : q = [state[c] EXCEPT !.pending = p, !.buffered = TRUE,
                                                            !.cursor = m]
          BY <4>2, ZenonT(30) DEF PullAnswer
        <5>2. q.grant = state[c].grant
          BY <2>0, <5>1, ZenonT(30) DEF CorrectTags, QueueState
        <5> QED BY <2>0, <5>1, <5>2, ZenonT(30)
      <4> QED BY <3>2, <4>1, <4>2, Zenon DEF PullStep, PullAsk, PullFails
    <3>3. CASE Take(c)
      BY <2>0, <3>3, Zenon DEF Take, QueueState
    <3>4. CASE Listen(c) \/ Persist(c)
      BY <3>4, Zenon DEF Listen, Persist
    <3>5. CASE ListenerStep(c)
      <4>1. PICK q : state' = [state EXCEPT ![c] = q]
                     /\ \/ q = state[c]
                        \/ \E b : q = Requeue(state[c], b) \/ \E ep : q = Advance(state[c], b, ep)
        BY <3>5 DEF ListenerStep, Commits, Rollback, Uncommitted, Suspends, Suspend, Finish
      <4>2. q.grant = state[c].grant
        BY <2>0, <4>1, Zenon DEF Requeue, Advance, QueueState
      <4> QED BY <2>0, <4>1, <4>2, ZenonT(40)
    <3> QED BY <1>5, <3>1, <3>2, <3>3, <3>4, <3>5, Zenon DEF WorkStep
  <2> QED BY <2>1, <2>3, LockFrame, Zenon
<1>6. CASE UNCHANGED vars
  BY <1>6, LockFrame, Zenon DEF vars
<1> QED BY <1>1, <1>2, <1>3, <1>4, <1>5, <1>6, Zenon DEF Next

(* lock_loop: as long as no member has given the queue up, one whose grant *)
(* is fresh holds the broker's lock, however late or lossy the answers are *)
(* within RpcTicks, because the broker keeps a lock longer than a client   *)
(* trusts it.                                                              *)
THEOREM FreshGrantHeld ==
    ASSUME BoundAssumption, LifeAssumption PROVE Spec => []GrantHeld
<1>1. Init => Inv /\ LockInv
  <2> SUFFICES ASSUME Init PROVE LockInv
    BY InitOK, Zenon
  <2>1. BrokerLife \in Nat
    BY Zenon DEF LifeAssumption
  <2>2. \A c \in Member : locker[c].pc = "wait" /\ revoke[c].pc = "none" /\ ~Fresh(c)
    BY Zenon DEF Init, Blank, NoRevoke, Fresh
  <2>3. \A c \in Member : GrantOf(c)
    BY <2>2, Zenon DEF GrantOf
  <2> QED BY <2>1, <2>3 DEF Init, LockInv, LockerState, Lapsed
<1>2. Inv /\ LockInv /\ [Next]_vars => Inv' /\ LockInv'
  BY NextKeeps, NextLock, ZenonT(40)
<1>3. Inv /\ LockInv => GrantHeld
  <2> SUFFICES ASSUME Inv, LockInv, churn = 0, NEW c \in Member, Fresh(c) PROVE Locked(c)
    BY Zenon DEF GrantHeld
  <2>1. state[c].grant \in Int /\ LockLife \in Nat
    BY Bounds DEF Inv, QueueState, None
  <2> QED BY <2>1 DEF LockInv, GrantOf, Locked, Fresh, LifeAssumption
<1> QED BY <1>1, <1>2, <1>3, PTL DEF Spec
=============================================================================

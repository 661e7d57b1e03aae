-------------------------- MODULE AsyncSendTheorems --------------------------
(***************************************************************************)
(* The callback of an asynchronous send fires once, and permits are where  *)
(* they are needed, for any number of sends, workers, executors and        *)
(* retries.  The callback rests on the executor: a job is in one channel   *)
(* or in one dispatcher's hand, once, so no send runs a second time.       *)
(***************************************************************************)
EXTENDS AsyncSend, FiniteSetTheorems, TLAPS

Types ==
    /\ pc \in [Send -> Stage] /\ calls \in [Send -> Nat]
    /\ started \in BOOLEAN /\ exec \in 0..MaxStarts /\ (started => exec \in Exec)
    /\ chan \in [Exec -> Seq(Send)] /\ hand \in [Exec -> SUBSET Send]
    /\ num \subseteq Send /\ size \subseteq Send /\ total \in NumTotal

(* Places in channels and hands, and the sends whose jobs are there.       *)
Place(ch) == {p \in Exec \X Nat : p[2] \in 1..Len(ch[p[1]])}
Job(ch, p) == ch[p[1]][p[2]]

Jobs ==
    /\ \A p \in Place(chan) : pc[Job(chan, p)] = "queued"
    /\ \A p, q \in Place(chan) : Job(chan, p) = Job(chan, q) => p = q
    /\ \A e \in Exec : \A s \in hand[e] : pc[s] = "queued"
    /\ \A e \in Exec : \A p \in Place(chan) : Job(chan, p) \notin hand[e]
    /\ \A e, f \in Exec : \A s \in hand[e] \cap hand[f] : e = f

(* A send has its permits from the gate on: the number, then the bytes.    *)
Permits ==
    /\ PermitsBack
    /\ \A s \in Send : pc[s] = "bytes" => s \in num
    /\ Backpressure => \A s \in Send : pc[s] \in {"prepare", "sent"} => s \in size

(* The number gate was never passed beyond the largest size it had.        *)
Counted == IsFiniteSet(num) /\ Cardinality(num) <= Max(NumTotal)

-----------------------------------------------------------------------------
(* The types, action by action.                                           *)
LEMMA TypesStep ==
    ASSUME BoundAssumption, Types, [Next]_vars
    PROVE  Types'
<1>0. MaxStarts \in Nat
  BY Zenon DEF BoundAssumption
<1>1. CASE Start
  BY <1>0, <1>1, SMTT(30) DEF Types, Start, pool, gates, Exec
<1>2. CASE Shutdown
  BY <1>2, Zenon DEF Types, Shutdown, pool, gates
<1>3. ASSUME NEW s \in Send, Submit(s) PROVE Types'
  <2>1. /\ num' = num /\ size' = size /\ total' = total /\ hand' = hand /\ started' = started
        /\ exec' = exec /\ calls' = calls
    BY <1>3, Zenon DEF Submit, gates
  <2>2. pc' \in [Send -> Stage]
    BY <1>3, Zenon DEF Submit, Goto, Types, Stage
  <2>3. chan' \in [Exec -> Seq(Send)]
    <3>1. CASE started /\ chan' = [chan EXCEPT ![exec] = Append(@, s)]
      <4>1. exec \in Exec /\ chan \in [Exec -> Seq(Send)]
        BY <3>1, Zenon DEF Types
      <4>2. Append(chan[exec], s) \in Seq(Send)
        BY <4>1
      <4> QED BY <3>1, <4>1, <4>2, SMTT(30)
    <3> QED BY <1>3, <3>1 DEF Submit, Types
  <2> QED BY <2>1, <2>2, <2>3, SMTT(30) DEF Types
<1>4. ASSUME NEW e \in Exec, Take(e) PROVE Types'
  <2>1. Head(chan[e]) \in Send /\ Tail(chan[e]) \in Seq(Send)
    BY <1>4 DEF Take, Types
  <2> QED BY <1>4, <2>1, Zenon DEF Take, Types, gates
<1>5. ASSUME NEW e \in Exec, NEW s \in Send, RunJob(e, s) PROVE Types'
  BY <1>5, Zenon DEF RunJob, Types, gates, Goto, Stage
<1>6. ASSUME NEW s \in Send, Gate(s) \/ GateTimeout(s) \/ Succeeds(s) \/ Fails(s) PROVE Types'
  <2>1. UNCHANGED <<started, exec, chan, hand, total, num, size, calls>>
    BY <1>6, Zenon DEF Gate, GateTimeout, Succeeds, Fails, pool, gates
  <2>2. pc' \in [Send -> Stage]
    BY <1>6, Zenon DEF Gate, GateTimeout, Succeeds, Fails, Goto, Types, Stage
  <2> QED BY <2>1, <2>2, Zenon DEF Types
<1>7. ASSUME NEW s \in Send, NumberGranted(s) \/ BytesGranted(s) \/ Complete(s) PROVE Types'
  <2>1. UNCHANGED <<started, exec, chan, hand, total, calls>>
    BY <1>7, Zenon DEF NumberGranted, BytesGranted, Complete, pool
  <2>2. num' \subseteq Send /\ size' \subseteq Send
    BY <1>7, Zenon DEF NumberGranted, BytesGranted, Complete, Types
  <2>3. pc' \in [Send -> Stage]
    BY <1>7, Zenon DEF NumberGranted, BytesGranted, Complete, Goto, Types, Stage
  <2> QED BY <2>1, <2>2, <2>3, SMTT(30) DEF Types
<1>8. ASSUME NEW s \in Send, Prepare(s) PROVE Types'
  BY <1>8, Zenon DEF Prepare, Types, gates, Goto, Stage
<1>9. ASSUME NEW s \in Send, Callback(s) PROVE Types'
  BY <1>9 DEF Callback, Types, gates, Goto, Stage
<1>10. ASSUME NEW n \in NumTotal, SetNum(n) PROVE Types'
  BY <1>10, Zenon DEF SetNum, Types, pool
<1>11. CASE UNCHANGED vars
  BY <1>11, Zenon DEF vars, Types
<1> QED BY <1>1, <1>2, <1>3, <1>4, <1>5, <1>6, <1>7, <1>8, <1>9, <1>10, <1>11, SMTT(30)
        DEF Next, SendStep, PoolStep

-----------------------------------------------------------------------------
(* The executor *)

(* What stands in a channel is a send.                                     *)
LEMMA JobIsSend == ASSUME Types PROVE \A p \in Place(chan) : Job(chan, p) \in Send
BY DEF Place, Job, Types

(* A step of a send that is past its channel.                              *)
LEMMA JobsFrame ==
    ASSUME Jobs, chan' = chan, hand' = hand,
           \A s \in Send : pc[s] = "queued" => pc'[s] = "queued", Types
    PROVE  Jobs'
BY JobIsSend, Zenon DEF Jobs, Types

(* submit_async_job appends one job, of a send that has none.              *)
LEMMA SubmitJobs ==
    ASSUME Types, Jobs, NEW s \in Send, Submit(s)
    PROVE  Jobs'
<1>1. CASE chan' = chan
  <2>1. hand' = hand /\ \A r \in Send : pc[r] = "queued" => pc'[r] = "queued"
    BY <1>1, Zenon DEF Submit, Types, Goto
  <2> QED BY <1>1, <2>1, JobsFrame, Zenon
<1>2. CASE started /\ chan' = [chan EXCEPT ![exec] = Append(@, s)] /\ Goto(s, "queued")
  <2>1. exec \in Exec /\ chan[exec] \in Seq(Send) /\ hand' = hand /\ pc[s] = "new"
    BY <1>2, Zenon DEF Types, Submit
  <2>2. chan'[exec] = Append(chan[exec], s) /\ \A e \in Exec : e # exec => chan'[e] = chan[e]
    BY <1>2, <2>1, Zenon DEF Types
  <2> DEFINE n == Len(chan[exec]) + 1
  <2>3. /\ n \in Nat /\ Len(chan'[exec]) = n /\ chan'[exec][n] = s
        /\ \A i \in 1..Len(chan[exec]) : chan'[exec][i] = chan[exec][i]
    BY <2>1, <2>2, SMTT(30)
  <2>4. <<exec, n>> \in Place(chan') /\ Job(chan', <<exec, n>>) = s
    BY <2>1, <2>3, SMTT(30) DEF Place, Job
  <2>5. \A p \in Place(chan') :
           p = <<exec, n>> \/ (p \in Place(chan) /\ Job(chan', p) = Job(chan, p))
    BY <2>1, <2>2, <2>3, SMTT(30) DEF Place, Job
  <2>6. \A p \in Place(chan) : Job(chan, p) \in Send /\ Job(chan, p) # s
    BY <2>1, JobIsSend, Zenon DEF Jobs
  <2>7. pc' = [pc EXCEPT ![s] = "queued"]
    BY <1>2, Zenon DEF Goto
  <2> HIDE DEF n
  <2>8. \A p \in Place(chan') : pc'[Job(chan', p)] = "queued"
    BY <2>4, <2>5, <2>6, <2>7, Zenon DEF Jobs, Types
  <2>9. \A p, q \in Place(chan') : Job(chan', p) = Job(chan', q) => p = q
    BY <2>4, <2>5, <2>6, Zenon DEF Jobs
  <2>10. \A e \in Exec : \A r \in hand[e] : pc'[r] = "queued" /\ r # s
    BY <2>1, <2>7, Zenon DEF Jobs, Types
  <2>11. \A e \in Exec : \A p \in Place(chan') : Job(chan', p) \notin hand'[e]
    BY <2>1, <2>4, <2>5, <2>10, SMTT(30) DEF Jobs
  <2> QED BY <2>1, <2>8, <2>9, <2>10, <2>11, ZenonT(40) DEF Jobs
<1> QED BY <1>1, <1>2, Zenon DEF Submit

(* The dispatcher takes the first job of its channel.                      *)
LEMMA TakeJobs ==
    ASSUME Types, Jobs, NEW e \in Exec, Take(e)
    PROVE  Jobs'
<1>1. /\ chan[e] \in Seq(Send) /\ chan[e] # <<>> /\ hand[e] = {} /\ pc' = pc
      /\ hand' = [hand EXCEPT ![e] = {Head(chan[e])}]
      /\ chan'[e] = Tail(chan[e]) /\ \A f \in Exec : f # e => chan'[f] = chan[f]
  BY Zenon DEF Types, Take
<1>2. Len(chan[e]) \in Nat /\ Len(chan[e]) > 0 /\ Head(chan[e]) = chan[e][1]
  BY <1>1
<1>3. Len(chan'[e]) = Len(chan[e]) - 1 /\ \A i \in 1..Len(chan[e]) - 1 : chan'[e][i] = chan[e][i + 1]
  BY <1>1, <1>2, SMTT(30)
<1> DEFINE Was(p) == IF p[1] = e THEN <<e, p[2] + 1>> ELSE p
           h == <<e, 1>>
<1>4. h \in Place(chan) /\ Job(chan, h) = Head(chan[e])
  BY <1>2 DEF Place, Job
<1>5. \A p \in Place(chan') : Was(p) \in Place(chan) /\ Was(p) # h /\ Job(chan', p) = Job(chan, Was(p))
  <2> SUFFICES ASSUME NEW p \in Place(chan')
               PROVE  Was(p) \in Place(chan) /\ Was(p) # h /\ Job(chan', p) = Job(chan, Was(p))
    BY Zenon
  <2>1. p = <<p[1], p[2]>> /\ p[1] \in Exec /\ p[2] \in Nat /\ p[2] \in 1..Len(chan'[p[1]])
    BY DEF Place
  <2>2. CASE p[1] = e
    <3>1. p[2] \in 1..Len(chan[e]) - 1 /\ p[2] + 1 \in 1..Len(chan[e]) /\ p[2] + 1 \in Nat
          /\ p[2] + 1 # 1 /\ Was(p) = <<e, p[2] + 1>>
      BY <1>2, <1>3, <2>1, <2>2, SMTT(30)
    <3>2. chan'[e][p[2]] = chan[e][p[2] + 1]
      BY <1>3, <3>1, Zenon
    <3>3. Was(p)[1] = e /\ Was(p)[2] = p[2] + 1
      BY <3>1
    <3>4. Was(p) \in Place(chan) /\ Was(p) # h
      BY <3>1, <3>3, Zenon DEF Place
    <3> QED BY <2>2, <3>2, <3>3, <3>4, SMTT(30) DEF Job
  <2>3. CASE p[1] # e
    <3>1. chan'[p[1]] = chan[p[1]] /\ Was(p) = p
      BY <1>1, <2>1, <2>3, Zenon
    <3> QED BY <2>1, <2>3, <3>1, SMTT(30) DEF Place, Job
  <2> QED BY <2>2, <2>3, Zenon
<1>6. \A p, q \in Place(chan') : Was(p) = Was(q) => p = q
  BY DEF Place
<1> HIDE DEF Was, h
<1>7. \A p \in Place(chan') : pc'[Job(chan', p)] = "queued" /\ Job(chan', p) # Head(chan[e])
  BY <1>1, <1>4, <1>5, SMTT(30) DEF Jobs
<1>8. \A p, q \in Place(chan') : Job(chan', p) = Job(chan', q) => p = q
  BY <1>5, <1>6, ZenonT(40) DEF Jobs
<1>9. \A f \in Exec : hand'[f] = IF f = e THEN {Head(chan[e])} ELSE hand[f]
  BY <1>1, Zenon DEF Types
<1>10. \A f \in Exec : \A s \in hand'[f] : pc'[s] = "queued"
  BY <1>1, <1>4, <1>9, SMTT(30) DEF Jobs
<1>11. \A f \in Exec : \A p \in Place(chan') : Job(chan', p) \notin hand'[f]
  BY <1>5, <1>7, <1>9, SMTT(30) DEF Jobs
<1>12. \A f, g \in Exec : \A s \in hand'[f] \cap hand'[g] : f = g
  BY <1>4, <1>9 DEF Jobs
<1> QED BY <1>7, <1>8, <1>10, <1>11, <1>12, ZenonT(40) DEF Jobs

(* The job leaves the dispatcher's hand when it runs.                      *)
LEMMA RunJobJobs ==
    ASSUME Types, Jobs, NEW e \in Exec, NEW s \in Send, RunJob(e, s)
    PROVE  Jobs'
<1>1. /\ s \in hand[e] /\ chan' = chan /\ hand' = [hand EXCEPT ![e] = {}]
      /\ pc' = [pc EXCEPT ![s] = "gate"]
  BY Zenon DEF RunJob, Goto
<1>2. \A p \in Place(chan) : Job(chan, p) \in Send /\ Job(chan, p) # s
  BY <1>1, JobIsSend, SMTT(30) DEF Jobs
<1>3. \A f \in Exec : \A r \in hand'[f] : r \in hand[f] /\ r \in Send /\ r # s
  BY <1>1 DEF Jobs, Types
<1> QED BY <1>1, <1>2, <1>3, Zenon DEF Jobs, Types

(* Every step keeps the jobs apart.                                        *)
LEMMA JobsStep ==
    ASSUME Types, Jobs, [Next]_vars
    PROVE  Jobs'
<1>1. CASE Start \/ Shutdown \/ UNCHANGED vars \/ \E n \in NumTotal : SetNum(n)
  <2>1. chan' = chan /\ hand' = hand /\ pc' = pc
    BY <1>1, Zenon DEF Start, Shutdown, SetNum, vars, pool
  <2> QED BY <2>1, JobsFrame, Zenon
<1>2. ASSUME NEW s \in Send, SendStep(s) PROVE Jobs'
  <2>1. chan' = chan /\ hand' = hand
    BY <1>2, Zenon DEF SendStep, Gate, NumberGranted, BytesGranted, GateTimeout, Prepare, Succeeds,
                Fails, Complete, Callback, pool
  <2>2. pc[s] # "queued"
    BY <1>2, Zenon DEF SendStep, Gate, NumberGranted, BytesGranted, GateTimeout, Prepare, Succeeds,
                Fails, Complete, Callback
  <2>3. pc' = pc \/ \E stage : pc' = [pc EXCEPT ![s] = stage]
    BY <1>2, Zenon DEF SendStep, Gate, NumberGranted, BytesGranted, GateTimeout, Prepare, Succeeds,
                Fails, Complete, Callback, Goto
  <2>4. \A r \in Send : pc[r] = "queued" => pc'[r] = "queued"
    BY <2>2, <2>3, Zenon DEF Types
  <2> QED BY <2>1, <2>4, JobsFrame, Zenon
<1> QED BY <1>1, <1>2, SubmitJobs, TakeJobs, RunJobJobs, Zenon DEF Next, PoolStep

-----------------------------------------------------------------------------
(* Callbacks and permits *)

(* Only the callback finishes a send, and a finished send stays so.        *)
LEMMA CallbackStep ==
    ASSUME Types, Jobs, OneCallback, [Next]_vars
    PROVE  OneCallback'
<1>1. ASSUME NEW s \in Send, Callback(s) PROVE OneCallback'
  BY <1>1 DEF Callback, Goto, Types, OneCallback
<1>2. ASSUME calls' = calls, \A s \in Send : pc'[s] = "finished" <=> pc[s] = "finished"
      PROVE  OneCallback'
  BY <1>2, Zenon DEF OneCallback
<1>3. ASSUME calls' = calls, pc' = pc PROVE OneCallback'
  BY <1>3, Zenon DEF OneCallback
<1>4. ASSUME NEW s \in Send, SendStep(s) PROVE OneCallback'
  <2>1. CASE Gate(s) \/ GateTimeout(s) \/ Succeeds(s) \/ Fails(s)
    BY <1>2, <2>1, Zenon DEF Gate, GateTimeout, Succeeds, Fails, Goto, Types
  <2>2. CASE NumberGranted(s) \/ BytesGranted(s) \/ Prepare(s) \/ Complete(s)
    BY <1>2, <2>2, Zenon DEF NumberGranted, BytesGranted, Prepare, Complete, Goto, Types
  <2> QED BY <1>1, <1>4, <2>1, <2>2, ZenonT(40) DEF SendStep
<1>5. ASSUME NEW s \in Send, Submit(s) PROVE OneCallback'
  BY <1>2, <1>5, Zenon DEF Submit, Goto, Types
<1>6. ASSUME NEW e \in Exec, NEW s \in Send, RunJob(e, s) PROVE OneCallback'
  <2>1. pc[s] = "queued"
    BY <1>6, Zenon DEF RunJob, Jobs
  <2> QED BY <1>2, <1>6, <2>1, SMTT(30) DEF RunJob, Goto, Types
<1>7. CASE \/ Start \/ Shutdown \/ UNCHANGED vars \/ (\E n \in NumTotal : SetNum(n))
           \/ \E e \in Exec : Take(e)
  BY <1>3, <1>7, SMTT(30) DEF Start, Shutdown, SetNum, Take, vars
<1> QED BY <1>4, <1>5, <1>6, <1>7, ZenonT(40) DEF Next, PoolStep

(* A permit is taken at its gate and goes back before the callback.        *)
LEMMA PermitsStep ==
    ASSUME Types, Jobs, Permits, [Next]_vars
    PROVE  Permits'
<1>1. ASSUME NEW s \in Send, Gate(s) \/ GateTimeout(s) PROVE Permits'
  BY <1>1, Zenon DEF Gate, GateTimeout, Goto, Types, Permits, PermitsBack
<1>2. ASSUME NEW s \in Send, Succeeds(s) \/ Fails(s) \/ Prepare(s) PROVE Permits'
  BY <1>2, Zenon DEF Succeeds, Fails, Prepare, gates, Goto, Types, Permits, PermitsBack
<1>3. ASSUME NEW s \in Send, NumberGranted(s) PROVE Permits'
  BY <1>3, Zenon DEF NumberGranted, Goto, Types, Permits, PermitsBack
<1>4. ASSUME NEW s \in Send, BytesGranted(s) PROVE Permits'
  BY <1>4, Zenon DEF BytesGranted, Goto, Types, Permits, PermitsBack
<1>5. ASSUME NEW s \in Send, Complete(s) PROVE Permits'
  BY <1>5, Zenon DEF Complete, Goto, Types, Permits, PermitsBack
<1>6. ASSUME NEW s \in Send, Callback(s) PROVE Permits'
  BY <1>6, Zenon DEF Callback, gates, Goto, Types, Permits, PermitsBack
<1>7. ASSUME NEW s \in Send, Submit(s) PROVE Permits'
  BY <1>7, Zenon DEF Submit, gates, Goto, Types, Permits, PermitsBack
<1>8. ASSUME NEW e \in Exec, NEW s \in Send, RunJob(e, s) PROVE Permits'
  <2>1. pc[s] = "queued"
    BY <1>8, Zenon DEF RunJob, Jobs
  <2> QED BY <1>8, <2>1, Zenon DEF RunJob, gates, Goto, Types, Permits, PermitsBack
<1>9. CASE \/ Start \/ Shutdown \/ UNCHANGED vars \/ (\E n \in NumTotal : SetNum(n))
           \/ \E e \in Exec : Take(e)
  <2>1. pc' = pc /\ num' = num /\ size' = size
    BY <1>9, Zenon DEF Start, Shutdown, SetNum, Take, vars, gates
  <2> QED BY <2>1, Zenon DEF Permits, PermitsBack
<1> QED BY <1>1, <1>2, <1>3, <1>4, <1>5, <1>6, <1>7, <1>8, <1>9, SMTT(30) DEF Next, SendStep, PoolStep

(* The largest number of permits.                                          *)
LEMMA MaxTotal ==
    ASSUME BoundAssumption
    PROVE  Max(NumTotal) \in NumTotal /\ \A n \in NumTotal : n <= Max(NumTotal)
<1>1. NumTotal \subseteq Nat /\ \E most \in NumTotal : \A n \in NumTotal : n <= most
  BY Zenon DEF BoundAssumption
<1>2. PICK most \in NumTotal : \A n \in NumTotal : most >= n
  BY <1>1, Zenon
<1>3. Max(NumTotal) \in NumTotal /\ \A n \in NumTotal : Max(NumTotal) >= n
  BY <1>2, Zenon DEF Max
<1> QED BY <1>1, <1>3, Zenon

(* The gate grants a permit only below its current size, which may have    *)
(* shrunk below what is out but was never larger than the largest.         *)
LEMMA CountedStep ==
    ASSUME BoundAssumption, Types, Counted, [Next]_vars
    PROVE  Counted'
<1>1. ASSUME NEW s \in Send, NumberGranted(s) PROVE Counted'
  <2>1. num' = num \cup {s} /\ Cardinality(num) < total
    BY <1>1, Zenon DEF NumberGranted
  <2>2. IsFiniteSet(num) /\ Cardinality(num) \in Nat
    BY FS_CardinalityType, Zenon DEF Counted
  <2>3. IsFiniteSet(num \cup {s}) /\ Cardinality(num \cup {s}) <= Cardinality(num) + 1
        /\ Cardinality(num \cup {s}) \in Nat
    <3>1. IsFiniteSet(num \cup {s}) /\
          Cardinality(num \cup {s}) = IF s \in num THEN Cardinality(num) ELSE Cardinality(num) + 1
      BY <2>2, FS_AddElement, Zenon
    <3> QED BY <2>2, <3>1
  <2>4. total \in Nat /\ total <= Max(NumTotal) /\ Max(NumTotal) \in Nat
    BY MaxTotal, Zenon DEF Types, BoundAssumption
  <2>5. Cardinality(num \cup {s}) <= Max(NumTotal)
    BY <2>1, <2>2, <2>3, <2>4, SMTT(30)
  <2> QED BY <2>1, <2>3, <2>5, Zenon DEF Counted
<1>2. ASSUME num' \subseteq num PROVE Counted'
  <2>1. /\ IsFiniteSet(num') /\ Cardinality(num') <= Cardinality(num)
        /\ Cardinality(num) \in Nat /\ Cardinality(num') \in Nat /\ Max(NumTotal) \in Nat
    BY <1>2, FS_Subset, FS_CardinalityType, MaxTotal, ZenonT(40) DEF Counted, BoundAssumption
  <2>2. Cardinality(num') <= Max(NumTotal)
    BY <2>1 DEF Counted
  <2> QED BY <2>1, <2>2, Zenon DEF Counted
<1>3. num' \subseteq num \/ \E s \in Send : NumberGranted(s)
  BY Zenon DEF Next, Start, Shutdown, Submit, SendStep, PoolStep, Take, RunJob, Gate, BytesGranted,
         GateTimeout, SetNum, Prepare, Succeeds, Fails, Complete, Callback, vars, gates
<1> QED BY <1>1, <1>2, <1>3, Zenon

(* Before start there is no job, no permit and no call.                    *)
LEMMA Initially ==
    ASSUME BoundAssumption, Init PROVE Types /\ Jobs /\ OneCallback /\ Permits /\ Counted
<1>1. Types
  <2>1. chan \in [Exec -> Seq(Send)] /\ hand \in [Exec -> SUBSET Send]
    BY DEF Init
  <2>2. started = FALSE /\ exec \in 0..MaxStarts
    BY DEF Init, BoundAssumption
  <2>3. pc \in [Send -> Stage] /\ calls \in [Send -> Nat]
    BY Zenon DEF Init, Stage
  <2> QED BY <2>1, <2>2, <2>3, ZenonT(40) DEF Init, Types
<1>2. Place(chan) = {}
  BY DEF Init, Place
<1>3. Jobs
  BY <1>2, Zenon DEF Init, Jobs
<1>4. OneCallback /\ Permits
  BY Zenon DEF Init, OneCallback, Permits, PermitsBack
<1>5. Counted
  <2>1. Max(NumTotal) \in Nat
    BY MaxTotal, Zenon DEF BoundAssumption
  <2>2. num = {} /\ IsFiniteSet({}) /\ Cardinality({}) = 0
    BY FS_EmptySet, Zenon DEF Init
  <2> QED BY <2>1, <2>2 DEF Counted
<1> QED BY <1>1, <1>3, <1>4, <1>5, ZenonT(40)

-----------------------------------------------------------------------------
(* AsyncSenderExecutor, AsyncSendChain and complete_async: every send that *)
(* was taken on calls its callback once, after any number of attempts, and *)
(* one that was rejected never does, whatever restarts come in between.    *)
THEOREM CallbackOnce == ASSUME BoundAssumption PROVE Spec => []OneCallback
<1>1. Init => Types /\ Jobs /\ OneCallback
  BY Initially, Zenon
<1>2. Types /\ Jobs /\ OneCallback /\ [Next]_vars => Types' /\ Jobs' /\ OneCallback'
  BY TypesStep, JobsStep, CallbackStep, Zenon
<1> QED BY <1>1, <1>2, PTL DEF Spec

(* acquire_send_permits and complete_async: a permit is with a send that   *)
(* still needs it, so a callback that sends again does not wait for        *)
(* itself.                                                                 *)
THEOREM PermitsReturned == ASSUME BoundAssumption PROVE Spec => []PermitsBack
<1>1. Init => Types /\ Jobs /\ Permits
  BY Initially, Zenon
<1>2. Types /\ Jobs /\ Permits /\ [Next]_vars => Types' /\ Jobs' /\ Permits'
  BY TypesStep, JobsStep, PermitsStep, Zenon
<1>3. Permits => PermitsBack
  BY Zenon DEF Permits
<1> QED BY <1>1, <1>2, <1>3, PTL DEF Spec

(* The number gate: with back pressure no more requests are in flight than *)
(* the largest size the gate ever had, though it is resized while sends    *)
(* are in flight (set_back_pressure_for_async_send_num).                   *)
THEOREM InFlightNumber == ASSUME BoundAssumption PROVE Spec => []NumberBounded
<1>1. Init => Types /\ Jobs /\ Permits /\ Counted
  BY Initially, Zenon
<1>2. Types /\ Jobs /\ Permits /\ Counted /\ [Next]_vars => Types' /\ Jobs' /\ Permits' /\ Counted'
  BY TypesStep, JobsStep, PermitsStep, CountedStep, ZenonT(40)
<1>3. Types /\ Permits /\ Counted => NumberBounded
  <2> SUFFICES ASSUME Types, Permits, Counted, Backpressure
               PROVE  Cardinality(InFlight) <= Max(NumTotal)
    BY Zenon DEF NumberBounded
  <2>1. InFlight \subseteq num
    BY Zenon DEF InFlight, Permits, PermitsBack
  <2>2. Cardinality(InFlight) <= Cardinality(num) /\ Cardinality(InFlight) \in Nat
        /\ Cardinality(num) \in Nat
    BY <2>1, FS_Subset, FS_CardinalityType, Zenon DEF Counted
  <2>3. Max(NumTotal) \in Nat
    BY MaxTotal, Zenon DEF Types, BoundAssumption
  <2> QED BY <2>2, <2>3, SMTT(30) DEF Counted
<1> QED BY <1>1, <1>2, <1>3, PTL DEF Spec
=============================================================================
